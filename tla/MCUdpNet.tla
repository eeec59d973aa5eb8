------------------------------- MODULE MCUdpNet -------------------------------
(* Small instances of UdpNet for TLC. *)
EXTENDS UdpNet

CONSTANTS a, b, c

MCDeclared == [h \in Host |-> CASE h = a -> 1 [] h = b -> 2 [] h = c -> 3]

\* Port 1 is the well-known one, 2 and above are ephemeral.
Sockets(ip) ==
    {[ip |-> ip, port |-> 1, local |-> l, connected |-> k] : l \in {0, 1, 3}, k \in BOOLEAN}
Toward(ip) == {<<>>} \cup {<<e>> : e \in Sockets(ip)}
Listening == {{1}, {1, 2}, {}}
Alone == [peers |-> <<>>, listen |-> {}]

\* Two hosts and a bystander, every way to configure each of the two, down to none at all.
PairConfigs ==
    {[h \in Host |-> IF h = a THEN x ELSE IF h = b THEN y ELSE Alone] :
        x \in [peers : Toward(b), listen : Listening], y \in [peers : Toward(a), listen : Listening]}

\* A star: the centre has two entries (twice the same leaf, itself, or one for each leaf).
StarConfigs ==
    {[h \in Host |->
        IF h = a THEN [peers |-> <<e, f>>, listen |-> {1, 2}]
        ELSE [peers |-> IF h = b THEN <<g>> ELSE <<>>, listen |-> {1}]] :
            e \in Sockets(b), f \in Sockets(c) \cup Sockets(b) \cup Sockets(a),
            g \in {[ip |-> a, port |-> 1, local |-> 1, connected |-> TRUE]}}

MCConfigs == PairConfigs \cup StarConfigs
=============================================================================
