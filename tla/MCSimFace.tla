------------------------------ MODULE MCSimFace ------------------------------
(* Small instances of SimFace for TLC, and fragments against a reference.  *)
EXTENDS SimFace, FiniteSetsExt

CONSTANTS
    stream, dgram, shaped,
    Mtus, MaxLen   \* the path MTUs and datagram lengths that FragmentsAsIPv4 compares

Base == [delay |-> 1, jitter |-> 0, loss |-> "never", bandwidth |-> 0,
         reliable |-> FALSE, mtu |-> NoMtu, channel |-> FALSE]

\* A TCP-like face and a lossy IP-carried UDP face on one shared channel, and a dedicated
\* zero-delay stream with a bandwidth cursor.
MCProfile ==
    [f \in Face |->
        CASE f = stream -> [Base EXCEPT !.reliable = TRUE, !.channel = TRUE]
          [] f = dgram  -> [Base EXCEPT !.loss = "maybe", !.jitter = 1, !.mtu = 31, !.channel = TRUE]
          [] f = shaped -> [Base EXCEPT !.delay = 0, !.reliable = TRUE, !.bandwidth = 8]]

SecondData == {[matcher |-> "data", skip |-> 1, count |-> 1, delay |-> 3]}
FirstFrame == {[matcher |-> "any", skip |-> 0, count |-> 1, delay |-> 3]}

-----------------------------------------------------------------------------
(* What an IPv4 sender does: cut the payload off fragment by fragment.     *)

RECURSIVE Cut(_, _)
Cut(payload, room) ==
    IF payload <= room THEN <<payload + IPV4_HEADER>>
    ELSE <<room + IPV4_HEADER>> \o Cut(payload - room, room)

\* The largest multiple of 8 that fits beside the header, and at least one.
FragmentRoom(mtu) == Max({8} \cup {r \in 0..mtu : r % 8 = 0 /\ r + IPV4_HEADER <= mtu})

RECURSIVE Total(_)
Total(s) == IF s = <<>> THEN 0 ELSE Head(s) + Total(Tail(s))

\* A datagram's frames, which the loss roll weighs one by one, and the frames and bytes that
\* airtime and bandwidth are charged for, for every MTU (also one too small for a header) and at
\* every length around a fragment boundary.
ASSUME FragmentsAsIPv4 ==
    \A mtu \in Mtus, len \in 0..MaxLen :
        LET sent == Cut(len + UDP_HEADER, FragmentRoom(mtu))
        IN /\ FrameBytes(mtu, len) = sent
           /\ Frames(mtu, len) = Len(sent)
           /\ WireBytes(mtu, len) = Total(sent)
=============================================================================
