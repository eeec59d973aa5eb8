------------------------------ MODULE MCRadioBus ------------------------------
(* Small instances of RadioBus for TLC. *)
EXTENDS RadioBus

CONSTANTS a, b, c

\* A chain a - b - c: neighbours decode each other, a and c only interfere.
ChainPos == [n \in Node |-> CASE n = a -> 0 [] n = b -> 5 [] n = c -> 10]
OneChan == [n \in Node |-> 1]
NoSkew == [n \in Node |-> 0]
=============================================================================
