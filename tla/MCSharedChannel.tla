--------------------------- MODULE MCSharedChannel ---------------------------
(* A small instance of SharedChannel for TLC. *)
EXTENDS SharedChannel, TLC

CONSTANT MaxGrants   \* bound: claims plus refusals in one behaviour

\* A one-frame datagram and one IP-fragmented in two.
MCDatagram == {[frames |-> 1, bytes |-> 1], [frames |-> 2, bytes |-> 3]}
Symmetry == Permutations(Sender)
Bounded == Len(grants) + tailDrops <= MaxGrants
=============================================================================
