------------------------------- MODULE MCFabric -------------------------------
(* Small instances of Fabric for TLC. *)
EXTENDS Fabric

\* A second link or an app, not both: apps and links meet only in the nodes.
Bounded == Len(faces) <= 2 \/ nextApp = 1
=============================================================================
