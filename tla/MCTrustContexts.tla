-------------------------- MODULE MCTrustContexts --------------------------
(* A person with a root device and a phone that a thief takes.             *)
EXTENDS TrustContexts

McSkews == {-1, 1}
=============================================================================
