-------------------------------- MODULE Cases --------------------------------
(***************************************************************************)
(* Every conformance case about members, keys, folders, groups and rules,  *)
(* each run from its own start (runner.rs, run_case): the case's steps     *)
(* interleave with the syncing of the devices it plans.                    *)
(***************************************************************************)
EXTENDS CasesMembers, CasesKeys, CasesFolders, CasesRule

CONSTANT Lag   \* bound on logs a device may take and has not, while the case goes on

Init == \E c \in DOMAIN Plan : InitWorld(c)
Syncing == \E d \in Mine, k \in DOMAIN certs : Sync(d, k)
Caching == \E d \in Mine, k \in DOMAIN certs : SyncFromCache(d, k)
CaseStep ==
    /\ Cardinality({w \in Mine \X DOMAIN certs : Takeable(w[1], w[2]) # {}}) <= Lag
    /\ MembersStep \/ KeysStep \/ FoldersStep \/ RuleStep
Next == Syncing \/ Caching \/ CaseStep

=============================================================================
