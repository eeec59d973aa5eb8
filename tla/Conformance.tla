----------------------------- MODULE Conformance -----------------------------
(***************************************************************************)
(* The data conformance suite (runner.rs, run_case): each case runs from   *)
(* its own start, in the world its plan builds.  The members, key, folder, *)
(* group and rule cases (Cases) need packets, records and trust contexts;  *)
(* the custody and stream cases (Custody) need pieces, holders and keeps.  *)
(* A case leaves the other world's state alone.  The suite brings a merge  *)
(* rule of its own (ElementRule), which runs apart from both.              *)
(***************************************************************************)
EXTENDS CasePlans, ElementRule

CONSTANT Lag   \* bound: see Cases

VARIABLES
    case, pc, verdict, up, saved,                                           \* of both worlds
    run, forgotten, pk, got, ctx, ctxAt, certs, suspects,                   \* of Cases
    now, slow, items, knows, store, carried, heard, leases, asking, told,   \* of Custody
    missed, relays, doctored, follows

Signed == INSTANCE Cases
Stored == INSTANCE Custody

signedVars == <<run, forgotten, pk, got, ctx, ctxAt, certs, suspects>>
storedVars == <<now, slow, items, knows, store, carried, heard, leases, asking, told, missed,
                relays, doctored, follows>>
caseVars == <<case, pc, verdict, up, saved, signedVars, storedVars>>
vars == <<caseVars, elementVars>>

None == {}
SignedApart ==
    /\ run = None /\ forgotten = None /\ pk = None /\ got = None
    /\ ctx = None /\ ctxAt = None /\ certs = None /\ suspects = None
StoredApart ==
    /\ now = None /\ slow = None /\ items = None /\ knows = None /\ store = None
    /\ carried = None /\ heard = None /\ leases = None /\ asking = None /\ told = None
    /\ missed = None /\ relays = None /\ doctored = None /\ follows = None

NoCase == "none"

Init ==
    /\ ElementInit
    /\ \/ Signed!Init /\ StoredApart
       \/ Stored!Init /\ SignedApart
       \/ /\ SignedApart /\ StoredApart
          /\ case = NoCase /\ pc = 0 /\ verdict = "pass" /\ up = None /\ saved = None
CaseNext ==
    \/ case \in DOMAIN Plan /\ Signed!Next /\ UNCHANGED <<storedVars, elementVars>>
    \/ case \in DOMAIN CustodyPlan /\ Stored!Next /\ UNCHANGED <<signedVars, elementVars>>
RuleNext == case = NoCase /\ ElementNext /\ UNCHANGED caseVars
Next == CaseNext \/ RuleNext

\* The runner drives the case, and the layers' tasks run.
Spec == Init /\ [][Next]_vars /\ WF_vars(CaseNext)

-----------------------------------------------------------------------------
\* Whatever order logs, pieces and prunes arrive in, no assertion of a case fails and no wait of
\* it is still unmet once all that can arrive has (World::until's Failure at LIMIT, assumed longer
\* than any delivery): a case tests what it says and not one schedule (run_case's Status::Fail).
NoCaseFails == verdict # "fail"

\* Every case comes to its verdict.  What its devices take, fetch and drop comes to rest, so that
\* SETTLE and LIMIT have something to outlast: nothing one of them dropped is offered to it, by a
\* holder whose clock is slow say, and fetched again for ever.  And the case's own loops end:
\* audits until one finds the loss, a search by halves, a head asked for again.
NoCaseHangs == <>(verdict # "runs")
=============================================================================
