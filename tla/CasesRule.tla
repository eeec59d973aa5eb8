------------------------------ MODULE CasesRule ------------------------------
(***************************************************************************)
(* The cases on rules a collection names, on summaries of many notes or    *)
(* writers and on writes that never pause: b1 to b3, c08, c12, o3 and o4   *)
(* (cases/*.rs).  One disjunct per step of the scenario.                   *)
(***************************************************************************)
EXTENDS CaseWorld

\* A program that does not know a collection's rule holds its versions and answers no state.
B1 == case = "b1" /\
    \/ Share(0, "alice", "card", "members", Friends, Friends)
    \/ Put(1, "alice", "card", "a", {"kind", "title"})
    \/ Until(2, Has("bob", "a"))
    \/ Put(3, "bob", "card", "b", {"owner"})
    \/ Until(4, Agree({"alice", "bob"}, "card", {"a", "b"}))
    \/ Ensure(5, \A d \in {"alice", "bob"} : /\ Field(d, "card", "title") = {"a"}
                                             /\ Field(d, "card", "owner") = {"b"})
    \/ Until(6, {"a", "b"} \subseteq got["carol"])
    \/ Finally(7, Counted("carol", "card") = {} /\ ~MayPut("carol", "card"))

\* An operation over a version outside its past is refused, by its writer's check and every reader's.
B2 ==
    LET readers == {"alice", "carol"}
        mayBeOver(d, l) == l \in Counted(d, "card")
    IN case = "b2" /\
    \/ Share(0, "alice", "card", "members", {"alice", "bob"}, Friends)
    \/ Put(1, "alice", "card", "first", {"kind", "colour"})
    \/ Until(2, Has("bob", "first") /\ Has("carol", "first"))
    \/ Offline(3, {"alice"})
    \/ Put(4, "bob", "card", "bobs", {"colour"})
    \/ Ensure(5, ~mayBeOver("alice", "bobs"))
    \/ Put(6, "alice", "card", "blue", {"colour"})
    \/ Ensure(7, pk["blue"].seq = pk["first"].seq + 1)
    \/ PutAs(8, "bob", "card", "crafted", [sets |-> {"shape"}, basis |-> {"blue"}])
    \/ PutAs(9, "bob", "card", "over", [sets |-> {"size"}])
    \/ Online(10, {"alice"})
    \/ Until(11, Agree(readers, "card", {"over", "blue"}) /\ Has("alice", "bobs"))
    \/ Finally(12, \A d \in readers : /\ Field(d, "card", "shape") = {}
                                      /\ Field(d, "card", "size") = {"over"}
                                      /\ Withdrawn(d, "crafted") /\ RuleRefuses(d, "crafted"))

\* A setting Alice locks shows hers, and the other's once she lifts the lock.
B3 == case = "b3" /\
    \/ Share(0, "alice", "card", "members", {"alice", "bob"}, Friends)
    \/ PutAs(1, "alice", "card", "locked", [sets |-> {"kind", "title"}, locks |-> {"title"}])
    \/ Until(2, \A d \in Friends : Has(d, "locked"))
    \/ Put(3, "bob", "card", "bobs", {"title"})
    \/ Until(4, \A d \in Friends : Withdrawn(d, "bobs"))
    \/ Ensure(5, \A d \in Friends : "bobs" \in NotCounted(d, "card") /\ Field(d, "card", "title") = {"locked"})
    \/ PutAs(6, "alice", "card", "unlocked", [unlocks |-> {"title"}])
    \/ Until(7, \A d \in Friends : "bobs" \notin NotCounted(d, "card"))
    \/ Until(8, Agree(Friends, "card", {"bobs", "unlocked"}))
    \/ Finally(9, \A d \in Friends : Field(d, "card", "title") = {"bobs"})

\* A watch of many notes since a frontier delivers those that changed, and no other.
C08 ==
    LET notes == <<"n1", "n2", "n3">>
        listed(d) == UNION {Look(d, notes[i]) : i \in DOMAIN notes}
        changed == {"n1", "n3"}
    IN case = "c08" /\
    \/ ShareAll(0, "phone", notes, <<"m1", "m2", "m3">>, {"alice"}, {"alice"})
    \/ PutAll(1, "phone", notes, <<"v1", "v2", "v3">>, {"text"})
    \/ Until(2, {"v1", "v2", "v3"} \subseteq listed("laptop"))
    \/ Save(3, "had", listed("laptop"))
    \/ Offline(4, {"laptop"})
    \/ Put(5, "phone", "n1", "edit1", {"text"})
    \/ Put(6, "phone", "n3", "edit3", {"text"})
    \/ Online(7, {"laptop"})
    \/ Until(8, changed \subseteq {pk[l].coll : l \in listed("laptop") \ saved["had"]})
    \/ Finally(9, \A l \in listed("laptop") \ saved["had"] : pk[l].coll \in changed)

\* Offline browsing; a service that answers within its input's audience; a revoked tablet.
C12 == case = "c12" /\
    \/ Share(0, "laptop", "album", "mAlbum", {"alice"}, {"alice"})
    \/ Put(1, "laptop", "album", "shot", {"file"})
    \/ Until(2, Has("phone", "shot"))
    \/ Offline(3, {"phone"})
    \/ Ensure(4, "shot" \in Look("phone", "album"))
    \/ Online(5, {"phone"})
    \/ Share(6, "laptop", "meeting", "mMeeting", {"alice"}, {"alice", "service"})
    \/ Put(7, "laptop", "meeting", "input", {"text"})
    \/ Until(8, Has("service", "input"))
    \/ Share(9, "service", "answer", "mAnswer", {"service"}, {"alice", "service"})
    \/ Put(10, "service", "answer", "summary", {"text"})
    \/ Ensure(11, "summary" \in Look("service", "answer") /\ pk["summary"].to \subseteq pk["input"].to)
    \/ Until(12, Has("laptop", "summary"))
    \/ Ensure(13, Look("bob", "answer") = {})
    \/ Until(14, Has("tablet", "shot"))
    \/ Save(15, "old", Look("tablet", "album"))
    \/ LossTime(16)
    \/ RevokeAt(17, "laptop", "tablet")
    \/ Put(18, "laptop", "album", "fresh", {"file"})
    \/ Until(19, Has("phone", "fresh"))
    \/ Settle(20)
    \/ Finally(21, "fresh" \notin Look("tablet", "album") /\ saved["old"] \subseteq Look("tablet", "album"))

\* A log of many writers: complete against what each last signed, one of them away a while.
O3 ==
    LET garden == Look("alice", "garden")
    IN case = "o3" /\
    \/ Share(0, "alice", "garden", "members", Gardeners, Gardeners)
    \/ Put(1, "alice", "garden", "a0", {"text"})
    \/ Put(2, "bob", "garden", "b0", {"text"})
    \/ Put(3, "frank", "garden", "f0", {"text"})
    \/ Until(4, {"a0", "b0", "f0"} \subseteq garden)
    \/ Offline(5, {"frank"})
    \/ PutAll(6, "frank", <<"garden", "garden">>, <<"f1", "f2">>, {"text"})
    \/ Settle(7)
    \/ Ensure(8, {l \in garden : pk[l].key = "frank"} = {"f0"})
    \/ Online(9, {"frank"})
    \/ Until(10, {"f1", "f2"} \subseteq garden)
    \/ Settle(11)
    \/ Save(12, "held", garden)
    \/ Ensure(13, garden = saved["held"])
    \/ Put(14, "bob", "garden", "b1", {"text"})
    \/ Until(15, "b1" \in garden)
    \/ Put(16, "more", "garden", "joined", {"text"})
    \/ Until(17, "joined" \in garden)
    \/ Settle(18)
    \/ Finally(19, garden = {"a0", "b0", "f0", "f1", "f2", "b1", "joined"})

\* The phone saves on and on while the laptop catches up, round by round, with what was written
\* when the round began.  Bound: Autosaves.
Autosaves == <<"auto1", "auto2", "auto3">>
O4 ==
    LET notes == <<"n1", "n2">>
        written == {l \in DOMAIN pk : pk[l].kind = "version"}
        holds(ls) == ls \subseteq UNION {Look("laptop", notes[i]) : i \in DOMAIN notes}
        k == Cardinality(written) - 1
    IN case = "o4" /\
    \/ ShareAll(0, "phone", notes, <<"m1", "m2">>, {"alice"}, {"alice"})
    \/ PutAll(1, "phone", notes, <<"v1", "v2">>, {"text"})
    \/ /\ verdict = "runs" /\ pc \in 2..6 /\ k \in DOMAIN Autosaves
       /\ SignAll("phone", <<Autosaves[k]>>, <<Version("phone", notes[1 + (k % 2)], [sets |-> {"text"}])>>)
       /\ UNCHANGED <<script, net, trust, saved>>
    \/ Save(2, "before", written)
    \/ Until(3, holds(saved["before"]))
    \/ Save(4, "target", written)
    \/ Until(5, holds(saved["target"]))
    \/ Finally(6, holds(saved["target"]))

RuleStep == B1 \/ B2 \/ B3 \/ C08 \/ C12 \/ O3 \/ O4
=============================================================================
