----------------------------- MODULE CasesMembers -----------------------------
(***************************************************************************)
(* The cases on members records, seals and the merge rule: c01, c02, c04,  *)
(* c07, c09, c10, c11, o1 and r1 to r4 (cases/*.rs of ndn-data-            *)
(* conformance).  One disjunct per step of the scenario.                   *)
(***************************************************************************)
EXTENDS CaseWorld

\* Notes on laptop and phone, both offline.
C01 == case = "c01" /\
    \/ Share(0, "laptop", "day1", "members", {"alice"}, {"alice"})
    \/ Put(1, "laptop", "day1", "v17", {"text"})
    \/ Until(2, Has("phone", "v17"))
    \/ Offline(3, {"laptop", "phone"})
    \/ Put(4, "laptop", "day1", "plane", {"text"})
    \/ Put(5, "phone", "day1", "taxi", {"text"})
    \/ Ensure(6, pk["plane"].key # pk["taxi"].key)
    \/ Online(7, {"laptop", "phone"})
    \/ Until(8, Agree({"laptop", "phone"}, "day1", {"plane", "taxi"}))
    \/ Finally(9, \A d \in Mine : \A l \in {"plane", "taxi"} :
                      /\ l \in Look(d, "day1") /\ "v17" \in pk[l].past
                      /\ \A m \in got[d] : SameId(l, m) => l = m)

\* Bob removed while offline; his later edit claims an earlier date.
C02 == case = "c02" /\
    \/ Share(0, "alice", "doc", "members", {"alice", "bob"}, {"alice", "bob"})
    \/ Put(1, "bob", "doc", "seen", {"bob"})
    \/ Until(2, Has("alice", "seen"))
    \/ Offline(3, {"bob"})
    \/ Share(4, "alice", "doc", "removal", {"alice"}, {"alice"})
    \/ Put(5, "bob", "doc", "late", {"bob"})
    \/ Ensure(6, pk["late"].key = pk["seen"].key /\ pk["late"].seq > pk["seen"].seq)
    \/ Online(7, {"bob"})
    \/ Settle(8)
    \/ Finally(9, /\ "late" \notin Look("alice", "doc")
                  /\ Has("alice", "seen") /\ ~Has("alice", "late")
                  /\ Field("alice", "doc", "bob") = {"seen"})

\* A lens reads within the note's seal.
C04 == case = "c04" /\
    \/ Share(0, "alice", "meeting", "members", {"alice"}, {"alice"})
    \/ Put(1, "alice", "meeting", "note", {"text"})
    \/ Ensure(2, Has("alice", "note") /\ Field("alice", "meeting", "text") = {"note"})
    \/ Ensure(3, "note" \in Look("alice", "meeting") /\ pk["note"].to = {"alice"})
    \/ Settle(4)
    \/ Finally(5, \A l \in Counted("bob", "meeting") : ~Opens("bob", l))

\* A writer that knows fewer fields leaves the others alone.
C07 == case = "c07" /\
    \/ Share(0, "laptop", "shopping", "members", {"alice"}, {"alice"})
    \/ Put(1, "laptop", "shopping", "tagged", {"text", "tags"})
    \/ Until(2, Has("phone", "tagged"))
    \/ Put(3, "phone", "shopping", "edit", {"text"})
    \/ Until(4, Agree({"laptop", "phone"}, "shopping", {"edit"}))
    \/ Finally(5, \A d \in Mine : /\ Field(d, "shopping", "text") = {"edit"}
                                  /\ Field(d, "shopping", "tags") = {"tagged"})

\* A chat grows member by member; a stranger posts.
C09 ==
    LET everyone == {"start", "hi", "hello"}
        chat(d) == Look(d, "family")
    IN case = "c09" /\
    \/ Share(0, "alice", "family", "m1", {"alice"}, {"alice"})
    \/ Put(1, "alice", "family", "start", {"text"})
    \/ Share(2, "alice", "family", "m2", {"alice", "bob"}, {"alice", "bob"})
    \/ Put(3, "bob", "family", "hi", {"text"})
    \/ Share(4, "alice", "family", "m3", {"alice", "bob", "carol"}, {"alice", "bob", "carol"})
    \/ Put(5, "carol", "family", "hello", {"text"})
    \/ TryPut(6, "mallory", "family", "spam", {"text"})
    \/ Until(7, everyone \subseteq chat("alice"))
    \/ Until(8, "hello" \in chat("bob") \cap chat("carol"))
    \/ Settle(9)
    \/ Finally(10, \A d \in Mine \ {"mallory"} :
                       /\ \A l \in chat(d) : pk[l].key \in {pk[m].key : m \in everyone}
                       /\ "spam" \notin chat(d))

\* Alice removes Bob's comment by an edit: she may not prune it.
C10 == case = "c10" /\
    \/ Share(0, "alice", "doc", "members", {"alice", "bob", "carol"}, {"alice", "bob", "carol"})
    \/ Put(1, "bob", "doc", "comment", {"comment"})
    \/ Until(2, Agree({"alice", "bob", "carol"}, "doc", {"comment"}))
    \/ Ensure(3, "comment" \in Look("bob", "doc"))
    \/ Ensure(4, PruneAnswer("alice", {"comment"}) = "NotOwnWrites")
    \/ Put(5, "alice", "doc", "removal", {"comment"})
    \/ Until(6, Agree({"alice", "bob", "carol"}, "doc", {"removal"}))
    \/ Finally(7, /\ Field("carol", "doc", "comment") = {"removal"}
                  /\ "comment" \in got["bob"] /\ Opens("bob", "comment"))

\* A snapshot pins the state it was taken of, whatever is written after.
C11 == case = "c11" /\
    \/ Share(0, "alice", "doc", "members", {"alice", "bob", "carol"}, {"alice", "bob", "carol"})
    \/ Put(1, "alice", "doc", "a", {"goal"})
    \/ Put(2, "bob", "doc", "b", {"risk"})
    \/ Until(3, HasAll("carol", {"a", "b"}))
    \/ Save(4, "friday", Look("carol", "doc"))
    \/ Put(5, "alice", "doc", "a2", {"goal"})
    \/ Put(6, "bob", "doc", "b2", {"risk"})
    \/ Until(7, HasAll("alice", {"a2", "b2"}))
    \/ Ensure(8, \A d \in {"alice", "carol"} : saved["friday"] \subseteq Look(d, "doc"))
    \/ Finally(9, Look("alice", "doc") # saved["friday"])

\* A version accepted before the cut that refuses it arrives is withdrawn.
O1 == case = "o1" /\
    \/ Share(0, "alice", "doc", "members", {"alice", "bob", "carol"}, {"alice", "bob", "carol"})
    \/ Put(1, "bob", "doc", "inside", {"bob"})
    \/ Until(2, Agree({"alice", "bob", "carol"}, "doc", {"inside"}))
    \/ Offline(3, {"alice"})
    \/ Share(4, "alice", "doc", "removal", {"alice", "carol"}, {"alice", "carol"})
    \/ Put(5, "bob", "doc", "outside", {"bob"})
    \/ Until(6, Has("carol", "outside"))
    \/ Online(7, {"alice"})
    \/ Until(8, Withdrawn("carol", "outside"))
    \/ Finally(9, /\ ~Has("carol", "outside") /\ Has("carol", "inside")
                  /\ Field("carol", "doc", "bob") = {"inside"})

\* Two devices of one person change the readers at once: both removals hold.
R1 == case = "r1" /\
    \/ Share(0, "phone", "budget", "members", {"alice"}, {"alice", "bob", "carol"})
    \/ Put(1, "phone", "budget", "first", {"text"})
    \/ Until(2, \A d \in {"laptop", "bob", "carol"} : "first" \in Look(d, "budget"))
    \/ Offline(3, {"laptop"})
    \/ Share(4, "laptop", "budget", "noBob", {"alice"}, {"alice", "carol"})
    \/ Share(5, "phone", "budget", "noCarol", {"alice"}, {"alice", "bob"})
    \/ Online(6, {"laptop"})
    \/ Settle(7)
    \/ Put(8, "phone", "budget", "later", {"text"})
    \/ Until(9, "later" \in Look("laptop", "budget"))
    \/ Settle(10)
    \/ Finally(11, \A d \in {"bob", "carol"} : "later" \notin Look(d, "budget"))

\* A member leaves the group another person's collection is sealed to.
R2 == case = "r2" /\
    \/ Share(0, "alice", "team", "team1", {"alice"}, {"alice", "bob", "carol"})
    \/ Share(1, "bob", "notes", "members", {"bob"}, {"team", "bob"})
    \/ Put(2, "bob", "notes", "first", {"text"})
    \/ Until(3, "first" \in Look("carol", "notes"))
    \/ Share(4, "alice", "team", "team2", {"alice"}, {"alice", "bob"})
    \/ Settle(5)
    \/ Put(6, "bob", "notes", "later", {"text"})
    \/ Until(7, "later" \in Look("alice", "notes"))
    \/ Settle(8)
    \/ Finally(9, "later" \notin Look("carol", "notes"))

\* Alice leaves her own phone out of a journal's audience.
R3 == case = "r3" /\
    \/ Share(0, "laptop", "journal", "members", {"alice"}, {"alice"})
    \/ Put(1, "laptop", "journal", "first", {"text"})
    \/ Until(2, "first" \in Look("phone", "journal"))
    \/ Share(3, "laptop", "journal", "noPhone", {"alice"}, {"laptop"})
    \/ Put(4, "laptop", "journal", "later", {"text"})
    \/ Ensure(5, "later" \in Look("laptop", "journal"))
    \/ Settle(6)
    \/ Finally(7, "later" \notin Look("phone", "journal"))

\* The phone removes Bob while the laptop adds Carol.
R4 ==
    LET honest == {"laptop", "phone", "carol"}
    IN case = "r4" /\
    \/ Share(0, "laptop", "doc", "members", {"alice", "bob"}, {"alice", "bob"})
    \/ Put(1, "bob", "doc", "seen", {"bob"})
    \/ Until(2, Has("laptop", "seen") /\ Has("phone", "seen"))
    \/ Offline(3, {"phone"})
    \/ Share(4, "phone", "doc", "noBob", {"alice"}, {"alice"})
    \/ Share(5, "laptop", "doc", "addCarol", {"alice", "bob", "carol"}, {"alice", "bob", "carol"})
    \/ Put(6, "bob", "doc", "late", {"bob"})
    \/ Online(7, {"phone"})
    \/ Settle(8)
    \/ Put(9, "phone", "doc", "later", {"text"})
    \/ Until(10, "later" \in Look("carol", "doc"))
    \/ Put(11, "carol", "doc", "carols", {"carol"})
    \/ Until(12, Has("laptop", "carols") /\ Has("phone", "carols"))
    \/ TryPut(13, "bob", "doc", "after", {"bob"})
    \/ Settle(14)
    \/ Finally(15, /\ \A d \in honest : Has(d, "seen") /\ ~Has(d, "late") /\ ~Has(d, "after")
                   /\ "later" \notin Look("bob", "doc"))

MembersStep == C01 \/ C02 \/ C04 \/ C07 \/ C09 \/ C10 \/ C11 \/ O1 \/ R1 \/ R2 \/ R3 \/ R4
=============================================================================
