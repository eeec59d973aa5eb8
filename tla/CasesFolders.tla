----------------------------- MODULE CasesFolders -----------------------------
(***************************************************************************)
(* The cases on folders and groups of versions: f1 to f3 and g1 to g4      *)
(* (cases/*.rs).  One disjunct per step of the scenario.                   *)
(***************************************************************************)
EXTENDS CaseWorld

\* What a reader asks a grant for: an epoch of seals, which the records that seal make.
Epochs(d, cs) ==
    {{r \in pk[l].past : pk[r].kind = "record" /\ pk[r].readers # {}} : l \in UNION {Look(d, c) : c \in cs}}

\* One record for a folder costs each reader one grant, however many collections it covers.
F1 ==
    LET readers == ClubAll \ {"alice"}
    IN case = "f1" /\
    \/ Share(0, "alice", "r1", "m1", {"alice"}, ClubAll)
    \/ Share(1, "alice", "r2", "m2", {"alice"}, ClubAll)
    \/ Put(2, "alice", "r1", "a1", {"n"})
    \/ Put(3, "alice", "r2", "a2", {"n"})
    \/ Until(4, \A d \in readers : "a1" \in Look(d, "r1") /\ "a2" \in Look(d, "r2"))
    \/ Share(5, "alice", "recipes", "m", {"alice"}, ClubAll)
    \/ Put(6, "alice", "s1", "b1", {"n"})
    \/ Put(7, "alice", "s2", "b2", {"n"})
    \/ Until(8, \A d \in readers : "b1" \in Look(d, "s1") /\ "b2" \in Look(d, "s2"))
    \/ Finally(9, \A d \in readers : Cardinality(Epochs(d, {"s1", "s2"})) = 1)

\* A folder narrows what a collection's older record let in; a collection narrows its folder.
F2 == case = "f2" /\
    \/ Share(0, "alice", "oldList", "old", {"alice", "dave"}, {"alice", "bob", "dave"})
    \/ Put(1, "dave", "oldList", "first", {"dave"})
    \/ Until(2, Has("alice", "first"))
    \/ Offline(3, {"dave"})
    \/ Share(4, "alice", "club", "folder", {"alice", "bob", "carol"}, {"alice", "bob", "carol"})
    \/ Put(5, "dave", "oldList", "late", {"dave"})
    \/ Online(6, {"dave"})
    \/ Put(7, "alice", "treasury", "opened", {"balance"})
    \/ Until(8, Has("bob", "opened") /\ Has("carol", "opened"))
    \/ Share(9, "alice", "treasury", "narrowed", {"alice", "bob"}, {"alice", "bob"})
    \/ TryPut(10, "carol", "treasury", "carols", {"balance"})
    \/ Put(11, "alice", "treasury", "after", {"balance"})
    \/ Until(12, Has("bob", "after"))
    \/ Ensure(13, Widens("alice", "treasury", {"alice", "bob", "dave"}, {"alice", "bob"}))
    \/ Ensure(14, Widens("alice", "treasury", {"alice", "bob"}, {"alice", "bob", "dave"}))
    \/ TryPut(15, "dave", "treasury", "daves", {"balance"})
    \/ Put(16, "alice", "oldList", "inOld", {"alice"})
    \/ Until(17, Has("bob", "inOld"))
    \/ Settle(18)
    \/ Finally(19, /\ \A d \in {"alice", "bob"} :
                          /\ Field(d, "treasury", "balance") = {"after"} /\ Has(d, "after")
                          /\ ~Has(d, "carols") /\ ~Has(d, "daves") /\ ~Has(d, "late")
                          /\ Field(d, "oldList", "alice") = {"inOld"}
                   /\ "after" \notin Look("carol", "treasury"))

\* A collection's first own record drops a writer, or seals, from then on only.
F3 ==
    LET both == {"alice", "bob"}
        reads(d, l) == l \in Look(d, pk[l].coll)
    IN case = "f3" /\
    \/ Share(0, "alice", "club", "folder", {"alice", "bob", "carol"}, {})
    \/ Put(1, "carol", "minutes", "minute", {"text"})
    \/ Put(2, "bob", "clubNotes", "bobsNote", {"text"})
    \/ Until(3, \A d \in both : reads(d, "minute") /\ reads(d, "bobsNote"))
    \/ Share(4, "alice", "minutes", "noCarol", both, {})
    \/ Share(5, "alice", "clubNotes", "sealing", {}, both)
    \/ TryPut(6, "carol", "minutes", "later", {"text"})
    \/ Put(7, "alice", "minutes", "after", {"text"})
    \/ Put(8, "alice", "clubNotes", "alicesNote", {"text"})
    \/ Until(9, Has("bob", "after") /\ Has("bob", "alicesNote"))
    \/ Put(10, "bob", "clubNotes", "sealed", {"text"})
    \/ Until(11, Has("alice", "sealed"))
    \/ Settle(12)
    \/ Finally(13, /\ \A d \in both : reads(d, "minute") /\ reads(d, "bobsNote") /\ ~Has(d, "later")
                   /\ ~Withdrawn("bob", "minute"))

\* A group of three counts as one: not while one of it is missing, and not once one is refused.
Columns == <<"column1", "column2", "column3">>
G1 ==
    LET group == <<"g1", "g2", "g3">>
        all == {"alice", "bob", "carol", "dave"}
        readers == {"laptop", "phone", "carol", "dave"}
        incomplete == \A i \in 1..2 : Withdrawn("dave", group[i])
        whole(d) == \A i \in 1..3 : Has(d, group[i])
    IN case = "g1" /\
    \/ ShareAll(0, "laptop", Columns, <<"m1", "m2", "m3">>, {"alice", "bob", "carol"}, all)
    \/ PutAll(1, "laptop", Columns, <<"s1", "s2", "s3">>, {"column"})
    \/ Until(2, \A d \in {"phone", "bob", "carol", "dave"} : HasAll(d, {"s1", "s2", "s3"}))
    \/ Offline(3, {"phone", "dave"})
    \/ PutGroup(4, "bob", group, Columns, {"task"})
    \/ Until(5, whole("carol") /\ whole("laptop"))
    \/ Put(6, "carol", "column1", "over", {"note"})
    \/ Until(7, "g3" \in got["repo"])
    \/ Offline(8, {"repo"})
    \/ Lose(9, "bob", {"g3"})
    \/ ForgetCached(10, {"g3"})
    \/ Online(11, {"dave"})
    \/ Until(12, incomplete)
    \/ Settle(13)
    \/ Ensure(14, incomplete /\ ~Has("dave", "g3") /\ ~Has("dave", "over"))
    \/ Online(15, {"repo"})
    \/ Until(16, whole("dave") /\ Has("dave", "over"))
    \/ Share(17, "phone", "column3", "noBob", {"alice", "carol"}, all)
    \/ Online(18, {"phone"})
    \/ Until(19, \A d \in readers \ {"phone"}, i \in 1..3 : Withdrawn(d, group[i]) /\ GroupRefused(d, group[i]))
    \/ Until(20, \A d \in readers : Has(d, "over") /\ \A i \in 1..3 : ~Has(d, group[i]))
    \/ Finally(21, \A d \in readers : Field(d, "column1", "note") = {"over"})

\* A group its readers could not judge alike is refused before anything is signed.
G2 ==
    LET board == <<"x", "y", "a", "b", "c">>
        firsts == <<"fx", "fy", "fa", "fb", "fc">>
    IN case = "g2" /\
    \/ ShareAll(0, "alice", board, <<"mx", "my", "ma", "mb", "mc">>, {"alice"}, {"alice", "bob"})
    \/ Share(1, "alice", "b", "narrowed", {"alice"}, {"alice"})
    \/ PutAll(2, "alice", board, firsts, {"title"})
    \/ Ensure(3, ~Groupable("alice", {"x", "y"}))
    \/ Ensure(4, ~Groupable("alice", {"a", "b"}))
    \/ PutGroup(5, "alice", <<"ga", "gc">>, <<"a", "c">>, {"title"})
    \/ Ensure(6, pk["ga"].seq = pk["fc"].seq + 1 /\ pk["gc"].seq = pk["fc"].seq + 2)
    \/ Until(7, Has("bob", "ga") /\ Has("bob", "gc"))
    \/ Finally(8, TRUE)

\* One collection of a group narrows while the group is written: every reader judges it alike.
G3 ==
    LET group == {"gDays", "gCosts"}
        readers == {"laptop", "phone", "bob", "carol"}
        alike(c) == \A d \in readers : /\ \A l \in group : ~Has(d, l)
                                       /\ Counted(d, c) = Counted("laptop", c)
                                       /\ NotCounted(d, c) = NotCounted("laptop", c)
    IN case = "g3" /\
    \/ Share(0, "laptop", "trip", "folder", {"alice", "bob"}, {"alice", "bob", "carol"})
    \/ PutAll(1, "laptop", <<"days", "costs">>, <<"seedDays", "seedCosts">>, {"alice"})
    \/ Until(2, \A d \in readers : HasAll(d, {"seedDays", "seedCosts"}))
    \/ Offline(3, {"phone", "carol"})
    \/ PutGroup(4, "bob", <<"gDays", "gCosts">>, <<"days", "costs">>, {"bob"})
    \/ Until(5, HasAll("laptop", group))
    \/ Share(6, "phone", "costs", "narrowed", {"alice"}, {})
    \/ Online(7, {"phone", "carol"})
    \/ Until(8, alike("days") /\ alike("costs"))
    \/ Settle(9)
    \/ Finally(10, alike("days") /\ alike("costs"))

\* A copy of Bob's phone signs again the seqs of his log, in other collections.
G4 ==
    LET again == <<"later1", "later2", "spare1", "spare2", "spare3">>
        readers == {"alice", "carol"}
        kept == {"kPlan", "kBudget"}
        group == {"gTodo", "gDoing"}
    IN case = "g4" /\
    \/ Share(0, "alice", "trip", "m1", {"alice", "bob"}, {})
    \/ Share(1, "alice", "club", "m2", {"alice", "bob"}, {})
    \/ PutAll(2, "alice", <<"plan", "todo">>, <<"sPlan", "sTodo">>, {"text"})
    \/ Until(3, Has("bob", "sPlan") /\ Has("bob", "sTodo"))
    \/ Steal(4, "copy")
    \/ Until(5, Known("copy", "plan") /\ Known("copy", "todo"))
    \/ Offline(6, {"copy"})
    \/ PutAll(7, "bob", <<"plan", "budget">>, <<"kPlan", "kBudget">>, {"text"})
    \/ PutGroup(8, "bob", <<"gTodo", "gDoing">>, <<"todo", "doing">>, {"text"})
    \/ Until(9, \A d \in readers : HasAll(d, kept \cup group))
    \/ Share(10, "alice", "trip", "noBob", {"alice"}, {})
    \/ PutAll(11, "copy", <<"later", "later", "spare", "spare", "spare">>, again, {"text"})
    \/ Ensure(12, /\ pk["later1"].seq = pk["kPlan"].seq /\ pk["later2"].seq = pk["kBudget"].seq
                  /\ pk["spare1"].seq = pk["gTodo"].seq
                  /\ \A i \in 1..5 : pk[again[i]].key = pk["kPlan"].key)
    \/ Offline(13, {"bob"})
    \/ Online(14, {"copy"})
    \/ Settle(15)
    \/ Ensure(16, \A d \in readers : /\ Withdrawn(d, "later1") /\ Withdrawn(d, "later2")
                                     /\ HasAll(d, kept))
    \/ Until(17, \A d \in readers, l \in group : Withdrawn(d, l) /\ GroupRefused(d, l))
    \/ Finally(18, TRUE)

FoldersStep == F1 \/ F2 \/ F3 \/ G1 \/ G2 \/ G3 \/ G4
=============================================================================
