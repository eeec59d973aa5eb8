------------------------------- MODULE CasesKeys -------------------------------
(***************************************************************************)
(* The cases on keys over time: c03, o2 and k1 to k10 (cases/*.rs).  The   *)
(* laptop is the root device.  One disjunct per step of the scenario; a    *)
(* device clock set wrong dates packets, which nothing here goes by.       *)
(***************************************************************************)
EXTENDS CaseWorld

AlicesOwn(n, c) == Share(n, "laptop", c, c, {"alice"}, {"alice"})

\* A stolen phone writes as its own: revoked, cut at the loss.
C03 == case = "c03" /\
    \/ AlicesOwn(0, "journal")
    \/ Put(1, "phone", "journal", "seen", {"phone"})
    \/ Until(2, Has("laptop", "seen"))
    \/ LossTime(3)
    \/ Steal(4, "thief")
    \/ Until(5, Has("thief", "seen"))
    \/ Offline(6, {"phone"})
    \/ RevokeAt(7, "laptop", "phone")
    \/ SpreadAll(8)
    \/ Put(9, "thief", "journal", "forged", {"thief"})
    \/ Ensure(10, pk["forged"].key = pk["seen"].key /\ pk["forged"].seq > pk["seen"].seq)
    \/ Settle(11)
    \/ Finally(12, Has("laptop", "seen") /\ NoTheft("laptop", "journal"))

\* One honest entry outside the cut is signed back in, by its bytes.
O2 == case = "o2" /\
    \/ AlicesOwn(0, "notes")
    \/ Put(1, "phone", "notes", "seen", {"phone"})
    \/ Until(2, Has("laptop", "seen"))
    \/ LossTime(3)
    \/ Steal(4, "thief")
    \/ Until(5, Has("thief", "seen"))
    \/ Offline(6, {"phone"})
    \/ Put(7, "phone", "notes", "honest", {"phone"})
    \/ RevokeAt(8, "laptop", "phone")
    \/ SpreadAll(9)
    \/ Put(10, "thief", "notes", "forged", {"thief"})
    \/ Ensure(11, SameId("forged", "honest"))
    \/ Online(12, {"phone"})
    \/ Settle(13)
    \/ Ensure(14, ~Has("laptop", "honest"))
    \/ Readmit(15, "laptop", "phone", "honest")
    \/ SpreadAll(16)
    \/ Until(17, Has("laptop", "honest"))
    \/ Settle(18)
    \/ Finally(19, /\ HasAll("laptop", {"seen", "honest"}) /\ NoTheft("laptop", "notes")
                   /\ Field("laptop", "notes", "phone") = {"honest"})

\* What a key signed while it was valid stays, also for a reader that joins later.
K1 == case = "k1" /\
    \/ Offline(0, {"tablet"})
    \/ AlicesOwn(1, "notes")
    \/ Put(2, "phone", "notes", "first", {"sown"})
    \/ Put(3, "phone", "notes", "second", {"watered"})
    \/ Until(4, Agree({"phone", "laptop"}, "notes", {"first", "second"}))
    \/ Expire(5, "phone", "all")
    \/ Online(6, {"tablet"})
    \/ Until(7, Agree({"laptop", "tablet"}, "notes", {"first", "second"}))
    \/ Settle(8)
    \/ Finally(9, \A d \in {"laptop", "tablet"} :
                      /\ HasAll(d, {"first", "second"})
                      /\ Field(d, "notes", "sown") = {"first"}
                      /\ Field(d, "notes", "watered") = {"second"})

\* A thief backdates: a cut goes by what the root held, never by a date.
K2 == case = "k2" /\
    \/ Offline(0, {"tablet"})
    \/ AlicesOwn(1, "journal")
    \/ Put(2, "phone", "journal", "monday", {"monday"})
    \/ Put(3, "phone", "journal", "tuesday", {"tuesday"})
    \/ Until(4, Agree({"phone", "laptop"}, "journal", {"monday", "tuesday"}))
    \/ LossTime(5)
    \/ Steal(6, "thief")
    \/ Until(7, Has("thief", "tuesday"))
    \/ Offline(8, {"phone"})
    \/ RevokeAt(9, "laptop", "phone")
    \/ SpreadAll(10)
    \/ Put(11, "thief", "journal", "forged", {"thief"})
    \/ Ensure(12, /\ pk["forged"].key = pk["monday"].key /\ pk["forged"].seq > pk["tuesday"].seq
                  /\ "forged" \in Look("thief", "journal"))
    \/ Online(13, {"tablet"})
    \/ Until(14, Agree({"laptop", "tablet"}, "journal", {"monday", "tuesday"}))
    \/ Settle(15)
    \/ Finally(16, \A d \in {"laptop", "tablet"} :
                       HasAll(d, {"monday", "tuesday"}) /\ NoTheft(d, "journal"))

\* Re-admission names one packet: not its neighbour, nor another collection's at its seq.
K3 == case = "k3" /\
    \/ AlicesOwn(0, "garden")
    \/ AlicesOwn(1, "kitchen")
    \/ Until(2, Known("phone", "garden") /\ Known("phone", "kitchen"))
    \/ Put(3, "phone", "garden", "seen", {"phone"})
    \/ Until(4, Has("laptop", "seen"))
    \/ LossTime(5)
    \/ Steal(6, "thief")
    \/ Until(7, Has("thief", "seen"))
    \/ Offline(8, {"phone"})
    \/ Put(9, "phone", "garden", "wanted", {"watered"})
    \/ Put(10, "phone", "garden", "neighbour", {"weeded"})
    \/ Ensure(11, pk["neighbour"].seq = pk["wanted"].seq + 1)
    \/ RevokeAt(12, "laptop", "phone")
    \/ SpreadAll(13)
    \/ Until(14, Known("thief", "kitchen"))
    \/ Put(15, "thief", "kitchen", "forged", {"thief"})
    \/ Ensure(16, pk["forged"].key = pk["wanted"].key /\ pk["forged"].seq = pk["wanted"].seq)
    \/ Online(17, {"phone"})
    \/ Settle(18)
    \/ Ensure(19, ~Has("laptop", "wanted"))
    \/ Readmit(20, "laptop", "phone", "wanted")
    \/ SpreadAll(21)
    \/ Until(22, Has("laptop", "wanted"))
    \/ Settle(23)
    \/ Finally(24, /\ HasAll("laptop", {"seen", "wanted"}) /\ ~Has("laptop", "neighbour")
                   /\ NoTheft("laptop", "kitchen") /\ ~Has("laptop", "forged"))

\* A revocation that arrives late withdraws what was accepted meanwhile.
K4 == case = "k4" /\
    \/ AlicesOwn(0, "journal")
    \/ Put(1, "phone", "journal", "inside", {"phone"})
    \/ Until(2, Agree(AlicesDevices, "journal", {"inside"}))
    \/ LossTime(3)
    \/ Steal(4, "thief")
    \/ Until(5, Has("thief", "inside"))
    \/ Offline(6, {"phone"})
    \/ RevokeAt(7, "laptop", "phone")
    \/ Put(8, "thief", "journal", "outside", {"thief"})
    \/ Ensure(9, pk["outside"].key = pk["inside"].key /\ pk["outside"].seq > pk["inside"].seq)
    \/ Until(10, Has("tablet", "outside"))
    \/ SpreadAll(11)
    \/ Until(12, Withdrawn("tablet", "outside"))
    \/ Settle(13)
    \/ Finally(14, /\ ~Has("tablet", "outside") /\ NoTheft("tablet", "journal")
                   /\ Has("tablet", "inside") /\ Field("tablet", "journal", "phone") = {"inside"}
                   /\ ~Has("laptop", "outside"))

\* The log of a key goes on under its renewed certificate, the old one having run out.
K5 == case = "k5" /\
    \/ Offline(0, {"tablet"})
    \/ AlicesOwn(1, "notes")
    \/ Put(2, "phone", "notes", "before", {"sown"})
    \/ Until(3, Has("laptop", "before"))
    \/ Renew(4, "phone")
    \/ Put(5, "phone", "notes", "renewed", {"watered"})
    \/ Until(6, Has("laptop", "renewed"))
    \/ Expire(7, "phone", "superseded")
    \/ Put(8, "phone", "notes", "after", {"picked"})
    \/ Ensure(9, pk["before"].key = pk["renewed"].key /\ pk["renewed"].key = pk["after"].key)
    \/ Online(10, {"tablet"})
    \/ Until(11, Agree(AlicesDevices, "notes", {"before", "renewed", "after"}))
    \/ Settle(12)
    \/ Finally(13, \A d \in {"laptop", "tablet"} : HasAll(d, {"before", "renewed", "after"}))

\* A recovery keeps a cut: inside it still verifies, outside it stays out.
K6 == case = "k6" /\
    \/ Offline(0, {"tablet"})
    \/ SpreadAll(1)
    \/ AlicesOwn(2, "journal")
    \/ Put(3, "phone", "journal", "monday", {"monday"})
    \/ Put(4, "phone", "journal", "tuesday", {"tuesday"})
    \/ Until(5, Agree({"phone", "laptop"}, "journal", {"monday", "tuesday"}))
    \/ LossTime(6)
    \/ Steal(7, "thief")
    \/ Until(8, Has("thief", "tuesday"))
    \/ Offline(9, {"phone"})
    \/ RevokeAt(10, "laptop", "phone")
    \/ SpreadAll(11)
    \/ Put(12, "thief", "journal", "before", {"thief"})
    \/ Ensure(13, pk["before"].key = pk["monday"].key /\ pk["before"].seq > pk["tuesday"].seq)
    \/ Recover(14, "laptop")
    \/ SpreadAll(15)
    \/ Renew(16, "laptop")
    \/ Renew(17, "tablet")
    \/ Put(18, "thief", "journal", "after", {"thief"})
    \/ Put(19, "laptop", "journal", "own", {"laptop"})
    \/ Online(20, {"tablet"})
    \/ Until(21, Agree({"laptop", "tablet"}, "journal", {"monday", "tuesday", "own"}))
    \/ Settle(22)
    \/ Finally(23, \A d \in {"laptop", "tablet"} :
                       /\ NoTheft(d, "journal") /\ HasAll(d, {"monday", "tuesday", "own"})
                       /\ Field(d, "journal", "laptop") = {"own"}
                       /\ ~Has(d, "before") /\ ~Has(d, "after"))

\* A cut bounded by the stated loss leaves out the thief's early version and an honest late
\* one; what it left out is listed, and the honest one re-admitted.
K7 ==
    LET rest == {"laptop", "tablet", "desktop"}
    IN case = "k7" /\
    \/ Offline(0, {"desktop"})
    \/ AlicesOwn(1, "journal")
    \/ Put(2, "phone", "journal", "early", {"monday"})
    \/ Until(3, Agree(AlicesDevices, "journal", {"early"}))
    \/ LossTime(4)
    \/ Put(5, "phone", "journal", "late", {"tuesday"})
    \/ Until(6, Agree(AlicesDevices, "journal", {"early", "late"}))
    \/ Steal(7, "thief")
    \/ Until(8, Has("thief", "late"))
    \/ Offline(9, {"phone"})
    \/ Put(10, "thief", "journal", "taken", {"thief"})
    \/ Ensure(11, pk["taken"].key = pk["late"].key /\ pk["taken"].seq > pk["late"].seq)
    \/ Until(12, Has("laptop", "taken") /\ Has("tablet", "taken"))
    \/ Suspect(13, "phone")
    \/ Put(14, "thief", "journal", "afterReport", {"thief2"})
    \/ Until(15, Has("tablet", "afterReport"))
    \/ Save(16, "rootTook", {"afterReport"} \cap Counted("laptop", "journal"))
    \/ RevokeAt(17, "laptop", "phone")
    \/ SpreadAll(18)
    \/ Until(19, Withdrawn("tablet", "taken"))
    \/ Ensure(20, {"taken", "late"} \subseteq saved["leftOut"])
    \/ Readmit(21, "laptop", "laptop", "late")
    \/ SpreadAll(22)
    \/ Online(23, {"desktop"})
    \/ Until(24, Agree(rest, "journal", {"early", "late"}))
    \/ Settle(25)
    \/ Finally(26, /\ \A d \in rest : /\ NoTheft(d, "journal") /\ HasAll(d, {"early", "late"})
                                      /\ ~Has(d, "taken") /\ ~Has(d, "afterReport")
                                      /\ Field(d, "journal", "monday") = {"early"}
                                      /\ Field(d, "journal", "tuesday") = {"late"}
                   /\ saved["rootTook"] = {})

\* A guest's certificate lapses; the root ends its key with a cut at the lapse.
K8 == case = "k8" /\
    \/ Offline(0, {"tablet"})
    \/ AlicesOwn(1, "notes")
    \/ Put(2, "guest", "notes", "before", {"sown"})
    \/ Until(3, Has("laptop", "before"))
    \/ Expire(4, "guest", "all")
    \/ Put(5, "guest", "notes", "after", {"picked"})
    \/ Ensure(6, pk["after"].key = pk["before"].key /\ pk["after"].seq > pk["before"].seq)
    \/ Settle(7)
    \/ Ensure(8, ~Has("laptop", "after"))
    \/ EndKeys(9, "laptop")
    \/ SpreadAll(10)
    \/ Online(11, {"tablet"})
    \/ Until(12, Has("tablet", "before"))
    \/ Settle(13)
    \/ Finally(14, \A d \in {"laptop", "tablet"} :
                       /\ "after" \notin Look(d, "notes") /\ ~Has(d, "after")
                       /\ Has(d, "before") /\ Field(d, "notes", "sown") = {"before"}
                       /\ Field(d, "notes", "picked") = {})

\* The thief signs other bytes at the name of an entry that is in the cut.
K9 == case = "k9" /\
    \/ Offline(0, {"tablet"})
    \/ AlicesOwn(1, "journal")
    \/ Put(2, "phone", "journal", "monday", {"monday"})
    \/ Until(3, Has("laptop", "monday"))
    \/ Steal(4, "thief")
    \/ Until(5, Has("thief", "monday"))
    \/ Offline(6, {"thief"})
    \/ Put(7, "phone", "journal", "tuesday", {"tuesday"})
    \/ Until(8, Has("laptop", "tuesday"))
    \/ Put(9, "thief", "journal", "forged", {"thief"})
    \/ Ensure(10, SameId("forged", "tuesday"))
    \/ LossTime(11)
    \/ Offline(12, {"phone"})
    \/ RevokeAt(13, "laptop", "phone")
    \/ SpreadAll(14)
    \/ Offline(15, {"laptop"})
    \/ ForgetCached(16, {l \in DOMAIN pk : pk[l].key = "phone"})
    \/ Online(17, {"thief"})
    \/ Online(18, {"tablet"})
    \/ Settle(19)
    \/ Online(20, {"laptop"})
    \/ Online(21, {"phone"})
    \/ Until(22, {"monday", "tuesday"} \subseteq Look("tablet", "journal"))
    \/ Settle(23)
    \/ Finally(24, \A d \in {"laptop", "tablet"} :
                       /\ NoTheft(d, "journal")
                       /\ Field(d, "journal", "monday") = {"monday"}
                       /\ Field(d, "journal", "tuesday") = {"tuesday"})

\* A recovery refuses a key its old root certified for an attacker, on a device that restarts
\* and on one that re-judges what it holds.
K10 == case = "k10" /\
    \/ SpreadAll(0)
    \/ AlicesOwn(1, "journal")
    \/ Until(2, Known("intruder", "journal"))
    \/ Put(3, "laptop", "journal", "honest", {"laptop"})
    \/ Put(4, "intruder", "journal", "planted", {"intruder"})
    \/ Until(5, Agree(Mine, "journal", {"honest", "planted"}))
    \/ Stop(6, "tablet")
    \/ Recover(7, "laptop")
    \/ SpreadAll(8)
    \/ Renew(9, "laptop")
    \/ Renew(10, "tablet")
    \/ Restart(11, "tablet")
    \/ Until(12, Has("laptop", "honest") /\ Has("tablet", "honest"))
    \/ Settle(13)
    \/ Finally(14, /\ \A d \in {"laptop", "tablet"} :
                          /\ ~Has(d, "planted") /\ Field(d, "journal", "intruder") = {}
                          /\ Field(d, "journal", "laptop") = {"honest"}
                   /\ Withdrawn("laptop", "planted"))

KeysStep == C03 \/ O2 \/ K1 \/ K2 \/ K3 \/ K4 \/ K5 \/ K6 \/ K7 \/ K8 \/ K9 \/ K10
=============================================================================
