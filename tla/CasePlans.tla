------------------------------ MODULE CasePlans ------------------------------
(***************************************************************************)
(* The devices every case of ndn-data-conformance plans (the plan function *)
(* of each file of cases/, collected in cases/mod.rs).                     *)
(***************************************************************************)
EXTENDS TLC

MembersPlan == [
    c01 |-> {"laptop", "phone"},
    c02 |-> {"alice", "bob"},
    c04 |-> {"alice", "bob"},
    c07 |-> {"laptop", "phone"},
    c09 |-> {"alice", "bob", "carol", "mallory"},
    c10 |-> {"alice", "bob", "carol"},
    c11 |-> {"alice", "bob", "carol"},
    o1  |-> {"alice", "bob", "carol"},
    r1  |-> {"laptop", "phone", "bob", "carol"},
    r2  |-> {"alice", "bob", "carol"},
    r3  |-> {"laptop", "phone"},
    r4  |-> {"laptop", "phone", "bob", "carol"}]

AlicesDevices == {"laptop", "phone", "tablet"}
KeysPlan == [
    c03 |-> {"phone", "laptop", "thief"},
    o2  |-> {"phone", "laptop", "thief"},
    k1  |-> AlicesDevices,
    k2  |-> AlicesDevices \cup {"thief"},
    k3  |-> {"phone", "laptop", "thief"},
    k4  |-> AlicesDevices \cup {"thief"},
    k5  |-> AlicesDevices,
    k6  |-> AlicesDevices \cup {"thief"},
    k7  |-> AlicesDevices \cup {"desktop", "thief"},
    k8  |-> {"laptop", "guest", "tablet"},
    k9  |-> AlicesDevices \cup {"thief"},
    k10 |-> {"laptop", "tablet", "intruder"}]

ClubAll == {"alice", "bob", "carol", "dave"}
FoldersPlan == [
    f1 |-> ClubAll,
    f2 |-> ClubAll,
    f3 |-> {"alice", "bob", "carol"},
    g1 |-> {"laptop", "phone", "repo", "bob", "carol", "dave"},
    g2 |-> {"alice", "bob"},
    g3 |-> {"laptop", "phone", "bob", "carol"},
    g4 |-> {"alice", "bob", "carol", "copy"}]

Friends == {"alice", "bob", "carol"}
Gardeners == {"alice", "bob", "frank", "more"}
RulePlan == [
    b1  |-> Friends,
    b2  |-> Friends,
    b3  |-> Friends,
    c08 |-> {"phone", "repo", "laptop"},
    c12 |-> {"phone", "tablet", "laptop", "service", "bob"},
    o3  |-> Gardeners,
    o4  |-> {"phone", "laptop", "tablet"}]

Owner == {"phone", "repo", "laptop"}
CasesOfCustody == [c \in {"c05", "b5", "h1", "h2", "h3", "h4", "h5", "h6", "h7", "h8", "h9"} |-> Owner]
                  @@ [b4 |-> {"laptop", "phone", "tablet"}]

Streaming == {"sensor", "repo", "laptop"}
CasesOfStreams == [c \in {"c06", "s1", "s2", "s3"} |-> Streaming]
    @@ [s4 |-> Streaming \cup {"vault", "phone"}, s5 |-> {"sensor", "laptop", "cache"},
        s6 |-> {"sensor", "repo", "phone"}]

\* The cases of the packet world and those of the custody world.
Plan == MembersPlan @@ KeysPlan @@ FoldersPlan @@ RulePlan
CustodyPlan == CasesOfCustody @@ CasesOfStreams
=============================================================================
