-------------------------------- MODULE Session --------------------------------
(***************************************************************************)
(* A recorded session of the control plane:                                *)
(* crates/ndn-sim/src/control_plane.rs (ControlPlane) and replay.rs        *)
(* (Recording), over the operations of topology.rs they call.              *)
(*                                                                         *)
(* Clients of several transports share the plane, each in a task of its    *)
(* own; under `ndn-lab serve` the tasks run on the threads of a Tokio      *)
(* runtime.  execute takes the journal's lock, then the fabric's locks     *)
(* one at a time, then the notification stream's, and holds none of them   *)
(* over the next: what lies between two of them is a step of its own.      *)
(* Two pairs of look-ups are one step, for what another call can do        *)
(* between them leaves the same: a route's face and its entry in the FIB   *)
(* (a node removed there takes its FIB along), and an app's node and its   *)
(* number (the handle of a removed node's app stays).                      *)
(* Stamps, metrics, scenes and the radio log are left out, and so is a     *)
(* spawn that fails.                                                       *)
(***************************************************************************)
EXTENDS Scenario

CONSTANTS
    Client,
    Command,      \* [cmd, ...] records, as SimCommand
    Scenes,       \* scenarios the fabric may have been started from
    MaxCommands   \* bound on requests

ASSUME SessionAssumption ==
    /\ MaxCommands \in Nat
    /\ \A s \in Scenes :
          /\ Starts(s)
          /\ s.nodes \in Seq(Range(s.nodes)) /\ s.links \in Seq(Range(s.links))
          /\ s.routes \in Seq(Range(s.routes)) /\ s.radioRoutes \in Seq(Range(s.radioRoutes))
          /\ \A i \in DOMAIN s.nodes : s.nodes[i].apps \in Nat
    /\ \A c \in Command : c.cmd \notin {"declare", "apps"}   \* what only a start does

VARIABLES
    scene,       \* the scenario it was started from
    fabric,      \* as in Scenario
    call,        \* client -> its request under way: [at, cmd, turn or id]
    requests,    \* requests so far
    journal, recording,
    base, taken, \* history: the fabric the recording began on; commands that took effect since
    tangled,     \* history: whether one of them did so out of its turn in the journal, or named a
                 \* node or an app that was being spawned
    notices      \* what has been published: [event, node]

sessionVars == <<scene, fabric, call, requests, journal, recording, base, taken, tangled, notices>>

AtRest == [at |-> "idle"]

SessionInit ==
    /\ scene \in Scenes /\ fabric = Started(scene)
    /\ call = [c \in Client |-> AtRest] /\ requests = 0
    /\ journal = <<>> /\ recording = FALSE /\ base = fabric /\ taken = 0 /\ tangled = FALSE
    /\ notices = {}

Calls(stage) == {k \in Client : call[k].at = stage}
Ids(stage) == {call[k].id : k \in Calls(stage)}

-----------------------------------------------------------------------------
(* A request comes in.                                                     *)

\* Fault: a command is journaled once it has been executed.
JournalsLate(stage) == stage = "executed"

\* execute journals a command before anything else.
Journals(stage) == stage = "issued"

Journaled(stage, c) == IF recording /\ Journals(stage) THEN <<c>> ELSE <<>>

\* The journal is locked for the entry alone.
Enter(k, c) ==
    /\ journal' = journal \o Journaled("issued", c)
    /\ call' = [call EXCEPT ![k] = [at |-> "issued", cmd |-> c, turn |-> Len(journal) + 1]]
    /\ UNCHANGED <<scene, fabric, recording, base, taken, tangled, notices>>

\* A request from a local transport is executed at once.
HandleJson(k) ==
    /\ call[k].at = "idle" /\ requests < MaxCommands /\ requests' = requests + 1
    /\ \E c \in Command : Enter(k, c)

\* One that an Interest carried is validated first, where a validator is installed.
HandleInterest(k) ==
    /\ call[k].at = "idle" /\ requests < MaxCommands /\ requests' = requests + 1
    /\ \E c \in Command : call' = [call EXCEPT ![k] = [at |-> "checking", cmd |-> c]]
    /\ UNCHANGED <<scene, fabric, journal, recording, base, taken, tangled, notices>>

Validated(k) ==
    /\ call[k].at = "checking"
    /\ Enter(k, call[k].cmd)
    /\ UNCHANGED requests

Unauthorized(k) ==
    /\ call[k].at = "checking"
    /\ call' = [call EXCEPT ![k] = AtRest]
    /\ UNCHANGED <<scene, fabric, requests, journal, recording, base, taken, tangled, notices>>

-----------------------------------------------------------------------------
(* What it does to the fabric.                                             *)

\* The nodes a command names.
Names(c) == CASE c.cmd \in {"remove", "route", "radio", "app"} -> {c.node}
              [] c.cmd = "connect" -> {c.a, c.b}
              [] OTHER -> {}

\* Whether it names a node or an app that has its number and is not there yet.
NamesAhead(c) == Names(c) \cap Ids("building") # {} \/ (c.cmd = "stop" /\ c.app \in Ids("starting"))

\* The first step of a command: a spawn only draws a number in it.
Begins(f, c) == IF c.cmd = "app" /\ Succeeds(f, c) THEN DrawsApp(f) ELSE Effect(f, c)

Drawn(c) == CASE c.cmd = "spawn" -> fabric.nextNode [] c.cmd = "app" -> fabric.nextApp [] OTHER -> c.node

Afterwards(c) == CASE c.cmd = "spawn" -> "building" [] c.cmd = "app" -> "starting" [] OTHER -> "stopping"

Continues(c) == c.cmd \in {"spawn", "app", "remove"} /\ Succeeds(fabric, c)

Act(k) ==
    LET c == call[k].cmd
    IN /\ call[k].at = "issued"
       /\ fabric' = Begins(fabric, c)
       /\ IF recording
          THEN /\ taken' = taken + 1
               /\ tangled' = (tangled \/ call[k].turn # taken + 1 \/ NamesAhead(c))
          ELSE UNCHANGED <<taken, tangled>>
       /\ IF Continues(c)
          THEN /\ call' = [call EXCEPT ![k] = [at |-> Afterwards(c), cmd |-> c, id |-> Drawn(c)]]
               /\ UNCHANGED journal
          ELSE /\ call' = [call EXCEPT ![k] = AtRest]
               /\ journal' = journal \o Journaled("executed", c)
       /\ UNCHANGED <<scene, requests, recording, base, notices>>

\* The engine of a spawned node is built: the node is inserted.
Built(k) ==
    /\ call[k].at = "building"
    /\ fabric' = Inserts(fabric, call[k].id, call[k].cmd.label)
    /\ call' = [call EXCEPT ![k].at = "built"]
    /\ UNCHANGED <<scene, requests, journal, recording, base, taken, tangled, notices>>

\* A spawned app has been started: its handle is recorded.
HandleRecorded(k) ==
    /\ call[k].at = "starting"
    /\ fabric' = RecordsApp(fabric, call[k].id, call[k].cmd.node)
    /\ call' = [call EXCEPT ![k] = AtRest]
    /\ journal' = journal \o Journaled("executed", call[k].cmd)
    /\ UNCHANGED <<scene, requests, recording, base, taken, tangled, notices>>

\* A node's coming is published once it is there, its going once its engine has shut down.
Publish(k) ==
    /\ call[k].at \in {"built", "stopping"}
    /\ notices' = notices \cup {[event |-> call[k].cmd.cmd, node |-> call[k].id]}
    /\ call' = [call EXCEPT ![k] = AtRest]
    /\ journal' = journal \o Journaled("executed", call[k].cmd)
    /\ UNCHANGED <<scene, fabric, requests, recording, base, taken, tangled>>

\* start_recording: an earlier journal is dropped.
StartRecording ==
    /\ ~recording \/ journal # <<>>
    /\ recording' = TRUE /\ journal' = <<>>
    /\ base' = fabric /\ taken' = 0
    /\ tangled' = (Calls("issued") \cup Calls("building") \cup Calls("starting") # {})
    /\ UNCHANGED <<scene, fabric, call, requests, notices>>

SessionNext ==
    \/ StartRecording
    \/ \E k \in Client :
          \/ HandleJson(k) \/ HandleInterest(k) \/ Validated(k) \/ Unauthorized(k)
          \/ Act(k) \/ Built(k) \/ HandleRecorded(k) \/ Publish(k)

SessionSpec == SessionInit /\ [][SessionNext]_sessionVars

-----------------------------------------------------------------------------
(* Properties.                                                             *)

\* The entries of a map and those of another that are not in it.
Under(map, extra) ==
    [id \in DOMAIN map \cup DOMAIN extra |-> IF id \in DOMAIN map THEN map[id] ELSE extra[id]]

\* What the calls at a stage will put at the numbers they drew.
Pending(stage) ==
    [id \in Ids(stage) |->
        LET c == call[CHOOSE k \in Calls(stage) : call[k].id = id].cmd
        IN IF c.cmd = "spawn" THEN c.label ELSE c.node]

\* The fabric once the spawns under way are through.
Completed ==
    [fabric EXCEPT !.nodes = Under(@, Pending("building")), !.apps = Under(@, Pending("starting"))]

\* The nodes known to who heard the notices, in whatever order they came: a node that went does
\* not come again.
Known ==
    LET Heard(event) == {n.node : n \in {m \in notices : m.event = event}}
    IN (DOMAIN Started(scene).nodes \cup Heard("spawn")) \ Heard("remove")

\* A recording read at any moment holds what has taken effect since it began: as long as commands
\* take effect in the order they were journaled, and none names a node or an app not there yet,
\* replaying one after another those that have makes the fabric that the overlapping ones make,
\* numbers included.  And who follows the notices knows the nodes there are, but for those not
\* announced yet, and those being shut down.
SessionSound ==
    /\ recording /\ ~tangled =>
          taken <= Len(journal) /\ ExecutesFirst(base, journal, taken) = Completed
    /\ Known = (DOMAIN fabric.nodes \cup Ids("stopping")) \ Ids("built")

================================================================================
