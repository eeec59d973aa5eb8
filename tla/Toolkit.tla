-------------------------------- MODULE Toolkit --------------------------------
(***************************************************************************)
(* The parts of the lab around the network, in one specification: clocks   *)
(* that are wrong, the consumers of the field kit under their watchdog,    *)
(* application flows, the world and its co-simulation feeds, recorded      *)
(* control sessions, and validation sweeps.                                *)
(*                                                                         *)
(* They share no state, so each behaviour exercises one part, drawn at the *)
(* start, while the others rest in an initial state of theirs.             *)
(***************************************************************************)
EXTENDS ClockSkew, Catchup, AppFlows, World, Session, Validation

VARIABLE part

Part == {"clock", "catchup", "flows", "world", "session", "validation"}

toolkitVars == <<part, skewVars, catchupVars, flowVars, worldVars, sessionVars, validationVars>>

\* The initial state in which a part rests while another is exercised.
AtRestUnlessDrawn ==
    /\ part = "clock" \/ (true = 0 /\ skew = CHOOSE s \in Skews : TRUE)
    /\ part = "catchup" \/ cell = CHOOSE c \in Cells : TRUE
    /\ part = "flows" \/ flow = CHOOSE f \in Flows : f.count = 0
    /\ part = "world" \/ feed = CHOOSE f \in Feeds : TRUE
    /\ part = "session" \/ scene = CHOOSE s \in Scenes : TRUE
    /\ part = "validation" \/
          (/\ spec = CHOOSE s \in Specs : TRUE
           /\ outcome = [x \in Range(spec.kernels) \X Range(spec.seeds) |-> CHOOSE n \in Luck : TRUE])

ToolkitInit ==
    /\ part \in Part /\ AtRestUnlessDrawn
    /\ SkewInit /\ CatchupInit /\ FlowInit /\ WorldInit /\ SessionInit /\ ValidationInit

ToolkitNext ==
    /\ UNCHANGED part
    /\ \/ part = "clock" /\ SkewNext
          /\ UNCHANGED <<catchupVars, flowVars, worldVars, sessionVars, validationVars>>
       \/ part = "catchup" /\ CatchupNext
          /\ UNCHANGED <<skewVars, flowVars, worldVars, sessionVars, validationVars>>
       \/ part = "flows" /\ FlowNext
          /\ UNCHANGED <<skewVars, catchupVars, worldVars, sessionVars, validationVars>>
       \/ part = "world" /\ WorldNext
          /\ UNCHANGED <<skewVars, catchupVars, flowVars, sessionVars, validationVars>>
       \/ part = "session" /\ SessionNext
          /\ UNCHANGED <<skewVars, catchupVars, flowVars, worldVars, validationVars>>
       \/ part = "validation" /\ ValidationNext
          /\ UNCHANGED <<skewVars, catchupVars, flowVars, worldVars, sessionVars>>

\* The consumer and the flows are the parts with tasks that must get on.
ToolkitSpec ==
    /\ ToolkitInit /\ [][ToolkitNext]_toolkitVars
    /\ CatchupFairness
    /\ WF_flowVars(part = "flows" /\ LoopNext) /\ WF_flowVars(part = "flows" /\ TaskNext)

================================================================================
