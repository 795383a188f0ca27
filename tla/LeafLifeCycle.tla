--------------------------- MODULE LeafLifeCycle ---------------------------
(***************************************************************************)
(* The life of a leaf controller: it is started and stopped by the switch  *)
(* manager (ctrl_mgr/manager.go, controller.go) when the spine hears of    *)
(* its leaf, it gets the channels it shares with the ASIC endpoint         *)
(* (asic.go), and it is told its index when another leaf goes.  Spine,     *)
(* manager and leaf controllers are goroutines of one process.             *)
(*                                                                         *)
(* A client adds and fails leaves without waiting.  It leaves the ID of a  *)
(* failed leaf alone while anything is left of its controller, and fails no*)
(* leaf before the controllers of the other ones listen.                   *)
(*                                                                         *)
(* An operator Bad_X before X is X with one plausible mistake; no action   *)
(* uses it.                                                                *)
(***************************************************************************)
EXTENDS Integers, SequencesExt

CONSTANTS
  Leaves, Nobody,
  Configured,  \* sequence of the leaves whose controllers have started
  MaxCalls,    \* bound: calls of clients
  MaxScans     \* bound: scans that find a silent server

ASSUME NobodyIsNoLeaf == Nobody \notin Leaves
ASSUME ConfiguredAssumption == Configured \in Seq(Leaves) /\ IsInjective(Configured)
ASSUME BoundsAssumption == MaxCalls \in Nat /\ MaxScans \in Nat

VARIABLES
  up,          \* the process of the manager runs
  central,     \* children of the spine at the central controller
  newAtCentral, failedAtCentral,  \* channels of the central endpoint
  tree,        \* children of the spine at the spine controller
  spineIndex,  \* Index of each leaf at the spine controller
  newEgInt, failedEgInt, updatedEgInt,  \* channels of the spine's endpoint
  updating,    \* the leaves that one turn of its loop still has to update
  pools,       \* leaves that the spine has a connection pool for
  newLeaves, failedLeaves,        \* channels of the manager
  mgr,         \* where the manager's loop is, with removedLeafIdx: [pc, leaf, place]
  ctrls,       \* sc.leaves, by ID
  ingress,     \* the IDs in leafIngress and leafEgress of the ASIC endpoint
  reader,      \* the leaf the ASIC endpoint has a packet and a channel for
  index,       \* Index of its leaf at each controller
  listening,   \* controllers whose RPC server runs
  bus,         \* of each controller: "none", "on", "told" to stop, "off"
  health,      \* of each health manager: "none", "waits", "scans", "off"
  closed,      \* controllers whose channels are closed
  jobs,        \* goroutines of each bus that will send to the ASIC
  calls, scans

spineVars == <<tree, spineIndex, newEgInt, failedEgInt, updatedEgInt, updating, pools>>
mgrVars   == <<newLeaves, failedLeaves, mgr, ctrls>>
leafVars  == <<index, listening, bus, health, closed, jobs>>
asicVars  == <<ingress, reader>>
callVars  == <<central, newAtCentral, failedAtCentral, calls>>
vars == <<up, spineVars, mgrVars, leafVars, asicVars, callVars, scans>>

PlaceIn(seq, l) == SelectInSeq(seq, LAMBDA m : m = l)
Without(seq, l) == RemoveAt(seq, PlaceIn(seq, l))

\* nil pointer, closed channel: the process ends with all its controllers
Panic == up' = FALSE /\ UNCHANGED <<spineVars, mgrVars, leafVars, asicVars, callVars, scans>>

-----------------------------------------------------------------------------
(* The client and the central controller.                                  *)

Messages(l) ==
  \E ch \in {newAtCentral, failedAtCentral, newEgInt, failedEgInt, newLeaves, failedLeaves, updating}
            \cup Range(updatedEgInt) : l \in Range(ch)

Forgotten(l) ==
  /\ l \notin Range(central) \cup Range(tree) \cup Range(ctrls)
  /\ ~Messages(l) /\ mgr.leaf # l /\ reader # l /\ jobs[l] = 0

CallAddLeaf(l) ==
  /\ up /\ calls < MaxCalls /\ Forgotten(l)
  /\ central' = Append(central, l)
  /\ newAtCentral' = Append(newAtCentral, l)
  /\ calls' = calls + 1
  /\ UNCHANGED <<up, failedAtCentral, spineVars, mgrVars, leafVars, asicVars, scans>>

CallFailLeaf(l) ==
  /\ up /\ calls < MaxCalls
  /\ l \in Range(central) /\ Range(central) \ {l} \subseteq listening
  /\ central' = Without(central, l)
  /\ failedAtCentral' = Append(failedAtCentral, l)
  /\ calls' = calls + 1
  /\ UNCHANGED <<up, newAtCentral, spineVars, mgrVars, leafVars, asicVars, scans>>

-----------------------------------------------------------------------------
(* The spine controller: its handlers, called by the central endpoint for  *)
(* one message after the other, and the loop of its own endpoint.          *)

SpineAddsLeaf ==
  LET l == Head(newAtCentral) IN
  /\ up /\ newAtCentral # <<>>
  /\ newAtCentral' = Tail(newAtCentral)
  /\ IF l \in Range(tree) THEN UNCHANGED <<tree, spineIndex, newEgInt>>
     ELSE /\ tree' = Append(tree, l)
          /\ spineIndex' = [spineIndex EXCEPT ![l] = Len(tree)]
          /\ newEgInt' = Append(newEgInt, l)
  /\ UNCHANGED <<up, central, failedAtCentral, calls, failedEgInt, updatedEgInt, updating, pools,
                 mgrVars, leafVars, asicVars, scans>>

\* RemoveLeaf returns the leaves whose index it has changed
Bad_Behind(l) == SubSeq(tree, PlaceIn(tree, l), Len(tree))
Behind(l) == SubSeq(tree, PlaceIn(tree, l) + 1, Len(tree))

Bad_Updated(l) == IF Behind(l) = <<>> THEN <<>> ELSE Front(Behind(l))
Updated(l) == Behind(l)

SpineFailsLeaf ==
  LET l == Head(failedAtCentral) IN
  /\ up /\ failedAtCentral # <<>>
  /\ failedAtCentral' = Tail(failedAtCentral)
  /\ IF l \notin Range(tree) THEN UNCHANGED <<tree, spineIndex, updatedEgInt, failedEgInt>>
     ELSE /\ tree' = Without(tree, l)
          /\ spineIndex' = [m \in Leaves |-> IF m \in Range(Behind(l)) THEN spineIndex[m] - 1
                                             ELSE spineIndex[m]]
          /\ updatedEgInt' = IF Updated(l) = <<>> THEN updatedEgInt
                             ELSE Append(updatedEgInt, Updated(l))
          /\ failedEgInt' = Append(failedEgInt, l)
  /\ UNCHANGED <<up, central, newAtCentral, calls, newEgInt, updating, pools,
                 mgrVars, leafVars, asicVars, scans>>

\* one turn of the loop for a new or a failed leaf, with the manager's handler
SpineSendsNew ==
  /\ up /\ updating = <<>> /\ newEgInt # <<>>
  /\ newEgInt' = Tail(newEgInt)
  /\ pools' = pools \cup Range(tree)
  /\ newLeaves' = Append(newLeaves, Head(newEgInt))
  /\ UNCHANGED <<up, tree, spineIndex, failedEgInt, updatedEgInt, updating,
                 failedLeaves, mgr, ctrls, leafVars, asicVars, callVars, scans>>

SpineSendsFailed ==
  /\ up /\ updating = <<>> /\ failedEgInt # <<>>
  /\ failedEgInt' = Tail(failedEgInt)
  /\ failedLeaves' = Append(failedLeaves, Head(failedEgInt))
  /\ UNCHANGED <<up, tree, spineIndex, newEgInt, updatedEgInt, updating, pools,
                 newLeaves, mgr, ctrls, leafVars, asicVars, callVars, scans>>

SpineTakesUpdated ==
  /\ up /\ updating = <<>> /\ updatedEgInt # <<>>
  /\ updating' = Head(updatedEgInt)
  /\ updatedEgInt' = Tail(updatedEgInt)
  /\ UNCHANGED <<up, tree, spineIndex, newEgInt, failedEgInt, pools, mgrVars, leafVars, asicVars, callVars, scans>>

(* sendLeafUpdate reads the index when it sends it.  The update is lost    *)
(* when the leaf does not listen.                                          *)
SpineUpdatesLeaf ==
  LET l == Head(updating) IN
  /\ up /\ updating # <<>>
  /\ updating' = Tail(updating)
  /\ index' = IF l \in pools \cap listening THEN [index EXCEPT ![l] = spineIndex[l]] ELSE index
  /\ UNCHANGED <<up, tree, spineIndex, newEgInt, failedEgInt, updatedEgInt, pools,
                 listening, bus, health, closed, jobs, mgrVars, asicVars, callVars, scans>>

-----------------------------------------------------------------------------
(* The loop of the manager.                                                *)

At(pc) == up /\ mgr.pc = pc
Goto(pc) == mgr' = [mgr EXCEPT !.pc = pc]
Loop == mgr' = [pc |-> "loop", leaf |-> Nobody, place |-> 0]

MgrTakesNew ==
  /\ At("loop") /\ newLeaves # <<>>
  /\ mgr' = [pc |-> "fetch", leaf |-> Head(newLeaves), place |-> 0]
  /\ newLeaves' = Tail(newLeaves)
  /\ UNCHANGED <<up, spineVars, failedLeaves, ctrls, leafVars, asicVars, callVars, scans>>

(* FetchTopology, a second later: without an answer the topology is built  *)
(* from nil.  Otherwise the controller is registered and goes on alone.    *)
MgrFetches ==
  LET l == mgr.leaf IN
  /\ At("fetch")
  /\ IF l \notin Range(central) THEN Panic
     ELSE /\ index' = [index EXCEPT ![l] = PlaceIn(central, l) - 1]
          /\ ctrls' = Append(ctrls, l)
          /\ ingress' = ingress \cup {l}
          /\ closed' = closed \ {l}
          /\ bus' = [bus EXCEPT ![l] = "none"]
          /\ health' = [health EXCEPT ![l] = "none"]
          /\ Loop
          /\ UNCHANGED <<up, spineVars, newLeaves, failedLeaves, listening, jobs, reader, callVars, scans>>

\* StartServer, which FetchTopology does not wait for
Listens(l) ==
  /\ up /\ l \in Range(ctrls) /\ l \notin listening /\ l \notin closed
  /\ ~(mgr.leaf = l /\ mgr.pc \in {"goodbye", "remove"})
  /\ listening' = listening \cup {l}
  /\ UNCHANGED <<up, spineVars, mgrVars, index, bus, health, closed, jobs, asicVars, callVars, scans>>

\* StartBare has fetched the VCs and creates bus and health manager
Starts(l) ==
  /\ up /\ l \in Range(ctrls) /\ bus[l] = "none"
  /\ bus' = [bus EXCEPT ![l] = "on"]
  /\ health' = [health EXCEPT ![l] = "waits"]
  /\ UNCHANGED <<up, spineVars, mgrVars, index, listening, closed, jobs, asicVars, callVars, scans>>

\* the last controller of l in the list
RemovedLeafIdx(l) == SelectLastInSeq(ctrls, LAMBDA m : m = l)

Bad_HasController(l) == RemovedLeafIdx(l) > 1
HasController(l) == RemovedLeafIdx(l) > 0

MgrTakesFailed ==
  LET l == Head(failedLeaves) IN
  /\ At("loop") /\ failedLeaves # <<>>
  /\ failedLeaves' = Tail(failedLeaves)
  /\ IF HasController(l) THEN mgr' = [pc |-> "stopBus", leaf |-> l, place |-> RemovedLeafIdx(l)]
     ELSE UNCHANGED mgr
  /\ UNCHANGED <<up, spineVars, newLeaves, ctrls, leafVars, asicVars, callVars, scans>>

\* Shutdown: bus.DoneChan has room for the message; without a bus it is nil
MgrStopsBus ==
  LET l == mgr.leaf IN
  /\ At("stopBus")
  /\ IF bus[l] = "none" THEN Panic
     ELSE /\ bus' = [bus EXCEPT ![l] = "told"]
          /\ Goto("stopHealth")
          /\ UNCHANGED <<up, spineVars, newLeaves, failedLeaves, ctrls,
                         index, listening, health, closed, jobs, asicVars, callVars, scans>>

\* healthMgr.DoneChan has no room: the health manager must be there to take it
Bad_HealthTakes(l) == TRUE
HealthTakes(l) == health[l] = "waits"

MgrStopsHealth ==
  LET l == mgr.leaf IN
  /\ At("stopHealth") /\ HealthTakes(l)
  /\ health' = IF health[l] = "waits" THEN [health EXCEPT ![l] = "off"] ELSE health
  /\ Goto("stopServer")
  /\ UNCHANGED <<up, spineVars, newLeaves, failedLeaves, ctrls,
                 index, listening, bus, closed, jobs, asicVars, callVars, scans>>

\* rpcEndPoint.DoneChan; a server that has not been created is nil
MgrStopsServer ==
  LET l == mgr.leaf IN
  /\ At("stopServer")
  /\ IF l \notin listening THEN Panic
     ELSE /\ listening' = listening \ {l}
          /\ Goto("goodbye")
          /\ UNCHANGED <<up, spineVars, newLeaves, failedLeaves, ctrls,
                         index, bus, health, closed, jobs, asicVars, callVars, scans>>

(* bus.Shutdown sends its packet, then the channels are closed, of those   *)
(* the ASIC endpoint has as well.                                          *)
MgrCloses ==
  LET l == mgr.leaf IN
  /\ At("goodbye")
  /\ closed' = closed \cup {l}
  /\ Goto("remove")
  /\ UNCHANGED <<up, spineVars, newLeaves, failedLeaves, ctrls,
                 index, listening, bus, health, jobs, asicVars, callVars, scans>>

Bad_CtrlsWithout(place) == Tail(ctrls)
CtrlsWithout(place) == RemoveAt(ctrls, place)

\* after another second, at the place found before Shutdown
MgrRemoves ==
  LET l == mgr.leaf IN
  /\ At("remove")
  /\ ingress' = ingress \ {l}
  /\ ctrls' = CtrlsWithout(mgr.place)
  /\ Loop
  /\ UNCHANGED <<up, spineVars, newLeaves, failedLeaves, leafVars, reader, callVars, scans>>

-----------------------------------------------------------------------------
(* The goroutines of a controller, and the ASIC endpoint.                  *)

\* a new server, or an update from the RPC: the bus starts a goroutine
BusWorks(l) ==
  /\ up /\ scans < MaxScans
  /\ bus[l] \in {"on", "told"} /\ l \in Range(central)
  /\ jobs' = [jobs EXCEPT ![l] = @ + 1]
  /\ scans' = scans + 1
  /\ UNCHANGED <<up, spineVars, mgrVars, index, listening, bus, health, closed, asicVars, callVars>>

BusStops(l) ==
  /\ up /\ bus[l] = "told"
  /\ bus' = [bus EXCEPT ![l] = "off"]
  /\ UNCHANGED <<up, spineVars, mgrVars, index, listening, health, closed, jobs, asicVars, callVars, scans>>

JobSends(l) ==
  /\ up /\ jobs[l] > 0
  /\ IF l \in closed THEN Panic
     ELSE /\ jobs' = [jobs EXCEPT ![l] = @ - 1]
          /\ UNCHANGED <<up, spineVars, mgrVars, index, listening, bus, health, closed, asicVars, callVars, scans>>

\* a scan finds a silent server ...
HealthScans(l) ==
  /\ up /\ scans < MaxScans /\ health[l] = "waits"
  /\ health' = [health EXCEPT ![l] = "scans"]
  /\ scans' = scans + 1
  /\ UNCHANGED <<up, spineVars, mgrVars, index, listening, bus, closed, jobs, asicVars, callVars>>

\* ... and sends those that moved to the bus, which starts a goroutine
HealthSends(l) ==
  /\ up /\ health[l] = "scans"
  /\ IF l \in closed THEN Panic
     ELSE /\ health' = [health EXCEPT ![l] = "waits"]
          /\ \/ bus[l] \in {"on", "told"} /\ jobs' = [jobs EXCEPT ![l] = @ + 1]
             \/ bus[l] \in {"told", "off"} /\ UNCHANGED jobs
          /\ UNCHANGED <<up, spineVars, mgrVars, index, listening, bus, closed, asicVars, callVars, scans>>

\* a packet of a server: the endpoint looks its leaf's channel up ...
AsicReads(l) ==
  /\ up /\ reader = Nobody /\ l \in ingress
  /\ reader' = l
  /\ UNCHANGED <<up, spineVars, mgrVars, leafVars, ingress, callVars, scans>>

\* ... and sends
AsicSends ==
  /\ up /\ reader # Nobody
  /\ IF reader \in closed THEN Panic
     ELSE /\ reader' = Nobody
          /\ UNCHANGED <<up, spineVars, mgrVars, leafVars, ingress, callVars, scans>>

-----------------------------------------------------------------------------
Init ==
  /\ up = TRUE
  /\ central = Configured /\ tree = Configured /\ ctrls = Configured
  /\ newAtCentral = <<>> /\ failedAtCentral = <<>>
  /\ newEgInt = <<>> /\ failedEgInt = <<>> /\ updatedEgInt = <<>> /\ updating = <<>>
  /\ newLeaves = <<>> /\ failedLeaves = <<>>
  /\ mgr = [pc |-> "loop", leaf |-> Nobody, place |-> 0]
  /\ spineIndex = [l \in Leaves |-> IF l \in Range(Configured) THEN PlaceIn(Configured, l) - 1 ELSE 0]
  /\ index = spineIndex
  /\ pools = Range(Configured) /\ listening = Range(Configured) /\ ingress = Range(Configured)
  /\ bus = [l \in Leaves |-> IF l \in Range(Configured) THEN "on" ELSE "none"]
  /\ health = [l \in Leaves |-> IF l \in Range(Configured) THEN "waits" ELSE "none"]
  /\ closed = {} /\ reader = Nobody
  /\ jobs = [l \in Leaves |-> 0]
  /\ calls = 0 /\ scans = 0

Spine == SpineAddsLeaf \/ SpineFailsLeaf \/ SpineSendsNew \/ SpineSendsFailed
         \/ SpineTakesUpdated \/ SpineUpdatesLeaf
Manager == MgrTakesNew \/ MgrFetches \/ MgrTakesFailed \/ MgrStopsBus \/ MgrStopsHealth
           \/ MgrStopsServer \/ MgrCloses \/ MgrRemoves
Leaf(l) == Listens(l) \/ Starts(l) \/ BusStops(l) \/ JobSends(l) \/ HealthSends(l)

Progress == Spine \/ Manager \/ AsicSends \/ \E l \in Leaves : Leaf(l)

Next ==
  \/ Progress
  \/ \E l \in Leaves : CallAddLeaf(l) \/ CallFailLeaf(l) \/ BusWorks(l) \/ HealthScans(l) \/ AsicReads(l)

(* Goroutines in endless loops: whatever can go on does.  Nobody has to    *)
(* call, no server has to fall silent or to send.                          *)
Spec == Init /\ [][Next]_vars /\ WF_vars(Spine) /\ WF_vars(Manager) /\ WF_vars(AsicSends)
        /\ \A l \in Leaves : WF_vars(Leaf(l))

-----------------------------------------------------------------------------
(* Properties.                                                             *)

Indexes == 0 .. Len(Configured) + MaxCalls

\* Every variable has its type; an index is never below the first one.
TypeOK ==
  /\ up \in BOOLEAN
  /\ \A seq \in {central, newAtCentral, failedAtCentral, tree, newEgInt, failedEgInt, updating,
                 newLeaves, failedLeaves, ctrls} : seq \in Seq(Leaves)
  /\ updatedEgInt \in Seq(Seq(Leaves))
  /\ spineIndex \in [Leaves -> Indexes] /\ index \in [Leaves -> Indexes]
  /\ pools \cup listening \cup ingress \cup closed \subseteq Leaves
  /\ mgr \in [pc : {"loop", "fetch", "stopBus", "stopHealth", "stopServer", "goodbye", "remove"},
              leaf : Leaves \cup {Nobody}, place : Nat]
  /\ reader \in Leaves \cup {Nobody}
  /\ bus \in [Leaves -> {"none", "on", "told", "off"}]
  /\ health \in [Leaves -> {"none", "waits", "scans", "off"}]
  /\ jobs \in [Leaves -> 0 .. MaxScans]
  /\ calls \in 0 .. MaxCalls /\ scans \in 0 .. MaxScans

AtRest ==
  /\ up /\ mgr.pc = "loop"
  /\ \A l \in Leaves : ~Messages(l)
  /\ \A l \in Range(ctrls) \ closed : bus[l] # "none" /\ l \in listening

(* When nothing is under way there is one controller for every leaf, the   *)
(* ASIC endpoint has its channels, which are open, and its bus and health  *)
(* manager run; those of all other leaves have ended, although messages    *)
(* about leaves that come and go overtake each other.                      *)
ControllersMatchTree ==
  AtRest =>
    /\ Range(ctrls) = Range(central) /\ Len(ctrls) = Len(central)
    /\ Range(tree) = Range(central)
    /\ ingress = Range(ctrls)
    /\ closed \cap ingress = {}
    /\ \A l \in Range(ctrls) : bus[l] = "on" /\ health[l] \in {"waits", "scans"}
    /\ \A l \in Leaves \ Range(ctrls) : bus[l] # "on" /\ health[l] \in {"none", "off"} /\ l \notin listening

(* When nothing is under way every leaf controller has the index its leaf  *)
(* has at the spine and at the central controller: it makes the IDs of its *)
(* packets from it.  Indexes change while controllers start and while other*)
(* changes are on their way.                                               *)
IndexesAgree ==
  AtRest => \A l \in Range(ctrls) :
    index[l] = PlaceIn(central, l) - 1 /\ spineIndex[l] = index[l]

(* The health manager never finds the channel to the bus closed: Shutdown  *)
(* closes it, after the health manager has taken the message to end.       *)
HealthChannelIsOpen == \A l \in Leaves : health[l] = "scans" => l \notin closed

(* The controller of a failed leaf ends, or the process does: no shutdown  *)
(* waits forever, and no message to the manager is lost.                   *)
FailedLeavesStop ==
  \A l \in Leaves : l \in Range(ctrls) /\ l \notin Range(central) ~> ~up \/ l \notin Range(ctrls)
=============================================================================
