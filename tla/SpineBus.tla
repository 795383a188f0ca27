------------------------------- MODULE SpineBus -------------------------------
(***************************************************************************)
(* What the spine controller makes of the messages that tell it of leaves  *)
(* and servers (ctrl_mgr/spineBus.go), down to the tables of the spine's   *)
(* data plane (BfrtSpineCP_V1 and BfrtSpineCP_V2 in ctrl_mgr/cp.go).       *)
(*                                                                         *)
(* The RPC handlers of the spine change its topology one after the other;  *)
(* each change ends as a message to SpineBus, which starts a goroutine for *)
(* it and takes the next one.  Between the change and its goroutine lie    *)
(* two channels per kind, so goroutines run in any order and side by side, *)
(* here as jobs that take one step at a time.  The data plane of v1 sends a*)
(* task to one of the leaves randLeaf[0] .. randLeaf[numLeafs - 1], that of*)
(* v2 to best, or else to second, and replaces these as loads change.      *)
(***************************************************************************)
EXTENDS Integers, SequencesExt

CONSTANTS
  Leaves, Servers, None,
  Starts,     \* the topologies the spine controller may start with
  Versions,   \* the control planes it may start with
  MaxCalls,   \* bound: changes of the topology
  Paced       \* a change comes only when the goroutines of all others have ended

ASSUME NoneIsNoLeaf == None \notin Leaves
ASSUME LeavesAssumption == IsFiniteSet(Leaves)
ASSUME MaxCallsAssumption == MaxCalls \in Nat

\* a configured spine with its servers; BfrtSpineCP_V2.Init takes the first and the last leaf
StartOK(start) ==
  /\ start.children \in Seq(Leaves) /\ start.children # <<>>
  /\ \A i, j \in DOMAIN start.children : start.children[i] = start.children[j] => i = j
  /\ start.leafOf \in [Servers -> ToSet(start.children) \cup {None}]

ASSUME StartsAssumption == \A start \in Starts : StartOK(start)

VARIABLES
  children,     \* spine.Children
  index,        \* Node.Index of each leaf, the last it had
  leafOf,       \* the leaf of each server in the spine's topology
  jobs,         \* the goroutines of SpineBus that have not ended
  pending,      \* SpineBus.pending_leaves
  fwd,          \* table forward_horus_switch_dst: leaves with a port
  switchIndex,  \* table get_switch_index
  randLeaf,     \* tables get_rand_leaf_id_1 and _2, which are always equal
  numLeafs,     \* table get_cluster_num_valid_leafs
  version,      \* "v1" or "v2"
  best, second, \* registers leaf_id_map_1 and _2, of v2 only
  up,           \* the process runs
  calls

topoVars  == <<children, index, leafOf, calls>>
trackVars == <<best, second>>
tableVars == <<fwd, switchIndex, randLeaf, numLeafs, trackVars>>
vars      == <<topoVars, jobs, pending, tableVars, version, up>>

Live == ToSet(children)
HasServers(l) == \E s \in Servers : leafOf[s] = l
Position(l) == CHOOSE i \in 1 .. Len(children) : children[i] = l
MaxLeaves == Cardinality(Leaves)
Index == 0 .. MaxLeaves - 1

\* a goroutine: the message it handles and the locals of OnLeafChange
Job(id, type, node) ==
  [id |-> id, type |-> type, node |-> node, leaf |-> None, pc |-> "start",
   list |-> <<>>, next |-> 0]

Goto(j, j2) == jobs' = (jobs \ {j}) \cup {j2}
End(j) == jobs' = jobs \ {j}
Panic == up' = FALSE /\ UNCHANGED jobs

(* SpineCPInitAllVer and Init of either version write every leaf there is. *)
Init ==
  /\ \E start \in Starts : children = start.children /\ leafOf = start.leafOf
  /\ index = [l \in Leaves |-> IF l \in Live THEN Position(l) - 1 ELSE 0]
  /\ jobs = {}
  /\ pending = {}
  /\ fwd = Live
  /\ switchIndex = [l \in Leaves |-> IF l \in Live THEN index[l] ELSE None]
  /\ randLeaf = [i \in Index |-> IF i < Len(children) THEN children[i + 1] ELSE None]
  /\ numLeafs = Len(children)
  /\ version \in Versions
  /\ best = Head(children) /\ second = Last(children)
  /\ up = TRUE
  /\ calls = 0

-----------------------------------------------------------------------------
(* The topology of the spine changes, and a goroutine is started.          *)

Change ==
  /\ up
  /\ calls < MaxCalls
  /\ Paced => jobs = {}
  /\ calls' = calls + 1
  /\ UNCHANGED <<pending, tableVars, version, up>>

AddLeaf(l) ==
  /\ Change
  /\ l \notin Live
  /\ children' = Append(children, l)
  /\ index' = [index EXCEPT ![l] = Len(children)]
  /\ jobs' = jobs \cup {Job(calls, "newLeaf", l)}
  /\ UNCHANGED leafOf

Bad_IndexWithout(l) == index
IndexWithout(l) ==
  [m \in Leaves |-> IF m \in Live /\ index[m] > index[l] THEN index[m] - 1 ELSE index[m]]

FailLeaf(l) ==
  /\ Change
  /\ l \in Live
  /\ children' = RemoveAt(children, Position(l))
  /\ index' = IndexWithout(l)
  /\ leafOf' = [s \in Servers |-> IF leafOf[s] = l THEN None ELSE leafOf[s]]
  /\ jobs' = jobs \cup {Job(calls, "failedLeaf", l)}

AddServer(s, l) ==
  /\ Change
  /\ l \in Live
  /\ leafOf[s] = None
  /\ leafOf' = [leafOf EXCEPT ![s] = l]
  /\ jobs' = jobs \cup {Job(calls, "newServer", s)}
  /\ UNCHANGED <<children, index>>

\* the goroutine of a failed server writes a log line only
FailServer(s) ==
  /\ Change
  /\ leafOf[s] # None
  /\ leafOf' = [leafOf EXCEPT ![s] = None]
  /\ UNCHANGED <<children, index, jobs>>

(* External: the data plane of v2 hears the load of a leaf, and ranks it.  *)
LoadSignal(l) ==
  /\ up /\ version = "v2"
  /\ l \in Live
  /\ \/ best' = l /\ second' = IF best = l THEN second ELSE best
     \/ l # best /\ second' = l /\ UNCHANGED best
  /\ UNCHANGED <<topoVars, jobs, pending, fwd, switchIndex, randLeaf, numLeafs, version, up>>

-----------------------------------------------------------------------------
(* The goroutines of SpineBus.processIngress.                              *)

(* A leaf without servers is noted in pending_leaves in a later step.      *)
NewLeaf(j) ==
  /\ j.type = "newLeaf" /\ j.pc = "start"
  /\ IF j.node \notin Live THEN Panic
     ELSE /\ Goto(j, [j EXCEPT !.pc = IF HasServers(j.node) THEN "port" ELSE "pend",
                               !.leaf = j.node])
          /\ UNCHANGED up
  /\ UNCHANGED <<topoVars, pending, tableVars>>

Bad_PendLeaf(j) ==
  /\ j.pc = "pend"
  /\ End(j)
  /\ UNCHANGED <<topoVars, pending, tableVars, up>>
PendLeaf(j) ==
  /\ j.pc = "pend"
  /\ pending' = pending \cup {j.leaf}
  /\ End(j)
  /\ UNCHANGED <<topoVars, tableVars, up>>

(* The first server of a pending leaf makes the leaf known to the tables.  *)
NewServer(j) ==
  /\ j.type = "newServer" /\ j.pc = "start"
  /\ IF leafOf[j.node] = None THEN Panic
     ELSE /\ IF leafOf[j.node] \in pending
             THEN Goto(j, [j EXCEPT !.pc = "port", !.leaf = leafOf[j.node]])
             ELSE End(j)
          /\ UNCHANGED up
  /\ UNCHANGED <<topoVars, pending, tableVars>>

\* the end of OnLeafChange, back in the goroutine of a new server
Unpend(j) ==
  /\ j.pc = "unpend"
  /\ pending' = pending \ {j.leaf}
  /\ End(j)
  /\ UNCHANGED <<topoVars, tableVars, up>>

-----------------------------------------------------------------------------
(* BfrtSpineCP_V1.OnLeafChange.                                            *)

\* back in the goroutine, of a new server or another one
Return(j) == IF j.type = "newServer" THEN Goto(j, [j EXCEPT !.pc = "unpend"]) ELSE End(j)

Looping(j) == [j EXCEPT !.pc = "loop", !.list = children, !.next = 1]

\* SpineCPOnLeafChangeAllVer, when a leaf was added
WritePort(j) ==
  /\ j.pc = "port"
  /\ IF j.leaf \notin Live THEN Panic /\ UNCHANGED fwd
     ELSE /\ fwd' = fwd \cup {j.leaf}
          /\ IF version = "v1" THEN Goto(j, Looping(j)) ELSE Return(j)
          /\ UNCHANGED up
  /\ UNCHANGED <<topoVars, pending, switchIndex, randLeaf, numLeafs, trackVars>>

FailedLeaf(j) ==
  /\ j.type = "failedLeaf" /\ j.pc = "start" /\ version = "v1"
  /\ Goto(j, Looping(j))
  /\ UNCHANGED <<topoVars, pending, tableVars, up>>

(* One leaf of the list after the other.  RemoveLeaf moves the list in     *)
(* place, so the loop sees the list as it was or as it is, depending on    *)
(* whether append has copied it in between.                                *)
Seen(j) == {j.list[j.next]} \cup {children[i] : i \in {j.next} \cap (1 .. Len(children))}

WriteLeaf(j) ==
  /\ j.pc = "loop"
  /\ j.next <= Len(j.list)
  /\ \E l \in Seen(j) :
       /\ switchIndex' = [switchIndex EXCEPT ![l] = index[l]]
       /\ randLeaf' = [randLeaf EXCEPT ![index[l]] = l]
  /\ Goto(j, [j EXCEPT !.next = @ + 1])
  /\ UNCHANGED <<topoVars, pending, fwd, numLeafs, trackVars, up>>

Bad_CountOf(j) == Len(j.list) - 1
CountOf(j) == Len(j.list)

WriteCount(j) ==
  /\ j.pc = "loop"
  /\ j.next > Len(j.list)
  /\ numLeafs' = CountOf(j)
  /\ Goto(j, [j EXCEPT !.pc = "regs"])
  /\ UNCHANGED <<topoVars, pending, fwd, switchIndex, randLeaf, trackVars, up>>

(* The queue lengths of the last leaf are reset.  Without any leaf the     *)
(* register has no such cell, and a failing write ends the process.        *)
WriteRegisters(j) ==
  /\ j.pc = "regs"
  /\ IF children = <<>> THEN Panic
     ELSE Return(j) /\ UNCHANGED up
  /\ UNCHANGED <<topoVars, pending, tableVars>>

-----------------------------------------------------------------------------
(* BfrtSpineCP_V2.OnLeafChange, when a leaf failed: another leaf takes the *)
(* place of one that was tracked.  The two registers are read one after    *)
(* the other, and the data plane may change them before and after each.    *)

\* leafID1
ReadBest(j) ==
  /\ j.type = "failedLeaf" /\ j.pc = "start" /\ version = "v2"
  /\ Goto(j, [j EXCEPT !.pc = "read", !.leaf = best])
  /\ UNCHANGED <<topoVars, pending, tableVars, up>>

Bad_Tracked(j) == j.node = j.leaf
Tracked(j) == j.node \in {j.leaf, second}

\* leafID2
ReadSecond(j) ==
  /\ j.pc = "read"
  /\ IF ~Tracked(j) THEN End(j)
     ELSE Goto(j, [j EXCEPT !.pc = IF j.node = j.leaf THEN "best" ELSE "second", !.leaf = second])
  /\ UNCHANGED <<topoVars, pending, tableVars, up>>

\* leafID2, "which is alive and now is best child"
WriteBest(j) ==
  /\ j.pc = "best"
  /\ best' = j.leaf
  /\ Goto(j, [j EXCEPT !.pc = "second"])
  /\ UNCHANGED <<topoVars, pending, fwd, switchIndex, randLeaf, numLeafs, second, up>>

\* "an (arbitrary) alive leaf": the first; without any the index panics
WriteSecond(j) ==
  /\ j.pc = "second"
  /\ IF children = <<>> THEN Panic /\ UNCHANGED second
     ELSE second' = Head(children) /\ End(j) /\ UNCHANGED up
  /\ UNCHANGED <<topoVars, pending, fwd, switchIndex, randLeaf, numLeafs, best>>

-----------------------------------------------------------------------------
Step(j) ==
  /\ \/ NewLeaf(j) \/ PendLeaf(j) \/ NewServer(j) \/ Unpend(j) \/ FailedLeaf(j)
     \/ WritePort(j) \/ WriteLeaf(j) \/ WriteCount(j) \/ WriteRegisters(j)
     \/ ReadBest(j) \/ ReadSecond(j) \/ WriteBest(j) \/ WriteSecond(j)
  /\ UNCHANGED version

Next ==
  \/ \E l \in Leaves : AddLeaf(l) \/ FailLeaf(l) \/ LoadSignal(l)
  \/ \E s \in Servers, l \in Leaves : AddServer(s, l)
  \/ \E s \in Servers : FailServer(s)
  \/ up /\ \E j \in jobs : Step(j)

Spec == Init /\ [][Next]_vars

-----------------------------------------------------------------------------
(* Properties.                                                             *)

TypeOK ==
  /\ children \in Seq(Leaves)
  /\ index \in [Leaves -> Index]
  /\ leafOf \in [Servers -> Leaves \cup {None}]
  /\ \A j \in jobs : /\ j.pc \in {"start", "pend", "port", "loop", "regs", "unpend", "read", "best", "second"}
                     /\ j.leaf \in Leaves \cup {None}
                     /\ j.list \in Seq(Leaves)
  /\ pending \subseteq Leaves
  /\ fwd \subseteq Leaves
  /\ switchIndex \in [Leaves -> Index \cup {None}]
  /\ randLeaf \in [Index -> Leaves \cup {None}]
  /\ numLeafs \in 0 .. MaxLeaves
  /\ version \in Versions
  /\ {best, second} \subseteq Leaves
  /\ up \in BOOLEAN
  /\ calls \in 0 .. MaxCalls

Quiet == up /\ jobs = {}

(* v1: when no goroutine is left, each leaf the data plane may choose is a *)
(* leaf of the spine, reached under its index in both directions.          *)
TablesMatchTree ==
  Quiet /\ version = "v1" =>
    /\ numLeafs <= Len(children)
    /\ \A i \in 0 .. numLeafs - 1 : randLeaf[i] = children[i + 1] /\ switchIndex[randLeaf[i]] = i

(* v1: when no goroutine is left, a leaf the data plane may not choose yet *)
(* is pending, so that its first server will make it known; and no leaf    *)
(* that has a server is pending.                                           *)
PendingMatchesTables ==
  Quiet /\ version = "v1" => \A l \in Live :
    /\ index[l] >= numLeafs => l \in pending
    /\ l \in pending => ~HasServers(l)

(* v2: when no goroutine is left, one of the two leaves the data plane     *)
(* tracks is a leaf of the spine: even when the other one is a failed leaf *)
(* that was written back, tasks find a leaf.                               *)
SomeTrackedLeafIsAlive ==
  Quiet /\ version = "v2" => {best, second} \cap Live # {}

(* v2: when no goroutine is left, both of them are: "previously            *)
(* second-best leaf (which is  alive and now is best child)", and an       *)
(* "(arbitrary) alive leaf" in its place.                                  *)
TrackedLeavesAreAlive ==
  Quiet /\ version = "v2" => {best, second} \subseteq Live
=============================================================================
