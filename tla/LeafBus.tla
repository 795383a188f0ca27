-------------------------------- MODULE LeafBus --------------------------------
(***************************************************************************)
(* A leaf controller at work: its servers and their worker IDs, the health *)
(* manager that removes servers which went silent, the goroutines that the *)
(* bus starts for each message (ctrl_mgr/leafBus.go), and the tables they  *)
(* write in the leaf's data plane (OnServerChangeAllVer in cp.go).         *)
(*                                                                         *)
(*   RPC handlers --\                   /--> jobs --> tables, packets      *)
(*                   children, first --<                                   *)
(*   health manager-/                   \--> jobs --> ...                  *)
(*                                                                         *)
(* Servers are numbered as in Topology: a server's workers have the IDs    *)
(* that follow those of the servers before it.  Removing a server moves    *)
(* the ones behind it to lower IDs, and a message lists these.  The data   *)
(* plane sends a task to one of the workers 0 .. num - 1, through the      *)
(* server that fwd has for it.                                             *)
(***************************************************************************)
EXTENDS Integers, SequencesExt

CONSTANTS
  Servers, None,
  Workers,     \* how many workers each server has
  LeafID,      \* the leaf's ID
  Indexes,     \* the indexes the spine may give the leaf
  Slots,       \* MAX_VCLUSTER_WORKERS
  Starts,      \* the lists of servers the leaf may start with
  MaxCalls,    \* bound: calls of the RPC handlers, and crashes of servers
  Paced        \* a change comes only when the goroutines of all others have ended

\* a server with one worker breaks the numbering itself, see Topology
ASSUME WorkersAssumption == Workers \in [Servers -> Nat \ {0, 1}]
ASSUME ServersAssumption == IsFiniteSet(Servers) /\ None \notin Servers \cup Int
ASSUME StartsAssumption == \A list \in Starts : list \in Seq(Servers) /\ IsInjective(list)
ASSUME NumbersAssumption ==
  LeafID \in Nat /\ Slots \in Nat /\ MaxCalls \in Nat /\ Paced \in BOOLEAN

VARIABLES
  children,    \* leaf.Children
  first,       \* FirstWorkerID of each server, the last it had, or None
  index,       \* leaf.Index
  seen,        \* servers that are Healthy and Ready
  fresh,       \* servers whose LastPingTime is younger than the timeout
  crashed,     \* servers that send no pings any more
  hm,          \* the health manager
  failing,     \* calls of FailServer between the lookup and the lock of RemoveServer
  jobs,        \* the goroutines of LeafBus that have not ended
  num,         \* table get_cluster_num_valid: the number of workers
  fwd,         \* table forward_horus_switch_dst: the server of each worker ID
  idleList, idleCount,   \* registers idle_list and idle_count
  told,        \* the ID of its first worker in the last packet that reached a server
  joined,      \* history: the ID its first worker had when the server joined the leaf
  up,          \* the process runs
  calls

topoVars   == <<children, first, index, joined>>
healthVars == <<seen, fresh, crashed, hm>>
tableVars  == <<num, fwd, idleList, idleCount>>
vars       == <<topoVars, healthVars, failing, jobs, tableVars, told, up, calls>>

Live == Range(children)

(* The loops that number the servers of the leaf: workerID starts at 0 and *)
(* after server i it is Offsets(list)[i].                                  *)
Offsets(list) ==
  LET workerID[i \in 0 .. Len(list)] ==
        IF i = 0 THEN 0 ELSE workerID[i - 1] + Workers[list[i]]
  IN  workerID

Total(list) == Offsets(list)[Len(list)]
MaxTotal == Total(SetToSeq(Servers))
WorkerIDs == 0 .. MaxTotal - 1
WidsOf(s) == first[s] .. first[s] + Workers[s] - 1
DstID(leaf, wid) == leaf * Slots + wid

PlaceOf(list, s) == SelectInSeq(list, LAMBDA t : t = s)
FirstIn(list, s) == Offsets(list)[PlaceOf(list, s) - 1]

\* the servers behind s in list
Bad_Behind(list, s) == {}
Behind(list, s) == {t \in Range(list) : s \in Range(list) /\ PlaceOf(list, s) < PlaceOf(list, t)}

\* a goroutine: the servers it handles, and the locals of OnServerChange
Job(id, type, nodes) ==
  [id |-> id, type |-> type, nodes |-> nodes, pc |-> "start", count |-> 0, rest |-> nodes]

Goto(j, j2) == jobs' = (jobs \ {j}) \cup {j2}
End(j) == jobs' = jobs \ {j}
Panic == up' = FALSE /\ UNCHANGED jobs

\* LeafCPInitAllVer
Init ==
  /\ children \in Starts
  /\ first = [s \in Servers |-> IF s \in Live THEN FirstIn(children, s) ELSE None]
  /\ index = LeafID
  /\ seen = {} /\ fresh = {} /\ crashed = {}
  /\ hm = [pc |-> "scan", failed |-> <<>>, moved |-> {}]
  /\ jobs = {}
  /\ num = Total(children)
  /\ fwd = [w \in WorkerIDs |->
       IF w < num THEN CHOOSE s \in Live : w \in WidsOf(s) ELSE None]
  /\ idleList = [w \in WorkerIDs |-> IF w < num THEN DstID(LeafID, w) ELSE None]
  /\ idleCount = num
  /\ told = [s \in Servers |-> None]
  /\ joined = first
  /\ failing = {}
  /\ up = TRUE
  /\ calls = 0

-----------------------------------------------------------------------------
(* The RPC handlers of the leaf.                                           *)

Calm == jobs = {} /\ failing = {} /\ hm.pc = "scan"

Call ==
  /\ up
  /\ calls < MaxCalls
  /\ Paced => Calm
  /\ calls' = calls + 1
  /\ UNCHANGED <<tableVars, up>>

(* A node that was removed is another one when it comes back.  No packet   *)
(* tells a server the IDs it joins with, only those it is moved to later.  *)
AddServer(s) ==
  /\ Call
  /\ s \notin Live
  /\ Paced \/ first[s] = None
  /\ children' = Append(children, s)
  /\ first' = [first EXCEPT ![s] = Total(children)]
  /\ joined' = [joined EXCEPT ![s] = Total(children)]
  /\ told' = [told EXCEPT ![s] = None]
  /\ seen' = seen \ {s} /\ fresh' = fresh \ {s} /\ crashed' = crashed \ {s}
  /\ jobs' = jobs \cup {Job(calls, "new", {s})}
  /\ UNCHANGED <<index, hm, failing>>

Without(list, s) == RemoveAt(list, PlaceOf(list, s))

(* Under the lock: the servers that stay are numbered anew.                *)
RemoveServer(s) ==
  /\ s \in Live
  /\ children' = Without(children, s)
  /\ first' = [t \in Servers |-> IF t \in Range(children') THEN FirstIn(children', t) ELSE first[t]]
  /\ UNCHANGED <<index, joined, up>>

(* Another removal was between the lookup and the lock: the server is not  *)
(* among the children, and the slice is cut at -1.                         *)
RemoveAgain(s) == s \notin Live /\ Panic /\ UNCHANGED topoVars

FailServer(s) ==
  /\ Call
  /\ s \in Live
  /\ failing' = failing \cup {[id |-> calls, server |-> s]}
  /\ UNCHANGED <<topoVars, healthVars, jobs, told>>

FinishFail(f) ==
  /\ up
  /\ failing' = failing \ {f}
  /\ \/ /\ RemoveServer(f.server)
        /\ jobs' = IF Behind(children, f.server) = {} THEN jobs
                   ELSE jobs \cup {Job(f.id, "update", Behind(children, f.server))}
     \/ RemoveAgain(f.server)
  /\ UNCHANGED <<healthVars, tableVars, told, calls>>

\* FailLeaf: another leaf failed, and this one changes its index
ChangeIndex(i) ==
  /\ Call
  /\ i # index
  /\ index' = i
  /\ UNCHANGED <<children, first, joined, healthVars, failing, jobs, told>>

-----------------------------------------------------------------------------
(* The servers, and the health manager.                                    *)

Crash(s) ==
  /\ calls < MaxCalls
  /\ calls' = calls + 1
  /\ s \in Live \ crashed
  /\ crashed' = crashed \cup {s}
  /\ UNCHANGED <<topoVars, seen, fresh, hm, failing, jobs, tableVars, told, up>>

OnNodePingRecv(s) ==
  /\ up
  /\ s \in Live \ crashed
  /\ s \notin seen \cap fresh
  /\ seen' = seen \cup {s}
  /\ fresh' = fresh \cup {s}
  /\ UNCHANGED <<topoVars, crashed, hm, failing, jobs, tableVars, told, up, calls>>

TimePasses(s) ==
  /\ up
  /\ s \in fresh
  /\ fresh' = fresh \ {s}
  /\ UNCHANGED <<topoVars, seen, crashed, hm, failing, jobs, tableVars, told, up, calls>>

Bad_TimedOut(s) == s \in seen \cap fresh
TimedOut(s) == s \in seen \ fresh

\* the loop over the children that collects the silent ones
FailedServers ==
  LET failed[i \in 0 .. Len(children)] ==
        IF i = 0 THEN <<>>
        ELSE IF TimedOut(children[i]) THEN Append(failed[i - 1], children[i]) ELSE failed[i - 1]
  IN  failed[Len(children)]

(* The code never waits: that a scan waits for the goroutines of the last  *)
(* change too is what Paced assumes.                                       *)
Scan ==
  /\ up
  /\ hm.pc = "scan"
  /\ Paced => Calm
  /\ FailedServers # <<>>
  /\ hm' = [hm EXCEPT !.pc = "remove", !.failed = FailedServers]
  /\ seen' = seen \ Range(FailedServers)
  /\ UNCHANGED <<topoVars, fresh, crashed, failing, jobs, tableVars, told, up, calls>>

\* the servers to report once s failed too
Bad_Moved(s) == hm.moved \cup Behind(children, s)
Moved(s) == (hm.moved \ {s}) \cup Behind(children, s)

(* A server that an RPC removed since the scan is not there any more.      *)
LookUpFailed ==
  /\ up
  /\ hm.pc = "remove"
  /\ hm.failed # <<>>
  /\ hm' = IF Head(hm.failed) \in Live THEN [hm EXCEPT !.pc = "cut"]
           ELSE [hm EXCEPT !.failed = Tail(@), !.moved = @ \ {Head(hm.failed)}]
  /\ UNCHANGED <<topoVars, seen, fresh, crashed, failing, jobs, tableVars, told, up, calls>>

RemoveFailed ==
  /\ up
  /\ hm.pc = "cut"
  /\ \/ /\ RemoveServer(Head(hm.failed))
        /\ hm' = [pc |-> "remove", failed |-> Tail(hm.failed), moved |-> Moved(Head(hm.failed))]
        /\ UNCHANGED jobs
     \/ RemoveAgain(Head(hm.failed)) /\ UNCHANGED hm
  /\ UNCHANGED <<seen, fresh, crashed, failing, tableVars, told, calls>>

Report ==
  /\ up
  /\ hm.pc = "remove"
  /\ hm.failed = <<>>
  /\ jobs' = IF hm.moved = {} THEN jobs ELSE jobs \cup {Job(calls, "update", hm.moved)}
  /\ hm' = [pc |-> "scan", failed |-> <<>>, moved |-> {}]
  /\ UNCHANGED <<topoVars, seen, fresh, crashed, failing, tableVars, told, up, calls>>

-----------------------------------------------------------------------------
(* The goroutines of LeafBus.processIngress: OnServerChange, then packets. *)

(* A new server is looked up first; one that is gone is a nil in the list. *)
CountWorkers(j) ==
  /\ j.pc = "start"
  /\ Goto(j, [j EXCEPT !.pc = "num", !.count = Total(children),
                       !.rest = IF j.type = "new" THEN j.nodes \cap Live ELSE j.nodes])
  /\ UNCHANGED <<tableVars, told, up>>

Bad_WriteNum(j) ==
  /\ j.pc = "num"
  /\ num' = num + j.count
  /\ Goto(j, [j EXCEPT !.pc = "ports"])
  /\ UNCHANGED <<fwd, idleList, idleCount, told, up>>
WriteNum(j) ==
  /\ j.pc = "num"
  /\ num' = j.count
  /\ Goto(j, [j EXCEPT !.pc = "ports"])
  /\ UNCHANGED <<fwd, idleList, idleCount, told, up>>

NilServer(j) ==
  /\ j.pc = "ports"
  /\ j.rest = {}
  /\ Panic
  /\ UNCHANGED <<tableVars, told>>

WritePorts(j) ==
  /\ j.pc = "ports"
  /\ \E s \in j.rest :
       /\ fwd' = [w \in WorkerIDs |-> IF w \in WidsOf(s) THEN s ELSE fwd[w]]
       /\ Goto(j, IF j.rest = {s}
                  THEN [j EXCEPT !.pc = IF j.type = "new" THEN "idle" ELSE "packets", !.rest = j.nodes]
                  ELSE [j EXCEPT !.rest = @ \ {s}])
  /\ UNCHANGED <<num, idleList, idleCount, told, up>>

(* The cells of the new worker IDs are given the numbers that follow the   *)
(* idle count; the count itself is computed, but not written.              *)
AddIdle(j) ==
  /\ j.pc = "idle"
  /\ idleList' = [w \in WorkerIDs |->
       IF \E s \in j.nodes : w \in WidsOf(s)
       THEN idleCount + w - first[CHOOSE s \in j.nodes : TRUE] ELSE idleList[w]]
  /\ End(j)
  /\ UNCHANGED <<num, fwd, idleCount, told, up>>

(* A WORKER_ID packet has the index of the leaf for its pool and part of   *)
(* its destination, where the tables have the leaf's ID: with another      *)
(* index it goes to some other leaf.                                       *)
SendPacket(j) ==
  /\ j.pc = "packets"
  /\ \E s \in j.rest :
       /\ told' = [t \in Servers |->
            IF index = LeafID /\ fwd[first[s]] = t THEN first[s] ELSE told[t]]
       /\ IF j.rest = {s} THEN End(j) ELSE Goto(j, [j EXCEPT !.rest = @ \ {s}])
  /\ UNCHANGED <<tableVars, up>>

Step(j) ==
  /\ up
  /\ \/ CountWorkers(j) \/ NilServer(j) \/ WriteNum(j) \/ WritePorts(j)
     \/ AddIdle(j) \/ SendPacket(j)
  /\ UNCHANGED <<topoVars, healthVars, failing, calls>>

-----------------------------------------------------------------------------
Health == Scan \/ LookUpFailed \/ RemoveFailed \/ Report
Handlers == \E f \in failing : FinishFail(f)
Jobs == \E j \in jobs : Step(j)

Next ==
  \/ \E s \in Servers : AddServer(s) \/ FailServer(s)
  \/ \E i \in Indexes : ChangeIndex(i)
  \/ \E s \in Servers : Crash(s) \/ OnNodePingRecv(s) \/ TimePasses(s)
  \/ Handlers
  \/ Health
  \/ Jobs

(* The handlers, the health manager and the goroutines run on, and time    *)
(* passes.  Nobody has to call, ping or crash.                             *)
Spec ==
  /\ Init /\ [][Next]_vars
  /\ WF_vars(Handlers) /\ WF_vars(Health) /\ WF_vars(Jobs)
  /\ \A s \in Servers : WF_vars(s \in crashed /\ TimePasses(s))

-----------------------------------------------------------------------------
(* Properties.                                                             *)

TypeOK ==
  /\ children \in Seq(Servers)
  /\ first \in [Servers -> WorkerIDs \cup {None}]
  /\ index \in Indexes \cup {LeafID}
  /\ seen \subseteq Servers /\ fresh \subseteq Servers /\ crashed \subseteq Servers
  /\ failing \subseteq [id : 0 .. MaxCalls, server : Servers]
  /\ hm \in [pc : {"scan", "remove", "cut"}, failed : Seq(Servers), moved : SUBSET Servers]
  /\ \A j \in jobs : j.nodes \subseteq Servers /\ j.nodes # {} /\ j.count \in 0 .. MaxTotal
  /\ num \in 0 .. MaxTotal
  /\ fwd \in [WorkerIDs -> Servers \cup {None}]
  /\ idleList \in [WorkerIDs -> Nat \cup {None}]
  /\ idleCount \in 0 .. MaxTotal
  /\ told \in [Servers -> WorkerIDs \cup {None}]
  /\ joined \in [Servers -> WorkerIDs \cup {None}]
  /\ up \in BOOLEAN
  /\ calls \in 0 .. MaxCalls

Quiet == up /\ Calm

(* When no goroutine is left, each worker of each server is among those    *)
(* the data plane chooses from and is reached through its server; what     *)
(* else may be chosen is reached through servers that are gone.            *)
WorkersAreReached ==
  Quiet => /\ \A s \in Live : \A w \in WidsOf(s) : w < num /\ fwd[w] = s
           /\ \A w \in Total(children) .. num - 1 : fwd[w] \notin Live

(* When no goroutine is left, a packet has told every server that was      *)
(* moved the worker IDs it has now, however often it was moved by the      *)
(* failures of others: a server that no packet reached since it joined has *)
(* the IDs it joined with.                                                 *)
MovedServersAreTold ==
  Quiet => \A s \in Live :
    told[s] = first[s] \/ (told[s] = None /\ joined[s] = first[s])

(* A server that pinged and then crashed is removed.                       *)
CrashedServersLeave ==
  \A s \in Servers : s \in Live \cap crashed \cap seen ~> s \notin Live \/ ~up

=============================================================================
