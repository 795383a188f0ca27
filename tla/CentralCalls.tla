---------------------------- MODULE CentralCalls ----------------------------
(***************************************************************************)
(* The calls of the central controller while others are in progress.  gRPC *)
(* runs every call in a goroutine of its own; Topology and VCManager take  *)
(* one call at a time, this module cuts each call where the code takes or  *)
(* gives up a lock, and where it uses what it read without one:            *)
(*   Topology.Lock  held by RemoveServer and by the end of RemoveLeaf      *)
(*   Node.Lock      of a leaf, held by AddServerToLeaf and for the slicing *)
(*                  in RemoveServer; of the spine, by AddLeafToSpine       *)
(* NodeMap, vcMap and vcListMap lock each access.  One spine; a server of  *)
(* a call comes with Workers workers.                                      *)
(*                                                                         *)
(* The locks do not cover everything.  The code makes no call wait for     *)
(* another; the pairs of calls that it does not cover are the races below, *)
(* each with a name.  Two calls that are in a race overlap only when       *)
(* Overlaps has its name; all others always may.                           *)
(*                                                                         *)
(* An operator Bad_X before X is X with one plausible mistake; no action   *)
(* uses it.                                                                *)
(***************************************************************************)
EXTENDS Integers, SequencesExt

CONSTANTS
  Leaves, Servers, VCIds, None,
  Callers,    \* goroutines that serve calls
  Workers,    \* workers of a server
  Starts,     \* sequences of [leaf, servers] to start with, in order
  Overlaps,   \* the races that happen, of RaceNames
  MaxCalls    \* bound: calls made

ASSUME WorkersAssumption == Workers \in Nat /\ Workers > 1
ASSUME NoneIsNobody == None \notin Callers \cup Leaves \cup Servers \cup VCIds
RaceNames ==
  {"addTwice", "failTwice", "failLeafAndServer", "addAndFailServer", "addServerFailLeaf",
   "addAndFailLeaf", "newVCAndFail", "sharedVC", "siblings"}
ASSUME OverlapsAssumption == Overlaps \subseteq RaceNames
ASSUME MaxCallsAssumption == MaxCalls \in Nat

\* the leaves and servers to start with have different IDs; a VC has servers,
\* which are below a leaf
StartOK(start) ==
  /\ start.leaves \in Seq([leaf : Leaves, servers : Seq(Servers)])
  /\ \A i, j \in 1 .. Len(start.leaves) :
       /\ start.leaves[i].leaf = start.leaves[j].leaf => i = j
       /\ \A x \in 1 .. Len(start.leaves[i].servers), y \in 1 .. Len(start.leaves[j].servers) :
            start.leaves[i].servers[x] = start.leaves[j].servers[y] => i = j /\ x = y
  /\ IsFiniteSet(DOMAIN start.vcs) /\ DOMAIN start.vcs \subseteq VCIds
  /\ \A v \in DOMAIN start.vcs :
       /\ start.vcs[v] # {}
       /\ start.vcs[v] \subseteq UNION {Range(start.leaves[i].servers) : i \in 1 .. Len(start.leaves)}

ASSUME StartsAssumption == \A start \in Starts : StartOK(start)

VARIABLES
  up,          \* the process runs; a panic in a handler ends it
  spineLeaves, \* Children of the spine
  index,       \* Index of each leaf
  leaves,      \* the leaves in Topology.Leaves
  nodes,       \* Children of each leaf, with their worker IDs
  leafLast,    \* LastWorkerID of each leaf
  parent,      \* Topology.Servers and their Parent, None when not in the map
  topoLock,    \* the caller that holds Topology.Lock, or None
  leafLock,    \* the caller that holds the Lock of each leaf, or None
  vcs,         \* the IDs in vcm.vcs
  vcServers,   \* Servers of each VC
  vcLeaves,    \* Leaves of each VC
  serverVCs,   \* vcm.serverVCs: the list of each server
  leafVCs,     \* vcm.leafVCs: the list of each leaf
  call,        \* the call each caller serves, None when it has none
  pc,          \* where each caller is in it
  loc,         \* the local variables of each caller
  calls        \* number of calls made

tree  == <<spineLeaves, index, leaves, nodes, leafLast, parent>>
locks == <<topoLock, leafLock>>
books == <<vcs, vcServers, vcLeaves, serverVCs, leafVCs>>
vars  == <<up, tree, locks, books, call, pc, loc, calls>>

ServerNode == [id : Servers, first : Nat, last : Nat]

Call ==
  [op : {"AddLeaf", "FailLeaf"}, leaf : Leaves]
  \cup [op : {"AddServer", "FailServer"}, server : Servers, leaf : Leaves]
  \cup [op : {"AddVC"}, vc : VCIds, servers : SUBSET Servers, leaves : SUBSET Leaves]
  \cup [op : {"RemoveVC"}, vc : VCIds]

\* a call in progress, and the VCs it was about as it began
Served == [of : Call, clusters : SUBSET VCIds]

ASSUME NoneIsNoCall == None \notin Served

(* list: the slice of VCs a detaching loop goes over, i: the turn it is at,*)
(* vc: the VC of that turn; alone: DetachServer found no other server of   *)
(* the leaf in it; lost: the servers DetachLeaf took from it; victim: the  *)
(* argument of the RemoveServer in progress; at: removedIdx + 1; total:    *)
(* workerID at the end of the loop that numbers the servers.               *)
Local == [list : Seq(VCIds), i : Nat, vc : VCIds \cup {None}, alone : BOOLEAN,
          lost : SUBSET Servers, victim : Servers \cup {None}, at : Nat, total : Nat]

NoLocals == [list |-> <<>>, i |-> 0, vc |-> None, alone |-> FALSE,
             lost |-> {}, victim |-> None, at |-> 0, total |-> 0]

IdsOf(list) == {list[i].id : i \in 1 .. Len(list)}

-----------------------------------------------------------------------------
(* The races.                                                              *)

Ops(k, j) == {k.op, j.op}

\* the calls are of these kinds, and about one leaf or one server
OneLeaf(k, j, kinds)   == Ops(k, j) = kinds /\ k.leaf = j.leaf
OneServer(k, j, kinds) == Ops(k, j) = kinds /\ k.server = j.server

AddTwice(k, j)  == OneLeaf(k, j, {"AddLeaf"}) \/ OneServer(k, j, {"AddServer"})
FailTwice(k, j) == OneLeaf(k, j, {"FailLeaf"}) \/ OneServer(k, j, {"FailServer"})

NewVCAndFail(k, j) ==
  /\ k.op = "AddVC"
  /\ \/ j.op = "FailServer" /\ j.server \in k.servers
     \/ j.op = "FailLeaf" /\ j.leaf \in k.leaves

\* the VCs call k is about
Clusters(k) ==
  CASE k.op = "FailLeaf"              -> Range(leafVCs[k.leaf])
    [] k.op = "FailServer"            -> Range(serverVCs[k.server])
    [] k.op \in {"AddVC", "RemoveVC"} -> {k.vc}
    [] OTHER                          -> {}

Happens(race) == race \in Overlaps

(* May call k begin while the one in busy is served?  Failures of servers  *)
(* of one VC overlap, but for siblings, servers of one leaf.  An ID stands *)
(* for one VC: when sharedVC lets a second VC get the ID of one that       *)
(* another call still has, what becomes of the first is not modelled.      *)
MayOverlap(k, busy) ==
  LET j == busy.of
      share == Clusters(k) \cap busy.clusters # {}
  IN  /\ AddTwice(k, j) => Happens("addTwice")
      /\ FailTwice(k, j) => Happens("failTwice")
      /\ OneLeaf(k, j, {"FailLeaf", "FailServer"}) => Happens("failLeafAndServer")
      /\ OneLeaf(k, j, {"AddServer", "FailServer"}) => Happens("addAndFailServer")
      /\ OneLeaf(k, j, {"AddServer", "FailLeaf"}) => Happens("addServerFailLeaf")
      /\ Ops(k, j) = {"AddLeaf", "FailLeaf"} => Happens("addAndFailLeaf")
      /\ NewVCAndFail(k, j) \/ NewVCAndFail(j, k) => Happens("newVCAndFail")
      /\ share /\ Ops(k, j) # {"FailServer"} => Happens("sharedVC")
      /\ share /\ OneLeaf(k, j, {"FailServer"}) /\ k.server # j.server => Happens("siblings")

(* A call whose first look-up fails returns at once and changes nothing;   *)
(* the calls made here get past it.                                        *)
Begin(c, k, label) ==
  /\ up /\ calls < MaxCalls
  /\ call[c] = None
  /\ \A d \in Callers : call[d] # None => MayOverlap(k, call[d])
  /\ call' = [call EXCEPT ![c] = [of |-> k, clusters |-> Clusters(k)]]
  /\ pc' = [pc EXCEPT ![c] = label]
  /\ calls' = calls + 1
  /\ UNCHANGED <<up, tree, locks, loc>>

K(c) == call[c].of
At(c, label) == up /\ pc[c] = label

Goto(c, label) ==
  /\ pc' = [pc EXCEPT ![c] = label]
  /\ UNCHANGED <<up, call, calls>>

Return(c) ==
  /\ pc' = [pc EXCEPT ![c] = "idle"]
  /\ call' = [call EXCEPT ![c] = None]
  /\ UNCHANGED <<up, calls>>

\* nil pointer or index out of range in a handler; gRPC does not recover
Panic == up' = FALSE /\ UNCHANGED <<tree, locks, books, call, pc, loc, calls>>

-----------------------------------------------------------------------------
(* Adding to the topology.                                                 *)

\* a leaf has an endpoint of its own, that no leaf of the spine may have yet
CallAddLeaf(c, l) ==
  /\ l \notin leaves \cup Range(spineLeaves)
  /\ Begin(c, [op |-> "AddLeaf", leaf |-> l], "appendLeaf")
  /\ UNCHANGED books

\* the leaf is appended and numbered under the spine's lock
AppendLeaf(c) ==
  /\ At(c, "appendLeaf")
  /\ spineLeaves' = Append(spineLeaves, K(c).leaf)
  /\ index' = [index EXCEPT ![K(c).leaf] = Len(spineLeaves)]
  /\ nodes' = [nodes EXCEPT ![K(c).leaf] = <<>>]
  /\ Goto(c, "storeLeaf")
  /\ UNCHANGED <<leaves, leafLast, parent, locks, books, loc>>

StoreLeaf(c) ==
  /\ At(c, "storeLeaf")
  /\ leafLast' = [leafLast EXCEPT ![K(c).leaf] = 0]
  /\ leaves' = leaves \cup {K(c).leaf}
  /\ Return(c)
  /\ UNCHANGED <<spineLeaves, index, nodes, parent, locks, books, loc>>

CallAddServer(c, s, l) ==
  /\ l \in leaves /\ parent[s] = None
  /\ Begin(c, [op |-> "AddServer", server |-> s, leaf |-> l], "appendServer")
  /\ UNCHANGED books

Bad_LeafIsFree(l) == TRUE
LeafIsFree(l) == leafLock[l] = None

\* the new node has no worker IDs yet when it gets into the list
AppendServer(c) ==
  LET l == K(c).leaf
  IN  /\ At(c, "appendServer")
      /\ LeafIsFree(l)
      /\ leafLock' = [leafLock EXCEPT ![l] = c]
      /\ nodes' = [nodes EXCEPT ![l] = Append(@, [id |-> K(c).server, first |-> 0, last |-> 0])]
      /\ Goto(c, "numberServer")
      /\ UNCHANGED <<spineLeaves, index, leaves, leafLast, parent, topoLock, books, loc>>

NumberServer(c) ==
  LET l == K(c).leaf
      first == IF leafLast[l] > 0 THEN leafLast[l] + 1 ELSE 0
      node == [id |-> K(c).server, first |-> first, last |-> first + Workers - 1]
  IN  /\ At(c, "numberServer")
      /\ nodes' = [nodes EXCEPT ![l][Len(nodes[l])] = node]
      /\ leafLast' = [leafLast EXCEPT ![l] = node.last]
      /\ parent' = [parent EXCEPT ![node.id] = l]
      /\ leafLock' = [leafLock EXCEPT ![l] = None]
      /\ Return(c)
      /\ UNCHANGED <<spineLeaves, index, leaves, topoLock, books, loc>>

-----------------------------------------------------------------------------
(* RemoveServer(loc[c].victim), called by FailServer and by RemoveLeaf.    *)

Bad_AfterRemoveServer(c) ==
  IF K(c).op = "FailServer" THEN Return(c) ELSE Goto(c, "lockLeaf")
AfterRemoveServer(c) ==
  IF K(c).op = "FailServer" THEN Return(c) ELSE Goto(c, "drain")

LookUp(c) ==
  /\ At(c, "lookUp")
  /\ IF parent[loc[c].victim] = None THEN AfterRemoveServer(c) ELSE Goto(c, "lock")
  /\ UNCHANGED <<tree, locks, books, loc>>

Bad_TopoIsFree == TRUE
TopoIsFree == topoLock = None

WorkersBefore(list, s, i) ==
  LET sum[j \in 0 .. i] ==
        IF j = 0 THEN 0
        ELSE sum[j - 1] + (IF list[j].id = s THEN 0 ELSE list[j].last - list[j].first + 1)
  IN  sum[i]

\* the loop over the children: they get new worker IDs where they are
Renumbered(list, s) ==
  [i \in 1 .. Len(list) |->
     IF list[i].id = s THEN list[i]
     ELSE [id    |-> list[i].id,
           first |-> WorkersBefore(list, s, i - 1),
           last  |-> WorkersBefore(list, s, i) - 1]]

\* the last place that has s, looked up under Topology.Lock and used after the loop
Position(list, s) == SelectLastInSeq(list, LAMBDA e : e.id = s)

LockTopology(c) ==
  LET l == K(c).leaf
      list == nodes[l]
      s == loc[c].victim
  IN  /\ At(c, "lock")
      /\ TopoIsFree
      /\ topoLock' = c
      /\ nodes' = [nodes EXCEPT ![l] = Renumbered(list, s)]
      /\ loc' = [loc EXCEPT ![c].at = Position(list, s),
                            ![c].total = WorkersBefore(list, s, Len(list))]
      /\ Goto(c, "last")
      /\ UNCHANGED <<spineLeaves, index, leaves, leafLast, parent, leafLock, books>>

SetLeafLast(c) ==
  /\ At(c, "last")
  /\ leafLast' = [leafLast EXCEPT ![K(c).leaf] =
                     IF loc[c].total = 0 THEN 0 ELSE loc[c].total - 1]
  /\ Goto(c, "slice")
  /\ UNCHANGED <<spineLeaves, index, leaves, nodes, parent, locks, books, loc>>

Bad_Unlocked(c) == topoLock
Unlocked(c) == None

SliceServer(c) ==
  /\ At(c, "slice")
  /\ LeafIsFree(K(c).leaf)
  /\ IF loc[c].at = 0 THEN Panic
     ELSE /\ nodes' = [nodes EXCEPT ![K(c).leaf] = RemoveAt(@, loc[c].at)]
          /\ parent' = [parent EXCEPT ![loc[c].victim] = None]
          /\ topoLock' = Unlocked(c)
          /\ loc' = [loc EXCEPT ![c] = NoLocals]
          /\ AfterRemoveServer(c)
          /\ UNCHANGED <<spineLeaves, index, leaves, leafLast, leafLock, books>>

-----------------------------------------------------------------------------
(* FailServer: vcm.DetachServer, then RemoveServer.                        *)

CallFailServer(c, s) ==
  /\ parent[s] # None
  /\ Begin(c, [op |-> "FailServer", server |-> s, leaf |-> parent[s]], "listVCs")
  /\ UNCHANGED books

(* A loop goes over the slice it got from LoadVCList: its length is fixed, *)
(* its cells are those of the list, and RemoveFromVCList moves what is     *)
(* behind the removed VC down in place.  It is called for the lists of     *)
(* some servers and leaves at once here.                                   *)
ListOf(k) == IF k.op = "FailServer" THEN serverVCs[k.server] ELSE leafVCs[k.leaf]

InLoop(d) == call[d] # None /\ pc[d] \in {"scan", "drop", "shed", "detachLeaf", "dropLeaf"}

Bad_PlaceOf(list, v) == IF list = <<>> THEN 0 ELSE 1
PlaceOf(list, v) == SelectInSeq(list, LAMBDA w : w = v)
Unlisted(list, v) == IF PlaceOf(list, v) = 0 THEN list ELSE RemoveAt(list, PlaceOf(list, v))

MovedDown(slice, list, v) ==
  [i \in 1 .. Len(slice) |->
     IF PlaceOf(list, v) \in 1 .. i /\ i < Len(list) THEN list[i + 1] ELSE slice[i]]

RemoveFromVCLists(v, servers, inLeaves) ==
  /\ serverVCs' = [s \in Servers |-> IF s \in servers THEN Unlisted(serverVCs[s], v) ELSE serverVCs[s]]
  /\ leafVCs' = [l \in Leaves |-> IF l \in inLeaves THEN Unlisted(leafVCs[l], v) ELSE leafVCs[l]]

LocalsAfter(v, servers, inLeaves) ==
  [d \in Callers |->
     IF InLoop(d) /\ (IF K(d).op = "FailServer" THEN K(d).server \in servers ELSE K(d).leaf \in inLeaves)
     THEN [loc[d] EXCEPT !.list = MovedDown(@, ListOf(K(d)), v)]
     ELSE loc[d]]

\* the leaves whose lists the RemoveVC of an empty VC goes over
LeavesOfEmpty(v) == IF v \in vcs THEN vcLeaves[v] ELSE {}

ListVCs(c) ==
  /\ At(c, "listVCs")
  /\ loc' = [loc EXCEPT ![c].list = ListOf(K(c)), ![c].i = 1]
  /\ Goto(c, IF K(c).op = "FailServer" THEN "scan" ELSE "detachLeaf")
  /\ UNCHANGED <<tree, locks, books>>

MoreVCs(c) == loc[c].i <= Len(loc[c].list)

\* vc.DetachServer reads the children of the leaf without a lock ...
ScanSiblings(c) ==
  LET s == K(c).server
      v == loc[c].list[loc[c].i]
  IN  /\ At(c, "scan") /\ MoreVCs(c)
      /\ loc' = [loc EXCEPT ![c].vc = v,
                   ![c].alone = /\ s \in vcServers[v]
                                /\ (IdsOf(nodes[K(c).leaf]) \ {s}) \cap vcServers[v] = {}]
      /\ Goto(c, "drop")
      /\ UNCHANGED <<tree, locks, books>>

\* ... then deletes the server ...
DropServer(c) ==
  /\ At(c, "drop")
  /\ vcServers' = [vcServers EXCEPT ![loc[c].vc] = @ \ {K(c).server}]
  /\ Goto(c, "shed")
  /\ UNCHANGED <<tree, locks, vcs, vcLeaves, serverVCs, leafVCs, loc>>

\* ... and the VC Manager takes the leaf out, and the VC when it is empty
Shed(c) ==
  LET v == loc[c].vc
      gone == IF loc[c].alone THEN {K(c).leaf} ELSE {}
      empty == vcServers[v] = {}
      from == gone \cup (IF empty THEN LeavesOfEmpty(v) ELSE {})
  IN  /\ At(c, "shed")
      /\ IF loc[c].alone /\ parent[K(c).server] = None THEN Panic
         ELSE /\ vcLeaves' = [vcLeaves EXCEPT ![v] = @ \ gone]
              /\ vcs' = IF empty THEN vcs \ {v} ELSE vcs
              /\ RemoveFromVCLists(v, {}, from)
              /\ loc' = [LocalsAfter(v, {}, from) EXCEPT ![c].i = @ + 1]
              /\ Goto(c, "scan")
              /\ UNCHANGED <<tree, locks, vcServers>>

Unlist(c) ==
  /\ At(c, "scan") /\ ~MoreVCs(c)
  /\ serverVCs' = [serverVCs EXCEPT ![K(c).server] = <<>>]
  /\ loc' = [loc EXCEPT ![c] = [NoLocals EXCEPT !.victim = K(c).server]]
  /\ Goto(c, "lookUp")
  /\ UNCHANGED <<tree, locks, vcs, vcServers, vcLeaves, leafVCs>>

-----------------------------------------------------------------------------
(* FailLeaf: vcm.DetachLeaf, then RemoveLeaf.                              *)

CallFailLeaf(c, l) ==
  /\ l \in leaves
  /\ Begin(c, [op |-> "FailLeaf", leaf |-> l], "listVCs")
  /\ UNCHANGED books

\* vc.DetachLeaf takes the servers of the leaf out of the VC ...
DetachLeaf(c) ==
  LET l == K(c).leaf
      v == loc[c].list[loc[c].i]
      lost == IF l \in vcLeaves[v] THEN vcServers[v] \cap IdsOf(nodes[l]) ELSE {}
  IN  /\ At(c, "detachLeaf") /\ MoreVCs(c)
      /\ vcServers' = [vcServers EXCEPT ![v] = @ \ lost]
      /\ loc' = [loc EXCEPT ![c].vc = v, ![c].lost = lost]
      /\ Goto(c, "dropLeaf")
      /\ UNCHANGED <<tree, locks, vcs, vcLeaves, serverVCs, leafVCs>>

\* ... then the leaf, and the VC Manager updates the lists
DropLeaf(c) ==
  LET l == K(c).leaf
      v == loc[c].vc
      empty == vcServers[v] = {}
      from == IF empty THEN LeavesOfEmpty(v) \ {l} ELSE {}
  IN  /\ At(c, "dropLeaf")
      /\ vcLeaves' = [vcLeaves EXCEPT ![v] = @ \ {l}]
      /\ vcs' = IF empty THEN vcs \ {v} ELSE vcs
      /\ RemoveFromVCLists(v, loc[c].lost, from)
      /\ loc' = [LocalsAfter(v, loc[c].lost, from) EXCEPT ![c].i = @ + 1]
      /\ Goto(c, "detachLeaf")
      /\ UNCHANGED <<tree, locks, vcServers>>

\* the list of the leaf is deleted and RemoveLeaf looks the leaf up
LookUpLeaf(c) ==
  /\ At(c, "detachLeaf") /\ ~MoreVCs(c)
  /\ leafVCs' = [leafVCs EXCEPT ![K(c).leaf] = <<>>]
  /\ loc' = [loc EXCEPT ![c] = NoLocals]
  /\ IF K(c).leaf \in leaves THEN Goto(c, "drain") ELSE Return(c)
  /\ UNCHANGED <<tree, locks, vcs, vcServers, vcLeaves, serverVCs>>

Bad_HasChildren(l) == TRUE
HasChildren(l) == nodes[l] # <<>>

\* the children are counted, then the first one is read
Drain(c) ==
  /\ At(c, "drain")
  /\ Goto(c, IF HasChildren(K(c).leaf) THEN "first" ELSE "lockLeaf")
  /\ UNCHANGED <<tree, locks, books, loc>>

First(c) ==
  /\ At(c, "first")
  /\ IF nodes[K(c).leaf] = <<>> THEN Panic
     ELSE /\ loc' = [loc EXCEPT ![c].victim = nodes[K(c).leaf][1].id]
          /\ Goto(c, "lookUp")
          /\ UNCHANGED <<tree, locks, books>>

PlaceInSpine(l) == SelectInSeq(spineLeaves, LAMBDA m : m = l)

Bad_IsBehind(l, k) == k # 0 /\ PlaceInSpine(l) >= k
IsBehind(l, k) == k # 0 /\ PlaceInSpine(l) > k

\* removedIdx starts as 0: a leaf that is not found counts as the first one
LockForLeaf(c) ==
  LET l == K(c).leaf
      k == PlaceInSpine(l)
  IN  /\ At(c, "lockLeaf")
      /\ TopoIsFree
      /\ topoLock' = c
      /\ index' = [m \in Leaves |-> IF IsBehind(m, k) THEN index[m] - 1 ELSE index[m]]
      /\ loc' = [loc EXCEPT ![c].at = IF k = 0 THEN 1 ELSE k]
      /\ Goto(c, "cutLeaf")
      /\ UNCHANGED <<spineLeaves, leaves, nodes, leafLast, parent, leafLock, books>>

CutLeaf(c) ==
  /\ At(c, "cutLeaf")
  /\ IF spineLeaves = <<>> THEN Panic
     ELSE /\ spineLeaves' = RemoveAt(spineLeaves, loc[c].at)
          /\ leaves' = leaves \ {K(c).leaf}
          /\ topoLock' = None
          /\ loc' = [loc EXCEPT ![c] = NoLocals]
          /\ Return(c)
          /\ UNCHANGED <<index, nodes, leafLast, parent, leafLock, books>>

-----------------------------------------------------------------------------
(* Virtual clusters.                                                       *)

\* NewVC looks its servers and their leaves up; nobody sees the VC yet
CallAddVC(c, v, servers) ==
  /\ v \notin vcs
  /\ \A s \in servers : parent[s] # None
  /\ Begin(c, [op |-> "AddVC", vc |-> v, servers |-> servers, leaves |-> {parent[s] : s \in servers}],
           "storeVC")
  /\ UNCHANGED books

StoreVC(c) ==
  LET v == K(c).vc
  IN  /\ At(c, "storeVC")
      /\ vcs' = vcs \cup {v}
      /\ vcServers' = [vcServers EXCEPT ![v] = K(c).servers]
      /\ vcLeaves' = [vcLeaves EXCEPT ![v] = K(c).leaves]
      /\ Goto(c, "listVC")
      /\ UNCHANGED <<tree, locks, serverVCs, leafVCs, loc>>

\* the lists of all its servers and leaves at once
ListVC(c) ==
  LET v == K(c).vc
  IN  /\ At(c, "listVC")
      /\ serverVCs' = [s \in Servers |->
                        IF s \in vcServers[v] THEN Append(serverVCs[s], v) ELSE serverVCs[s]]
      /\ leafVCs' = [l \in Leaves |->
                      IF l \in vcLeaves[v] THEN Append(leafVCs[l], v) ELSE leafVCs[l]]
      /\ Return(c)
      /\ UNCHANGED <<tree, locks, vcs, vcServers, vcLeaves, loc>>

CallRemoveVC(c, v) ==
  /\ v \in vcs
  /\ Begin(c, [op |-> "RemoveVC", vc |-> v], "deleteVC")
  /\ UNCHANGED books

DeleteVC(c) ==
  /\ At(c, "deleteVC")
  /\ vcs' = vcs \ {K(c).vc}
  /\ IF K(c).vc \in vcs THEN Goto(c, "unlistVC") ELSE Return(c)
  /\ UNCHANGED <<tree, locks, vcServers, vcLeaves, serverVCs, leafVCs, loc>>

\* likewise
UnlistVC(c) ==
  LET v == K(c).vc
  IN  /\ At(c, "unlistVC")
      /\ RemoveFromVCLists(v, vcServers[v], vcLeaves[v])
      /\ loc' = LocalsAfter(v, vcServers[v], vcLeaves[v])
      /\ Return(c)
      /\ UNCHANGED <<tree, locks, vcs, vcServers, vcLeaves>>

-----------------------------------------------------------------------------
(* A start: leaves with their servers, and one VC with every server.       *)
StartNodes(servers) ==
  [i \in 1 .. Len(servers) |->
     [id |-> servers[i], first |-> (i - 1) * Workers, last |-> i * Workers - 1]]

\* the list of the VCs in some, made in the order the VCs were added
Listed(order, some) ==
  LET list[i \in 0 .. Len(order)] ==
        IF i = 0 THEN <<>>
        ELSE IF order[i] \in some THEN Append(list[i - 1], order[i]) ELSE list[i - 1]
  IN  list[Len(order)]

Init ==
  /\ up = TRUE
  /\ \E start \in Starts :
       LET place(l) == SelectInSeq(start.leaves, LAMBDA e : e.leaf = l)
           below(l) == IF place(l) = 0 THEN <<>> ELSE start.leaves[place(l)].servers
       IN  /\ spineLeaves = [i \in 1 .. Len(start.leaves) |-> start.leaves[i].leaf]
           /\ leaves = Range(spineLeaves)
           /\ index = [l \in Leaves |-> IF l \in leaves THEN place(l) - 1 ELSE 0]
           /\ nodes = [l \in Leaves |-> StartNodes(below(l))]
           /\ leafLast = [l \in Leaves |-> IF below(l) = <<>> THEN 0 ELSE Len(below(l)) * Workers - 1]
           /\ parent = [s \in Servers |-> IF \E l \in leaves : s \in Range(below(l))
                                          THEN CHOOSE l \in leaves : s \in Range(below(l)) ELSE None]
           /\ vcs = DOMAIN start.vcs
           /\ vcServers = [v \in VCIds |-> IF v \in vcs THEN start.vcs[v] ELSE {}]
  /\ vcLeaves = [v \in VCIds |-> {parent[s] : s \in vcServers[v]}]
  /\ \E order \in SetToSeqs(vcs) :
       /\ serverVCs = [s \in Servers |-> Listed(order, {v \in vcs : s \in vcServers[v]})]
       /\ leafVCs = [l \in Leaves |-> Listed(order, {v \in vcs : l \in vcLeaves[v]})]
  /\ topoLock = None
  /\ leafLock = [l \in Leaves |-> None]
  /\ call = [c \in Callers |-> None]
  /\ pc = [c \in Callers |-> "idle"]
  /\ loc = [c \in Callers |-> NoLocals]
  /\ calls = 0

Calls(c) ==
  \/ \E l \in Leaves : CallAddLeaf(c, l) \/ CallFailLeaf(c, l)
  \/ \E s \in Servers : CallFailServer(c, s) \/ \E l \in Leaves : CallAddServer(c, s, l)
  \/ \E v \in VCIds : CallRemoveVC(c, v) \/ \E servers \in (SUBSET Servers) \ {{}} : CallAddVC(c, v, servers)

Serve(c) ==
  \/ AppendLeaf(c) \/ StoreLeaf(c) \/ AppendServer(c) \/ NumberServer(c)
  \/ LookUp(c) \/ LockTopology(c) \/ SetLeafLast(c) \/ SliceServer(c)
  \/ ListVCs(c) \/ ScanSiblings(c) \/ DropServer(c) \/ Shed(c) \/ Unlist(c)
  \/ DetachLeaf(c) \/ DropLeaf(c) \/ LookUpLeaf(c) \/ Drain(c) \/ First(c) \/ LockForLeaf(c) \/ CutLeaf(c)
  \/ StoreVC(c) \/ ListVC(c) \/ DeleteVC(c) \/ UnlistVC(c)

Next == \E c \in Callers : Calls(c) \/ Serve(c)

\* a goroutine runs on until it waits for a lock
Spec == Init /\ [][Next]_vars /\ \A c \in Callers : WF_vars(Serve(c))

-----------------------------------------------------------------------------
(* Properties.                                                             *)

Labels == {"idle", "appendLeaf", "storeLeaf", "appendServer", "numberServer", "lookUp", "lock",
           "last", "slice", "listVCs", "scan", "drop", "shed", "detachLeaf", "dropLeaf", "drain", "first",
           "lockLeaf", "cutLeaf", "storeVC", "listVC", "deleteVC", "unlistVC"}

\* Every variable has its type.
TypeOK ==
  /\ up \in BOOLEAN
  /\ spineLeaves \in Seq(Leaves) /\ leaves \subseteq Leaves
  /\ index \in [Leaves -> Nat]
  /\ nodes \in [Leaves -> Seq(ServerNode)]
  /\ leafLast \in [Leaves -> Nat]
  /\ parent \in [Servers -> Leaves \cup {None}]
  /\ topoLock \in Callers \cup {None}
  /\ leafLock \in [Leaves -> Callers \cup {None}]
  /\ vcs \subseteq VCIds
  /\ vcServers \in [VCIds -> SUBSET Servers] /\ vcLeaves \in [VCIds -> SUBSET Leaves]
  /\ serverVCs \in [Servers -> Seq(VCIds)] /\ leafVCs \in [Leaves -> Seq(VCIds)]
  /\ call \in [Callers -> Served \cup {None}]
  /\ pc \in [Callers -> Labels]
  /\ loc \in [Callers -> Local]
  /\ calls \in 0 .. MaxCalls

Quiet == \A c \in Callers : call[c] = None

(* When no call is in progress the lists of children, the maps, the        *)
(* indexes of the leaves and the worker IDs fit together, as they do when  *)
(* calls come one by one: the two locks, one for what adds and one for     *)
(* what removes, keep overlapping calls from losing or renumbering a node  *)
(* behind each other's back.                                               *)
TreeIsWhole ==
  Quiet =>
    /\ Range(spineLeaves) = leaves
    /\ \A i \in 1 .. Len(spineLeaves) : index[spineLeaves[i]] = i - 1
    /\ \A l \in Leaves, s \in Servers : parent[s] = l <=> l \in leaves /\ s \in IdsOf(nodes[l])
    /\ \A l \in leaves : \A i \in 1 .. Len(nodes[l]) :
         /\ nodes[l][i].first = (i - 1) * Workers
         /\ nodes[l][i].last = i * Workers - 1
    /\ \A l \in leaves : leafLast[l] = IF nodes[l] = <<>> THEN 0 ELSE Len(nodes[l]) * Workers - 1

(* When no call is in progress a VC has servers, its leaves are just those *)
(* its servers are below, and the lists of servers and leaves name just    *)
(* the VCs that have them: so a failure finds every VC it concerns, no VC  *)
(* keeps a leaf it has no server below, and one that lost its last server, *)
(* to whatever calls, is gone and in no list.                              *)
VCsAreWhole ==
  Quiet =>
    /\ \A v \in vcs : vcServers[v] # {}
    /\ \A v \in vcs : \A s \in vcServers[v] : parent[s] # None
    /\ \A v \in vcs : vcLeaves[v] = {parent[s] : s \in vcServers[v]}
    /\ \A s \in Servers : Range(serverVCs[s]) = {v \in vcs : s \in vcServers[v]}
    /\ \A l \in Leaves : Range(leafVCs[l]) = {v \in vcs : l \in vcLeaves[v]}

(* The handlers do not panic: what one looked up, found in a list or       *)
(* counted is still there when it uses it, whatever other calls do.        *)
HandlersDoNotPanic == up

(* A VC has a leaf only as long as it has a server below it: DetachServer  *)
(* takes the leaf out with the last of its servers.                        *)
LeavesOfVCsHaveServers ==
  Quiet => \A v \in vcs : \A l \in vcLeaves[v] : \E s \in vcServers[v] : parent[s] = l

(* No node is in a list of children twice: what is there already is not    *)
(* added again.                                                            *)
NodesAreListedOnce ==
  /\ IsInjective(spineLeaves)
  /\ \A l \in Leaves : \A i, j \in 1 .. Len(nodes[l]) : nodes[l][i].id = nodes[l][j].id => i = j

(* A server that is no longer in the topology is in no VC: DetachServer    *)
(* "Detaches a server from the VC Manager, and from every VC in the system"*)
FailedServersAreInNoVC ==
  Quiet => \A v \in vcs : \A s \in vcServers[v] : parent[s] # None

(* A leaf or server leaves its parent's list only in the call that removes *)
(* it, however the list changed since that call looked its place up.       *)
OnlyVictimsGo ==
  [][/\ \A l \in Leaves : l \in Range(spineLeaves) /\ l \notin Range(spineLeaves') =>
            \E c \in Callers : pc[c] = "cutLeaf" /\ K(c).leaf = l
     /\ \A l \in Leaves : \A s \in IdsOf(nodes[l]) \ IdsOf(nodes'[l]) :
            \E c \in Callers : pc[c] = "slice" /\ loc[c].victim = s]_vars

(* However calls overlap, each takes effect as if they came one by one: a  *)
(* look-up finds what the abstract tree has, and a leaf is gone only after *)
(* the last of its servers.                                                *)
TheSpine == "spine"
ASSUME SpineIsSomebody == None # TheSpine

AsTree == INSTANCE Tree WITH
  Spines  <- {TheSpine},
  spineOf <- [l \in Leaves |-> IF l \in leaves THEN TheSpine ELSE None],
  leafOf  <- parent
CallsImplementTree == AsTree!TreeSpec

(* Every call returns: no two goroutines wait for each other's locks, and  *)
(* the loop of RemoveLeaf ends although other calls remove servers.        *)
EveryCallReturns == \A c \in Callers : up /\ call[c] # None ~> ~up \/ call[c] = None

=============================================================================
