------------------------------ MODULE Topology ------------------------------
(***************************************************************************)
(* The tree every Horus controller keeps (core/model/topology.go): spines  *)
(* have an ordered list of leaves, leaves an ordered list of servers, and  *)
(* NodeMaps find a node by its ID.  A leaf's Index is its position below   *)
(* its spine, which the data plane uses to address it.  A server owns the  *)
(* worker IDs First..Last, numbered per leaf; the data plane of the leaf   *)
(* schedules tasks on those IDs.                                           *)
(*                                                                         *)
(* One action is one call of the Go method of the same name, run alone.    *)
(* The node objects are the records in the lists of children; the two      *)
(* maps and the Parent pointers are spineOf and leafOf.  Calls that fail   *)
(* leave the tree as it is: they are the stuttering steps.                 *)
(*                                                                         *)
(* An operator Bad_X before X is X with one plausible mistake; no action   *)
(* uses it.  Checking with X defined as Bad_X shows that a property of the *)
(* last part of the module would notice the mistake.                       *)
(***************************************************************************)
EXTENDS Integers, SequencesExt

CONSTANTS
  Spines,       \* IDs of the spines; the set is fixed when the program starts
  Leaves,       \* IDs a leaf may have
  Servers,      \* IDs a server may have
  Endpoints,    \* <<MgmtAddress, Address>> pairs of a leaf's RPC endpoint
  Counts,       \* WorkersCount values a request or a configuration may carry
  None,         \* "no such node" in a NodeMap
  WordSize,     \* worker IDs and indexes are unsigned words (2^16 in Go)
  MaxWorkers,   \* bound: workers on one leaf
  MaxLeaves,    \* bound: leaves below one spine
  Confs         \* the configurations the program may be started with

Word == 0 .. WordSize - 1

LeafNode   == [id : Leaves, index : Word, endpoint : Endpoints]
ServerNode == [id : Servers, first : Word, last : Word]

(* A configuration names the leaves of each spine and the servers of each  *)
(* leaf, in order; it gives a leaf its Index and a server its workers.     *)
LeafConf   == [id : Leaves, index : Word, endpoint : Endpoints]
ServerConf == [id : Servers, workers : Counts]
Conf       == [leaves : [Spines -> Seq(LeafConf)], servers : [Leaves -> Seq(ServerConf)]]

ASSUME NoneIsNoNode == None \notin Spines \cup Leaves
ASSUME WordAssumption ==
  /\ WordSize \in Nat /\ MaxWorkers \in Nat /\ MaxLeaves \in Nat
  /\ MaxWorkers + 1 < WordSize /\ MaxLeaves < WordSize
  /\ Counts \subseteq 0 .. MaxWorkers

VARIABLES
  leavesOf,   \* Node.Children of each spine
  serversOf,  \* Node.Children of each leaf
  leafLast,   \* Node.LastWorkerID of each leaf (its FirstWorkerID is always 0)
  spineOf,    \* Topology.Leaves and their Parent: None when not in the map
  leafOf,     \* Topology.Servers and their Parent: None when not in the map
  updated     \* the nodes the last removal returned as renumbered

vars == <<leavesOf, serversOf, leafLast, spineOf, leafOf, updated>>

-----------------------------------------------------------------------------
(* Worker IDs: unsigned words that wrap around.                            *)

Incr(w) == (w + 1) % WordSize

Bad_DecrSigned(w) == w - 1
Decr(w) == (w - 1) % WordSize

\* LastWorkerID - FirstWorkerID + 1
WorkerCount(srv) == (srv.last - srv.first + 1) % WordSize

(* The loops that number the servers of a leaf: workerID starts at 0 and   *)
(* after server i it is Offsets(counts)[i].                                *)
Offsets(counts) ==
  LET workerID[i \in 0 .. Len(counts)] ==
        IF i = 0 THEN 0 ELSE (workerID[i - 1] + counts[i]) % WordSize
  IN  workerID

Numbered(ids, counts) ==
  [i \in 1 .. Len(ids) |-> [id    |-> ids[i],
                            first |-> Offsets(counts)[i - 1],
                            last  |-> Decr(Offsets(counts)[i])]]

IdsOf(nodes) == [i \in 1 .. Len(nodes) |-> nodes[i].id]

-----------------------------------------------------------------------------
(* Loading and encoding.                                                   *)

\* NewDCNFromConf and NewDCNFromTopoInfo: the servers of one leaf
LoadServers(confs) ==
  Numbered(IdsOf(confs), [i \in 1 .. Len(confs) |-> confs[i].workers])

LoadLeafLast(confs) ==
  Decr(Offsets([i \in 1 .. Len(confs) |-> confs[i].workers])[Len(confs)])

\* EncodeToTopoInfo and EncodeToTopoInfoAtLeaf: the servers of one leaf
Bad_EncodedCount(srv) == IF srv.last > srv.first THEN srv.last - srv.first ELSE 0
EncodedCount(srv) == IF srv.last > srv.first THEN WorkerCount(srv) ELSE 0

EncodeServers(nodes) ==
  [i \in 1 .. Len(nodes) |-> [id |-> nodes[i].id, workers |-> EncodedCount(nodes[i])]]

ParentIn(children, id) ==
  IF \E p \in DOMAIN children : id \in Range(IdsOf(children[p]))
  THEN CHOOSE p \in DOMAIN children : id \in Range(IdsOf(children[p]))
  ELSE None

InitFrom(conf) ==
  /\ leavesOf = conf.leaves
  /\ serversOf = [l \in Leaves |-> LoadServers(conf.servers[l])]
  /\ spineOf = [l \in Leaves |-> ParentIn(conf.leaves, l)]
  /\ leafLast = [l \in Leaves |-> IF spineOf[l] = None THEN 0
                                  ELSE LoadLeafLast(conf.servers[l])]
  /\ leafOf = [s \in Servers |-> ParentIn(conf.servers, s)]
  /\ updated = {}

Init == \E conf \in Confs : InitFrom(conf)

-----------------------------------------------------------------------------
(* The operations.                                                         *)

EndpointFree(nodes, endpoint) == \A i \in 1 .. Len(nodes) : nodes[i].endpoint # endpoint

AddLeafToSpine(l, sp, endpoint) ==
  /\ spineOf[l] = None
  /\ EndpointFree(leavesOf[sp], endpoint)
  /\ Len(leavesOf[sp]) < MaxLeaves
  /\ leavesOf' = [leavesOf EXCEPT ![sp] = Append(@,
                    [id |-> l, index |-> Len(@) % WordSize, endpoint |-> endpoint])]
  /\ spineOf' = [spineOf EXCEPT ![l] = sp]
  /\ leafLast' = [leafLast EXCEPT ![l] = 0]
  /\ updated' = {}
  /\ UNCHANGED <<serversOf, leafOf>>

\* the worker ID the next server of leaf l starts at
NextWorkerID(l) == IF leafLast[l] > 0 THEN Incr(leafLast[l]) ELSE 0

AddServerToLeaf(s, l, count) ==
  /\ spineOf[l] # None
  /\ leafOf[s] = None
  /\ NextWorkerID(l) + count <= MaxWorkers
  /\ LET last == Decr(NextWorkerID(l) + count)
     IN  /\ serversOf' = [serversOf EXCEPT ![l] =
                            Append(@, [id |-> s, first |-> NextWorkerID(l), last |-> last])]
         /\ leafLast' = [leafLast EXCEPT ![l] = last]
  /\ leafOf' = [leafOf EXCEPT ![s] = l]
  /\ updated' = {}
  /\ UNCHANGED <<leavesOf, spineOf>>

(* The servers that stay are numbered anew from 0 with the counts they     *)
(* had; the ones after the removed server are returned.                    *)
Bad_Renumbered(nodes) == nodes
Renumbered(nodes) ==
  Numbered(IdsOf(nodes), [i \in 1 .. Len(nodes) |-> WorkerCount(nodes[i])])

WorkersTotal(nodes) ==
  Offsets([i \in 1 .. Len(nodes) |-> WorkerCount(nodes[i])])[Len(nodes)]

Bad_Without(nodes, k) ==
  [i \in 1 .. Len(nodes) - 1 |-> IF i = k THEN nodes[Len(nodes)] ELSE nodes[i]]
Without(nodes, k) == RemoveAt(nodes, k)

Bad_Behind(nodes, k) == {nodes[i].id : i \in k + 2 .. Len(nodes)}
Behind(nodes, k) == {nodes[i].id : i \in k + 1 .. Len(nodes)}

RemoveServer(s) ==
  /\ leafOf[s] # None
  /\ LET l == leafOf[s]
         nodes == serversOf[l]
     IN  \E k \in 1 .. Len(nodes) :
           LET rest  == Without(nodes, k)
               total == WorkersTotal(rest)
           IN  /\ nodes[k].id = s
               /\ serversOf' = [serversOf EXCEPT ![l] = Renumbered(rest)]
               /\ leafLast' = [leafLast EXCEPT ![l] = IF total = 0 THEN 0 ELSE Decr(total)]
               /\ updated' = Behind(nodes, k)
  /\ leafOf' = [leafOf EXCEPT ![s] = None]
  /\ UNCHANGED <<leavesOf, spineOf>>

\* the leaves below a spine when leaf k goes: the ones after it move down
LeavesWithout(nodes, k) ==
  [i \in 1 .. Len(nodes) - 1 |->
     IF i < k THEN nodes[i] ELSE [nodes[i + 1] EXCEPT !.index = Decr(@)]]

\* the servers in the map after leaf l lost all its children
Bad_LeafOfWithout(l) == leafOf
LeafOfWithout(l) == [s \in Servers |-> IF leafOf[s] = l THEN None ELSE leafOf[s]]

(* RemoveServer on the first child until there is none left, then the leaf *)
(* itself; the leaves after it are returned.                               *)
RemoveLeaf(l) ==
  /\ spineOf[l] # None
  /\ LET sp == spineOf[l]
         nodes == leavesOf[sp]
     IN  \E k \in 1 .. Len(nodes) :
           /\ nodes[k].id = l
           /\ leavesOf' = [leavesOf EXCEPT ![sp] = LeavesWithout(nodes, k)]
           /\ updated' = Behind(nodes, k)
  /\ serversOf' = [serversOf EXCEPT ![l] = <<>>]
  /\ leafLast' = [leafLast EXCEPT ![l] = 0]
  /\ leafOf' = LeafOfWithout(l)
  /\ spineOf' = [spineOf EXCEPT ![l] = None]

Next ==
  \/ \E l \in Leaves, sp \in Spines, e \in Endpoints : AddLeafToSpine(l, sp, e)
  \/ \E s \in Servers, l \in Leaves, c \in Counts : AddServerToLeaf(s, l, c)
  \/ \E s \in Servers : RemoveServer(s)
  \/ \E l \in Leaves : RemoveLeaf(l)

Spec == Init /\ [][Next]_vars

-----------------------------------------------------------------------------
(* What a configuration must be: every ID used once, indexes and endpoints *)
(* as AddLeafToSpine would have them, and workers that fit a leaf.         *)

UniqueIds(children) ==
  \A p, q \in DOMAIN children : \A i \in 1 .. Len(children[p]), j \in 1 .. Len(children[q]) :
    children[p][i].id = children[q][j].id => p = q /\ i = j

ConfCounts(conf, l) == [i \in 1 .. Len(conf.servers[l]) |-> conf.servers[l][i].workers]

ConfOK(conf) ==
  /\ conf \in Conf
  /\ UniqueIds(conf.leaves)
  /\ UniqueIds(conf.servers)
  /\ \A sp \in Spines :
       /\ Len(conf.leaves[sp]) <= MaxLeaves
       /\ \A i \in 1 .. Len(conf.leaves[sp]) : conf.leaves[sp][i].index = i - 1
       /\ \A i, j \in 1 .. Len(conf.leaves[sp]) :
            conf.leaves[sp][i].endpoint = conf.leaves[sp][j].endpoint => i = j
  /\ \A l \in Leaves :
       /\ conf.servers[l] # <<>> =>
            \E sp \in Spines : \E i \in 1 .. Len(conf.leaves[sp]) : conf.leaves[sp][i].id = l
       /\ \A i \in 1 .. Len(conf.servers[l]) :
            Offsets(ConfCounts(conf, l))[i - 1] + conf.servers[l][i].workers <= MaxWorkers

ASSUME ConfsAssumption == \A conf \in Confs : ConfOK(conf)

-----------------------------------------------------------------------------
(* Properties.                                                             *)

\* Every variable has its type.
TypeOK ==
  /\ leavesOf \in [Spines -> Seq(LeafNode)]
  /\ serversOf \in [Leaves -> Seq(ServerNode)]
  /\ leafLast \in [Leaves -> Word]
  /\ spineOf \in [Leaves -> Spines \cup {None}]
  /\ leafOf \in [Servers -> Leaves \cup {None}]
  /\ updated \subseteq Leaves \cup Servers

(* The maps and the tree agree: a node is found by its ID exactly when it  *)
(* is a child of its parent, it is the child of one parent only, once, and *)
(* nothing hangs below a leaf that is gone (RemoveLeaf must take all of    *)
(* its servers with it, RemoveServer must leave both the list and the map).*)
MapsMatchTree ==
  /\ \A l \in Leaves, sp \in Spines :
       spineOf[l] = sp <=> \E i \in 1 .. Len(leavesOf[sp]) : leavesOf[sp][i].id = l
  /\ \A s \in Servers, l \in Leaves :
       leafOf[s] = l <=> \E i \in 1 .. Len(serversOf[l]) : serversOf[l][i].id = s
  /\ \A sp \in Spines : \A i, j \in 1 .. Len(leavesOf[sp]) :
       leavesOf[sp][i].id = leavesOf[sp][j].id => i = j
  /\ \A l \in Leaves : \A i, j \in 1 .. Len(serversOf[l]) :
       serversOf[l][i].id = serversOf[l][j].id => i = j
  /\ \A l \in Leaves : spineOf[l] = None => serversOf[l] = <<>>

(* The Index of a leaf, by which the data plane of its spine addresses it, *)
(* is its position below the spine, whatever leaves came and went.         *)
IndexIsPosition ==
  \A sp \in Spines : \A i \in 1 .. Len(leavesOf[sp]) : leavesOf[sp][i].index = i - 1

(* The check of AddLeafToSpine keeps the RPC endpoints of the leaves of    *)
(* one spine distinct.                                                     *)
EndpointsUniquePerSpine ==
  \A sp \in Spines : \A i, j \in 1 .. Len(leavesOf[sp]) :
    leavesOf[sp][i].endpoint = leavesOf[sp][j].endpoint => i = j

(* "worker IDs are contigous for Servers belonging to the same Leaf": the  *)
(* first server starts at 0, each other one where the previous one ends.   *)
WorkerIDsContiguous ==
  \A l \in Leaves : \A i \in 1 .. Len(serversOf[l]) :
    serversOf[l][i].first = IF i = 1 THEN 0 ELSE Incr(serversOf[l][i - 1].last)

WorkersOf(srv) == srv.first .. srv.first + WorkerCount(srv) - 1

(* No two servers of a leaf own the same worker ID, and every worker ID    *)
(* the leaf's data plane iterates over (0..LastWorkerID) is owned by one.  *)
WorkersPartitionLeaf ==
  \A l \in Leaves :
    LET nodes == serversOf[l]
    IN  /\ \A i, j \in 1 .. Len(nodes) :
             i # j => WorkersOf(nodes[i]) \cap WorkersOf(nodes[j]) = {}
        /\ leafLast[l] \notin {0, WordSize - 1} =>
             \A w \in 0 .. leafLast[l] : \E i \in 1 .. Len(nodes) : w \in WorkersOf(nodes[i])

(* The leaf's LastWorkerID, where the next server will be numbered from,   *)
(* is that of its last server; without workers it reads 0, or the all-ones *)
(* word that loading an empty leaf or adding a server of 0 workers leaves. *)
LeafLastIsEnd ==
  \A l \in Leaves :
    LET nodes == serversOf[l]
        n == Len(nodes)
    IN  IF n = 0 \/ nodes[n].last = WordSize - 1
        THEN leafLast[l] \in {0, WordSize - 1}
        ELSE leafLast[l] = nodes[n].last /\ leafLast[l] # 0

(* A controller that fetches the topology (GetTopology) and loads it ends  *)
(* with the worker IDs the central controller has, whatever was added and  *)
(* removed before.                                                         *)
ReloadKeepsWorkers ==
  \A l \in Leaves : LoadServers(EncodeServers(serversOf[l])) = serversOf[l]

\* the node of a server, of a leaf
ServerNodes(s) == {n \in UNION {Range(serversOf[l]) : l \in Leaves} : n.id = s}
LeafNodes(l)   == {n \in UNION {Range(leavesOf[sp]) : sp \in Spines} : n.id = l}

(* A node whose worker IDs or Index a removal changes is in the list the   *)
(* removal returns: the callers tell the leaf's data plane (OnServerChange)*)
(* and the leaves (sendLeafUpdate) about the nodes of that list only.      *)
MovedNodesAreReported ==
  [][/\ \A s \in Servers : leafOf[s] # None /\ leafOf'[s] # None /\ ServerNodes(s)' # ServerNodes(s)
          => s \in updated'
     /\ \A l \in Leaves : spineOf[l] # None /\ spineOf'[l] # None /\ LeafNodes(l)' # LeafNodes(l)
          => l \in updated']_vars

(* Whatever is added or removed, a server that stays keeps its number of   *)
(* workers and its place behind the servers that were before it.           *)
SurvivorsKeepWorkers ==
  [][\A l \in Leaves : \A i, j \in 1 .. Len(serversOf[l]) :
       /\ i <= j
       /\ leafOf'[serversOf[l][i].id] = l
       /\ leafOf'[serversOf[l][j].id] = l
       => \E p, q \in 1 .. Len(serversOf'[l]) :
            /\ p <= q
            /\ serversOf'[l][p].id = serversOf[l][i].id
            /\ serversOf'[l][q].id = serversOf[l][j].id
            /\ WorkerCount(serversOf'[l][p]) = WorkerCount(serversOf[l][i])]_vars

-----------------------------------------------------------------------------
(* The inductive invariant.                                                *)

(* A list of children whose worker IDs start at 0, follow each other, stay *)
(* below the bound, and where no server has exactly one worker.            *)
ChainedAt(nodes, i) ==
  /\ nodes[i].first = IF i = 1 THEN 0 ELSE Incr(nodes[i - 1].last)
  /\ nodes[i].first + WorkerCount(nodes[i]) = Incr(nodes[i].last)
  /\ Incr(nodes[i].last) <= MaxWorkers
  /\ WorkerCount(nodes[i]) # 1

Chained(nodes) == \A i \in 1 .. Len(nodes) : ChainedAt(nodes, i)

(* Everything above that is needed to show that a step preserves it: the   *)
(* chain bounds what WorkerIDsContiguous says only modulo WordSize, and a  *)
(* leaf whose workers were exactly one would have LeafLastIsEnd fail.      *)
IInv ==
  /\ TypeOK
  /\ MapsMatchTree
  /\ IndexIsPosition
  /\ EndpointsUniquePerSpine
  /\ LeafLastIsEnd
  /\ \A l \in Leaves : Chained(serversOf[l])
  /\ \A sp \in Spines : Len(leavesOf[sp]) <= MaxLeaves

=============================================================================
