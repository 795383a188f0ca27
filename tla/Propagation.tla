----------------------------- MODULE Propagation -----------------------------
(***************************************************************************)
(* How a call to the central controller reaches the spine controller, the  *)
(* switch manager and the leaf controllers.  VCManager's variables are the *)
(* central controller; the spine controller keeps a tree and virtual       *)
(* clusters of its own, and a leaf controller its servers and its part of  *)
(* the virtual clusters.                                                   *)
(*                                                                         *)
(*   client --call--> central --chan--> spine --eg--> leaf controllers     *)
(*                                               \---> mgr --> starts and  *)
(*                                                     stops controllers   *)
(*                                                                         *)
(* Each endpoint (rpc_endpoint_central.go, rpc_endpoint_spine.go) has one  *)
(* Go channel per kind of message and one goroutine that takes the next    *)
(* message from any channel that has one and waits for the RPC it makes to *)
(* return: messages of one kind stay in order, messages of two kinds may   *)
(* overtake each other.  An RPC that fails is logged and forgotten.  There *)
(* is one spine controller, which runs in the manager's process.           *)
(***************************************************************************)
EXTENDS VCManager, Sequences

CONSTANTS
  Starts,             \* the trees the system may start with
  MaxCalls,           \* bound: calls the client makes
  Paced,              \* the client waits for each call to take effect
  OnlyVCServersFail   \* servers fail only while they are in a virtual cluster

ASSUME OneSpine == \E sp \in Spines : Spines = {sp}

ASSUME StartsAssumption ==
  \A start \in Starts :
    /\ start.spineOf \in [Leaves -> Spines \cup {None}]
    /\ start.leafOf \in [Servers -> Leaves \cup {None}]
    /\ \A s \in Servers : start.leafOf[s] # None => start.spineOf[start.leafOf[s]] # None

ASSUME FlagsAssumption == Paced \in BOOLEAN /\ OnlyVCServersFail \in BOOLEAN

VARIABLES
  calls,        \* how many calls were made
  gone,         \* leaves that failed
  chan,         \* the channels of CentralRpcEndpoint
  sSpineOf, sLeafOf, sVcs, sServerVCs, sLeafVCs,   \* the spine controller's view
  eg,           \* the channels of SpineRpcEndpoint
  bcast,        \* the VC message being sent and the leaves left to send it to
  mgr,          \* the channels of the manager
  mgrUp,        \* the process of the manager, the spine and the leaves runs
  ctrl,         \* how far the controller of each leaf has started
  lServers,     \* the servers in the leaf controller's topology
  lVCs          \* its virtual clusters: the servers of each, or None

clientVars  == <<calls, gone>>
centralVars == <<spineOf, leafOf, vcs, serverVCs, leafVCs>>
spineVars   == <<sSpineOf, sLeafOf, sVcs, sServerVCs, sLeafVCs>>
leafVars    == <<ctrl, lServers, lVCs>>
propVars    == <<vars, clientVars, chan, spineVars, eg, bcast, mgr, mgrUp, leafVars>>

Spine == INSTANCE VCManager WITH
  spineOf <- sSpineOf, leafOf <- sLeafOf, vcs <- sVcs,
  serverVCs <- sServerVCs, leafVCs <- sLeafVCs

TheSpine == CHOOSE sp \in Spines : TRUE

Kinds == {"newLeaf", "failedLeaf", "newServer", "failedServer", "vc"}
LeafKinds == {"newLeaf", "failedLeaf"}
KindOf(m) == IF m.type \in {"addVC", "removeVC"} THEN "vc" ELSE m.type

(* What goes over the wire: the leaf of a new server, the servers of a VC, *)
(* and from the spine on the leaves the message is for.                    *)
Packet(type, node, leaf, servers, dsts) ==
  [type |-> type, node |-> node, leaf |-> leaf, servers |-> servers, dsts |-> dsts]

Packets ==
  [type : {"newLeaf", "failedLeaf", "newServer", "failedServer", "addVC", "removeVC"},
   node : Leaves \cup Servers \cup VCIds, leaf : Leaves \cup {None},
   servers : SUBSET Servers, dsts : SUBSET Leaves]

ASSUME NoneIsNoData == None \notin Packets /\ \A servers \in SUBSET Servers : None # servers

Pop(queues, k) == [queues EXCEPT ![k] = Tail(@)]
Push(queues, k, m) == [queues EXCEPT ![k] = Append(@, m)]

NoVCs == [v \in VCIds |-> None]

PropInit ==
  /\ \E start \in Starts : spineOf = start.spineOf /\ leafOf = start.leafOf
  /\ vcs = NoVCs
  /\ serverVCs = [s \in Servers |-> {}]
  /\ leafVCs = [l \in Leaves |-> {}]
  /\ told = None
  /\ calls = 0
  /\ gone = {}
  /\ chan = [k \in Kinds |-> <<>>]
  /\ sSpineOf = spineOf /\ sLeafOf = leafOf
  /\ sVcs = vcs /\ sServerVCs = serverVCs /\ sLeafVCs = leafVCs
  /\ eg = [k \in Kinds |-> <<>>]
  /\ bcast = None
  /\ mgr = [k \in LeafKinds |-> <<>>]
  /\ mgrUp = TRUE
  /\ ctrl = [l \in Leaves |-> IF spineOf[l] = None THEN "down" ELSE "up"]
  /\ lServers = [l \in Leaves |-> Children(l)]
  /\ lVCs = [l \in Leaves |-> NoVCs]

-----------------------------------------------------------------------------
(* The client and the central controller.                                  *)

Empty(queues) == \A k \in DOMAIN queues : queues[k] = <<>>

(* Nothing is under way any more.                                          *)
Quiet ==
  /\ told = None
  /\ Empty(chan)
  /\ mgrUp => /\ Empty(eg) /\ bcast = None /\ Empty(mgr)
              /\ \A l \in Leaves : ctrl[l] \in {"down", "up"}

(* The handler of a call, up to the message it puts into a channel.  A     *)
(* client that does not wait uses the ID of a failed leaf no more.         *)
Call ==
  /\ calls < MaxCalls
  /\ told = None
  /\ Paced => Quiet
  /\ \/ \E l \in Leaves, sp \in Spines :
          (Paced \/ l \notin gone) /\ AddLeaf(l, sp) /\ UNCHANGED gone
     \/ \E l \in Leaves : FailLeaf(l) /\ gone' = gone \cup {l}
     \/ \E s \in Servers, l \in Leaves : AddServer(s, l) /\ UNCHANGED gone
     \/ \E s \in Servers :
          (OnlyVCServersFail => Detached(s)) /\ FailServer(s) /\ UNCHANGED gone
     \/ \E v \in VCIds, servers \in SUBSET Servers : AddVC(v, Spines, servers) /\ UNCHANGED gone
     \/ \E v \in VCIds : RemoveVC(v) /\ UNCHANGED gone
  /\ calls' = calls + 1
  /\ UNCHANGED <<chan, spineVars, eg, bcast, mgr, mgrUp, leafVars>>

(* The handler puts its message into the channel of its kind.              *)
Put ==
  /\ told # None
  /\ chan' = Push(chan, KindOf(told),
               Packet(told.type, told.node,
                      IF told.type = "newServer" THEN leafOf[told.node] ELSE None,
                      IF told.type = "addVC" THEN vcs[told.node].servers ELSE {}, {}))
  /\ told' = None
  /\ UNCHANGED <<centralVars, clientVars, spineVars, eg, bcast, mgr, mgrUp, leafVars>>

-----------------------------------------------------------------------------
(* The spine controller's handlers.  They keep the spine's tree and VCs    *)
(* with the same code as the central controller, and put a message for the *)
(* node's leaf, or for the leaves of the VC, into a channel.               *)

Queue(m, leaf, dsts) ==
  eg' = Push(eg, KindOf(m), Packet(m.type, m.node, leaf, m.servers, dsts))

SpineAddLeaf(m) ==
  /\ Spine!InsertLeaf(m.node, TheSpine)
  /\ Queue(m, None, {})
  /\ UNCHANGED <<sVcs, sServerVCs, sLeafVCs>>

Bad_SpineFailLeaf(m) ==
  /\ Spine!DeleteLeaf(m.node)
  /\ Queue(m, None, {})
  /\ UNCHANGED <<sVcs, sServerVCs, sLeafVCs>>
SpineFailLeaf(m) ==
  /\ Spine!DetachLeaf(m.node)
  /\ Spine!DeleteLeaf(m.node)
  /\ Queue(m, None, {})

SpineAddServer(m) ==
  /\ Spine!InsertServer(m.node, m.leaf)
  /\ Queue(m, m.leaf, {})
  /\ UNCHANGED <<sVcs, sServerVCs, sLeafVCs>>

Bad_SpineFailServer(m) ==
  /\ Spine!DeleteServer(m.node)
  /\ Spine!DetachServer(m.node)
  /\ UNCHANGED eg
SpineFailServer(m) ==
  /\ Spine!DeleteServer(m.node)
  /\ Spine!DetachServer(m.node)
  /\ IF Spine!Detached(m.node) THEN Queue(m, sLeafOf[m.node], {}) ELSE UNCHANGED eg

SpineAddVC(m) ==
  /\ sVcs[m.node] = None
  /\ Spine!AllExist(m.servers)
  /\ Spine!StoreVC(m.node, Spine!NewVC(Spines, m.servers))
  /\ Queue(m, None, Spine!NewVC(Spines, m.servers).leaves)
  /\ UNCHANGED <<sSpineOf, sLeafOf>>

Bad_SpineRemoveVC(m) ==
  /\ sVcs[m.node] # None
  /\ Spine!DropVC(m.node)
  /\ Queue(m, None, {})
  /\ UNCHANGED <<sSpineOf, sLeafOf>>
SpineRemoveVC(m) ==
  /\ sVcs[m.node] # None
  /\ Spine!DropVC(m.node)
  /\ Queue(m, None, sVcs[m.node].leaves)
  /\ UNCHANGED <<sSpineOf, sLeafOf>>

SpineHandle(m) ==
  \/ m.type = "newLeaf" /\ SpineAddLeaf(m)
  \/ m.type = "failedLeaf" /\ SpineFailLeaf(m)
  \/ m.type = "newServer" /\ SpineAddServer(m)
  \/ m.type = "failedServer" /\ SpineFailServer(m)
  \/ m.type = "addVC" /\ SpineAddVC(m)
  \/ m.type = "removeVC" /\ SpineRemoveVC(m)

SpineAccepts(m) ==
  CASE m.type = "newLeaf"      -> sSpineOf[m.node] = None
    [] m.type = "failedLeaf"   -> sSpineOf[m.node] # None
    [] m.type = "newServer"    -> sSpineOf[m.leaf] # None /\ sLeafOf[m.node] = None
    [] m.type = "failedServer" -> sLeafOf[m.node] # None
    [] m.type = "addVC"        -> sVcs[m.node] = None /\ Spine!AllExist(m.servers)
    [] m.type = "removeVC"     -> sVcs[m.node] # None

(* The central endpoint takes a message of kind k and makes the RPC; one   *)
(* the spine refuses, or that finds no spine, is lost.                     *)
Bad_CentralSend(k) ==
  /\ chan[k] # <<>>
  /\ IF mgrUp /\ SpineAccepts(Head(chan[k]))
     THEN SpineHandle(Head(chan[k])) /\ chan' = Pop(chan, k)
     ELSE UNCHANGED <<spineVars, eg, chan>>
  /\ UNCHANGED <<vars, clientVars, bcast, mgr, mgrUp, leafVars>>
CentralSend(k) ==
  /\ chan[k] # <<>>
  /\ chan' = Pop(chan, k)
  /\ IF mgrUp /\ SpineAccepts(Head(chan[k]))
     THEN SpineHandle(Head(chan[k]))
     ELSE UNCHANGED <<spineVars, eg>>
  /\ UNCHANGED <<vars, clientVars, bcast, mgr, mgrUp, leafVars>>

-----------------------------------------------------------------------------
(* The leaf controllers' handlers: what they do when the RPC reaches them. *)

Reachable(l) == ctrl[l] \in {"listening", "up"}

LeafAddServer(l, s) ==
  /\ lServers' = [lServers EXCEPT ![l] = IF Reachable(l) THEN @ \cup {s} ELSE @]
  /\ UNCHANGED <<ctrl, lVCs>>

\* the VCs of a leaf controller once server s left all of them
Bad_VCsWithout(lvcs, s) == lvcs
VCsWithout(lvcs, s) ==
  [v \in VCIds |-> IF lvcs[v] = None \/ s \notin lvcs[v] THEN lvcs[v]
                   ELSE IF lvcs[v] = {s} THEN None
                   ELSE lvcs[v] \ {s}]

LeafFailServer(l, s) ==
  /\ IF Reachable(l) /\ s \in lServers[l]
     THEN /\ lServers' = [lServers EXCEPT ![l] = @ \ {s}]
          /\ lVCs' = [lVCs EXCEPT ![l] = VCsWithout(@, s)]
     ELSE UNCHANGED <<lServers, lVCs>>
  /\ UNCHANGED ctrl

LeafAcceptsVC(l, m, servers) ==
  /\ Reachable(l)
  /\ IF m.type = "addVC" THEN lVCs[l][m.node] = None /\ servers \subseteq lServers[l]
                         ELSE lVCs[l][m.node] # None

LeafUpdateVC(l, m, servers) ==
  lVCs' = [lVCs EXCEPT ![l][m.node] = IF m.type = "addVC" THEN servers ELSE None]

-----------------------------------------------------------------------------
(* The spine endpoint.                                                     *)

\* sendLeafAdded, sendLeafFailed: to the manager
SendToManager(k) ==
  /\ k \in LeafKinds
  /\ mgr' = Push(mgr, k, Head(eg[k]).node)
  /\ UNCHANGED <<bcast, leafVars>>

(* A connection that broke, or was tried before the leaf listened, is made *)
(* again only after a while, and RPCs fail until then.                     *)
ConnectionDown == ~Paced

\* sendServerAdded, sendServerFailed: to the leaf controller
SendServer(k) ==
  /\ LET m == Head(eg[k])
     IN  \/ k = "newServer" /\ LeafAddServer(m.leaf, m.node)
         \/ k = "failedServer" /\ LeafFailServer(m.leaf, m.node)
         \/ k \in {"newServer", "failedServer"} /\ ConnectionDown /\ UNCHANGED leafVars
  /\ UNCHANGED <<bcast, mgr>>

StartBroadcast(k) ==
  /\ k = "vc"
  /\ bcast' = IF Head(eg[k]).dsts = {} THEN None ELSE Head(eg[k])
  /\ UNCHANGED <<mgr, leafVars>>

SpineSend(k) ==
  /\ mgrUp
  /\ bcast = None
  /\ eg[k] # <<>>
  /\ eg' = Pop(eg, k)
  /\ SendToManager(k) \/ SendServer(k) \/ StartBroadcast(k)
  /\ UNCHANGED <<vars, clientVars, chan, spineVars, mgrUp>>

(* broadcastAddVCToLeaves: the leaves one after the other, each with the   *)
(* servers of the VC that are below it by now; the first error ends it.    *)
ServersAt(m, l) == {s \in m.servers : sLeafOf[s] = l}

BroadcastNext ==
  /\ mgrUp
  /\ bcast # None
  /\ \E l \in bcast.dsts :
       \/ /\ LeafAcceptsVC(l, bcast, ServersAt(bcast, l))
          /\ LeafUpdateVC(l, bcast, ServersAt(bcast, l))
          /\ bcast' = IF bcast.dsts = {l} THEN None ELSE [bcast EXCEPT !.dsts = @ \ {l}]
       \/ /\ ~LeafAcceptsVC(l, bcast, ServersAt(bcast, l)) \/ ConnectionDown
          /\ bcast' = None
          /\ UNCHANGED lVCs
  /\ UNCHANGED <<vars, clientVars, chan, spineVars, eg, mgr, mgrUp, ctrl, lServers>>

-----------------------------------------------------------------------------
(* The manager starts and stops leaf controllers.                          *)

MgrWaits == mgrUp /\ \A l \in Leaves : ctrl[l] # "fetching"

(* FetchTopology: the central controller encodes the leaf as it is now.  A *)
(* leaf that is gone by then ends the process: NewDCNFromTopoInfo          *)
(* dereferences the answer that GetTopology did not get.                   *)
MgrAddLeaf ==
  /\ MgrWaits
  /\ mgr["newLeaf"] # <<>>
  /\ mgr' = Pop(mgr, "newLeaf")
  /\ LET l == Head(mgr["newLeaf"])
     IN  IF spineOf[l] = None
         THEN mgrUp' = FALSE /\ UNCHANGED <<ctrl, lServers>>
         ELSE /\ ctrl' = [ctrl EXCEPT ![l] = "fetching"]
              /\ lServers' = [lServers EXCEPT ![l] = Children(l)]
              /\ UNCHANGED mgrUp
  /\ UNCHANGED <<vars, clientVars, chan, spineVars, eg, bcast, lVCs>>

\* StartServer: from here on the leaf controller's RPCs are answered
LeafListens(l) ==
  /\ mgrUp
  /\ ctrl[l] = "fetching"
  /\ ctrl' = [ctrl EXCEPT ![l] = "listening"]
  /\ UNCHANGED <<vars, clientVars, chan, spineVars, eg, bcast, mgr, mgrUp, lServers, lVCs>>

(* StartBare: FetchVCs takes the VCs of the leaf from the central          *)
(* controller, all those whose servers the leaf knows.                     *)
FetchedVC(l, v) == vcs[v].servers \cap Children(l)

LeafStarts(l) ==
  /\ mgrUp
  /\ ctrl[l] = "listening"
  /\ ctrl' = [ctrl EXCEPT ![l] = "up"]
  /\ lVCs' = [lVCs EXCEPT ![l] = [v \in VCIds |->
       IF @[v] = None /\ v \in leafVCs[l] /\ FetchedVC(l, v) \subseteq lServers[l]
       THEN FetchedVC(l, v) ELSE @[v]]]
  /\ UNCHANGED <<vars, clientVars, chan, spineVars, eg, bcast, mgr, mgrUp, lServers>>

(* Shutdown of a controller whose StartBare has not yet made its bus ends  *)
(* the process.                                                            *)
MgrFailLeaf ==
  /\ MgrWaits
  /\ mgr["failedLeaf"] # <<>>
  /\ mgr' = Pop(mgr, "failedLeaf")
  /\ LET l == Head(mgr["failedLeaf"])
     IN  /\ mgrUp' = (ctrl[l] # "listening")
         /\ IF ctrl[l] = "up"
            THEN /\ ctrl' = [ctrl EXCEPT ![l] = "down"]
                 /\ lServers' = [lServers EXCEPT ![l] = {}]
                 /\ lVCs' = [lVCs EXCEPT ![l] = NoVCs]
            ELSE UNCHANGED leafVars
  /\ UNCHANGED <<vars, clientVars, chan, spineVars, eg, bcast>>

-----------------------------------------------------------------------------
Progress ==
  \/ Put
  \/ \E k \in Kinds : CentralSend(k)
  \/ \E k \in Kinds : SpineSend(k)
  \/ BroadcastNext
  \/ MgrAddLeaf
  \/ MgrFailLeaf
  \/ \E l \in Leaves : LeafListens(l) \/ LeafStarts(l)

PropNext == Call \/ Progress

(* The goroutines of the controllers run all the time: whenever a message  *)
(* or a controller can go on, something goes on.  Nobody has to call.      *)
PropSpec == PropInit /\ [][PropNext]_propVars /\ WF_propVars(Progress)

-----------------------------------------------------------------------------
(* Properties.                                                             *)

(* Once nothing is under way, the spine controller has the tree of the     *)
(* central controller, and a controller runs for every leaf and for no     *)
(* other one, with exactly the servers of the leaf.                        *)
MembershipAgrees ==
  Quiet =>
    /\ mgrUp
    /\ sSpineOf = spineOf /\ sLeafOf = leafOf
    /\ \A l \in Leaves : ctrl[l] = "up" <=> spineOf[l] # None
    /\ \A l \in Leaves : lServers[l] = Children(l)

(* Once nothing is under way, the spine has the VCs of the central         *)
(* controller, and each leaf controller its servers of those that have any *)
(* below it: after broadcasts, failures and restarts alike.                *)
VCsAgree ==
  Quiet =>
    /\ sVcs = vcs
    /\ \A l \in Leaves, v \in VCIds :
         lVCs[l][v] = IF vcs[v] # None /\ l \in vcs[v].leaves
                      THEN vcs[v].servers \cap Children(l) ELSE None

(* However messages overtake each other, the spine controller's books stay *)
(* consistent: lists per server and leaf, leaves of VCs, no dead server.   *)
SpineBooksConsistent ==
  /\ Spine!NoOrphans
  /\ Spine!ServerListsMatchVCs
  /\ Spine!LeafListsMatchVCs
  /\ Spine!LeavesAreOfServers
  /\ Spine!VCServersExist

(* However messages overtake each other, a leaf controller's VC has only   *)
(* servers that the controller has.                                        *)
LeafVCsOfServers ==
  \A l \in Leaves, v \in VCIds : lVCs[l][v] # None => lVCs[l][v] \subseteq lServers[l]

(* Every call is worked off: no goroutine waits for another one for ever.  *)
Settles == <>[]Quiet

=============================================================================
