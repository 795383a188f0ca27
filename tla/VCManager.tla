------------------------------ MODULE VCManager ------------------------------
(***************************************************************************)
(* The central controller's calls (core/net/topologyServer_central.go),    *)
(* each run alone, with the virtual clusters they maintain                 *)
(* (core/vcManager.go, core/model/vc.go) on top of the membership tree.    *)
(* A virtual cluster (VC) is a set of servers; the controller also keeps,  *)
(* per server and per leaf, the list of the VCs it takes part in.  The     *)
(* lists hold a VC at most once, so they are sets here.  A call that       *)
(* changed something puts one message into a channel of the endpoint that  *)
(* tells the spines; told is the message of the last call.                 *)
(*                                                                         *)
(* An operator Bad_X before X is X with one plausible mistake; no action   *)
(* uses it.                                                                *)
(***************************************************************************)
EXTENDS Tree

CONSTANT VCIds   \* IDs a virtual cluster may have

VARIABLES
  vcs,         \* vcm.vcs: the VC of each ID, None when there is none
  serverVCs,   \* vcm.serverVCs: the IDs of the VCs of each server
  leafVCs,     \* vcm.leafVCs: the IDs of the VCs of each leaf
  told         \* the message the last call put into a channel, None if none

vars == <<spineOf, leafOf, vcs, serverVCs, leafVCs, told>>

VC  == [spines : SUBSET Spines, leaves : SUBSET Leaves, servers : SUBSET Servers]
Msg == [type : {"newLeaf", "failedLeaf"}, node : Leaves, spines : SUBSET Spines]
  \cup [type : {"newServer", "failedServer"}, node : Servers, spines : SUBSET Spines]
  \cup [type : {"addVC", "removeVC"}, node : VCIds, spines : SUBSET Spines]

ASSUME NoneIsNoRecord == None \notin VC \cup Msg

VCNames == {v \in VCIds : vcs[v] # None}

Init ==
  /\ spineOf = [l \in Leaves |-> None]
  /\ leafOf = [s \in Servers |-> None]
  /\ vcs = [v \in VCIds |-> None]
  /\ serverVCs = [s \in Servers |-> {}]
  /\ leafVCs = [l \in Leaves |-> {}]
  /\ told = None

Tell(type, node, spines) == told' = [type |-> type, node |-> node, spines |-> spines]

-----------------------------------------------------------------------------
(* vc.go and vcManager.go.                                                 *)

\* VirtualCluster.DetachServer: the leaf goes when no other child is in the VC
Bad_LeavesLeft(vc, s) == vc.leaves \ {leafOf[s]}
LeavesLeft(vc, s) ==
  IF \E other \in vc.servers \ {s} : leafOf[other] = leafOf[s]
  THEN vc.leaves ELSE vc.leaves \ {leafOf[s]}

\* the VCs whose last server is s: DetachServer ends with RemoveVC on them
Bad_EmptiedByServer(s) == {}
EmptiedByServer(s) == {v \in serverVCs[s] : vcs[v].servers \ {s} = {}}

DetachServer(s) ==
  /\ vcs' = [v \in VCIds |->
       IF v \in EmptiedByServer(s) THEN None
       ELSE IF v \in serverVCs[s]
            THEN [vcs[v] EXCEPT !.servers = @ \ {s}, !.leaves = LeavesLeft(vcs[v], s)]
            ELSE vcs[v]]
  /\ leafVCs' = [l \in Leaves |->
       leafVCs[l] \ {v \in serverVCs[s] :
                       \/ l = leafOf[s] /\ l \notin LeavesLeft(vcs[v], s)
                       \/ v \in EmptiedByServer(s) /\ l \in LeavesLeft(vcs[v], s)}]
  /\ serverVCs' = [serverVCs EXCEPT ![s] = {}]

\* what DetachServer returns: s was in a VC, and every VC listed for it had it
Detached(s) == serverVCs[s] # {} /\ \A v \in serverVCs[s] : s \in vcs[v].servers

\* VirtualCluster.DetachLeaf: the servers a VC loses with leaf l
Bad_LostWithLeaf(v, l) == {}
LostWithLeaf(v, l) == IF l \in vcs[v].leaves THEN vcs[v].servers \cap Children(l) ELSE {}

EmptiedByLeaf(l) == {v \in leafVCs[l] : vcs[v].servers \ LostWithLeaf(v, l) = {}}

\* the VCs of server s once leaf l is detached
Bad_ServerVCsAfter(s, l) == serverVCs[s]
ServerVCsAfter(s, l) == serverVCs[s] \ {v \in leafVCs[l] : s \in LostWithLeaf(v, l)}

DetachLeaf(l) ==
  /\ vcs' = [v \in VCIds |->
       IF v \in EmptiedByLeaf(l) THEN None
       ELSE IF v \in leafVCs[l]
            THEN [vcs[v] EXCEPT !.servers = @ \ LostWithLeaf(v, l), !.leaves = @ \ {l}]
            ELSE vcs[v]]
  /\ serverVCs' = [s \in Servers |-> ServerVCsAfter(s, l)]
  /\ leafVCs' = [m \in Leaves |->
       IF m = l THEN {} ELSE leafVCs[m] \ {v \in EmptiedByLeaf(l) : m \in vcs[v].leaves}]

\* NewVC refuses a VC with a server that does not exist
Bad_AllExist(servers) == servers # {} => \E s \in servers : leafOf[s] # None
AllExist(servers) == \A s \in servers : leafOf[s] # None

NewVC(spines, servers) ==
  [spines |-> spines, leaves |-> {leafOf[s] : s \in servers}, servers |-> servers]

\* VCManager.AddVC
StoreVC(v, vc) ==
  /\ vcs' = [vcs EXCEPT ![v] = vc]
  /\ serverVCs' = [s \in Servers |-> serverVCs[s] \cup {w \in {v} : s \in vc.servers}]
  /\ leafVCs' = [l \in Leaves |-> leafVCs[l] \cup {w \in {v} : l \in vc.leaves}]

\* VCManager.RemoveVC
DropVC(v) ==
  /\ vcs' = [vcs EXCEPT ![v] = None]
  /\ serverVCs' = [s \in Servers |-> serverVCs[s] \ {w \in {v} : s \in vcs[v].servers}]
  /\ leafVCs' = [l \in Leaves |-> leafVCs[l] \ {w \in {v} : l \in vcs[v].leaves}]

-----------------------------------------------------------------------------
(* The calls of the central controller.                                    *)

AddLeaf(l, sp) ==
  /\ InsertLeaf(l, sp)
  /\ Tell("newLeaf", l, {sp})
  /\ UNCHANGED <<vcs, serverVCs, leafVCs>>

AddServer(s, l) ==
  /\ InsertServer(s, l)
  /\ Tell("newServer", s, {spineOf[l]})
  /\ UNCHANGED <<vcs, serverVCs, leafVCs>>

(* The spines to tell are collected before anything is detached: those of  *)
(* the VCs of the node, and the one the node is below.                     *)
Bad_SpinesToTell(of, sp) == {sp}
SpinesToTell(of, sp) == {sp} \cup UNION {vcs[v].spines : v \in of}

(* DetachLeaf is taken to have detached the leaf whatever it did.          *)
FailLeaf(l) ==
  /\ DetachLeaf(l)
  /\ DeleteLeaf(l)
  /\ Tell("failedLeaf", l, SpinesToTell(leafVCs[l], spineOf[l]))

(* The spines are told of a server that was detached from a VC; any other  *)
(* server is removed all the same.                                         *)
FailServer(s) ==
  /\ DeleteServer(s)
  /\ DetachServer(s)
  /\ IF Detached(s)
     THEN Tell("failedServer", s, SpinesToTell(serverVCs[s], spineOf[leafOf[s]]))
     ELSE told' = None

AddVC(v, spines, servers) ==
  /\ vcs[v] = None
  /\ AllExist(servers)
  /\ StoreVC(v, NewVC(spines, servers))
  /\ Tell("addVC", v, spines)
  /\ UNCHANGED treeVars

RemoveVC(v) ==
  /\ vcs[v] # None
  /\ DropVC(v)
  /\ Tell("removeVC", v, vcs[v].spines)
  /\ UNCHANGED treeVars

Next ==
  \/ \E l \in Leaves, sp \in Spines : AddLeaf(l, sp)
  \/ \E l \in Leaves : FailLeaf(l)
  \/ \E s \in Servers, l \in Leaves : AddServer(s, l)
  \/ \E s \in Servers : FailServer(s)
  \/ \E v \in VCIds, spines \in SUBSET Spines, servers \in SUBSET Servers : AddVC(v, spines, servers)
  \/ \E v \in VCIds : RemoveVC(v)

Spec == Init /\ [][Next]_vars

-----------------------------------------------------------------------------
(* Properties.                                                             *)

TypeOK ==
  /\ TreeTypeOK
  /\ vcs \in [VCIds -> VC \cup {None}]
  /\ serverVCs \in [Servers -> SUBSET VCIds]
  /\ leafVCs \in [Leaves -> SUBSET VCIds]
  /\ told \in Msg \cup {None}

(* The list of a server names exactly the VCs the server is in: FailServer *)
(* detaches it from those, and reads the spines to tell from them.         *)
ServerListsMatchVCs ==
  \A s \in Servers : serverVCs[s] = {v \in VCNames : s \in vcs[v].servers}

(* The list of a leaf names exactly the VCs with a server below the leaf,  *)
(* which is what a leaf controller fetches when it starts (GetVCsOfLeaf).  *)
LeafListsMatchVCs ==
  \A l \in Leaves : leafVCs[l] = {v \in VCNames : vcs[v].servers \cap Children(l) # {}}

(* A VC has the leaves of its servers, no more: the last server that goes  *)
(* takes its leaf out of the VC, another one does not.                     *)
LeavesAreOfServers ==
  \A v \in VCNames : vcs[v].leaves = {leafOf[s] : s \in vcs[v].servers}

(* A server of a VC exists, and so do its leaf and its spine: no VC keeps  *)
(* a node that failed.                                                     *)
VCServersExist ==
  \A v \in VCNames : \A s \in vcs[v].servers :
    leafOf[s] # None /\ spineOf[leafOf[s]] # None

(* A VC loses the servers that leave the tree and no other one; it is gone *)
(* when it lost the last one, or when RemoveVC asked for it.               *)
MembershipFollowsTree ==
  [][\A v \in VCNames :
       LET left == {s \in vcs[v].servers : leafOf'[s] # None}
       IN  IF vcs'[v] = None
           THEN (left = {} /\ vcs[v].servers # {}) \/ (told'.type = "removeVC" /\ told'.node = v)
           ELSE /\ vcs'[v].servers = left
                /\ vcs'[v].spines = vcs[v].spines
                /\ left = {} => vcs[v].servers = {}]_vars

(* Every spine of a VC is told of each call that takes a server out of the *)
(* VC or drops it, even though the call has detached the node by then.     *)
SpinesOfVCAreTold ==
  [][\A v \in VCNames :
       vcs'[v] = None \/ vcs'[v].servers # vcs[v].servers
         => told' # None /\ vcs[v].spines \subseteq told'.spines]_vars

(* The inductive invariant.                                                *)
IInv ==
  /\ TypeOK
  /\ NoOrphans
  /\ ServerListsMatchVCs
  /\ LeafListsMatchVCs
  /\ LeavesAreOfServers
  /\ VCServersExist

=============================================================================
