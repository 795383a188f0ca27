-------------------------- MODULE VCManagerProofs --------------------------
(***************************************************************************)
(* Theorems about VCManager, for any sets of nodes and virtual clusters.   *)
(***************************************************************************)
EXTENDS VCManager, TLAPS

(* What the invariant says of the tree and the books alone.  The spine     *)
(* controller keeps such books too, without the messages.                  *)
BooksTypeOK ==
  /\ TreeTypeOK
  /\ vcs \in [VCIds -> VC \cup {None}]
  /\ serverVCs \in [Servers -> SUBSET VCIds]
  /\ leafVCs \in [Leaves -> SUBSET VCIds]

BooksOK ==
  /\ BooksTypeOK
  /\ NoOrphans
  /\ ServerListsMatchVCs
  /\ LeafListsMatchVCs
  /\ LeavesAreOfServers
  /\ VCServersExist

LEMMA IInvIsBooks == IInv <=> BooksOK /\ told \in Msg \cup {None}
BY DEF IInv, BooksOK, TypeOK, BooksTypeOK

(* VCNames and VCs, read off typed books.                                  *)
LEMMA NamedVCs ==
  ASSUME BooksOK
  PROVE  /\ \A v \in VCIds : vcs[v] = None \/ vcs[v] \in VC
         /\ \A v \in VCNames : /\ v \in VCIds /\ vcs[v] \in VC
                               /\ vcs[v].servers \subseteq Servers
                               /\ vcs[v].leaves \subseteq Leaves
                               /\ vcs[v].spines \subseteq Spines
BY DEF BooksOK, BooksTypeOK, VCNames, VC


LEMMA EmptyBooks ==
  ASSUME TreeTypeOK, NoOrphans, vcs = [v \in VCIds |-> None],
         serverVCs = [s \in Servers |-> {}], leafVCs = [l \in Leaves |-> {}]
  PROVE  BooksOK
<1>1. VCNames = {}
  BY DEF VCNames
<1>2. BooksTypeOK
  BY DEF BooksTypeOK
<1> QED
  BY <1>1, <1>2 DEF BooksOK, ServerListsMatchVCs, LeafListsMatchVCs,
                    LeavesAreOfServers, VCServersExist


LEMMA InsertLeafKeepsBooks ==
  ASSUME BooksOK, NEW l \in Leaves, NEW sp \in Spines, InsertLeaf(l, sp),
         UNCHANGED <<vcs, serverVCs, leafVCs>>
  PROVE  BooksOK'
<1> USE DEF BooksOK, InsertLeaf
<1>1. BooksTypeOK'
  BY DEF BooksTypeOK, TreeTypeOK
<1>2. /\ VCNames' = VCNames /\ vcs' = vcs /\ leafOf' = leafOf
      /\ \A m \in Leaves : spineOf'[m] = IF m = l THEN sp ELSE spineOf[m]
  BY DEF VCNames, BooksTypeOK, TreeTypeOK
<1>3. \A m \in Leaves : spineOf[m] # None => spineOf'[m] # None
  BY <1>2
<1>4. \A s \in Servers : leafOf[s] # None => leafOf[s] \in Leaves
  BY DEF BooksTypeOK, TreeTypeOK
<1>5. NoOrphans'
  BY <1>2, <1>3, <1>4 DEF NoOrphans
<1>6. VCServersExist'
  BY <1>2, <1>3, <1>4, NamedVCs DEF VCServersExist
<1> QED
  BY <1>1, <1>2, <1>5, <1>6 DEF ServerListsMatchVCs, LeafListsMatchVCs, LeavesAreOfServers, Children


LEMMA InsertServerKeepsBooks ==
  ASSUME BooksOK, NEW s \in Servers, NEW l \in Leaves, InsertServer(s, l),
         UNCHANGED <<vcs, serverVCs, leafVCs>>
  PROVE  BooksOK'
<1> USE DEF BooksOK, InsertServer
<1>1. BooksTypeOK'
  BY DEF BooksTypeOK, TreeTypeOK
<1>2. /\ VCNames' = VCNames /\ vcs' = vcs /\ spineOf' = spineOf
      /\ leafVCs' = leafVCs /\ serverVCs' = serverVCs
      /\ \A t \in Servers : leafOf'[t] = IF t = s THEN l ELSE leafOf[t]
  BY DEF VCNames, BooksTypeOK, TreeTypeOK
<1>3. \A v \in VCNames : s \notin vcs[v].servers
  BY DEF VCServersExist
<1>4. NoOrphans'
  BY <1>2 DEF NoOrphans
<1>5. \A v \in VCNames : \A t \in vcs[v].servers : t \in Servers /\ leafOf'[t] = leafOf[t]
  BY <1>2, <1>3, NamedVCs
<1>6. VCServersExist'
  BY <1>2, <1>5 DEF VCServersExist
<1>7. LeavesAreOfServers'
  BY <1>2, <1>5 DEF LeavesAreOfServers
<1>8. LeafListsMatchVCs'
  <2>1. \A v \in VCNames, m \in Leaves :
          vcs[v].servers \cap Children(m)' = vcs[v].servers \cap Children(m)
    BY <1>5 DEF Children
  <2> QED
    BY <1>2, <2>1 DEF LeafListsMatchVCs
<1> QED
  BY <1>1, <1>2, <1>4, <1>6, <1>7, <1>8 DEF ServerListsMatchVCs


LEMMA StoreVCKeepsBooks ==
  ASSUME BooksOK, NEW v \in VCIds, NEW sps \in SUBSET Spines, NEW srvs \in SUBSET Servers,
         vcs[v] = None, AllExist(srvs), StoreVC(v, NewVC(sps, srvs)), UNCHANGED treeVars
  PROVE  BooksOK'
<1> DEFINE vc == NewVC(sps, srvs)
<1>1. /\ vcs[v] = None /\ \A s \in srvs : leafOf[s] # None
      /\ vcs' = [vcs EXCEPT ![v] = vc]
      /\ serverVCs' = [s \in Servers |-> serverVCs[s] \cup {w \in {v} : s \in vc.servers}]
      /\ leafVCs' = [l \in Leaves |-> leafVCs[l] \cup {w \in {v} : l \in vc.leaves}]
      /\ spineOf' = spineOf /\ leafOf' = leafOf
  BY DEF AllExist, StoreVC, treeVars
<1>2. vc.servers = srvs /\ vc.leaves = {leafOf[s] : s \in srvs} /\ vc.spines = sps
  BY DEF NewVC
<1>3. vc \in VC
  BY <1>1 DEF NewVC, VC, BooksOK, BooksTypeOK, TreeTypeOK
<1>4. vc # None
  BY <1>3, NoneIsNoRecord
<1> HIDE DEF vc
<1>5. BooksTypeOK'
  BY <1>1, <1>3 DEF BooksOK, BooksTypeOK, TreeTypeOK
<1>6. /\ VCNames' = VCNames \cup {v} /\ v \notin VCNames
      /\ vcs'[v] = vc /\ \A w \in VCNames : vcs'[w] = vcs[w]
  BY <1>1, <1>4 DEF VCNames, BooksOK, BooksTypeOK
<1>7. ServerListsMatchVCs'
  <2> SUFFICES ASSUME NEW s \in Servers
               PROVE  serverVCs'[s] = {w \in VCNames' : s \in vcs'[w].servers}
    BY DEF ServerListsMatchVCs
  <2>1. serverVCs[s] = {w \in VCNames : s \in vcs[w].servers}
    BY DEF BooksOK, ServerListsMatchVCs
  <2>2. serverVCs'[s] = serverVCs[s] \cup {w \in {v} : s \in vc.servers}
    BY <1>1
  <2> QED
    BY <1>6, <2>1, <2>2
<1>8. \A s \in srvs : leafOf[s] \in Leaves /\ spineOf[leafOf[s]] # None
  BY <1>1 DEF BooksOK, BooksTypeOK, TreeTypeOK, NoOrphans
<1>9. LeafListsMatchVCs'
  <2> SUFFICES ASSUME NEW l \in Leaves
               PROVE  leafVCs'[l] = {w \in VCNames' : vcs'[w].servers \cap Children(l)' # {}}
    BY DEF LeafListsMatchVCs
  <2>1. leafVCs[l] = {w \in VCNames : vcs[w].servers \cap Children(l) # {}}
    BY DEF BooksOK, LeafListsMatchVCs
  <2>2. leafVCs'[l] = leafVCs[l] \cup {w \in {v} : l \in vc.leaves}
    BY <1>1
  <2>3. Children(l)' = Children(l)
    BY <1>1 DEF Children
  <2>4. l \in vc.leaves <=> vc.servers \cap Children(l) # {}
    BY <1>2 DEF Children
  <2> QED
    BY <1>6, <2>1, <2>2, <2>3, <2>4
<1>10. LeavesAreOfServers'
  BY <1>1, <1>2, <1>6 DEF BooksOK, LeavesAreOfServers
<1>11. VCServersExist'
  BY <1>1, <1>2, <1>6, <1>8 DEF BooksOK, VCServersExist
<1>12. NoOrphans'
  BY <1>1 DEF BooksOK, NoOrphans
<1> QED
  BY <1>5, <1>7, <1>9, <1>10, <1>11, <1>12 DEF BooksOK


LEMMA DropVCKeepsBooks ==
  ASSUME BooksOK, NEW v \in VCIds, vcs[v] # None, DropVC(v), UNCHANGED treeVars
  PROVE  BooksOK'
<1>1. /\ vcs[v] # None
      /\ vcs' = [vcs EXCEPT ![v] = None]
      /\ serverVCs' = [s \in Servers |-> serverVCs[s] \ {w \in {v} : s \in vcs[v].servers}]
      /\ leafVCs' = [l \in Leaves |-> leafVCs[l] \ {w \in {v} : l \in vcs[v].leaves}]
      /\ spineOf' = spineOf /\ leafOf' = leafOf
  BY DEF DropVC, treeVars
<1>2. BooksTypeOK'
  BY <1>1 DEF BooksOK, BooksTypeOK, TreeTypeOK
<1>3. /\ VCNames' = VCNames \ {v} /\ v \in VCNames
      /\ \A w \in VCNames' : vcs'[w] = vcs[w]
  BY <1>1 DEF VCNames, BooksOK, BooksTypeOK
<1>4. ServerListsMatchVCs'
  <2> SUFFICES ASSUME NEW s \in Servers
               PROVE  serverVCs'[s] = {w \in VCNames' : s \in vcs'[w].servers}
    BY DEF ServerListsMatchVCs
  <2>1. serverVCs[s] = {w \in VCNames : s \in vcs[w].servers}
    BY DEF BooksOK, ServerListsMatchVCs
  <2>2. serverVCs'[s] = serverVCs[s] \ {w \in {v} : s \in vcs[v].servers}
    BY <1>1
  <2> QED
    BY <1>3, <2>1, <2>2
<1>5. LeafListsMatchVCs'
  <2> SUFFICES ASSUME NEW l \in Leaves
               PROVE  leafVCs'[l] = {w \in VCNames' : vcs'[w].servers \cap Children(l)' # {}}
    BY DEF LeafListsMatchVCs
  <2>1. leafVCs[l] = {w \in VCNames : vcs[w].servers \cap Children(l) # {}}
    BY DEF BooksOK, LeafListsMatchVCs
  <2>2. leafVCs'[l] = leafVCs[l] \ {w \in {v} : l \in vcs[v].leaves}
    BY <1>1
  <2>3. Children(l)' = Children(l)
    BY <1>1 DEF Children
  <2>4. l \in vcs[v].leaves <=> vcs[v].servers \cap Children(l) # {}
    <3>1. vcs[v].leaves = {leafOf[s] : s \in vcs[v].servers} /\ vcs[v].servers \subseteq Servers
      BY <1>3, NamedVCs DEF BooksOK, LeavesAreOfServers
    <3> QED
      BY <3>1 DEF Children
  <2> QED
    BY <1>3, <2>1, <2>2, <2>3, <2>4
<1> QED
  BY <1>1, <1>2, <1>3, <1>4, <1>5 DEF BooksOK, LeavesAreOfServers, VCServersExist, NoOrphans


LEMMA DetachServerKeepsBooks ==
  ASSUME BooksOK, NEW s \in Servers, DeleteServer(s), DetachServer(s)
  PROVE  BooksOK'
<1> DEFINE l == leafOf[s]
           gone == EmptiedByServer(s)
<1>1. /\ l \in Leaves /\ l # None
      /\ spineOf' = spineOf
      /\ \A t \in Servers : leafOf'[t] = IF t = s THEN None ELSE leafOf[t]
      /\ leafOf' = [leafOf EXCEPT ![s] = None]
  BY DEF DeleteServer, BooksOK, BooksTypeOK, TreeTypeOK
<1>2. DetachServer(s)
  OBVIOUS
<1>3. serverVCs[s] = {v \in VCNames : s \in vcs[v].servers}
  BY DEF BooksOK, ServerListsMatchVCs
<1>4. /\ gone \subseteq serverVCs[s]
      /\ \A v \in serverVCs[s] : v \in gone <=> vcs[v].servers = {s}
  BY <1>3 DEF EmptiedByServer
<1>5. ASSUME NEW v \in VCNames
      PROVE  /\ v \in VCIds /\ vcs[v] \in VC /\ vcs[v].servers \subseteq Servers
             /\ vcs[v].leaves = {leafOf[t] : t \in vcs[v].servers}
  BY NamedVCs DEF BooksOK, LeavesAreOfServers
<1> HIDE DEF gone
(* A VC the server was in has the leaves of the servers that stay. *)
<1>6. ASSUME NEW v \in serverVCs[s]
      PROVE  LeavesLeft(vcs[v], s) = {leafOf[t] : t \in vcs[v].servers \ {s}}
  <2>1. v \in VCNames /\ s \in vcs[v].servers
    BY <1>3
  <2>2. vcs[v].leaves = {leafOf[t] : t \in vcs[v].servers}
    BY <1>5, <2>1
  <2> QED
    BY <2>1, <2>2 DEF LeavesLeft
<1>7. /\ VCNames' = VCNames \ gone
      /\ \A v \in VCNames' : vcs'[v].servers = vcs[v].servers \ {s}
      /\ \A v \in VCNames' : vcs'[v].leaves = {leafOf[t] : t \in vcs[v].servers \ {s}}
      /\ vcs' \in [VCIds -> VC \cup {None}]
  <2>1. ASSUME NEW v \in VCIds
        PROVE  /\ v \in gone => vcs'[v] = None
               /\ v \in serverVCs[s] \ gone =>
                    /\ vcs'[v] \in VC
                    /\ vcs'[v].servers = vcs[v].servers \ {s}
                    /\ vcs'[v].leaves = {leafOf[t] : t \in vcs[v].servers \ {s}}
               /\ v \notin serverVCs[s] => vcs'[v] = vcs[v]
    <3>1. vcs'[v] = IF v \in gone THEN None
                    ELSE IF v \in serverVCs[s]
                         THEN [vcs[v] EXCEPT !.servers = @ \ {s}, !.leaves = LeavesLeft(vcs[v], s)]
                         ELSE vcs[v]
      BY <1>2 DEF DetachServer, gone
    <3>2. CASE v \in serverVCs[s] \ gone
      <4>1. v \in VCNames /\ vcs[v] \in VC
        BY <1>3, <1>5, <3>2
      <4>2. LeavesLeft(vcs[v], s) \subseteq Leaves
        BY <4>1 DEF LeavesLeft, VC
      <4>3. vcs'[v] = [vcs[v] EXCEPT !.servers = @ \ {s}, !.leaves = LeavesLeft(vcs[v], s)]
        BY <3>1, <3>2
      <4>4. /\ vcs'[v] \in VC
            /\ vcs'[v].servers = vcs[v].servers \ {s}
            /\ vcs'[v].leaves = LeavesLeft(vcs[v], s)
        BY <4>1, <4>2, <4>3 DEF VC
      <4> QED
        BY <1>6, <3>2, <4>4
    <3> QED
      BY <1>4, <3>1, <3>2
  <2>2. \A v \in VC : v # None
    BY NoneIsNoRecord
  <2>3. VCNames' = {v \in VCIds : vcs'[v] # None}
    BY DEF VCNames
  <2>4. VCNames' = VCNames \ gone
    <3>1. ASSUME NEW v \in VCIds
          PROVE  vcs'[v] # None <=> vcs[v] # None /\ v \notin gone
      <4>1. v \in serverVCs[s] => vcs[v] # None
        BY <1>3 DEF VCNames
      <4> QED
        BY <1>4, <2>1, <2>2, <4>1
    <3> QED
      BY <2>3, <3>1 DEF VCNames
  <2>5. ASSUME NEW v \in VCNames'
        PROVE  /\ vcs'[v].servers = vcs[v].servers \ {s}
               /\ vcs'[v].leaves = {leafOf[t] : t \in vcs[v].servers \ {s}}
    <3>1. v \in VCIds /\ v \in VCNames /\ v \notin gone
      BY <1>5, <2>4
    <3>2. CASE v \in serverVCs[s]
      BY <2>1, <3>1, <3>2
    <3>3. CASE v \notin serverVCs[s]
      <4>1. s \notin vcs[v].servers /\ vcs'[v] = vcs[v]
        BY <1>3, <2>1, <3>1, <3>3
      <4>2. vcs[v].servers \ {s} = vcs[v].servers
        BY <4>1
      <4> QED
        BY <1>5, <3>1, <4>1, <4>2
    <3> QED
      BY <3>2, <3>3
  <2>6. vcs' \in [VCIds -> VC \cup {None}]
    <3>1. \A v \in VCIds : vcs'[v] \in VC \cup {None}
      BY <2>1 DEF BooksOK, BooksTypeOK
    <3>2. vcs' = [v \in VCIds |-> vcs'[v]]
      BY <1>2 DEF DetachServer
    <3> QED
      BY <3>1, <3>2
  <2> QED
    BY <2>4, <2>5, <2>6
<1>8. BooksTypeOK'
  <2>1. serverVCs' \in [Servers -> SUBSET VCIds] /\ leafVCs' \in [Leaves -> SUBSET VCIds]
    BY <1>2 DEF DetachServer, BooksOK, BooksTypeOK
  <2> QED
    BY <1>1, <1>7, <2>1 DEF BooksOK, BooksTypeOK, TreeTypeOK
<1>9. ServerListsMatchVCs'
  <2> SUFFICES ASSUME NEW t \in Servers
               PROVE  serverVCs'[t] = {v \in VCNames' : t \in vcs'[v].servers}
    BY DEF ServerListsMatchVCs
  <2>1. serverVCs[t] = {v \in VCNames : t \in vcs[v].servers}
    BY DEF BooksOK, ServerListsMatchVCs
  <2>2. serverVCs'[t] = IF t = s THEN {} ELSE serverVCs[t]
    BY <1>2 DEF DetachServer, BooksOK, BooksTypeOK
  <2>3. t # s => \A v \in gone : t \notin vcs[v].servers
    BY <1>4
  <2> QED
    BY <1>7, <2>1, <2>2, <2>3
<1>10. LeafListsMatchVCs'
  <2> SUFFICES ASSUME NEW m \in Leaves
               PROVE  leafVCs'[m] = {v \in VCNames' : vcs'[v].servers \cap Children(m)' # {}}
    BY DEF LeafListsMatchVCs
  <2>1. leafVCs[m] = {v \in VCNames : vcs[v].servers \cap Children(m) # {}}
    BY DEF BooksOK, LeafListsMatchVCs
  <2>2. leafVCs'[m] = leafVCs[m] \ {v \in serverVCs[s] :
                         \/ m = l /\ m \notin LeavesLeft(vcs[v], s)
                         \/ v \in gone /\ m \in LeavesLeft(vcs[v], s)}
    BY <1>2 DEF DetachServer, gone
  <2>3. Children(m)' = Children(m) \ {s}
    BY <1>1, NoneIsNoNode DEF Children
  <2>4. ASSUME NEW v \in VCNames'
        PROVE  v \in leafVCs'[m] <=> vcs'[v].servers \cap Children(m)' # {}
    <3>1. v \in VCNames /\ v \notin gone
      BY <1>7
    <3>2. vcs'[v].servers \cap Children(m)' = (vcs[v].servers \cap Children(m)) \ {s}
      BY <1>7, <2>3
    <3>3. CASE v \notin serverVCs[s]
      <4>1. s \notin vcs[v].servers
        BY <1>3, <3>1, <3>3
      <4> QED
        BY <2>1, <2>2, <3>1, <3>2, <3>3, <4>1
    <3>4. CASE v \in serverVCs[s] /\ m # l
      <4>1. s \notin Children(m)
        BY <3>4 DEF Children
      <4> QED
        BY <2>1, <2>2, <3>1, <3>2, <3>4, <4>1
    <3>5. CASE v \in serverVCs[s] /\ m = l
      <4>1. m \in LeavesLeft(vcs[v], s) <=> (vcs[v].servers \cap Children(m)) \ {s} # {}
        <5>1. LeavesLeft(vcs[v], s) = {leafOf[t] : t \in vcs[v].servers \ {s}}
          BY <1>6, <3>5
        <5>2. vcs[v].servers \subseteq Servers
          BY <1>5, <3>1
        <5> QED
          BY <5>1, <5>2 DEF Children
      <4> QED
        BY <2>1, <2>2, <3>1, <3>2, <3>5, <4>1
    <3> QED
      BY <3>3, <3>4, <3>5
  <2>5. ASSUME NEW v \in leafVCs'[m]
        PROVE  v \in VCNames'
    <3>1. v \in VCNames /\ vcs[v].servers \cap Children(m) # {}
      BY <2>1, <2>2
    <3>2. CASE v \in gone
      <4>1. vcs[v].servers = {s} /\ v \in serverVCs[s]
        BY <1>4, <3>2
      <4>2. m = l
        BY <3>1, <4>1 DEF Children
      <4>3. LeavesLeft(vcs[v], s) = {}
        BY <1>6, <4>1
      <4> QED
        BY <2>2, <4>1, <4>2, <4>3
    <3> QED
      BY <1>7, <3>1, <3>2
  <2> QED
    BY <2>4, <2>5
<1>11. LeavesAreOfServers' /\ VCServersExist'
  <2>1. ASSUME NEW v \in VCNames', NEW t \in vcs[v].servers \ {s}
        PROVE  leafOf'[t] = leafOf[t] /\ leafOf[t] # None /\ spineOf[leafOf[t]] # None
    BY <1>1, <1>5, <1>7 DEF BooksOK, VCServersExist
  <2>2. \A v \in VCNames' : {leafOf'[t] : t \in vcs[v].servers \ {s}}
                            = {leafOf[t] : t \in vcs[v].servers \ {s}}
    BY <2>1
  <2> QED
    BY <1>1, <1>7, <2>1, <2>2 DEF LeavesAreOfServers, VCServersExist
<1>12. NoOrphans'
  BY <1>1 DEF BooksOK, NoOrphans
<1> QED
  BY <1>8, <1>9, <1>10, <1>11, <1>12 DEF BooksOK

(* What DetachServer and DetachLeaf do to the VCs, in terms of the tree:   *)
(* each VC loses the nodes that leave, and is gone with the last server.   *)
LEMMA DetachLeafOnVCs ==
  ASSUME BooksOK, NEW l \in Leaves, DetachLeaf(l), DeleteLeaf(l)
  PROVE  /\ l # None
         /\ spineOf' = [spineOf EXCEPT ![l] = None]
         /\ \A t \in Servers : leafOf'[t] = IF leafOf[t] = l THEN None ELSE leafOf[t]
         /\ leafOf' \in [Servers -> Leaves \cup {None}]
         /\ VCNames' = VCNames \ EmptiedByLeaf(l)
         /\ vcs' \in [VCIds -> VC \cup {None}]
         /\ \A v \in VCNames' : /\ vcs'[v].servers = vcs[v].servers \ Children(l)
                                /\ vcs'[v].leaves = {leafOf[t] : t \in vcs[v].servers \ Children(l)}
                                /\ vcs'[v].spines = vcs[v].spines
         /\ \A v \in VCNames : v \in EmptiedByLeaf(l)
              <=> vcs[v].servers # {} /\ vcs[v].servers \subseteq Children(l)
         /\ EmptiedByLeaf(l) \subseteq leafVCs[l]
<1> DEFINE gone == EmptiedByLeaf(l)
<1>1. /\ l # None
      /\ spineOf' = [spineOf EXCEPT ![l] = None]
      /\ \A t \in Servers : leafOf'[t] = IF leafOf[t] = l THEN None ELSE leafOf[t]
      /\ leafOf' \in [Servers -> Leaves \cup {None}]
  BY NoneIsNoNode DEF DeleteLeaf, BooksOK, BooksTypeOK, TreeTypeOK
<1>2. leafVCs[l] = {v \in VCNames : vcs[v].servers \cap Children(l) # {}}
  BY DEF BooksOK, LeafListsMatchVCs
<1>3. ASSUME NEW v \in VCNames
      PROVE  /\ v \in VCIds /\ vcs[v] \in VC /\ vcs[v].servers \subseteq Servers
             /\ vcs[v].leaves = {leafOf[t] : t \in vcs[v].servers}
  BY NamedVCs DEF BooksOK, LeavesAreOfServers
<1>4. ASSUME NEW v \in leafVCs[l]
      PROVE  /\ v \in VCNames
             /\ LostWithLeaf(v, l) = vcs[v].servers \cap Children(l)
             /\ vcs[v].servers \ LostWithLeaf(v, l) = vcs[v].servers \ Children(l)
             /\ vcs[v].leaves \ {l} = {leafOf[t] : t \in vcs[v].servers \ Children(l)}
  <2>1. v \in VCNames /\ vcs[v].servers \cap Children(l) # {}
    BY <1>2
  <2>2. vcs[v].leaves = {leafOf[t] : t \in vcs[v].servers} /\ vcs[v].servers \subseteq Servers
    BY <1>3, <2>1
  <2>3. l \in vcs[v].leaves
    BY <2>1, <2>2 DEF Children
  <2>4. vcs[v].leaves \ {l} = {leafOf[t] : t \in vcs[v].servers \ Children(l)}
    BY <2>2 DEF Children
  <2> QED
    BY <2>1, <2>3, <2>4 DEF LostWithLeaf
<1>5. /\ gone \subseteq leafVCs[l]
      /\ \A v \in leafVCs[l] : v \in gone <=> vcs[v].servers \ Children(l) = {}
  BY <1>4 DEF EmptiedByLeaf
<1>6. \A v \in VCNames : v \in gone <=> vcs[v].servers # {} /\ vcs[v].servers \subseteq Children(l)
  BY <1>2, <1>5
<1>7. DetachLeaf(l)
  OBVIOUS
<1> HIDE DEF gone
<1>8. ASSUME NEW v \in VCIds
      PROVE  /\ v \in gone => vcs'[v] = None
             /\ v \in leafVCs[l] \ gone =>
                  /\ vcs'[v] \in VC
                  /\ vcs'[v].servers = vcs[v].servers \ Children(l)
                  /\ vcs'[v].leaves = {leafOf[t] : t \in vcs[v].servers \ Children(l)}
                  /\ vcs'[v].spines = vcs[v].spines
             /\ v \notin leafVCs[l] => vcs'[v] = vcs[v]
  <2>1. vcs'[v] = IF v \in gone THEN None
                  ELSE IF v \in leafVCs[l]
                       THEN [vcs[v] EXCEPT !.servers = @ \ LostWithLeaf(v, l), !.leaves = @ \ {l}]
                       ELSE vcs[v]
    BY <1>7 DEF DetachLeaf, gone
  <2>2. CASE v \in leafVCs[l] \ gone
    <3>1. v \in VCNames /\ vcs[v] \in VC
      BY <1>3, <1>4, <2>2
    <3>2. vcs'[v] = [vcs[v] EXCEPT !.servers = @ \ LostWithLeaf(v, l), !.leaves = @ \ {l}]
      BY <2>1, <2>2
    <3>3. /\ vcs'[v] \in VC
          /\ vcs'[v].servers = vcs[v].servers \ LostWithLeaf(v, l)
          /\ vcs'[v].leaves = vcs[v].leaves \ {l}
          /\ vcs'[v].spines = vcs[v].spines
      BY <3>1, <3>2 DEF VC
    <3> QED
      BY <1>4, <2>2, <3>3
  <2> QED
    BY <1>5, <2>1, <2>2
<1>9. VCNames' = VCNames \ gone
  <2>1. \A v \in VC : v # None
    BY NoneIsNoRecord
  <2>2. ASSUME NEW v \in VCIds
        PROVE  vcs'[v] # None <=> vcs[v] # None /\ v \notin gone
    <3>1. v \in leafVCs[l] => vcs[v] # None
      BY <1>2 DEF VCNames
    <3> QED
      BY <1>5, <1>8, <2>1, <3>1
  <2> QED
    BY <2>2 DEF VCNames
<1>10. ASSUME NEW v \in VCNames'
       PROVE  /\ vcs'[v].servers = vcs[v].servers \ Children(l)
              /\ vcs'[v].leaves = {leafOf[t] : t \in vcs[v].servers \ Children(l)}
              /\ vcs'[v].spines = vcs[v].spines
  <2>1. v \in VCIds /\ v \in VCNames /\ v \notin gone
    BY <1>3, <1>9
  <2>2. CASE v \in leafVCs[l]
    BY <1>8, <2>1, <2>2
  <2>3. CASE v \notin leafVCs[l]
    <3>1. vcs[v].servers \cap Children(l) = {} /\ vcs'[v] = vcs[v]
      BY <1>2, <1>8, <2>1, <2>3
    <3>2. vcs[v].servers \ Children(l) = vcs[v].servers
      BY <3>1
    <3> QED
      BY <1>3, <2>1, <3>1, <3>2
  <2> QED
    BY <2>2, <2>3
<1>11. vcs' \in [VCIds -> VC \cup {None}]
  <2>1. \A v \in VCIds : vcs'[v] \in VC \cup {None}
    BY <1>8 DEF BooksOK, BooksTypeOK
  <2>2. vcs' = [v \in VCIds |-> vcs'[v]]
    BY <1>7 DEF DetachLeaf
  <2> QED
    BY <2>1, <2>2
<1> QED
  BY <1>1, <1>5, <1>6, <1>9, <1>10, <1>11 DEF gone


LEMMA DetachLeafKeepsBooks ==
  ASSUME BooksOK, NEW l \in Leaves, DetachLeaf(l), DeleteLeaf(l)
  PROVE  BooksOK'
<1> DEFINE gone == EmptiedByLeaf(l)
<1>1. /\ l # None
      /\ spineOf' = [spineOf EXCEPT ![l] = None]
      /\ \A t \in Servers : leafOf'[t] = IF leafOf[t] = l THEN None ELSE leafOf[t]
      /\ leafOf' \in [Servers -> Leaves \cup {None}]
      /\ VCNames' = VCNames \ gone
      /\ vcs' \in [VCIds -> VC \cup {None}]
      /\ \A v \in VCNames' : /\ vcs'[v].servers = vcs[v].servers \ Children(l)
                             /\ vcs'[v].leaves = {leafOf[t] : t \in vcs[v].servers \ Children(l)}
      /\ \A v \in VCNames : v \in gone <=> vcs[v].servers # {} /\ vcs[v].servers \subseteq Children(l)
      /\ gone \subseteq leafVCs[l]
  BY DetachLeafOnVCs
<1>2. DetachLeaf(l)
  OBVIOUS
<1>3. leafVCs[l] = {v \in VCNames : vcs[v].servers \cap Children(l) # {}}
  BY DEF BooksOK, LeafListsMatchVCs
<1>4. ASSUME NEW v \in VCNames
      PROVE  /\ v \in VCIds /\ vcs[v] \in VC /\ vcs[v].servers \subseteq Servers
             /\ vcs[v].leaves = {leafOf[t] : t \in vcs[v].servers}
  BY NamedVCs DEF BooksOK, LeavesAreOfServers
<1>5. ASSUME NEW v \in leafVCs[l]
      PROVE  LostWithLeaf(v, l) = vcs[v].servers \cap Children(l)
  BY <1>3, <1>4 DEF LostWithLeaf, Children
<1>6. BooksTypeOK'
  <2>1. serverVCs' \in [Servers -> SUBSET VCIds] /\ leafVCs' \in [Leaves -> SUBSET VCIds]
    BY <1>2 DEF DetachLeaf, ServerVCsAfter, BooksOK, BooksTypeOK
  <2> QED
    BY <1>1, <2>1 DEF BooksOK, BooksTypeOK, TreeTypeOK
<1>7. ServerListsMatchVCs'
  <2> SUFFICES ASSUME NEW s \in Servers
               PROVE  serverVCs'[s] = {v \in VCNames' : s \in vcs'[v].servers}
    BY DEF ServerListsMatchVCs
  <2>1. serverVCs[s] = {v \in VCNames : s \in vcs[v].servers}
    BY DEF BooksOK, ServerListsMatchVCs
  <2>2. serverVCs'[s] = serverVCs[s] \ {v \in leafVCs[l] : s \in LostWithLeaf(v, l)}
    BY <1>2 DEF DetachLeaf, ServerVCsAfter
  <2>3. CASE s \in Children(l)
    <3>1. serverVCs'[s] = {}
      BY <1>3, <1>5, <2>1, <2>2, <2>3
    <3>2. \A v \in VCNames' : s \notin vcs'[v].servers
      BY <1>1, <2>3
    <3> QED
      BY <3>1, <3>2
  <2>4. CASE s \notin Children(l)
    <3>1. serverVCs'[s] = serverVCs[s]
      BY <1>5, <2>2, <2>4
    <3>2. \A v \in gone : s \notin vcs[v].servers
      BY <1>1, <1>3, <2>4
    <3>3. \A v \in VCNames' : s \in vcs'[v].servers <=> s \in vcs[v].servers
      BY <1>1, <2>4
    <3> HIDE DEF gone
    <3> QED
      BY <1>1, <2>1, <3>1, <3>2, <3>3
  <2> QED
    BY <2>3, <2>4
<1>8. LeafListsMatchVCs'
  <2> SUFFICES ASSUME NEW m \in Leaves
               PROVE  leafVCs'[m] = {v \in VCNames' : vcs'[v].servers \cap Children(m)' # {}}
    BY DEF LeafListsMatchVCs
  <2>1. leafVCs[m] = {v \in VCNames : vcs[v].servers \cap Children(m) # {}}
    BY DEF BooksOK, LeafListsMatchVCs
  <2>2. leafVCs'[m] = IF m = l THEN {} ELSE leafVCs[m] \ {v \in gone : m \in vcs[v].leaves}
    BY <1>2 DEF DetachLeaf
  <2>3. Children(m)' = IF m = l THEN {} ELSE Children(m)
    BY <1>1, NoneIsNoNode DEF Children
  <2> HIDE DEF gone
  <2>4. CASE m = l
    BY <2>2, <2>3, <2>4
  <2>5. CASE m # l
    <3>1. Children(m) \cap Children(l) = {}
      BY <2>5 DEF Children
    <3>2. \A v \in gone : v \notin leafVCs'[m]
      <4>1. \A v \in gone : vcs[v].servers \cap Children(m) = {}
        BY <1>1, <1>3, <3>1
      <4> QED
        BY <2>1, <2>2, <2>5, <4>1
    <3>3. \A v \in VCNames' : vcs'[v].servers \cap Children(m)' = vcs[v].servers \cap Children(m)
      BY <1>1, <2>3, <2>5, <3>1
    <3> QED
      BY <1>1, <2>1, <2>2, <2>5, <3>2, <3>3
  <2> QED
    BY <2>4, <2>5
<1>9. LeavesAreOfServers' /\ VCServersExist'
  <2>1. ASSUME NEW v \in VCNames', NEW t \in vcs[v].servers \ Children(l)
        PROVE  /\ leafOf'[t] = leafOf[t] /\ leafOf[t] # None
               /\ leafOf[t] \in Leaves /\ leafOf[t] # l /\ spineOf'[leafOf[t]] # None
    <3>1. v \in VCNames /\ t \in Servers /\ t \in vcs[v].servers
      BY <1>1, <1>4
    <3>2. leafOf[t] # l
      BY <2>1, <3>1 DEF Children
    <3>3. leafOf[t] # None /\ spineOf[leafOf[t]] # None
      BY <3>1 DEF BooksOK, VCServersExist
    <3>4. leafOf[t] \in Leaves
      BY <3>1, <3>3 DEF BooksOK, BooksTypeOK, TreeTypeOK
    <3> QED
      BY <1>1, <3>1, <3>2, <3>3, <3>4 DEF BooksOK, BooksTypeOK, TreeTypeOK
  <2>2. \A v \in VCNames' : {leafOf'[t] : t \in vcs[v].servers \ Children(l)}
                            = {leafOf[t] : t \in vcs[v].servers \ Children(l)}
    BY <2>1
  <2> QED
    BY <1>1, <2>1, <2>2 DEF LeavesAreOfServers, VCServersExist
<1>10. NoOrphans'
  <2> SUFFICES ASSUME NEW s \in Servers, leafOf'[s] # None
               PROVE  spineOf'[leafOf'[s]] # None
    BY DEF NoOrphans
  <2>1. leafOf'[s] = leafOf[s] /\ leafOf[s] # l /\ leafOf[s] \in Leaves
    BY <1>1 DEF BooksOK, BooksTypeOK, TreeTypeOK
  <2> QED
    BY <1>1, <2>1 DEF BooksOK, NoOrphans, BooksTypeOK, TreeTypeOK
<1> QED
  BY <1>6, <1>7, <1>8, <1>9, <1>10 DEF BooksOK

LEMMA NextKeepsBooks ==
  ASSUME BooksOK, Next
  PROVE  BooksOK'
<1>1. ASSUME NEW l \in Leaves, NEW sp \in Spines, AddLeaf(l, sp)
      PROVE  BooksOK'
  BY <1>1, InsertLeafKeepsBooks DEF AddLeaf
<1>2. ASSUME NEW l \in Leaves, FailLeaf(l)
      PROVE  BooksOK'
  BY <1>2, DetachLeafKeepsBooks DEF FailLeaf
<1>3. ASSUME NEW s \in Servers, NEW l \in Leaves, AddServer(s, l)
      PROVE  BooksOK'
  BY <1>3, InsertServerKeepsBooks DEF AddServer
<1>4. ASSUME NEW s \in Servers, FailServer(s)
      PROVE  BooksOK'
  BY <1>4, DetachServerKeepsBooks DEF FailServer
<1>5. ASSUME NEW v \in VCIds, NEW spines \in SUBSET Spines, NEW servers \in SUBSET Servers,
             AddVC(v, spines, servers)
      PROVE  BooksOK'
  BY <1>5, StoreVCKeepsBooks DEF AddVC
<1>6. ASSUME NEW v \in VCIds, RemoveVC(v)
      PROVE  BooksOK'
  BY <1>6, DropVCKeepsBooks DEF RemoveVC
<1> QED
  BY <1>1, <1>2, <1>3, <1>4, <1>5, <1>6 DEF Next

(* The spines a failure is told to are spines.                             *)
LEMMA SpinesOfLeaf ==
  ASSUME BooksOK, NEW l \in Leaves, spineOf[l] # None
  PROVE  SpinesToTell(leafVCs[l], spineOf[l]) \subseteq Spines
<1>1. spineOf[l] \in Spines
  BY DEF BooksOK, BooksTypeOK, TreeTypeOK
<1>2. \A v \in leafVCs[l] : vcs[v].spines \subseteq Spines
  BY NamedVCs DEF BooksOK, LeafListsMatchVCs
<1> QED
  BY <1>1, <1>2 DEF SpinesToTell

LEMMA SpinesOfServer ==
  ASSUME BooksOK, NEW s \in Servers, leafOf[s] # None
  PROVE  SpinesToTell(serverVCs[s], spineOf[leafOf[s]]) \subseteq Spines
<1>1. spineOf[leafOf[s]] \in Spines
  BY DEF BooksOK, BooksTypeOK, TreeTypeOK, NoOrphans
<1>2. \A v \in serverVCs[s] : vcs[v].spines \subseteq Spines
  BY NamedVCs DEF BooksOK, ServerListsMatchVCs
<1> QED
  BY <1>1, <1>2 DEF SpinesToTell

LEMMA NextTells ==
  ASSUME BooksOK, Next
  PROVE  told' \in Msg \cup {None}
<1>1. ASSUME NEW l \in Leaves, NEW sp \in Spines, AddLeaf(l, sp)
      PROVE  told' \in Msg
  BY <1>1 DEF AddLeaf, Tell, Msg
<1>2. ASSUME NEW l \in Leaves, FailLeaf(l)
      PROVE  told' \in Msg
  BY <1>2, SpinesOfLeaf DEF DeleteLeaf, FailLeaf, Tell, Msg
<1>3. ASSUME NEW s \in Servers, NEW l \in Leaves, AddServer(s, l)
      PROVE  told' \in Msg
  BY <1>3 DEF AddServer, InsertServer, BooksOK, BooksTypeOK, TreeTypeOK, Tell, Msg
<1>4. ASSUME NEW s \in Servers, FailServer(s)
      PROVE  told' \in Msg \cup {None}
  BY <1>4, SpinesOfServer DEF DeleteServer, FailServer, Tell, Msg
<1>5. ASSUME NEW v \in VCIds, NEW spines \in SUBSET Spines, NEW servers \in SUBSET Servers,
             AddVC(v, spines, servers)
      PROVE  told' \in Msg
  BY <1>5 DEF AddVC, Tell, Msg
<1>6. ASSUME NEW v \in VCIds, RemoveVC(v)
      PROVE  told' \in Msg
  <2>1. vcs[v].spines \subseteq Spines
    BY <1>6, NamedVCs DEF RemoveVC, VCNames
  <2> QED
    BY <1>6, <2>1 DEF RemoveVC, Tell, Msg
<1> QED
  BY <1>1, <1>2, <1>3, <1>4, <1>5, <1>6 DEF Next

LEMMA NextKeepsIInv ==
  ASSUME IInv, [Next]_vars
  PROVE  IInv'
<1>1. CASE Next
  <2>1. BooksOK' /\ told' \in Msg \cup {None}
    BY <1>1, IInvIsBooks, NextKeepsBooks, NextTells
  <2> QED
    BY <2>1 DEF IInv, BooksOK, TypeOK, BooksTypeOK
<1>2. CASE UNCHANGED vars
  BY <1>2 DEF vars, IInv, TypeOK, TreeTypeOK, NoOrphans, ServerListsMatchVCs, LeafListsMatchVCs,
              LeavesAreOfServers, VCServersExist, VCNames, Children
<1> QED
  BY <1>1, <1>2

-----------------------------------------------------------------------------
(* The theorems.                                                           *)

(* Every state the central controller reaches by calls that do not overlap *)
(* satisfies the inductive invariant.                                      *)
THEOREM InductiveInvariant == Spec => []IInv
<1>1. Init => IInv
  BY EmptyBooks, IInvIsBooks DEF Init, TreeTypeOK, NoOrphans
<1>2. IInv /\ [Next]_vars => IInv'
  BY NextKeepsIInv
<1> QED
  BY <1>1, <1>2, PTL DEF Spec

(* Type correctness.                                                       *)
THEOREM TypeCorrect == Spec => []TypeOK
<1>1. IInv => TypeOK
  BY DEF IInv
<1> QED
  BY <1>1, InductiveInvariant, PTL

(* The VC list of a server is exactly the VCs the server is in.            *)
THEOREM ServerListsAlwaysMatch == Spec => []ServerListsMatchVCs
<1>1. IInv => ServerListsMatchVCs
  BY DEF IInv
<1> QED
  BY <1>1, InductiveInvariant, PTL

(* The VC list of a leaf is exactly the VCs with a server below the leaf.  *)
THEOREM LeafListsAlwaysMatch == Spec => []LeafListsMatchVCs
<1>1. IInv => LeafListsMatchVCs
  BY DEF IInv
<1> QED
  BY <1>1, InductiveInvariant, PTL

(* A VC has exactly the leaves of its servers.                             *)
THEOREM LeavesAlwaysOfServers == Spec => []LeavesAreOfServers
<1>1. IInv => LeavesAreOfServers
  BY DEF IInv
<1> QED
  BY <1>1, InductiveInvariant, PTL

(* No VC holds a server, or a server of a leaf, that failed.               *)
THEOREM VCServersAlwaysExist == Spec => []VCServersExist
<1>1. IInv => VCServersExist
  BY DEF IInv
<1> QED
  BY <1>1, InductiveInvariant, PTL

(* A VC loses the servers that leave the tree, no other one, and goes with *)
(* the last of them or by RemoveVC.                                        *)
THEOREM MembershipAlwaysFollowsTree == Spec => MembershipFollowsTree
<1> DEFINE Left(v) == {s \in vcs[v].servers : leafOf'[s] # None}
           Follows(v) ==
             IF vcs'[v] = None
             THEN (Left(v) = {} /\ vcs[v].servers # {}) \/ (told'.type = "removeVC" /\ told'.node = v)
             ELSE /\ vcs'[v].servers = Left(v)
                  /\ vcs'[v].spines = vcs[v].spines
                  /\ Left(v) = {} => vcs[v].servers = {}
<1>1. ASSUME IInv, [Next]_vars, NEW v \in VCNames
      PROVE  Follows(v)
  <2>1. /\ v \in VCIds /\ vcs[v] \in VC /\ vcs[v].servers \subseteq Servers /\ vcs[v] # None
        /\ \A s \in vcs[v].servers : leafOf[s] # None
    BY <1>1, NamedVCs, IInvIsBooks DEF IInv, VCServersExist, VCNames
  <2>2. ASSUME vcs'[v] = vcs[v], \A s \in vcs[v].servers : leafOf'[s] # None
        PROVE  Follows(v)
    BY <2>1, <2>2
  <2>3. ASSUME NEW l \in Leaves, NEW sp \in Spines, AddLeaf(l, sp)
        PROVE  Follows(v)
    BY <2>1, <2>2, <2>3 DEF AddLeaf, InsertLeaf
  <2>4. ASSUME NEW s \in Servers, NEW l \in Leaves, AddServer(s, l)
        PROVE  Follows(v)
    <3>1. \A t \in Servers : leafOf'[t] = leafOf[t] \/ leafOf'[t] = l
      BY <1>1, <2>4 DEF AddServer, InsertServer, IInv, TypeOK, TreeTypeOK
    <3>2. l # None
      BY NoneIsNoNode
    <3> QED
      BY <2>1, <2>2, <2>4, <3>1, <3>2 DEF AddServer
  <2>5. ASSUME NEW w \in VCIds, NEW spines \in SUBSET Spines, NEW servers \in SUBSET Servers,
               AddVC(w, spines, servers)
        PROVE  Follows(v)
    <3>1. w # v /\ leafOf' = leafOf /\ vcs' = [vcs EXCEPT ![w] = NewVC(spines, servers)]
      BY <2>1, <2>5 DEF AddVC, StoreVC, treeVars
    <3>2. vcs'[v] = vcs[v]
      BY <1>1, <2>1, <3>1 DEF IInv, TypeOK
    <3> QED
      BY <2>1, <2>2, <3>1, <3>2
  <2>6. ASSUME NEW w \in VCIds, RemoveVC(w)
        PROVE  Follows(v)
    <3>1. leafOf' = leafOf /\ vcs' = [vcs EXCEPT ![w] = None]
      BY <2>6 DEF RemoveVC, DropVC, treeVars
    <3>2. CASE w = v
      <4>1. told'.type = "removeVC" /\ told'.node = v
        BY <2>6, <3>2 DEF RemoveVC, Tell
      <4>2. vcs'[v] = None
        BY <1>1, <2>1, <3>1, <3>2 DEF IInv, TypeOK
      <4> QED
        BY <4>1, <4>2
    <3>3. CASE w # v
      <4>1. vcs'[v] = vcs[v]
        BY <1>1, <2>1, <3>1, <3>3 DEF IInv, TypeOK
      <4> QED
        BY <2>1, <2>2, <3>1, <4>1
    <3> QED
      BY <3>2, <3>3
  <2>7. ASSUME NEW s \in Servers, FailServer(s)
        PROVE  Follows(v)
    <3>1. \A t \in Servers : leafOf'[t] = IF t = s THEN None ELSE leafOf[t]
      BY <1>1, <2>7 DEF FailServer, DeleteServer, IInv, TypeOK, TreeTypeOK
    <3>2. Left(v) = vcs[v].servers \ {s}
      BY <2>1, <3>1
    <3>3. v \in serverVCs[s] <=> s \in vcs[v].servers
      BY <1>1 DEF IInv, ServerListsMatchVCs
    <3>4. vcs'[v] = IF v \in EmptiedByServer(s) THEN None
                    ELSE IF v \in serverVCs[s]
                         THEN [vcs[v] EXCEPT !.servers = @ \ {s}, !.leaves = LeavesLeft(vcs[v], s)]
                         ELSE vcs[v]
      BY <2>1, <2>7 DEF FailServer, DetachServer
    <3>5. v \in EmptiedByServer(s) <=> v \in serverVCs[s] /\ vcs[v].servers \ {s} = {}
      BY DEF EmptiedByServer
    <3>6. CASE v \in EmptiedByServer(s)
      BY <3>2, <3>3, <3>4, <3>5, <3>6
    <3>7. CASE v \in serverVCs[s] /\ v \notin EmptiedByServer(s)
      <4>1. vcs'[v] = [vcs[v] EXCEPT !.servers = @ \ {s}, !.leaves = LeavesLeft(vcs[v], s)]
        BY <3>4, <3>7
      <4>2. vcs'[v].servers = vcs[v].servers \ {s} /\ vcs'[v].spines = vcs[v].spines
        BY <2>1, <4>1 DEF VC
      <4>3. vcs'[v] # None
        <5>1. LeavesLeft(vcs[v], s) \subseteq Leaves
          BY <2>1 DEF LeavesLeft, VC
        <5>2. vcs'[v] \in VC
          BY <2>1, <4>1, <5>1 DEF VC
        <5> QED
          BY <5>2, NoneIsNoRecord
      <4> QED
        BY <3>2, <3>5, <3>7, <4>2, <4>3
    <3>8. CASE v \notin serverVCs[s]
      BY <2>1, <3>2, <3>3, <3>4, <3>5, <3>8
    <3> QED
      BY <3>6, <3>7, <3>8
  <2>8. ASSUME NEW l \in Leaves, FailLeaf(l)
        PROVE  Follows(v)
    <3>1. /\ \A t \in Servers : leafOf'[t] = IF leafOf[t] = l THEN None ELSE leafOf[t]
          /\ VCNames' = VCNames \ EmptiedByLeaf(l)
          /\ \A w \in VCNames' : /\ vcs'[w].servers = vcs[w].servers \ Children(l)
                                 /\ vcs'[w].spines = vcs[w].spines
          /\ v \in EmptiedByLeaf(l) <=> vcs[v].servers # {} /\ vcs[v].servers \subseteq Children(l)
      BY <1>1, <2>8, DetachLeafOnVCs, IInvIsBooks DEF FailLeaf
    <3>2. Left(v) = vcs[v].servers \ Children(l)
      BY <2>1, <3>1 DEF Children
    <3>3. vcs'[v] # None <=> v \in VCNames'
      BY <2>1 DEF VCNames
    <3> HIDE DEF Left
    <3> QED
      BY <3>1, <3>2, <3>3
  <2>9. CASE UNCHANGED vars
    BY <2>1, <2>2, <2>9 DEF vars
  <2> QED
    BY <1>1, <2>3, <2>4, <2>5, <2>6, <2>7, <2>8, <2>9 DEF Next
<1>2. IInv /\ [Next]_vars => [\A v \in VCNames : Follows(v)]_vars
  BY <1>1
<1> QED
  BY <1>2, InductiveInvariant, PTL DEF Spec, MembershipFollowsTree

(* Every spine of a VC is told of each call that shrinks the VC.           *)
THEOREM SpinesOfVCAreAlwaysTold == Spec => SpinesOfVCAreTold
<1> DEFINE Shrinks(v) == vcs'[v] = None \/ vcs'[v].servers # vcs[v].servers
           IsTold(v) == told' # None /\ vcs[v].spines \subseteq told'.spines
<1>1. ASSUME IInv, [Next]_vars, NEW v \in VCNames, Shrinks(v)
      PROVE  IsTold(v)
  <2>1. /\ v \in VCIds /\ vcs[v] \in VC /\ vcs[v].servers \subseteq Servers /\ vcs[v] # None
    BY <1>1, NamedVCs, IInvIsBooks DEF IInv, VCNames
  <2>2. IInv'
    BY <1>1, NextKeepsIInv
  <2>3. vcs'[v] # vcs[v]
    BY <1>1, <2>1
  <2>4. ASSUME NEW l \in Leaves, NEW sp \in Spines, AddLeaf(l, sp)
        PROVE  IsTold(v)
    BY <2>3, <2>4 DEF AddLeaf
  <2>5. ASSUME NEW s \in Servers, NEW l \in Leaves, AddServer(s, l)
        PROVE  IsTold(v)
    BY <2>3, <2>5 DEF AddServer
  <2>6. ASSUME NEW w \in VCIds, NEW spines \in SUBSET Spines, NEW servers \in SUBSET Servers,
               AddVC(w, spines, servers)
        PROVE  IsTold(v)
    BY <1>1, <2>1, <2>3, <2>6 DEF AddVC, StoreVC, IInv, TypeOK
  <2>7. ASSUME NEW w \in VCIds, RemoveVC(w)
        PROVE  IsTold(v)
    <3>1. w = v
      BY <1>1, <2>1, <2>3, <2>7 DEF RemoveVC, DropVC, IInv, TypeOK
    <3>2. told' = [type |-> "removeVC", node |-> v, spines |-> vcs[v].spines]
      BY <2>7, <3>1 DEF RemoveVC, Tell
    <3>3. told' \in Msg
      BY <2>1, <3>2 DEF Msg, VC
    <3> QED
      BY <3>2, <3>3, NoneIsNoRecord
  <2>8. ASSUME NEW s \in Servers, FailServer(s)
        PROVE  IsTold(v)
    <3>1. vcs'[v] = IF v \in EmptiedByServer(s) THEN None
                    ELSE IF v \in serverVCs[s]
                         THEN [vcs[v] EXCEPT !.servers = @ \ {s}, !.leaves = LeavesLeft(vcs[v], s)]
                         ELSE vcs[v]
      BY <2>1, <2>8 DEF FailServer, DetachServer
    <3>2. v \in serverVCs[s]
      BY <2>3, <3>1 DEF EmptiedByServer
    <3>3. Detached(s)
      BY <1>1, <3>2 DEF Detached, IInv, ServerListsMatchVCs
    <3>4. told' = [type |-> "failedServer", node |-> s,
                   spines |-> SpinesToTell(serverVCs[s], spineOf[leafOf[s]])]
      BY <2>8, <3>3 DEF FailServer, Tell
    <3>5. vcs[v].spines \subseteq told'.spines
      BY <3>2, <3>4 DEF SpinesToTell
    <3>6. told' # None
      <4>1. \A w \in serverVCs[s] : vcs[w].spines \subseteq Spines
        BY <1>1, NamedVCs, IInvIsBooks DEF IInv, ServerListsMatchVCs
      <4>2. spineOf[leafOf[s]] \in Spines
        BY <1>1, <2>8 DEF FailServer, DeleteServer, IInv, TypeOK, TreeTypeOK, NoOrphans
      <4>3. told' \in Msg
        BY <3>4, <4>1, <4>2 DEF Msg, SpinesToTell
      <4> QED
        BY <4>3, NoneIsNoRecord
    <3> QED
      BY <3>5, <3>6
  <2>9. ASSUME NEW l \in Leaves, FailLeaf(l)
        PROVE  IsTold(v)
    <3>1. vcs'[v] = IF v \in EmptiedByLeaf(l) THEN None
                    ELSE IF v \in leafVCs[l]
                         THEN [vcs[v] EXCEPT !.servers = @ \ LostWithLeaf(v, l), !.leaves = @ \ {l}]
                         ELSE vcs[v]
      BY <2>1, <2>9 DEF FailLeaf, DetachLeaf
    <3>2. v \in leafVCs[l]
      BY <2>3, <3>1 DEF EmptiedByLeaf
    <3>3. told' = [type |-> "failedLeaf", node |-> l,
                   spines |-> SpinesToTell(leafVCs[l], spineOf[l])]
      BY <2>9 DEF FailLeaf, Tell
    <3>4. vcs[v].spines \subseteq told'.spines
      BY <3>2, <3>3 DEF SpinesToTell
    <3>5. told' # None
      <4>1. \A w \in leafVCs[l] : vcs[w].spines \subseteq Spines
        BY <1>1, NamedVCs, IInvIsBooks DEF IInv, LeafListsMatchVCs
      <4>2. spineOf[l] \in Spines
        BY <1>1, <2>9 DEF FailLeaf, DeleteLeaf, IInv, TypeOK, TreeTypeOK
      <4>3. told' \in Msg
        BY <3>3, <4>1, <4>2 DEF Msg, SpinesToTell
      <4> QED
        BY <4>3, NoneIsNoRecord
    <3> QED
      BY <3>4, <3>5
  <2>10. CASE UNCHANGED vars
    BY <2>3, <2>10 DEF vars
  <2> QED
    BY <1>1, <2>4, <2>5, <2>6, <2>7, <2>8, <2>9, <2>10 DEF Next
<1>2. IInv /\ [Next]_vars => [\A v \in VCNames : Shrinks(v) => IsTold(v)]_vars
  BY <1>1
<1> QED
  BY <1>2, InductiveInvariant, PTL DEF Spec, SpinesOfVCAreTold
=============================================================================
