-------------------------------- MODULE Tree --------------------------------
(***************************************************************************)
(* What core/model/topology.go promises its callers about membership, with *)
(* the order of children, worker IDs and ports left out: which leaf is     *)
(* below which spine, which server below which leaf.  CentralCalls, where  *)
(* calls overlap, implements it, and the modules that only need membership *)
(* are built on it.                                                        *)
(***************************************************************************)
EXTENDS Integers

CONSTANTS Spines, Leaves, Servers, None

ASSUME NoneIsNoNode == None \notin Spines \cup Leaves

VARIABLES
  spineOf,   \* the spine a leaf is below, None when the leaf does not exist
  leafOf     \* the leaf a server is below, None when it does not exist

treeVars == <<spineOf, leafOf>>

Children(l) == {s \in Servers : leafOf[s] = l}

TreeTypeOK ==
  /\ spineOf \in [Leaves -> Spines \cup {None}]
  /\ leafOf \in [Servers -> Leaves \cup {None}]

(* No server hangs below a leaf that does not exist.                       *)
NoOrphans == \A s \in Servers : leafOf[s] # None => spineOf[leafOf[s]] # None

TreeInit == TreeTypeOK /\ NoOrphans

InsertLeaf(l, sp) ==
  /\ spineOf[l] = None
  /\ spineOf' = [spineOf EXCEPT ![l] = sp]
  /\ UNCHANGED leafOf

InsertServer(s, l) ==
  /\ spineOf[l] # None
  /\ leafOf[s] = None
  /\ leafOf' = [leafOf EXCEPT ![s] = l]
  /\ UNCHANGED spineOf

DeleteServer(s) ==
  /\ leafOf[s] # None
  /\ leafOf' = [leafOf EXCEPT ![s] = None]
  /\ UNCHANGED spineOf

\* a leaf takes all its servers with it
DeleteLeaf(l) ==
  /\ spineOf[l] # None
  /\ spineOf' = [spineOf EXCEPT ![l] = None]
  /\ leafOf' = [s \in Servers |-> IF leafOf[s] = l THEN None ELSE leafOf[s]]

TreeNext ==
  \/ \E l \in Leaves, sp \in Spines : InsertLeaf(l, sp)
  \/ \E s \in Servers, l \in Leaves : InsertServer(s, l)
  \/ \E s \in Servers : DeleteServer(s)
  \/ \E l \in Leaves : DeleteLeaf(l)

TreeSpec == TreeInit /\ [][TreeNext]_treeVars
=============================================================================
