---------------------------- MODULE MCPropagation ----------------------------
(* Propagation on small instances.                                         *)
EXTENDS Propagation, TLC

CONSTANTS sp1, l1, l2, s1, s2

\* one leaf with two servers; the other leaf and server do not exist yet
OneLeaf ==
  [spineOf |-> l1 :> sp1 @@ [l \in Leaves |-> None],
   leafOf  |-> s1 :> l1 @@ s2 :> l1 @@ [s \in Servers |-> None]]

\* two leaves, each with one server
TwoLeaves ==
  [spineOf |-> l1 :> sp1 @@ l2 :> sp1 @@ [l \in Leaves |-> None],
   leafOf  |-> s1 :> l1 @@ s2 :> l2 @@ [s \in Servers |-> None]]

McStarts == {OneLeaf, TwoLeaves}
=============================================================================
