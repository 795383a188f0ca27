--------------------------- MODULE MCCentralCalls ---------------------------
EXTENDS CentralCalls

CONSTANTS l1, l2, s1, s2, s3, v1, v2, v3

Tree == << [leaf |-> l1, servers |-> <<s1, s2>>], [leaf |-> l2, servers |-> <<s3>>] >>

\* two leaves; one VC on all three servers, one on those of the first leaf
McStarts ==
  {[leaves |-> Tree, vcs |-> [v \in {v1, v2} |-> IF v = v1 THEN {s1, s2, s3} ELSE {s1, s2}]]}

\* a VC on both leaves and two more on the first one
McThreeVCs ==
  {[leaves |-> Tree, vcs |-> [v \in {v1, v2, v3} |-> IF v = v1 THEN {s1, s3} ELSE {s1, s2}]]}

\* no VC; l3 and s4 are not in the tree
McNoVCs == {[leaves |-> Tree, vcs |-> [v \in {} |-> {}]]}
=============================================================================
