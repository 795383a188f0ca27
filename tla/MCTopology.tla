----------------------------- MODULE MCTopology -----------------------------
(* Topology on small instances.                                            *)
EXTENDS Topology

CONSTANTS sp1, l1, l2, l3, s1, s2, s3, e1, e2, e3

OneSpine == {sp1}

EmptyConf ==
  [leaves |-> [sp \in OneSpine |-> <<>>], servers |-> [l \in Leaves |-> <<>>]]

(* Two configured leaves, the second without servers (its LastWorkerID is  *)
(* the wrapped 0 - 1), the first with servers of the given counts.         *)
TwoLeafConf(counts) ==
  [leaves  |-> [EmptyConf.leaves EXCEPT ![sp1] =
                 <<[id |-> l1, index |-> 0, endpoint |-> e1],
                   [id |-> l2, index |-> 1, endpoint |-> e2]>>],
   servers |-> [EmptyConf.servers EXCEPT ![l1] =
                 [i \in 1 .. Len(counts) |-> [id |-> <<s1, s2, s3>>[i], workers |-> counts[i]]]]]

TreeConfs  == {EmptyConf, TwoLeafConf(<<2, 3>>),
               TwoLeafConf(<<0, 2>>)}
PlainConfs == {EmptyConf}
OneServerConfs == {TwoLeafConf(<<2>>)}
=============================================================================
