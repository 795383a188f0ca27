------------------------------- MODULE MCLeafBus -------------------------------
(* LeafBus on small instances.                                             *)
EXTENDS LeafBus, TLC

CONSTANTS s1, s2, s3

McWorkers == [s \in Servers |-> IF s = s2 THEN 3 ELSE 2]
McTwo == {<<s1>>, <<s1, s2>>}
McStarts == {<<s1>>, <<s1, s2, s3>>}
=============================================================================
