----------------------------- MODULE MCSpineBus -----------------------------
(* SpineBus on small instances.                                            *)
EXTENDS SpineBus, TLC

CONSTANTS l1, l2, s1, s2

Both == [children |-> <<l1, l2>>, leafOf |-> s1 :> l1 @@ s2 :> l2 @@ [s \in Servers |-> None]]
One  == [children |-> <<l1>>, leafOf |-> s1 :> l1 @@ [s \in Servers |-> None]]

McStarts == {Both, One}
=============================================================================
