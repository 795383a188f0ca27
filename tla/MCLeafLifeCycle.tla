-------------------------- MODULE MCLeafLifeCycle --------------------------
(* LeafLifeCycle on a small instance.                                      *)
EXTENDS LeafLifeCycle

CONSTANTS l1, l2, l3

TwoLeaves == <<l1, l2>>
=============================================================================
