--------------------------- MODULE MCPortControl ---------------------------
(* PortControl on a small instance.                                        *)
EXTENDS PortControl

CONSTANTS sp1, l1, l2, s1, s2

Bf == [i \in 1 .. 3 |-> "bf"]
Short == [i \in 1 .. 3 |-> "short"]

\* two ASICs; a config and a port that come twice, a mixed config, a bad spec
McConf ==
  [asics   |-> << [id |-> "a1", ctrlAPI |-> "bfrt"], [id |-> "a2", ctrlAPI |-> "fake"] >>,
   configs |-> << [id |-> "10G", value |-> 10, names |-> Short],
                  [id |-> "10G", value |-> 11, names |-> Bf],
                  [id |-> "mixed", value |-> 12, names |-> <<"bf", "short", "short">>],
                  [id |-> "100G", value |-> 100, names |-> Bf] >>,
   groups  |-> << [asic |-> "a1", specs |-> {[cage |-> 1, lane |-> "-"]}, config |-> "10G"],
                  [asic |-> "a1", specs |-> {[cage |-> 3, lane |-> "0"]}, config |-> "mixed"],
                  [asic |-> "a2", specs |-> {[cage |-> 2, lane |-> "0"], [cage |-> 2, lane |-> "1"],
                                             [cage |-> 1, lane |-> "1"]}, config |-> "100G"],
                  [asic |-> "a1", specs |-> {[cage |-> 1, lane |-> "0"], [cage |-> 1, lane |-> "4"]},
                   config |-> "100G"] >>]

McLeafPorts ==
  [l \in Leaves |-> IF l = l1 THEN [asic |-> "a1", ds |-> <<1, "0">>, us |-> <<1, "3">>]
                              ELSE [asic |-> "a2", ds |-> <<2, "0">>, us |-> <<2, "1">>]]
McServerPort == [s \in Servers |-> IF s = s1 THEN <<1, "1">> ELSE <<1, "2">>]

McDevPort == [a \in {"a1", "a2"} |-> [p \in {1, 2} \X Lanes |-> 100 * p[1] + CHOOSE i \in 0 .. 3 : ToString(i) = p[2]]]

McStart == [spineOf |-> [l \in Leaves |-> IF l = l1 THEN sp1 ELSE None],
            leafOf  |-> [s \in Servers |-> IF s = s1 THEN l1 ELSE None]]
=============================================================================
