------------------------------- MODULE Ports -------------------------------
(***************************************************************************)
(* The registry of ASICs and ports (core/model/port.go, asic.go): how the  *)
(* central controller builds it from a configuration, how it is encoded in *)
(* the answer to GetTopology, and how the other controllers build theirs   *)
(* from that answer.                                                       *)
(*                                                                         *)
(* A port is a pair <<cage, lane>>.  A port config is a record of its id,  *)
(* of value (which speed, FEC and AN it stands for) and of the forms of    *)
(* the three names it is written in: "bf" for a name of the switch driver, *)
(* "short" for a name of the configuration file, "other" for no name.      *)
(*                                                                         *)
(* An operator Bad_X before X is X with one plausible mistake; nothing     *)
(* uses it.                                                                *)
(***************************************************************************)
EXTENDS Integers, SequencesExt

Lanes    == {"0", "1", "2", "3"}
AllLanes == "-"

\* expandPortSpec; a spec that is neither is skipped with a warning
Expand(spec) ==
  IF spec.lane = AllLanes THEN {<<spec.cage, n>> : n \in Lanes}
  ELSE IF spec.lane \in Lanes THEN {<<spec.cage, spec.lane>>} ELSE {}

\* NewPortConfig: all three names of the driver, or all three short ones; that a config
\* needs an ID is not modelled, one without an ID is one with a name nobody knows
IsValid(cfg) ==
  \/ \A i \in 1 .. 3 : cfg.names[i] = "bf"
  \/ \A i \in 1 .. 3 : cfg.names[i] = "short"

\* a valid config is kept with the names of the driver
PortConfig(cfg) == [id |-> cfg.id, value |-> cfg.value, names |-> [i \in 1 .. 3 |-> "bf"]]

\* the ConfigMap: the first valid config of an ID counts
FirstConfig(configs, id) == SelectInSeq(configs, LAMBDA c : c.id = id /\ IsValid(c))

ConfigMap(configs) ==
  [id \in {c.id : c \in {c \in Range(configs) : IsValid(c)}} |->
     PortConfig(configs[FirstConfig(configs, id)])]

(* The PortMap of a sequence of pieces, each a set of ports and the ID of  *)
(* their config: a piece without a known config is skipped, and the first  *)
(* of two with the same port counts.                                       *)
FirstPiece(pieces, known, port) ==
  SelectInSeq(pieces, LAMBDA g : g.config \in known /\ port \in g.ports)

PortMap(configMap, pieces) ==
  LET known == DOMAIN configMap
  IN  [port \in UNION {g.ports : g \in {g \in Range(pieces) : g.config \in known}} |->
         configMap[pieces[FirstPiece(pieces, known, port)].config]]

-----------------------------------------------------------------------------
(* NewAsicRegistry, from a configuration [asics, configs, groups]: every   *)
(* ASIC has all configs and the ports of its own groups.                   *)

IsConfiguration(conf) ==
  /\ conf.asics \in Seq([id : STRING, ctrlAPI : STRING])
  /\ conf.configs \in Seq([id : STRING, value : Nat, names : [1 .. 3 -> {"bf", "short", "other"}]])
  /\ conf.groups \in Seq([asic : STRING, specs : SUBSET [cage : Nat, lane : STRING], config : STRING])
  /\ \A g \in Range(conf.groups) : IsFiniteSet(g.specs)

\* filterPortGroup: an ASIC has no ports of the groups of other ones
SpecsFor(group, a) == IF group.asic = a THEN group.specs ELSE {}

Pieces(groups, a) ==
  [i \in 1 .. Len(groups) |->
     [config |-> groups[i].config, ports |-> UNION {Expand(spec) : spec \in SpecsFor(groups[i], a)}]]

NewAsicRegistry(conf) ==
  [a \in {asic.id : asic \in Range(conf.asics)} |->
     LET configMap == ConfigMap(conf.configs)
     IN  [configs |-> configMap, ports |-> PortMap(configMap, Pieces(conf.groups, a))]]

-----------------------------------------------------------------------------
(* The answer to GetTopology: what each ASIC has ports, with the numbers   *)
(* its driver gave them, and the configs of one of the ASICs.  The maps    *)
(* are encoded in any order.                                               *)

Bad_PortConfigInfo(cfg) == [cfg EXCEPT !.names[3] = "other"]
PortConfigInfo(cfg) == cfg

EncodeToPortConfigInfo(registry) ==
  IF registry = <<>> THEN <<>>
  ELSE LET configs == registry[CHOOSE a \in DOMAIN registry : TRUE].configs
       IN  SetToSeq({PortConfigInfo(configs[id]) : id \in DOMAIN configs})

\* cages and lanes are small: their conversion to 32 bits changes nothing
PortInfo(a, port, cfg, devPort) == [port |-> port, config |-> cfg.id, devPort |-> devPort[a][port]]

EncodeToAsicInfo(registry, devPort) ==
  [a \in DOMAIN registry |->
     SetToSeq({PortInfo(a, p, registry[a].ports[p], devPort) : p \in DOMAIN registry[a].ports})]

EncodedTopology(registry, devPort) ==
  [asics |-> EncodeToAsicInfo(registry, devPort), configs |-> EncodeToPortConfigInfo(registry)]

\* NewAsicRegistryFromInfo, with the devPort of each port
NewAsicRegistryFromInfo(info) ==
  [a \in DOMAIN info.asics |->
     LET configMap == ConfigMap(info.configs)
         ports == info.asics[a]
         portMap == PortMap(configMap,
                      [i \in 1 .. Len(ports) |-> [config |-> ports[i].config, ports |-> {ports[i].port}]])
     IN  [configs |-> configMap,
          ports   |-> portMap,
          devPort |-> [p \in DOMAIN portMap |->
                         ports[SelectInSeq(ports, LAMBDA i : i.port = p)].devPort]]]
=============================================================================
