---------------------------- MODULE PortControl ----------------------------
(***************************************************************************)
(* The ports of the switches under the calls of the central controller     *)
(* (ctrl_central).  Run starts the RPC endpoint, then brings all ports up, *)
(* and only then starts the bus that works off what the calls asked for.   *)
(* The controllers of the switches fetch the ports with the topology.      *)
(*                                                                         *)
(* The calls are those of VCManager, as one step each.  The switches are   *)
(* external: DevPort gives the driver's number of a port, on[a] holds the  *)
(* numbers that are enabled; its calls do not fail.                        *)
(*                                                                         *)
(* An operator Bad_X before X is X with one plausible mistake; no action   *)
(* uses it.                                                                *)
(***************************************************************************)
EXTENDS VCManager, Ports

CONSTANTS
  Conf,        \* [asics, configs, groups], as in Ports; an ASIC is [id, ctrlAPI]
  LeafPorts,   \* LeafPorts[l]: [asic, ds, us], what a client says of leaf l
  ServerPort,  \* ServerPort[s]: the port of server s
  DevPort,     \* DevPort[a][port]: the driver's number of a port, not 0
  TreeStart,   \* [spineOf, leafOf] of the configured topology
  Fetchers,    \* controllers that fetch the topology
  MaxPortCalls \* bound: calls of clients

VARIABLES
  alive,         \* the process of the central controller runs
  cp,            \* position in Conf.asics of the control plane InitPorts runs for
  todo,          \* the ports InitPorts has not come to, as <<asic, port>>
  devPort,       \* devPort of each port of the registry, 0 when not set
  on,            \* the numbers enabled at each ASIC
  enabledPorts,  \* channel to the bus: <<asic, port>>
  disabledPorts, \* the other channel
  fetched,       \* the registry of each fetcher, None before it has one
  portCalls,     \* number of calls made
  released       \* history: ports of failed nodes, see Releases

portVars == <<alive, cp, todo, devPort, on, enabledPorts, disabledPorts, fetched>>
allVars  == <<vars, portVars, portCalls, released>>

Registry == NewAsicRegistry(Conf)
AsicIDs  == DOMAIN Registry
AllPorts == {<<a, p>> : a \in AsicIDs, p \in UNION {DOMAIN Registry[b].ports : b \in AsicIDs}}
Known    == {ap \in AllPorts : ap[2] \in DOMAIN Registry[ap[1]].ports}

ASSUME ConfAssumption == IsConfiguration(Conf)

\* the driver gives each port of an ASIC a number of its own
ASSUME DevPortsAssumption ==
  /\ \A ap \in Known : DevPort[ap[1]][ap[2]] \in Nat \ {0}
  /\ \A ap, bq \in Known :
       ap[1] = bq[1] /\ DevPort[ap[1]][ap[2]] = DevPort[bq[1]][bq[2]] => ap = bq

PortsOfLeaf(l)      == {<<LeafPorts[l].asic, LeafPorts[l].ds>>, <<LeafPorts[l].asic, LeafPorts[l].us>>}
PortOfServer(s, l)  == <<LeafPorts[l].asic, ServerPort[s]>>
PortsBelow(l)       == {PortOfServer(s, l) : s \in Children(l)}

InUse(of) ==
  UNION {PortsOfLeaf(l) \cup {PortOfServer(s, l) : s \in {t \in Servers : of.leafOf[t] = l}} :
           l \in {m \in Leaves : of.spineOf[m] # None}}
PortsInUse == InUse([spineOf |-> spineOf, leafOf |-> leafOf])

\* a cable leads from a port to one node
ASSUME CablingAssumption ==
  /\ \A l, m \in Leaves : l # m => PortsOfLeaf(l) \cap PortsOfLeaf(m) = {}
  /\ \A s \in Servers, l, m \in Leaves : PortOfServer(s, l) \notin PortsOfLeaf(m)
  /\ \A s, t \in Servers, l, m \in Leaves : PortOfServer(s, l) = PortOfServer(t, m) => s = t

\* a configuration with a node at an unknown port, or below an unknown one, is not loaded
ASSUME StartAssumption ==
  /\ TreeStart.spineOf \in [Leaves -> Spines \cup {None}]
  /\ TreeStart.leafOf \in [Servers -> Leaves \cup {None}]
  /\ \A s \in Servers : TreeStart.leafOf[s] # None => TreeStart.spineOf[TreeStart.leafOf[s]] # None
  /\ InUse(TreeStart) \subseteq Known

ASSUME BoundsAssumption == MaxPortCalls \in Nat /\ IsFiniteSet(Servers)

(* After a step a port is released if a node used it before and none does  *)
(* now; the ports in exempt do not count.                                  *)
Releases(exempt) ==
  LET now == InUse([spineOf |-> spineOf', leafOf |-> leafOf'])
  IN  released' = (released \cup (PortsInUse \ exempt)) \ now

-----------------------------------------------------------------------------
(* The control planes.                                                     *)

BusRuns == cp > Len(Conf.asics)

\* a control plane "fake" does nothing; "bfrt" goes over the ports of all ASICs
HasDriver(i) == Conf.asics[i].ctrlAPI = "bfrt"
PortsFor(i)  == IF i <= Len(Conf.asics) /\ HasDriver(i) THEN Known ELSE {}

\* one ASIC after the other
IsNext(ap) == \A bq \in todo : bq[1] = ap[1] \/ \A cr \in Known : cr[1] = bq[1] => cr \in todo

InitPort(ap) ==
  LET a == ap[1]  p == ap[2] IN
  /\ alive /\ ap \in todo /\ IsNext(ap)
  /\ devPort' = [devPort EXCEPT ![a][p] = IF @ = 0 THEN DevPort[a][p] ELSE @]
  /\ on' = [on EXCEPT ![a] = @ \cup {DevPort[a][p]}]
  /\ todo' = todo \ {ap}
  /\ UNCHANGED <<alive, cp, enabledPorts, disabledPorts, fetched>>

NextCP ==
  /\ alive /\ todo = {} /\ ~BusRuns
  /\ cp' = cp + 1
  /\ todo' = PortsFor(cp + 1)
  /\ UNCHANGED <<alive, devPort, on, enabledPorts, disabledPorts, fetched>>

\* getCP: the first control plane of the port's ASIC
Driver(a) == HasDriver(SelectInSeq(Conf.asics, LAMBDA asic : asic.id = a))

Bad_BusMayStart == TRUE
BusMayStart == BusRuns

Number(ap) == devPort[ap[1]][ap[2]]

BringPortUp ==
  LET ap == Head(enabledPorts) IN
  /\ alive /\ BusMayStart /\ enabledPorts # <<>>
  /\ on' = IF Driver(ap[1]) THEN [on EXCEPT ![ap[1]] = @ \cup {Number(ap)}] ELSE on
  /\ enabledPorts' = Tail(enabledPorts)
  /\ UNCHANGED <<alive, cp, todo, devPort, disabledPorts, fetched>>

TakePortDown ==
  LET ap == Head(disabledPorts) IN
  /\ alive /\ BusMayStart /\ disabledPorts # <<>>
  /\ on' = IF Driver(ap[1]) THEN [on EXCEPT ![ap[1]] = @ \ {Number(ap)}] ELSE on
  /\ disabledPorts' = Tail(disabledPorts)
  /\ UNCHANGED <<alive, cp, todo, devPort, enabledPorts, fetched>>

-----------------------------------------------------------------------------
(* The calls.  A client leaves the ports of a call alone until what was    *)
(* asked for before is done: the bus takes from its two channels in any    *)
(* order.                                                                  *)

PortCall(ports) ==
  /\ alive /\ portCalls < MaxPortCalls
  /\ ports \cap (Range(enabledPorts) \cup Range(disabledPorts)) = {}
  /\ portCalls' = portCalls + 1

Enable(ports) ==
  /\ enabledPorts' = enabledPorts \o ports
  /\ UNCHANGED <<alive, cp, todo, devPort, on, disabledPorts, fetched>>

Disable(ports) ==
  /\ disabledPorts' = disabledPorts \o ports
  /\ UNCHANGED <<alive, cp, todo, devPort, on, enabledPorts, fetched>>

\* a node with a port the registry does not have ends the process
Fatal ==
  /\ alive' = FALSE
  /\ UNCHANGED <<vars, cp, todo, devPort, on, enabledPorts, disabledPorts, fetched, released>>

LeafPortSeq(l) == <<<<LeafPorts[l].asic, LeafPorts[l].ds>>, <<LeafPorts[l].asic, LeafPorts[l].us>>>>

CallAddLeaf(l, sp) ==
  /\ PortCall(PortsOfLeaf(l))
  /\ spineOf[l] = None
  /\ IF PortsOfLeaf(l) \subseteq Known
     THEN AddLeaf(l, sp) /\ Enable(LeafPortSeq(l)) /\ Releases({})
     ELSE Fatal

CallAddServer(s, l) ==
  LET port == PortOfServer(s, l) IN
  /\ PortCall({port})
  /\ leafOf[s] = None /\ spineOf[l] # None
  /\ IF port \in Known
     THEN AddServer(s, l) /\ Enable(<<port>>) /\ Releases({})
     ELSE Fatal

\* the servers are collected before they are removed with their leaf
Bad_ServersOfFailing(l) == {}
ServersOfFailing(l) == PortsBelow(l)

CallFailLeaf(l) ==
  /\ PortCall(PortsOfLeaf(l) \cup PortsBelow(l))
  /\ FailLeaf(l)
  /\ Disable(LeafPortSeq(l) \o SetToSeq(ServersOfFailing(l)))
  /\ Releases({})

\* a server that is in no VC counts as not detached: its port stays up
CallFailServer(s) ==
  LET port == PortOfServer(s, leafOf[s]) IN
  /\ leafOf[s] # None
  /\ PortCall({port})
  /\ FailServer(s)
  /\ Disable(IF Detached(s) THEN <<port>> ELSE <<>>)
  /\ Releases(IF Detached(s) THEN {} ELSE {port})

CallVC ==
  /\ PortCall({})
  /\ \/ \E v \in VCIds, servers \in (SUBSET Servers) \ {{}} : AddVC(v, Spines, servers)
     \/ \E v \in VCIds : RemoveVC(v)
  /\ UNCHANGED <<portVars, released>>

(* NewSpineController, FetchTopology of a leaf controller: the endpoint    *)
(* serves while InitPorts still runs.                                      *)
Fetch(f) ==
  /\ alive
  /\ fetched' = [fetched EXCEPT ![f] =
                   NewAsicRegistryFromInfo(EncodedTopology(Registry, devPort))]
  /\ UNCHANGED <<vars, alive, cp, todo, devPort, on, enabledPorts, disabledPorts, portCalls, released>>

-----------------------------------------------------------------------------
PortInit ==
  /\ spineOf = TreeStart.spineOf /\ leafOf = TreeStart.leafOf
  /\ vcs = [v \in VCIds |-> None]
  /\ serverVCs = [s \in Servers |-> {}]
  /\ leafVCs = [l \in Leaves |-> {}]
  /\ told = None
  /\ alive = TRUE
  /\ cp = 1 /\ todo = PortsFor(1)
  /\ devPort = [a \in AsicIDs |-> [p \in DOMAIN Registry[a].ports |-> 0]]
  /\ on = [a \in AsicIDs |-> {}]
  /\ enabledPorts = <<>> /\ disabledPorts = <<>>
  /\ fetched = [f \in Fetchers |-> None]
  /\ portCalls = 0
  /\ released = {}

Run ==
  /\ NextCP \/ BringPortUp \/ TakePortDown \/ \E ap \in todo : InitPort(ap)
  /\ UNCHANGED <<vars, portCalls, released>>

PortNext ==
  \/ Run
  \/ \E l \in Leaves : CallFailLeaf(l) \/ \E sp \in Spines : CallAddLeaf(l, sp)
  \/ \E s \in Servers : CallFailServer(s) \/ \E l \in Leaves : CallAddServer(s, l)
  \/ CallVC
  \/ \E f \in Fetchers : Fetch(f)

PortSpec == PortInit /\ [][PortNext]_allVars

-----------------------------------------------------------------------------
(* Properties.                                                             *)

\* Every variable has its type, and the bus only finds ports of the registry.
PortsTypeOK ==
  /\ TypeOK
  /\ alive \in BOOLEAN /\ portCalls \in 0 .. MaxPortCalls
  /\ cp \in 1 .. Len(Conf.asics) + 1
  /\ todo \subseteq Known /\ released \subseteq Known
  /\ \A ap \in Known : Number(ap) \in {0, DevPort[ap[1]][ap[2]]}
  /\ \A a \in AsicIDs : on[a] \subseteq {DevPort[a][p] : p \in DOMAIN Registry[a].ports}
  /\ enabledPorts \in Seq(Known) /\ disabledPorts \in Seq(Known)

IsUp(ap) == DevPort[ap[1]][ap[2]] \in on[ap[1]]

(* When the bus has nothing left to do, the ports of all leaves and servers*)
(* are up and those of failed ones are down, also when the call came while *)
(* InitPorts was still bringing every port up.                             *)
PortsFollowTree ==
  BusRuns /\ enabledPorts = <<>> /\ disabledPorts = <<>> =>
    \A ap \in Known : Driver(ap[1]) =>
      /\ ap \in PortsInUse => IsUp(ap)
      /\ ap \in released => ~IsUp(ap)

(* A controller gets all ports with their configs, in whatever order they  *)
(* were sent, so it finds the port of every node; and once InitPorts is    *)
(* done it gets the numbers the data plane needs.                          *)
FetchedPortsAreReal ==
  [][\A f \in Fetchers : fetched'[f] # fetched[f] =>
       \A a \in AsicIDs :
         /\ fetched'[f][a].configs = Registry[a].configs
         /\ fetched'[f][a].ports = Registry[a].ports
         /\ BusRuns /\ (\E i \in 1 .. Len(Conf.asics) : HasDriver(i)) =>
              \A p \in DOMAIN Registry[a].ports : fetched'[f][a].devPort[p] = DevPort[a][p]]_allVars
=============================================================================
