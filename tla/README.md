# A TLA+ model of the Horus controllers

Horus schedules tasks on the workers of a data centre inside its switches. The
switches choose a worker; the Go controllers of this repository decide what they
choose from. They keep a tree of spines, leaves and servers, virtual clusters
(VCs) over it, and the tables of the switches. These modules model the
controllers. TLC checks them on small instances, and TLAPS proves theorems about
the topology, the virtual clusters, the ports, calls that overlap, the way of a call
to the leaves, the life of a leaf controller and the tables of spine and leaf for every
value of their constants.

## The system

```
 client --gRPC--> central controller --gRPC--> spine controller --gRPC--> leaf controllers
 (cmd/dummy)      topology, vcManager          topology, vcManager        topology, vcManager
                  CentralBus -> ports          SpineBus -> spine tables   LeafBus -> leaf tables
                                                   |                      LeafHealthManager
                                                   +--gRPC--> switch manager: starts and stops
                                                              the leaf controllers
```

| component | state | operations | hard because | correct if |
|---|---|---|---|---|
| topology tree (`core/model`) | spines, leaves, servers; worker IDs, indexes, endpoints | load from a configuration or an encoded topology, add/fail leaf, add/fail server, encode | renumbering after removals, 16-bit words, partial locking | worker IDs are gapless and owned once, indexes are positions, moved nodes are reported, also when calls overlap |
| VC manager (`core/vcManager.go`) | VCs, and lists of them per server and per leaf | add/remove VC, detach server/leaf | three views of one relation | the views agree, no VC has a server that is gone |
| central controller (`core/net/*_central.go`) | one tree, one VC manager, a channel per kind of message | six calls, four queries | concurrent handlers, select over channels, no retries | the controllers below get to agree with it |
| spine controller (`core/net/*_spine.go`, `spineBus.go`) | its own tree and VCs, channels, pending leaves, tables | the same six messages, broadcasts to leaves | every message in a goroutine of its own | tables match the tree |
| switch manager (`manager.go`, `controller.go`) | leaf controllers and how far they have started | start, stop | takes seconds, during which messages go on and channels are closed | a controller runs for every leaf, with the leaf's index; that of a failed leaf ends |
| leaf controller (`*_leaf.go`, `leafBus.go`, `leafHealthManager.go`) | servers, VCs, health, tables | add/fail server, VCs, pings, scans | timeouts race with pings and calls | every worker is reached, silent servers go |
| central bus, ports (`ctrl_central`, `port.go`, `asic.go`) | port registry, ports that are up | build, encode, bring up, enable, disable | calls come while ports are still brought up | a port in use is up, one no longer used is down, every controller has the same registry |
| packet codec (`horus_pkt.go`) | none | encode, decode | byte order | what is encoded is decoded |
| ASIC endpoint, sockets | channels per leaf | read, write | channels that are closed | packets reach their leaf |

The README of the repository assumes that the central and the spine controllers
do not fail; leaves and servers do.

## The modules

| module | models | checked by | proved in |
|---|---|---|---|
| `Tree` | what a topology promises: which leaf is below which spine, which server below which leaf | as a property of `CentralCalls` | |
| `Topology` | `topology.go`, `node.go`: the tree with maps, lists, indexes, endpoints and worker IDs as 16-bit words | `MCTopology` | `TopologyProofs` |
| `VCManager` | `vcManager.go`, `vc.go` under the six handlers of the central controller; extends `Tree` | `MCVCManager` | `VCManagerProofs` |
| `CentralCalls` | the calls of the central controller side by side, cut at their locks | `MCCentralCalls` | `CentralCallsProofs` |
| `Ports` | `port.go`, `asic.go`: the registry of ports, built from a configuration and from its encoding, as operators | in `PortControl` | `CallEffectsProofs` |
| `PortControl` | `ctrl_central`: `InitPorts`, the bus, and the calls that enable and disable ports; extends `VCManager` and `Ports` | `MCPortControl` | `CallEffectsProofs` |
| `Propagation` | a call on its way through endpoints and handlers to spine, manager and leaves; extends `VCManager` for the central controller and instantiates it for the spine's | `MCPropagation` | `CallEffectsProofs` |
| `LeafLifeCycle` | the switch manager, the start and shutdown of leaf controllers, the ASIC endpoint's channels, and the index of a leaf on its way | `MCLeafLifeCycle` | `LeafLifeCycleProofs` |
| `SpineBus` | `spineBus.go` with the spine tables of both control planes in `cp.go` | `MCSpineBus` | `SpineBusProofs` |
| `LeafBus` | `leafBus.go`, `leafHealthManager.go`, the leaf's handlers, with the leaf tables in `cp.go` | `MCLeafBus` | `LeafBusProofs` |

`SequenceLemmas` has what the proofs share about sequences: an element appended,
popped, cut out or found, lists whose elements are all different, and a set as a list.

**Tree and Topology.** `Children` of a node, as a function of two maps, is the
abstract state; `Topology` has what the code has, a list of children per node,
maps from IDs to nodes, `Index`, `FirstWorkerID` and `LastWorkerID`, and the four
operations with their early returns. `Incr` and `Decr` wrap around at the word
size, so `0 - 1` is 65535 as in Go. That these single steps change membership as
`Tree` says is plain from their definitions; `CentralCalls`, where a call takes many
steps, is checked against `Tree`.

**VCManager.** A call is one step, and `told` is the message it leaves for the
spines. `DetachServer` and `DetachLeaf` give the state after the loops over all
VCs of a node; the loops never see a half-changed list because the code takes a
VC out of the leaf's set before it takes it out of lists.

**CentralCalls.** gRPC serves each call in a goroutine of its own. A caller has the
call it serves, a label `pc` and its local variables; a step is what the code does
between taking or giving up locks, and between reading something without a lock
and using it. `FailLeaf` is a loop of `RemoveServer` calls, each with its own turn
at the lock; `DetachServer` walks over the slice it was given, which another call
may be shortening. A panic sets `up` to FALSE.

The code makes no call wait for another one, and the locks do not cover every pair of
calls. The pairs they do not cover are the races of `CentralCalls`; each has a name, and
two calls that are in a race overlap in a run only when `Overlaps` has its name. All
other calls always may overlap.

| race | calls | what becomes of it |
|---|---|---|
| `addTwice` | two additions of one leaf or one server | it is in the list twice (`MCCentralCallsAddTwice.cfg`) |
| `failTwice` | two failures of one leaf or one server | another leaf is cut off (`MCCentralCallsFailTwice.cfg`), or a panic |
| `failLeafAndServer` | a leaf and a server below it | a panic (`MCCentralCallsFailBelow.cfg`) |
| `addAndFailServer` | on one leaf | worker IDs overlap or have gaps (`MCCentralCallsAddAndFail.cfg`) |
| `addServerFailLeaf` | on one leaf | the server may stay in the map without a leaf; no configuration, as no document says what should happen |
| `addAndFailLeaf` | any leaves of the spine | the spine's children are appended to and spliced under different locks; likewise none |
| `newVCAndFail` | a new VC and the failure of a server or leaf of it | the VC keeps the failed server (`MCCentralCallsNewVC.cfg`) |
| `siblings` | two servers of one leaf and one VC fail | the leaf stays in the VC (`MCCentralCallsSiblings.cfg`) |
| `sharedVC` | any other two calls about one VC, but for failures of its servers below different leaves | the failed server stays in another VC (run `central_calls_shared`) |

With `Overlaps = {}` the tree and the VCs stay whole. What a run with a race says ends
with the first harm: an ID stands for one node and one VC, so what becomes of a leaf that
is in a list twice, or of a second VC with the ID of one that a call still has, is not
modelled. `CallsImplementTree` is the refinement of `Tree`: the server map and the leaf
map change as if each call of `topology.go` were one step.

**Ports and PortControl.** `NewAsicRegistry` and `NewAsicRegistryFromInfo` are the
two ways a registry is built. Go iterates over its maps in any order, and the model
picks one: IDs of configs and ports are keys and come once each, so what is built from
an encoding does not depend on the order, which the lemmas `ConfigsComeBack` and
`PortsComeBack` say. That a config needs an ID is left out. A name of a speed, FEC or
autonegotiation mode is valid as the driver spells it, or in the short spelling;
a spec `cage/lane` with lane `-` stands for four lanes. `InitPort` is one port of
`InitPorts`; `BringPortUp` and `TakePortDown` are one message of the bus, from two
channels, and run only when all of `InitPorts` is done. `Fetch` is a controller
that asks for the topology, with the device ports as they are at that moment.

**LeafLifeCycle.** Spine, manager, leaf controllers and ASIC endpoint are
goroutines of one process. The manager takes one message at a time: `MgrTakesNew`
and `MgrFetches` start a controller, `MgrTakesFailed` to `MgrRemoves` stop it and cut
it out at the place it was found at before the shutdown, with a step for each channel
that `Shutdown` sends to or closes. `bus` and `health` say where the two loops of a controller are; a send to a closed channel and a call
through a nil pointer end the process. `SpineUpdatesLeaf` sends a leaf its index.

**Propagation.** `Call` is a handler of the central controller, `Put` the message
it puts into a channel, `CentralSend` one turn of
`CentralRpcEndpoint.processEvents` with the whole RPC at the spine, `SpineSend`
one turn of the spine's loop, `BroadcastNext` one leaf of a broadcast,
`MgrAddLeaf`, `LeafListens`, `LeafStarts` and `MgrFailLeaf` the life of a leaf
controller. A message the receiver refuses is lost, as in the code, and without
`Paced` also one that is sent while a connection is down. `mgrUp`
becomes FALSE where the process of the manager, and with it the spine's and the
leaves', ends with a nil pointer.

**SpineBus and LeafBus.** The goroutine that a bus starts for a message is a job,
a record with a program counter and the locals of `OnLeafChange` or
`OnServerChange`. Jobs take one step at a time in any order. The tables are the
variables `fwd`, `switchIndex`, `randLeaf`, `numLeafs` (spine, `v1`), `best` and
`second` (spine, `v2`), and `num`, `fwd`,
`idleList`, `idleCount` (leaf). `LoadSignal` is the data plane of `v2`, which puts the
leaf it hears of into one of the two registers; it may do so between any two steps of
`OnLeafChange`, which reads the registers in two steps and writes them in two. `told` is
the ID of its first worker in the last packet that reached a server. No packet tells a
server the IDs it joins with (`leafBus.go:109` sends the idle signal only); how it gets
them is not in the repository, and `told` is `None` until a packet comes. `FailServer`
and `FinishFail`, `LookUpFailed` and `RemoveFailed` are the two halves of a removal,
before and under the lock of `RemoveServer`: of two removals of one server the second
panics (`RemoveAgain`). `up` becomes FALSE where the code panics or calls
`Fatal`. Numbers of workers are at least 2 in `LeafBus`: `Topology` shows that 1
breaks the numbering itself.

Definitions named `Bad_X` are plausible mistakes in the code of `X`. Nothing
uses them: with `X` replaced by `Bad_X` the property that guards it is violated,
which shows that the property looks at that code.

## The runs

| run | shows |
|---|---|
| `topology` | every property of the tree, from an empty and two configured topologies |
| `topology_one_worker` | a comment of `topology.go` that the code contradicts: worker IDs are contiguous |
| `vc_manager` | the three views of VCs agree, no VC has a server that is gone, VCs lose exactly what the tree loses, all their spines are told |
| `central_calls` | two calls at once that are in no race: when none is in progress the tree, the worker IDs and the VCs are whole; no handler panics; a node leaves its list only by the call that removes it; each call takes effect in `Tree` as if calls came one by one; every call returns (liveness) |
| `central_calls_shared` | a comment of `vcManager.go` that the code contradicts when a server fails while one of its VCs is removed |
| `ports` | calls that meet `InitPorts`: in the end the ports of all nodes are up and those of failed nodes down (but for servers in no VC), and a controller gets the registry and the device ports as they are |
| `propagation_paced` | a client that waits for each call, as `experiment_leaf_failure_add` of `cmd/dummy` does with pauses of 5 to 10 s, leaves all controllers in agreement about leaves, servers and VCs |
| `propagation` | a client that does not wait, as `experiment_dynamic_scale` does between its two failures of leaves: the books of spine and leaves stay consistent whatever is overtaken or lost, and everything is worked off (liveness) |
| `life_cycle` | leaves come and fail while controllers start, scan, send and stop: in the end one running controller per leaf, with the leaf's index; the channel to a leaf's bus outlives its health manager; a failed leaf's controller ends (liveness) |
| `spine_bus` | one change at a time, under either control plane: the spine's tables match its tree, a leaf is missing from them only while it has no servers and its first one will add it, and one of the two leaves tracked by `v2` is alive |
| `leaf_bus` | one change at a time, with scans that find several silent servers: every worker is reached through its server, and every server that was moved has been told its worker IDs |
| `leaf_health` | a crashed server is removed whatever comes between (liveness) |

### Findings

Two runs are expected to fail; `PROJECT.json` quotes the sentence that the code contradicts.

1. A leaf with a one-worker server: the next server gets the same worker ID
   (`topology.go:458`, run `topology_one_worker`).
2. A server that fails while one of its VCs is removed stays in another VC: the loop
   over its VCs and the removal share one slice (`vcManager.go:208`, run
   `central_calls_shared`).

Eight configurations beside the runs drop a restriction of a run, or ask for more than
it, and TLC finds the property they name violated. They show why the runs are as they are.

| configuration | module | property | the code |
|---|---|---|---|
| `MCTopologyReload.cfg` | `MCTopology` | `ReloadKeepsWorkers` | encodes a server with one worker without any (`topology.go:276`) |
| `MCCentralCallsNewVC.cfg` | `MCCentralCalls` | `FailedServersAreInNoVC` | keeps a server that fails while a VC with it is made (`vcManager.go:150`; the comment at line 144 guarantees that servers exist) |
| `MCCentralCallsSiblings.cfg` | `MCCentralCalls` | `LeavesOfVCsHaveServers` | leaves the leaf in the VC when its last two servers there fail at once (`vc.go:77`; the comment at line 59 says that it is detached) |
| `MCCentralCallsFailTwice.cfg` | `MCCentralCalls` | `OnlyVictimsGo` | cuts the first leaf of the spine off when a leaf fails a second time (`topology.go:536`) |
| `MCCentralCallsFailBelow.cfg` | `MCCentralCalls` | `HandlersDoNotPanic` | reads the first child of an empty list when a leaf fails while its last server fails (`topology.go:530`) |
| `MCCentralCallsAddAndFail.cfg` | `MCCentralCalls` | `TreeIsWhole` | numbers servers twice or with a gap when one is added while another one of the leaf fails (`topology.go:446`; the comment at line 105 says that IDs are contiguous) |
| `MCCentralCallsAddTwice.cfg` | `MCCentralCalls` | `NodesAreListedOnce` | lists a leaf twice that is added twice at once (`topology.go:394`) |
| `MCSpineBusTracked.cfg` | `MCSpineBus` | `TrackedLeavesAreAlive` | writes a failed tracked leaf back as the best one when the data plane swaps the two registers between the two reads (`cp.go:1222`; the comment at line 1231 says that the one written is alive) |

Seen while modelling, without a run of its own. Of the tree, the VCs and the ports:

- Two leaves below different spines may share an RPC endpoint (`topology.go:403`;
  the comment at line 390 says that no other leaf has it).
- A configured server without workers as the first of its leaf has `LastWorkerID`
  65535, not 0 (`topology.go:110` and the comment above it).
- A failed server in no VC is removed centrally only (`topologyServer_central.go:196`),
  and its port stays up.
- Nodes that share a port, as two emulated servers do in
  `conf/horus-topology-skewed.toml`: the failure of one takes the port of the other
  down.
- A controller that fetches the topology before `InitPorts` is done keeps device
  ports 0 (`controller.go:103` of `ctrl_central`).
- A port that is disabled and enabled again within a moment may end disabled
  (`bus.go:62`).

Of what happens below the central controller:

- A message that overtakes another one is refused by the spine and lost, so the
  spine may lack a server for good (`rpc_endpoint_central.go:220`; README.md:40
  says that it receives a refreshed list).
- A new leaf may never become known to the spine's tables although it has servers:
  its goroutine decides that it has none and notes it as pending in two steps
  (`spineBus.go:117`).
- A leaf without workers gets tasks as soon as any other leaf changes, although it
  is still pending (`spineBus.go:119`).
- The goroutine of a new leaf or server dereferences nil if the node has failed
  meanwhile (`spineBus.go:133`).
- `v2` writes `Children[0]` as the second tracked leaf, which may be the best one
  already; when a leaf tracked twice fails it stays the best one, a second way to
  violate `TrackedLeavesAreAlive` (`cp.go:1254`).
- The health manager and a call that remove one server at once: the second one panics
  (`topology.go:507`).
- The failure of the last server of a leaf's list leaves its workers in the tables
  (`leafHealthManager.go:58`; `cp.go:240` counts "alive workers").
- New workers are not put into the idle list: index and value are swapped, and the
  count is not written (`cp.go:314`).
- The new worker IDs of a server are sent to another leaf once the leaf's index
  differs from its ID (`leafBus.go:161`).
- A shutdown closes channels that goroutines of the bus and the ASIC endpoint may
  still send to, which ends the process (`controller.go:281`), and the RPC server's
  loop never sees its variable `stop`, which is declared anew in each turn
  (`rpc_endpoint_leaf.go`).
- The update of a leaf's index is lost while the leaf does not listen yet
  (`rpc_endpoint_spine.go:402`).

### Bounds

- Trees have two spines or one, two or three leaves and two or three servers. The
  loops of the code treat the nodes before and behind the removed one
  differently, and three children have both.
- Numbers of workers are 2 and 3, and 0 or 1 where these are the subject. Two
  different numbers tell a wrong offset from a right one.
- `MaxCalls` bounds the calls of the client. `propagation_paced` has 8, enough to
  build a VC, fail what it stands on, and build it again under the same IDs;
  `propagation` has 5, as two calls already overtake each other and a third one
  meets the result. `spine_bus` has 7, `leaf_bus` 3 on top of any number of
  timeouts. `central_calls` has 4, of which two run at once, so a call meets what
  an overlap left behind, and the configurations with a race 2, the two calls of the race;
  `ports` has 4; `life_cycle` has 3, enough for a leaf to fail while another one starts and a third one's index is on its way, with one
  scan that finds a silent server.
- `Paced` says that a change waits until what went before has ended, a scan of the
  health manager too, which in the code never waits (`leafHealthManager.go:79`). Without it
  the properties of agreement fail, as told above, so the unpaced runs check what
  holds all the same.
- `OnlyVCServersFail` keeps servers outside all VCs from failing in
  `propagation_paced`: nobody below would hear of it.
- A client that does not wait never uses the ID of a failed leaf again in
  `propagation`, and in `life_cycle` not while anything is left of its controller:
  two controllers of one ID would run at once. In `life_cycle` no leaf fails before
  the controllers of the others listen, as the index they are sent would be lost.
- In `ports` a client leaves a port alone until the messages about it are done.

Deadlock is not checked where the client or the calls simply come to an end.

### Fairness

`propagation`: weak fairness of `Progress`. The endpoints, the manager and the
starting controllers are goroutines in endless loops, so when a message or a
controller can go on, something goes on. Nobody has to call. `leaf_health`: weak
fairness of the health manager's loop, of the goroutines, and of the clock for
servers that crashed. Nobody has to ping, to call or to crash. `central_calls`:
weak fairness of each caller, as Go's scheduler runs every goroutine that is
not blocked and a lock that is free is given to one that waits. `life_cycle`: weak
fairness of the spine's endpoint, of the manager, of the ASIC endpoint and of each
leaf controller, all endless loops; no client has to call.

## The proofs

**TopologyProofs**, for all finite or infinite sets of nodes and any word size,
assumes `ConfOK` (configurations are trees, indexes are positions), that `None`
is no node, and that no server has exactly one worker (`1 \notin Counts`), which
finding 1 makes necessary. The inductive invariant joins type
correctness, the agreement of maps and lists, and the numbering of each leaf's
servers. The numbering alone is not inductive: that `AddServerToLeaf` continues
where the last server ended needs that `LastWorkerID` of the leaf is that end and
is not 0 below a server, and renumbering after a removal needs that the list has
no server twice, which comes from the agreement of maps and lists. From it follow
`TypeCorrect`, `MapsAlwaysMatchTree`, `IndexIsAlwaysPosition`, `EndpointsAlwaysUnique`,
`WorkerIDsAlwaysContiguous`, `WorkersAlwaysPartitionLeaf` and `LeafLastIsAlwaysEnd`.
Worker IDs that follow each other are determined by the
servers' order and numbers of workers. This lemma (`ChainIsDetermined`) gives the other three:
`ReloadAlwaysKeepsWorkers`, as an encoding keeps order and numbers, so the reader
numbers as the writer did; and, as no operation changes either for a server that stays,
`SurvivorsAlwaysKeepWorkers` and `MovedNodesAreAlwaysReported`: only behind the
removed node can a number or an index be another one, and those are returned.
`ReloadedWorkers` is about the encoding alone and needs no assumption on `Counts`: a
server has as many workers after a reload as before, but one with exactly one has none.

**VCManagerProofs**, for all sets of nodes and clusters, assumes that `None` is
neither a node nor a record. `ServerListsMatchVCs`, `LeafListsMatchVCs`,
`LeavesAreOfServers` and `VCServersExist` are inductive only together with the
shape of the tree (no server below a leaf that is not there): which leaves a VC
loses with a server depends on where its other servers are. The two action
properties, `MembershipFollowsTree` and `SpinesOfVCAreTold`, follow from the same
invariant.

**CentralCallsProofs**, for any goroutines, leaves, servers and number of calls,
assumes `NoTreeRaces`, that the first six races of the table above do not happen; the
code does not keep them from happening, and all but two are shown to break what is
proved. Calls about VCs may overlap with all others, but for what is said of the VCs
themselves below. The other assumptions say what a start looks like (`StartOK`: no
leaf or server twice) and that servers have two workers or more. The invariant
says how the lists may be unfinished, and for whom: who holds which lock and has which
place in the code; the one place of the spine's children that is being cut
out while the indexes behind it are moved; per leaf the numbers of its servers, with a
last server that has none yet or a gap where one was removed; and which calls are
under way together. All of it is needed at once: that the position a call looked up
is still its victim's (`OnlyVictimsEverGo`) rests on the locks and on calls being
apart, and that renumbering ends well on that position. It gives `TypeCorrect`,
`NoHandlerPanics`, `TreeIsAlwaysWhole`, and `CallsAlwaysImplementTree`, in which a call
takes effect when it changes a map, so that a leaf goes after the last of its servers.

`VCsAreAlwaysWhole` is about the virtual clusters, and assumes more: `Overlaps = {}`.
With any of the last three races it is not true, as their configurations show. Calls about
different VCs and nodes overlap freely, and so do the failures of several servers of
one VC below different leaves. VCs without servers, configured (`StartOK`) or added, are left out. `VCsAreWhole`
speaks of quiet states only, so the invariant, `VCInv`, says of each VC what a call
may have done to it by halves. A call that detaches a node has taken it out of the VCs
of its list up to the turn it is at (`TookServer`, `TookLeaf`), while the list still
has all of them; it may have taken the last server and not yet dropped the VC
(`Empties`); a VC is in the map before it is in any list (`Adds`), and in lists after
it left the map (`Unlists`). Between these, each VC, its servers' lists and its
leaves' lists agree. For that the slice a loop goes over must stay the list it was
read from: another call only takes VCs out of other lists (`SlicesStay`), because two
calls are about different nodes, and about different VCs unless both fail servers,
and then each has its own list (`VCsApart`). What a loop reads without a lock and
uses later, that no other server of its leaf is in the VC, stays true because a
server that is being added is in none (`LoopOK`).

**CallEffectsProofs** has two parts that do not use each other: what the calls of
`VCManager` bring about at the other controllers, and at the ports.

Its theorems about `Propagation`, for any sets of leaves, servers and VCs, any trees to start
from and any number of calls, assumes one spine (`OneSpine`), starts that are trees
and values of `None` that are no data. The lemmas of `VCManagerProofs` about each
change of the books are used twice, for the central controller and, through
`INSTANCE`, for the spine's.

- `SpineBooksAlwaysConsistent` holds whatever the client and the channels do: the
  spine applies one message after the other to consistent books, and refuses those
  it would be hurt by. `BooksInv` adds to the books of both controllers the types of all
  channels, and that what a handler is about to send is still there.
- `LeafVCsAreAlwaysOfServers`: a leaf controller starts with new servers and would
  keep old VCs if one ran already. For a client that does not wait, `StartsOnce`
  says that none does: the message that starts a leaf is in one place only, as the
  client never uses the ID of a failed leaf again. For one that waits, the next
  invariant says so.
- `MembershipAlwaysAgrees` and `VCsAlwaysAgree`, for a client that waits (`Paced`) and
  only removes servers that are in a VC (`OnlyVCServersFail`). Agreement is claimed
  only when nothing is under way, so the invariant has to say what all states
  between are: `OneAtATime`. Either everything is at rest and agrees; or the message
  of the last call is at the central controller, whose books are those of the spine
  with this one change made to them; or it is on its way to the spine; or the spine
  has it too and what the leaves lack is exactly what one message, one broadcast
  or one starting or stopping controller still brings. Each step moves the message
  on by one place. The manager does not panic on the way.

Its theorems about `PortControl` hold for any configuration of ASICs, configs and port
groups, and any number of calls. They assume that the driver gives each port of an
ASIC a number of its own, that a port is cabled to one node (`CablingAssumption`; the
emulated servers of `conf/horus-topology-skewed.toml` share ports), that the tree of the
configuration has no orphans and only ports the registry has (`findPort` ends the
process otherwise), and finitely many servers.

- `PortsAlwaysFollowTree` is claimed when the bus is idle, for clients that leave a port
  alone until the messages about it are done, and not for the ports of servers that failed
  in no VC, which stay up (`topologyServer_central.go:196`). Calls may come while
  `InitPorts` is still at work. The invariant `PortIInv` says where a port is in
  between. `InitDone`: a control plane that `InitPorts` has left behind has given every
  port its number and brought it up, except for those still to do, so a request the
  bus gets finds a number. `Asked`: a port in use that is not up has a request in
  `enabledPorts` and none to take it down; a released one is down or has one in
  `disabledPorts`, and none to bring it up, which is what the order of the two channels
  could spoil. That a call disables exactly the ports nobody uses any more rests on the
  cabling and on the tree invariant of `VCManagerProofs`, as a step of `PortControl`
  is a step of `VCManager` there. `PortTypeCorrect` comes from the same invariant.
- `FetchedPortsAreAlwaysReal` is about the two encodings: the registry is built from
  a configuration, sent as lists in the order of a Go map, and built again. Of several
  configs with one ID, and several groups with one port, the first valid one counts, and each is
  found again whatever the order: lemmas `ConfigsComeBack` and `PortsComeBack`, for all
  configurations.

**SpineBusProofs**, for any finite set of leaves, any servers and any number of changes,
assumes that the spine starts with a leaf and no leaf twice (`StartOK`).
`TypeCorrect` holds however the goroutines of the bus overlap: values in the
tables are leaves and indexes that exist, as each goroutine goes on with the list
it has copied. The other theorems assume `Paced`, one change at a time, without which
TLC finds `TablesMatchTree` and `PendingMatchesTables` violated after a few changes;
`SomeTrackedLeafIsAlive` has no counterexample with four. Their invariant follows the one goroutine through its
loop: which part of the list is already in the tables, and which leaves are pending or
about to be. Under `v2` it says which of the two registers may still have a failed leaf,
although `LoadSignal` writes them between any two steps: that is what
`SomeTrackedLeafIsAlwaysAlive` rests on. That both are alive is not true (`MCSpineBusTracked.cfg`).

**LeafLifeCycleProofs**, for all sets of leaves and any bounds, proves
`HealthChannelIsAlwaysOpen` from no assumption. That a closed channel has no
running health manager is not inductive: the invariant also follows `Shutdown`
along its steps (a controller being stopped has started, and its health manager is
off before its channels are closed), since `StartBare` would otherwise start
the health manager of a controller that is already closed.

`ControllersAlwaysMatchTree` and `IndexesAlwaysAgree` assume that no leaf is configured
twice. Their invariant keeps the book of where each leaf is, in
which channel or list, on its way in or out; how far its controller has started
or stopped; that the list of the central controller is the spine's followed by the
leaves still on their way, in one order; that the place the manager found a controller
at is still that controller's when it cuts there a second later (`SavedPlace`), as nobody
else changes the list; and that a controller whose index is
stale will get an update, because one is queued or the removal that causes it is.
None of these holds once a leaf has failed before the manager asked for it. Such a
state is `Doomed`: it stays so and is never at rest until the manager panics, and
the invariant is that the rest holds or the system is doomed.

**LeafBusProofs**, for any finite set of servers with two workers or more, any starts
and any number of calls. `LeafBusType` holds however the goroutines, the health
manager and the calls overlap: worker IDs, counts and tables stay below the sum of all
workers, which needs that the list has no server twice and that each goroutine's servers
have had worker IDs. The other two assume `Paced`, without which TLC finds both
violated, and `MovedServersAreAlwaysTold` also that the leaf keeps the index that is its ID, as
the packets go to the leaf of that index. Their invariant follows the one goroutine through
its loops and the health manager through its removals: it names the servers whose
worker IDs table `fwd` still lacks (`Lacking`) and those that were moved and have not
been told (`Untold`), and says that the tables are right for all others. The packet that tells
a server goes out under its new worker ID, so the second needs the first. A server that
was never moved has the IDs it joined with, which the history variable `joined` keeps;
the theorem does not say that the server knows those. That no
worker ID leads to a server that lost it (`Exact`) holds only outside the loop that
writes `fwd`, when the count is already the new one.

Every invariant of the passing runs is proved. Only model-checked are the liveness
properties `Settles`, `EveryCallReturns`, `FailedLeavesStop` and `CrashedServersLeave`,
which are out of the prover's reach.

## Abstractions

- A handler is one step, except where the module is about its steps
  (`CentralCalls`, the buses, `LeafLifeCycle`). The spine's handlers run one after
  the other because its only client waits for each.
- Channels are unbounded; the code's have 1000 places.
- `CentralCalls` has one spine and a fixed number of workers per server, and no
  messages. A call whose first lookup finds nothing is not made. The loops of `AddVC` and
  `RemoveVC` over the lists of the VC's servers and leaves are one step each. Torn slice headers, and Go's own end of a process that writes
  a map from two goroutines, are not modelled.
- `PortControl`: calls of the switch driver do not fail, clients have no ports, and no two
  nodes share a port (`CablingAssumption`).
- `LeafLifeCycle` leaves the contents of packets out; nothing is sent or read after
  the process has ended.
- There is one spine controller, in the process of the manager, as in every
  configuration of the repository.
- Virtual clusters have no effect on tables: the buses only log them.
- The data plane is external. Its tables are what the control plane writes; it
  changes the two tracked leaves of `v2` here, and nothing else.
- Queue lengths are left out: they decide which worker is chosen, not whether it is there.

Not modelled: the packet codec, which only meets switches and servers that are not in
the repository (it writes big endian and reads little endian, `horus_pkt.go:133`); the
sockets; the leaf's part of control plane `v2` (on a failure it writes the leaf's
first and last worker as the tracked ones, into the cell of the leaf's ID, where
`Init` uses the cell of its index, `cp.go:1295` and `1336`); tables that are written
once; statistics; configuration files; `spineHealthManager.go` (unused).

## Plan

1. Done: `Tree`, `Topology`, `VCManager` with their proofs; `Propagation`,
   `SpineBus`, `LeafBus`; `CentralCalls`, `Ports`, `PortControl`, `LeafLifeCycle`.
   Theorems about each of them.
2. An abstract specification of propagation, the set of calls that have taken effect
   at each controller, implemented by `Propagation`.
