------------------------- MODULE LeafLifeCycleProofs -------------------------
(***************************************************************************)
(* The life of leaf controllers, for any leaves and any number of calls    *)
(* and scans.                                                              *)
(*                                                                         *)
(* First, the health manager of a controller never finds the channel to    *)
(* its bus closed.  Shutdown stops the bus, then the health manager, then  *)
(* the RPC server, and closes the channels last; a controller starts its   *)
(* loops only once.  The invariant follows a controller along this order.  *)
(*                                                                         *)
(* Then, types hold, and when nothing is under way there is one working    *)
(* controller, with the right index, for every leaf.  The invariant says   *)
(* for every leaf in which channel or list it is, how far its controller   *)
(* has come, that central and spine controller list the leaves in one      *)
(* order, and that a controller with a stale index will get an update.  It *)
(* ends when a leaf fails before the manager has asked for it: such a      *)
(* system is doomed, as the manager panics when it comes to this leaf.     *)
(***************************************************************************)
EXTENDS LeafLifeCycle, SequenceLemmas

\* what the invariant needs of the types
Typed ==
  /\ bus \in [Leaves -> {"none", "on", "told", "off"}]
  /\ health \in [Leaves -> {"none", "waits", "scans", "off"}]
  /\ {"pc", "leaf"} \subseteq DOMAIN mgr

\* a controller whose channels are closed has started, and its health manager is off
ClosedHaveEnded ==
  \A l \in Leaves : l \in closed => bus[l] # "none" /\ health[l] \notin {"waits", "scans"}

\* what Shutdown has done when it comes to its later steps
ShutdownOrder ==
  mgr.leaf \in Leaves =>
    /\ mgr.pc \in {"stopHealth", "stopServer", "goodbye", "remove"} => bus[mgr.leaf] # "none"
    /\ mgr.pc \in {"stopServer", "goodbye", "remove"} => health[mgr.leaf] = "off"

SInv == Typed /\ ClosedHaveEnded /\ ShutdownOrder

\* what SInv depends on
shutdownVars == <<mgr, bus, health, closed>>

\* A step that leaves manager, loops and channels alone keeps the invariant.
LEMMA UnchangedKeeps == SInv /\ UNCHANGED shutdownVars => SInv'
BY DEF SInv, Typed, ClosedHaveEnded, ShutdownOrder, shutdownVars

\* At the start the manager has nothing to do and nothing is closed.
LEMMA InitSInv == Init => SInv
BY DEF Init, SInv, Typed, ClosedHaveEnded, ShutdownOrder

\* The steps of the manager: each of Shutdown's finds what the one before left.
LEMMA ManagerKeeps == SInv /\ Manager => SInv'
<1> SUFFICES ASSUME SInv, Manager PROVE SInv'
  OBVIOUS
<1> USE DEF SInv, Typed, ClosedHaveEnded, ShutdownOrder
<1>1. CASE Panic
  BY <1>1 DEF Panic, mgrVars, leafVars
<1>2. CASE MgrTakesNew
  BY <1>2 DEF MgrTakesNew, At, leafVars
<1>3. CASE MgrFetches /\ ~Panic
  BY SMTT(30), <1>3 DEF MgrFetches, Loop
<1>4. CASE MgrTakesFailed
  BY <1>4 DEF MgrTakesFailed, At, leafVars
<1>5. CASE MgrStopsBus /\ ~Panic
  BY <1>5 DEF MgrStopsBus, Goto
<1>6. CASE MgrStopsHealth
  BY <1>6 DEF MgrStopsHealth, HealthTakes, At, Goto
<1>7. CASE MgrStopsServer /\ ~Panic
  BY <1>7 DEF MgrStopsServer, At, Goto
<1>8. CASE MgrCloses
  BY <1>8 DEF MgrCloses, At, Goto
<1>9. CASE MgrRemoves
  BY <1>9 DEF MgrRemoves, Loop, leafVars
<1> QED
  BY <1>1, <1>2, <1>3, <1>4, <1>5, <1>6, <1>7, <1>8, <1>9 DEF Manager

\* The goroutines of the controllers: a health manager that runs has its channel.
LEMMA LeafKeeps ==
  ASSUME NEW l \in Leaves, SInv,
         Leaf(l) \/ BusWorks(l) \/ HealthScans(l)
  PROVE  SInv'
<1> USE DEF SInv, Typed, ClosedHaveEnded, ShutdownOrder
<1>1. CASE Panic
  BY <1>1 DEF Panic, mgrVars, leafVars
<1>2. CASE Listens(l)
  BY <1>2 DEF Listens, mgrVars
<1>3. CASE Starts(l)
  BY <1>3 DEF Starts, mgrVars
<1>4. CASE BusStops(l)
  BY <1>4 DEF BusStops, mgrVars
<1>5. CASE JobSends(l) /\ ~Panic
  BY <1>5 DEF JobSends, mgrVars
<1>6. CASE HealthSends(l) /\ ~Panic
  BY <1>6 DEF HealthSends, mgrVars
<1>7. CASE BusWorks(l)
  BY <1>7 DEF BusWorks, mgrVars
<1>8. CASE HealthScans(l)
  BY <1>8 DEF HealthScans, mgrVars
<1> QED
  BY <1>1, <1>2, <1>3, <1>4, <1>5, <1>6, <1>7, <1>8 DEF Leaf

\* Clients, spine and ASIC endpoint touch none of it.
LEMMA OthersKeep ==
  ASSUME SInv,
         \/ Spine \/ AsicSends
         \/ \E l \in Leaves : CallAddLeaf(l) \/ CallFailLeaf(l) \/ AsicReads(l)
  PROVE  SInv'
<1>1. UNCHANGED shutdownVars
  <2> USE DEF shutdownVars, mgrVars, leafVars
  <2>1. CASE Spine
    BY <2>1 DEF Spine, SpineAddsLeaf, SpineFailsLeaf, SpineSendsNew, SpineSendsFailed,
                SpineTakesUpdated, SpineUpdatesLeaf
  <2>2. CASE AsicSends
    BY <2>2 DEF AsicSends, Panic
  <2>3. CASE \E l \in Leaves : CallAddLeaf(l) \/ CallFailLeaf(l) \/ AsicReads(l)
    BY <2>3 DEF CallAddLeaf, CallFailLeaf, AsicReads
  <2> QED
    BY <2>1, <2>2, <2>3
<1> QED
  BY <1>1, UnchangedKeeps

LEMMA NextKeeps == SInv /\ [Next]_vars => SInv'
<1> SUFFICES ASSUME SInv, [Next]_vars PROVE SInv'
  OBVIOUS
<1>1. CASE Manager
  BY <1>1, ManagerKeeps
<1>2. CASE \E l \in Leaves : Leaf(l) \/ BusWorks(l) \/ HealthScans(l)
  BY <1>2, LeafKeeps
<1>3. CASE Spine \/ AsicSends \/ \E l \in Leaves : CallAddLeaf(l) \/ CallFailLeaf(l) \/ AsicReads(l)
  BY <1>3, OthersKeep
<1>4. CASE UNCHANGED vars
  BY <1>4, UnchangedKeeps DEF vars, shutdownVars, mgrVars, leafVars
<1> QED
  BY <1>1, <1>2, <1>3, <1>4 DEF Next, Progress

(* Whatever leaves come and fail and whenever scans find silent servers,   *)
(* the health manager of a leaf finds the channel to its bus open.         *)
THEOREM HealthChannelIsAlwaysOpen == Spec => []HealthChannelIsOpen
<1>1. SInv => HealthChannelIsOpen
  BY DEF SInv, ClosedHaveEnded, HealthChannelIsOpen
<1> QED
  BY InitSInv, NextKeeps, <1>1, PTL DEF Spec

-----------------------------------------------------------------------------
(* The controllers and the tree.                                           *)

\* where a leaf is on its way into the tree and to its controller ...
Asked(l) == l \in Range(newAtCentral)
Fetching(l) == mgr.pc = "fetch" /\ mgr.leaf = l
Arriving(l) == l \in Range(newEgInt) \/ l \in Range(newLeaves) \/ Fetching(l)

\* ... and out again
Dropped(l) == l \in Range(failedAtCentral)
Stopping(l) == mgr.pc \notin {"loop", "fetch"} /\ mgr.leaf = l
Leaving(l) == l \in Range(failedEgInt) \/ l \in Range(failedLeaves) \/ Stopping(l)

(* A leaf failed before the manager asked for it: the manager will panic.  *)
Doomed == \E l \in Leaves : (Asked(l) \/ Arriving(l)) /\ l \notin Range(central)

\* what holds in a doomed system too
ListsOK ==
  /\ IsInjective(central) /\ IsInjective(tree) /\ IsInjective(newAtCentral)
  /\ \A l \in Range(tree) : ~Asked(l)
  /\ \A i \in 1 .. Len(tree) : spineIndex[tree[i]] = i - 1
  /\ Len(central) <= Len(Configured) + calls
  /\ Len(tree) + Len(newAtCentral) <= Len(Configured) + calls

CountsOK ==
  /\ \A l \in Leaves : jobs[l] + (IF health[l] = "scans" THEN 1 ELSE 0) <= scans
  /\ mgr.pc # "loop" => mgr.leaf \in Leaves
  /\ \A l \in Leaves : Stopping(l) => l \in Range(ctrls)

\* the channels and lists say of every leaf where it is, and of no leaf twice
BooksOK ==
  \A l \in Leaves :
    /\ l \in Range(central) <=>
         Asked(l) \/ Arriving(l) \/ (l \in Range(ctrls) /\ ~Dropped(l) /\ ~Leaving(l))
    /\ l \in Range(tree) <=> (l \in Range(central) /\ ~Asked(l)) \/ Dropped(l)
    /\ l \in Range(ctrls) <=> \/ l \in Range(central) /\ ~Asked(l) /\ ~Arriving(l)
                              \/ Dropped(l) \/ Leaving(l)
    /\ ~(Asked(l) /\ Arriving(l)) /\ ~(Dropped(l) /\ Leaving(l))
    /\ Dropped(l) \/ Leaving(l) => l \notin Range(central)
    /\ ~(l \in Range(newEgInt) /\ l \in Range(newLeaves))
    /\ ~(Fetching(l) /\ (l \in Range(newEgInt) \/ l \in Range(newLeaves)))
    /\ ~(l \in Range(failedEgInt) /\ l \in Range(failedLeaves))
    /\ ~(Stopping(l) /\ (l \in Range(failedEgInt) \/ l \in Range(failedLeaves)))

QueuesOK ==
  /\ IsInjective(failedAtCentral) /\ IsInjective(newEgInt) /\ IsInjective(newLeaves)
  /\ IsInjective(failedEgInt) /\ IsInjective(failedLeaves) /\ IsInjective(ctrls)

\* how far the controller of a leaf has come, and its shutdown
Running(l) == bus[l] = "on" /\ health[l] \in {"waits", "scans"}
Started(l) == Running(l) \/ (bus[l] = "none" /\ health[l] = "none")
Ended(l) == bus[l] # "on" /\ health[l] \in {"none", "off"} /\ l \notin listening

ControllersOK ==
  \A l \in Leaves :
    /\ l \notin Range(ctrls) => Ended(l)
    /\ l \in Range(ctrls) /\ (~Stopping(l) \/ mgr.pc = "stopBus") => Started(l)
    /\ Stopping(l) /\ mgr.pc = "stopHealth" =>
         bus[l] \in {"told", "off"} /\ health[l] \in {"waits", "scans"}
    /\ Stopping(l) /\ mgr.pc = "stopServer" => bus[l] \in {"told", "off"} /\ health[l] = "off"
    /\ Stopping(l) /\ mgr.pc \in {"goodbye", "remove"} => bus[l] \in {"told", "off"} /\ Ended(l)
    /\ l \in ingress <=> l \in Range(ctrls)
    /\ l \in closed \cap ingress => Stopping(l) /\ mgr.pc = "remove"
    /\ l \in Range(ctrls) \/ l \in Range(newLeaves) \/ Fetching(l) => l \in pools

\* l comes before m in the tree, or in the queue into it
Ahead(l, m) ==
  \/ Before(tree, l, m) \/ Before(newAtCentral, l, m)
  \/ l \in Range(tree) /\ m \in Range(newAtCentral)

\* the lists of central and spine controller have one order
OrdersOK ==
  \A l, m \in Range(central) : Before(central, l, m) <=> Ahead(l, m)

\* a controller with another index than its leaf will get an update
ToUpdate(l) == l \in Range(updating) \/ \E seq \in Range(updatedEgInt) : l \in Range(seq)
IndexComes(l) ==
  /\ l \in listening \cap pools
  /\ ToUpdate(l) \/ \E m \in Range(failedAtCentral) : Before(tree, m, l)
IndexesOK ==
  \A l \in Range(central) \cap Range(ctrls) :
    index[l] = PlaceIn(central, l) - 1 \/ IndexComes(l)

Undoomed == BooksOK /\ QueuesOK /\ ControllersOK /\ OrdersOK /\ IndexesOK

IInv == TypeOK /\ ListsOK /\ CountsOK /\ (Doomed \/ Undoomed)

\* the place that Shutdown will remove is still that of the leaf's controller
SavedPlace ==
  mgr.pc \notin {"loop", "fetch"} => mgr.place \in 1 .. Len(ctrls) /\ ctrls[mgr.place] = mgr.leaf

-----------------------------------------------------------------------------
(* What the invariant says, in the form that the steps need.               *)

LEMMA PlaceIsFirst == \A seq, l : PlaceIn(seq, l) = FirstPlace(seq, l)
BY DEF PlaceIn, FirstPlace

LEMMA SeqTypes ==
  ASSUME TypeOK
  PROVE  /\ central \in Seq(Leaves) /\ newAtCentral \in Seq(Leaves) /\ failedAtCentral \in Seq(Leaves)
         /\ tree \in Seq(Leaves) /\ newEgInt \in Seq(Leaves) /\ failedEgInt \in Seq(Leaves)
         /\ updating \in Seq(Leaves) /\ newLeaves \in Seq(Leaves) /\ failedLeaves \in Seq(Leaves)
         /\ ctrls \in Seq(Leaves) /\ updatedEgInt \in Seq(Seq(Leaves))
BY DEF TypeOK

LEMMA LengthTypes ==
  ASSUME TypeOK
  PROVE  /\ Len(newAtCentral) \in Nat /\ Len(Configured) \in Nat /\ Len(tree) \in Nat
         /\ calls \in Nat
<1>1. Len(newAtCentral) \in Nat /\ Len(Configured) \in Nat /\ Len(tree) \in Nat
  BY SeqTypes, ConfiguredAssumption
<1>2. calls \in 0 .. MaxCalls
  BY DEF TypeOK
<1> QED
  BY <1>1, <1>2, BoundsAssumption

LEMMA InRange ==
  ASSUME NEW T, NEW seq \in Seq(T)
  PROVE  Range(seq) \subseteq T
BY RangeValue

-----------------------------------------------------------------------------
(* At the start every configured leaf has its controller.                  *)

LEMMA InitIInv ==
  ASSUME Init
  PROVE  IInv
<1>1. /\ Configured \in Seq(Leaves) /\ IsInjective(Configured) /\ Len(Configured) \in Nat
      /\ Range(Configured) \subseteq Leaves
      /\ MaxCalls \in Nat /\ MaxScans \in Nat
  BY ConfiguredAssumption, BoundsAssumption, InRange
<1>2. /\ <<>> \in Seq(Leaves) /\ <<>> \in Seq(Seq(Leaves)) /\ Len(<<>>) = 0 /\ Range(<<>>) = {}
      /\ IsInjective(<<>>)
  BY EmptyValue
<1>3. \A l, m : ~Before(<<>>, l, m)
  BY EmptyValue
<1>4. \A l \in Range(Configured) : PlaceIn(Configured, l) \in 1 .. Len(Configured)
  <2>1. ASSUME NEW l \in Range(Configured)
        PROVE  FirstPlace(Configured, l) \in 1 .. Len(Configured)
    <3>1. \E i \in 1 .. Len(Configured) : Configured[i] = l
      BY <1>1, RangeValue
    <3>2. FirstPlace(Configured, l) \in 0 .. Len(Configured) /\ FirstPlace(Configured, l) # 0
      BY <1>1, <3>1, FirstPlaceValue
    <3> QED
      BY <1>1, <3>2
  <2> QED
    BY <2>1, PlaceIsFirst
<1>5. \A i \in 1 .. Len(Configured) :
        Configured[i] \in Range(Configured) /\ PlaceIn(Configured, Configured[i]) = i
  BY <1>1, PlaceInInjective, PlaceIsFirst, RangeValue
<1>6. spineIndex \in [Leaves -> Indexes]
  BY <1>1, <1>4 DEF Init, Indexes
<1>7. TypeOK
  BY <1>1, <1>2, <1>6, NobodyIsNoLeaf DEF Init, TypeOK
<1>8. ListsOK
  BY <1>1, <1>2, <1>5 DEF Init, ListsOK, Asked
<1>9. CountsOK
  BY <1>1, <1>2 DEF Init, CountsOK, Stopping
<1>10. \A l \in Leaves : /\ ~Asked(l) /\ ~Arriving(l) /\ ~Fetching(l) /\ ~Dropped(l) /\ ~Leaving(l) /\ ~Stopping(l)
                         /\ l \notin Range(newEgInt) /\ l \notin Range(newLeaves)
                         /\ l \notin Range(failedEgInt) /\ l \notin Range(failedLeaves)
  BY <1>2 DEF Init, Asked, Arriving, Fetching, Dropped, Leaving, Stopping
<1>11. BooksOK
  BY <1>10 DEF Init, BooksOK
<1>12. QueuesOK
  BY <1>1, <1>2 DEF Init, QueuesOK
<1>13. ControllersOK
  BY <1>1, <1>10 DEF Init, ControllersOK, Running, Started, Ended
<1>14. OrdersOK
  BY <1>2, <1>3 DEF Init, OrdersOK, Ahead
<1>15. IndexesOK
  BY <1>1 DEF Init, IndexesOK
<1> QED
  BY <1>7, <1>8, <1>9, <1>11, <1>12, <1>13, <1>14, <1>15 DEF IInv, Undoomed

-----------------------------------------------------------------------------
(* Steps inside a controller, its shutdown, and packets: no leaf gets to   *)
(* another channel or list.                                                *)

\* the channels and lists, and what the indexes depend on
placeVars == <<callVars, spineVars, newLeaves, failedLeaves, ctrls, index>>

LEMMA SamePlaces ==
  ASSUME UNCHANGED placeVars,
         \A l : (Stopping(l)' <=> Stopping(l)) /\ (Fetching(l)' <=> Fetching(l))
  PROVE  /\ ListsOK => ListsOK'
         /\ Doomed => Doomed'
         /\ BooksOK => BooksOK'
         /\ QueuesOK => QueuesOK'
         /\ OrdersOK => OrdersOK'
<1> USE DEF placeVars, callVars, spineVars
<1>1. ListsOK => ListsOK'
  BY DEF ListsOK, Asked
<1>2. Doomed => Doomed'
  BY DEF Doomed, Asked, Arriving
<1>3. BooksOK => BooksOK'
  BY DEF BooksOK, Asked, Arriving, Dropped, Leaving
<1>4. QueuesOK => QueuesOK'
  BY DEF QueuesOK
<1>5. OrdersOK => OrdersOK'
  BY DEF OrdersOK, Ahead
<1> QED
  BY <1>1, <1>2, <1>3, <1>4, <1>5

LEMMA SameController ==
  ASSUME IInv, UNCHANGED placeVars, TypeOK', CountsOK',
         \A l : (Stopping(l)' <=> Stopping(l)) /\ (Fetching(l)' <=> Fetching(l)),
         Undoomed => /\ ControllersOK'
                     /\ \A l \in Range(central) : l \in listening => l \in listening'
  PROVE  IInv'
<1>1. Undoomed => IndexesOK'
  BY DEF Undoomed, IndexesOK, IndexComes, ToUpdate, placeVars, callVars, spineVars
<1> QED
  BY <1>1, SamePlaces DEF IInv, Undoomed

LEMMA NothingMoves ==
  ASSUME IInv, up' \in BOOLEAN, reader' \in Leaves \cup {Nobody},
         UNCHANGED <<spineVars, mgrVars, leafVars, ingress, callVars, scans>>
  PROVE  IInv'
<1>1. UNCHANGED placeVars
  BY DEF placeVars, leafVars, mgrVars
<1>2. \A l : (Stopping(l)' <=> Stopping(l)) /\ (Fetching(l)' <=> Fetching(l))
  BY DEF Stopping, Fetching, mgrVars
<1>3. TypeOK'
  BY DEF IInv, TypeOK, spineVars, mgrVars, leafVars, callVars
<1>4. CountsOK'
  BY DEF IInv, CountsOK, Stopping, mgrVars, leafVars
<1>5. Undoomed => ControllersOK'
  BY DEF Undoomed, ControllersOK, Started, Running, Ended, Stopping, Fetching, mgrVars, leafVars, spineVars
<1> QED
  BY <1>1, <1>2, <1>3, <1>4, <1>5, SameController DEF leafVars

LEMMA PanicKeepsI == IInv /\ Panic => IInv'
BY NothingMoves DEF Panic, asicVars, IInv, TypeOK

LEMMA AsicKeeps ==
  ASSUME IInv, AsicSends \/ \E l \in Leaves : AsicReads(l)
  PROVE  IInv'
BY NothingMoves, PanicKeepsI DEF AsicReads, AsicSends, asicVars, IInv, TypeOK

\* the steps of a controller that lives
LEMMA WorkKeeps ==
  ASSUME IInv, NEW l \in Leaves, Leaf(l) \/ BusWorks(l) \/ HealthScans(l)
  PROVE  IInv'
<1> USE DEF mgrVars, spineVars, callVars, asicVars
<1>1. CASE Panic
  BY <1>1, PanicKeepsI
<1>2. CASE ~Panic
  <2>1. UNCHANGED <<placeVars, mgr, ingress, reader>> /\ up' = up
    BY <1>2 DEF Leaf, Listens, Starts, BusStops, JobSends, HealthSends, BusWorks, HealthScans, placeVars
  <2>2. \A m : (Stopping(m)' <=> Stopping(m)) /\ (Fetching(m)' <=> Fetching(m))
    BY <2>1 DEF Stopping, Fetching
  <2>3. TypeOK /\ CountsOK /\ MaxScans \in Nat /\ scans \in 0 .. MaxScans /\ jobs \in [Leaves -> 0 .. MaxScans]
        /\ bus \in [Leaves -> {"none", "on", "told", "off"}]
        /\ health \in [Leaves -> {"none", "waits", "scans", "off"}]
        /\ listening \subseteq Leaves /\ closed \subseteq Leaves
        /\ \A m \in Leaves : jobs[m] + (IF health[m] = "scans" THEN 1 ELSE 0) <= scans
    BY BoundsAssumption DEF IInv, TypeOK, CountsOK
  <2>4. ASSUME /\ bus' \in [Leaves -> {"none", "on", "told", "off"}]
               /\ health' \in [Leaves -> {"none", "waits", "scans", "off"}]
               /\ jobs' \in [Leaves -> 0 .. MaxScans] /\ scans' \in 0 .. MaxScans
               /\ listening' \subseteq Leaves /\ closed' \subseteq Leaves
        PROVE  TypeOK'
    BY <2>1, <2>3, <2>4 DEF TypeOK, placeVars
  <2>5. ASSUME \A m \in Leaves : jobs'[m] + (IF health'[m] = "scans" THEN 1 ELSE 0) <= scans'
        PROVE  CountsOK'
    BY <2>1, <2>2, <2>3, <2>5 DEF CountsOK, placeVars
  <2>6. CASE Listens(l)
    <3>1. /\ listening' = listening \cup {l} /\ UNCHANGED <<bus, health, closed, jobs, scans>>
          /\ l \in Range(ctrls) /\ ~(Stopping(l) /\ mgr.pc \in {"goodbye", "remove"})
      BY <1>2, <2>6 DEF Listens, leafVars, Stopping
    <3>2. TypeOK'
      BY <2>3, <2>4, <3>1
    <3>3. CountsOK'
      BY <2>3, <2>5, <3>1
    <3>4. ASSUME Undoomed
          PROVE  ControllersOK' /\ \A m \in Range(central) : m \in listening => m \in listening'
      BY <2>1, <2>2, <2>3, <3>1, <3>4 DEF Undoomed, ControllersOK, Started, Running, Ended, Stopping, placeVars
    <3> QED
      BY <2>1, <2>2, <3>2, <3>3, <3>4, SameController
  <2>7. CASE Starts(l)
    <3>1. /\ bus' = [bus EXCEPT ![l] = "on"] /\ health' = [health EXCEPT ![l] = "waits"]
          /\ UNCHANGED <<listening, closed, jobs, scans>> /\ l \in Range(ctrls) /\ bus[l] = "none"
      BY <1>2, <2>7 DEF Starts, leafVars
    <3>2. TypeOK'
      BY <2>3, <2>4, <3>1
    <3>3. CountsOK'
      BY <2>3, <2>5, <3>1
    <3>4. ASSUME Undoomed
          PROVE  ControllersOK' /\ \A m \in Range(central) : m \in listening => m \in listening'
      BY <2>1, <2>2, <2>3, <3>1, <3>4 DEF Undoomed, ControllersOK, Started, Running, Ended, Stopping, placeVars
    <3> QED
      BY <2>1, <2>2, <3>2, <3>3, <3>4, SameController
  <2>8. CASE BusStops(l)
    <3>1. /\ bus' = [bus EXCEPT ![l] = "off"] /\ bus[l] = "told"
          /\ UNCHANGED <<health, listening, closed, jobs, scans>>
      BY <1>2, <2>8 DEF BusStops, leafVars
    <3>2. TypeOK'
      BY <2>3, <2>4, <3>1
    <3>3. CountsOK'
      BY <2>3, <2>5, <3>1
    <3>4. ASSUME Undoomed
          PROVE  ControllersOK' /\ \A m \in Range(central) : m \in listening => m \in listening'
      BY <2>1, <2>2, <2>3, <3>1, <3>4 DEF Undoomed, ControllersOK, Started, Running, Ended, Stopping, placeVars
    <3> QED
      BY <2>1, <2>2, <3>2, <3>3, <3>4, SameController
  <2>9. CASE JobSends(l)
    <3>1. /\ jobs' = [jobs EXCEPT ![l] = @ - 1] /\ jobs[l] > 0
          /\ UNCHANGED <<bus, health, listening, closed, scans>>
      BY <1>2, <2>9 DEF JobSends, leafVars
    <3>2. TypeOK'
      BY <2>3, <2>4, <3>1
    <3>3. CountsOK'
      BY <2>3, <2>5, <3>1
    <3>4. ASSUME Undoomed
          PROVE  ControllersOK' /\ \A m \in Range(central) : m \in listening => m \in listening'
      BY <2>1, <2>2, <2>3, <3>1, <3>4 DEF Undoomed, ControllersOK, Started, Running, Ended, Stopping, placeVars
    <3> QED
      BY <2>1, <2>2, <3>2, <3>3, <3>4, SameController
  <2>10. CASE HealthSends(l)
    <3>1. /\ health' = [health EXCEPT ![l] = "waits"] /\ health[l] = "scans"
          /\ jobs' = [jobs EXCEPT ![l] = @ + 1] \/ jobs' = jobs
          /\ UNCHANGED <<bus, listening, closed, scans>>
      BY <1>2, <2>10 DEF HealthSends, leafVars
    <3>2. TypeOK'
      BY <2>3, <2>4, <3>1
    <3>3. CountsOK'
      BY <2>3, <2>5, <3>1
    <3>4. ASSUME Undoomed
          PROVE  ControllersOK' /\ \A m \in Range(central) : m \in listening => m \in listening'
      BY <2>1, <2>2, <2>3, <3>1, <3>4 DEF Undoomed, ControllersOK, Started, Running, Ended, Stopping, placeVars
    <3> QED
      BY <2>1, <2>2, <3>2, <3>3, <3>4, SameController
  <2>11. CASE BusWorks(l)
    <3>1. /\ jobs' = [jobs EXCEPT ![l] = @ + 1] /\ scans' = scans + 1 /\ scans < MaxScans
          /\ UNCHANGED <<bus, health, listening, closed>>
      BY <1>2, <2>11 DEF BusWorks, leafVars
    <3>2. TypeOK'
      BY <2>3, <2>4, <3>1
    <3>3. CountsOK'
      BY <2>3, <2>5, <3>1
    <3>4. ASSUME Undoomed
          PROVE  ControllersOK' /\ \A m \in Range(central) : m \in listening => m \in listening'
      BY <2>1, <2>2, <2>3, <3>1, <3>4 DEF Undoomed, ControllersOK, Started, Running, Ended, Stopping, placeVars
    <3> QED
      BY <2>1, <2>2, <3>2, <3>3, <3>4, SameController
  <2>12. CASE HealthScans(l)
    <3>1. /\ health' = [health EXCEPT ![l] = "scans"] /\ scans' = scans + 1 /\ scans < MaxScans
          /\ health[l] = "waits" /\ UNCHANGED <<bus, listening, closed, jobs>>
      BY <1>2, <2>12 DEF HealthScans, leafVars
    <3>2. TypeOK'
      BY <2>3, <2>4, <3>1
    <3>3. CountsOK'
      BY <2>3, <2>5, <3>1
    <3>4. ASSUME Undoomed
          PROVE  ControllersOK' /\ \A m \in Range(central) : m \in listening => m \in listening'
      BY <2>1, <2>2, <2>3, <3>1, <3>4 DEF Undoomed, ControllersOK, Started, Running, Ended, Stopping, placeVars
    <3> QED
      BY <2>1, <2>2, <3>2, <3>3, <3>4, SameController
  <2> QED
    BY <2>6, <2>7, <2>8, <2>9, <2>10, <2>11, <2>12 DEF Leaf
<1> QED
  BY <1>1, <1>2

MgrType ==
  [pc : {"loop", "fetch", "stopBus", "stopHealth", "stopServer", "goodbye", "remove"},
   leaf : Leaves \cup {Nobody}, place : Nat]

\* Shutdown, one step after the other
LEMMA ShutdownKeeps ==
  ASSUME IInv, MgrStopsBus \/ MgrStopsHealth \/ MgrStopsServer \/ MgrCloses
  PROVE  IInv'
<1> USE DEF spineVars, callVars, asicVars
<1>1. CASE Panic
  BY <1>1, PanicKeepsI
<1>2. CASE ~Panic
  <2>1. PICK pc \in {"stopHealth", "stopServer", "goodbye", "remove"} :
          mgr' = [mgr EXCEPT !.pc = pc] /\ mgr.pc \in {"stopBus", "stopHealth", "stopServer", "goodbye"}
    BY <1>2 DEF MgrStopsBus, MgrStopsHealth, MgrStopsServer, MgrCloses, Goto, At
  <2>2. UNCHANGED <<placeVars, ingress, reader, jobs, scans>> /\ up' = up
    BY <1>2 DEF MgrStopsBus, MgrStopsHealth, MgrStopsServer, MgrCloses, placeVars
  <2>3. /\ TypeOK /\ CountsOK /\ mgr \in MgrType
        /\ bus \in [Leaves -> {"none", "on", "told", "off"}]
        /\ health \in [Leaves -> {"none", "waits", "scans", "off"}]
        /\ listening \subseteq Leaves /\ closed \subseteq Leaves
    BY DEF IInv, TypeOK, MgrType
  <2>4. mgr' \in MgrType /\ mgr'.pc = pc /\ mgr'.leaf = mgr.leaf
    BY <2>1, <2>3 DEF MgrType
  <2>5. \A m : (Stopping(m)' <=> Stopping(m)) /\ (Fetching(m)' <=> Fetching(m))
    BY <2>1, <2>4 DEF Stopping, Fetching
  <2>6. PICK l \in Leaves : l = mgr.leaf /\ Stopping(l)
    BY <2>1, <2>3 DEF CountsOK, Stopping
  <2>7. ASSUME /\ bus' \in [Leaves -> {"none", "on", "told", "off"}]
               /\ health' \in [Leaves -> {"none", "waits", "scans", "off"}]
               /\ listening' \subseteq Leaves /\ closed' \subseteq Leaves
        PROVE  TypeOK'
    BY <2>2, <2>3, <2>4, <2>7 DEF TypeOK, MgrType, placeVars
  <2>8. ASSUME \A m \in Leaves : health'[m] = "scans" => health[m] = "scans"
        PROVE  CountsOK'
    <3>1. ASSUME NEW m \in Leaves
          PROVE  jobs'[m] + (IF health'[m] = "scans" THEN 1 ELSE 0) <= scans'
      <4>1. jobs[m] + (IF health[m] = "scans" THEN 1 ELSE 0) <= scans /\ jobs[m] \in Nat /\ scans \in Nat
        BY <2>3 DEF CountsOK, TypeOK
      <4> QED
        BY <2>2, <2>8, <4>1
    <3> QED
      BY <2>2, <2>3, <2>4, <2>5, <2>6, <3>1 DEF CountsOK, placeVars
  <2>9. Undoomed => l \notin Range(central) /\ l \in Range(ctrls)
    BY <2>3, <2>6 DEF Undoomed, BooksOK, Leaving, CountsOK
  <2>10. CASE MgrStopsBus
    <3>1. /\ bus' = [bus EXCEPT ![l] = "told"] /\ bus[l] # "none" /\ mgr.pc = "stopBus" /\ mgr'.pc = "stopHealth"
          /\ UNCHANGED <<health, listening, closed>>
      BY <1>2, <2>3, <2>6, <2>10 DEF MgrStopsBus, At, Goto, MgrType
    <3>2. TypeOK' /\ CountsOK'
      BY <2>3, <2>7, <2>8, <3>1
    <3>3. ASSUME Undoomed
          PROVE  ControllersOK' /\ \A m \in Range(central) : m \in listening => m \in listening'
      BY <2>2, <2>3, <2>4, <2>5, <2>6, <2>9, <3>1, <3>3
         DEF Undoomed, ControllersOK, Started, Running, Ended, Stopping, Fetching, placeVars
    <3> QED
      BY <2>2, <2>5, <3>2, <3>3, SameController
  <2>11. CASE MgrStopsHealth
    <3>1. /\ health' = [health EXCEPT ![l] = "off"] /\ mgr.pc = "stopHealth" /\ mgr'.pc = "stopServer"
          /\ UNCHANGED <<bus, listening, closed>>
      BY <1>2, <2>3, <2>6, <2>11 DEF MgrStopsHealth, HealthTakes, At, Goto, MgrType
    <3>2. TypeOK' /\ CountsOK'
      BY <2>3, <2>7, <2>8, <3>1
    <3>3. ASSUME Undoomed
          PROVE  ControllersOK' /\ \A m \in Range(central) : m \in listening => m \in listening'
      BY <2>2, <2>3, <2>4, <2>5, <2>6, <2>9, <3>1, <3>3
         DEF Undoomed, ControllersOK, Started, Running, Ended, Stopping, Fetching, placeVars
    <3> QED
      BY <2>2, <2>5, <3>2, <3>3, SameController
  <2>12. CASE MgrStopsServer
    <3>1. /\ listening' = listening \ {l} /\ mgr.pc = "stopServer" /\ mgr'.pc = "goodbye"
          /\ UNCHANGED <<bus, health, closed>>
      BY <1>2, <2>3, <2>6, <2>12 DEF MgrStopsServer, At, Goto, MgrType
    <3>2. TypeOK' /\ CountsOK'
      BY <2>3, <2>7, <2>8, <3>1
    <3>3. ASSUME Undoomed
          PROVE  ControllersOK' /\ \A m \in Range(central) : m \in listening => m \in listening'
      BY <2>2, <2>3, <2>4, <2>5, <2>6, <2>9, <3>1, <3>3
         DEF Undoomed, ControllersOK, Started, Running, Ended, Stopping, Fetching, placeVars
    <3> QED
      BY <2>2, <2>5, <3>2, <3>3, SameController
  <2>13. CASE MgrCloses
    <3>1. /\ closed' = closed \cup {l} /\ mgr.pc = "goodbye" /\ mgr'.pc = "remove"
          /\ UNCHANGED <<bus, health, listening>>
      BY <1>2, <2>3, <2>6, <2>13 DEF MgrCloses, At, Goto, MgrType
    <3>2. TypeOK' /\ CountsOK'
      BY <2>3, <2>7, <2>8, <3>1
    <3>3. ASSUME Undoomed
          PROVE  ControllersOK' /\ \A m \in Range(central) : m \in listening => m \in listening'
      BY <2>2, <2>3, <2>4, <2>5, <2>6, <2>9, <3>1, <3>3
         DEF Undoomed, ControllersOK, Started, Running, Ended, Stopping, Fetching, placeVars
    <3> QED
      BY <2>2, <2>5, <3>2, <3>3, SameController
  <2> QED
    BY <2>10, <2>11, <2>12, <2>13
<1> QED
  BY <1>1, <1>2

-----------------------------------------------------------------------------
(* Messages that go from one channel to the next.                          *)

LEMMA MoveKeeps ==
  ASSUME IInv, TypeOK', CountsOK', pools \subseteq pools',
         UNCHANGED <<callVars, tree, spineIndex, updatedEgInt, updating, ctrls, leafVars, asicVars>>,
         \A l \in Leaves : Arriving(l) => Arriving(l)',
         Undoomed => BooksOK' /\ QueuesOK' /\ ControllersOK'
  PROVE  IInv'
<1> USE DEF callVars, leafVars
<1>1. ListsOK'
  BY DEF IInv, ListsOK, Asked
<1>2. Doomed => Doomed'
  BY DEF Doomed, Asked
<1>3. Undoomed => OrdersOK' /\ IndexesOK'
  BY DEF Undoomed, OrdersOK, Ahead, IndexesOK, IndexComes, ToUpdate
<1> QED
  BY <1>1, <1>2, <1>3 DEF IInv, Undoomed

LEMMA SendsNewKeeps ==
  ASSUME IInv, SpineSendsNew
  PROVE  IInv'
<1> PICK l : l = Head(newEgInt)
  OBVIOUS
<1>1. /\ newEgInt # <<>> /\ newEgInt' = Tail(newEgInt) /\ newLeaves' = Append(newLeaves, l)
      /\ pools' = pools \cup Range(tree)
      /\ UNCHANGED <<up, callVars, tree, spineIndex, failedEgInt, updatedEgInt, updating,
                     failedLeaves, mgr, ctrls, leafVars, asicVars, scans>>
  BY DEF SpineSendsNew
<1>2. /\ TypeOK /\ newEgInt \in Seq(Leaves) /\ newLeaves \in Seq(Leaves) /\ tree \in Seq(Leaves)
      /\ pools \subseteq Leaves /\ Range(tree) \subseteq Leaves
  BY SeqTypes, InRange DEF IInv, TypeOK
<1>3. /\ l \in Leaves /\ newEgInt' \in Seq(Leaves)
      /\ \A m : m \in Range(newEgInt) <=> m = l \/ m \in Range(newEgInt')
  BY <1>1, <1>2, TailValue
<1>4. /\ newLeaves' \in Seq(Leaves)
      /\ \A m : m \in Range(newLeaves') <=> m \in Range(newLeaves) \/ m = l
  BY <1>1, <1>2, <1>3, AppendValue
<1>5. TypeOK'
  BY SMTT(30), <1>1, <1>2, <1>3, <1>4 DEF TypeOK, callVars, leafVars, asicVars
<1>6. CountsOK'
  BY <1>1 DEF IInv, CountsOK, Stopping, leafVars
<1>7. \A m \in Leaves : Arriving(m)' <=> Arriving(m)
  BY <1>1, <1>3, <1>4 DEF Arriving, Fetching
<1>8. ASSUME Undoomed
      PROVE  BooksOK' /\ QueuesOK' /\ ControllersOK'
  <2>1. /\ IsInjective(newEgInt') /\ l \notin Range(newEgInt')
    BY <1>1, <1>2, <1>8, TailOfInjective DEF Undoomed, QueuesOK
  <2>2. l \notin Range(newLeaves) /\ l \in Range(tree) /\ ~Fetching(l)
    BY <1>3, <1>8 DEF Undoomed, BooksOK, Arriving
  <2>3. IsInjective(newLeaves')
    BY <1>1, <1>2, <1>3, <1>8, <2>2, AppendToInjective DEF Undoomed, QueuesOK
  <2>4. BooksOK'
    <3>1. \A m \in Leaves : /\ Asked(m)' <=> Asked(m)
                            /\ Dropped(m)' <=> Dropped(m)
                            /\ Leaving(m)' <=> Leaving(m)
                            /\ Fetching(m)' <=> Fetching(m)
                            /\ Stopping(m)' <=> Stopping(m)
      BY <1>1 DEF Asked, Dropped, Leaving, Fetching, Stopping, callVars
    <3> QED
      BY <1>1, <1>3, <1>4, <1>7, <1>8, <2>1, <2>2, <3>1 DEF Undoomed, BooksOK, callVars
  <2>5. QueuesOK'
    BY <1>1, <1>8, <2>1, <2>3 DEF Undoomed, QueuesOK, callVars
  <2>6. ControllersOK'
    BY <1>1, <1>4, <1>8, <2>2
       DEF Undoomed, ControllersOK, Started, Running, Ended, Stopping, Fetching, leafVars, asicVars
  <2> QED
    BY <2>4, <2>5, <2>6
<1> QED
  BY <1>1, <1>5, <1>6, <1>7, <1>8, MoveKeeps

LEMMA SendsFailedKeeps ==
  ASSUME IInv, SpineSendsFailed
  PROVE  IInv'
<1> PICK l : l = Head(failedEgInt)
  OBVIOUS
<1>1. /\ failedEgInt # <<>> /\ failedEgInt' = Tail(failedEgInt) /\ failedLeaves' = Append(failedLeaves, l)
      /\ UNCHANGED <<up, callVars, tree, spineIndex, newEgInt, updatedEgInt, updating, pools,
                     newLeaves, mgr, ctrls, leafVars, asicVars, scans>>
  BY DEF SpineSendsFailed
<1>2. /\ TypeOK /\ failedEgInt \in Seq(Leaves) /\ failedLeaves \in Seq(Leaves)
  BY SeqTypes DEF IInv
<1>3. /\ l \in Leaves /\ failedEgInt' \in Seq(Leaves)
      /\ \A m : m \in Range(failedEgInt) <=> m = l \/ m \in Range(failedEgInt')
  BY <1>1, <1>2, TailValue
<1>4. /\ failedLeaves' \in Seq(Leaves)
      /\ \A m : m \in Range(failedLeaves') <=> m \in Range(failedLeaves) \/ m = l
  BY <1>1, <1>2, <1>3, AppendValue
<1>5. TypeOK'
  <2>1. \A seq \in {central, newAtCentral, failedAtCentral, tree, newEgInt, failedEgInt, updating,
                    newLeaves, failedLeaves, ctrls}' : seq \in Seq(Leaves)
    <3>1. \A seq \in {central, newAtCentral, failedAtCentral, tree, newEgInt, updating, newLeaves, ctrls}' :
             seq \in Seq(Leaves)
      BY <1>1, <1>2 DEF TypeOK, callVars
    <3> QED
      BY <1>3, <1>4, <3>1
  <2>2. /\ up' \in BOOLEAN /\ updatedEgInt' \in Seq(Seq(Leaves)) /\ spineIndex' \in [Leaves -> Indexes]
        /\ calls' \in 0 .. MaxCalls /\ scans' \in 0 .. MaxScans
        /\ mgr' \in [pc : {"loop", "fetch", "stopBus", "stopHealth", "stopServer", "goodbye", "remove"},
                     leaf : Leaves \cup {Nobody}, place : Nat]
    BY <1>1, <1>2 DEF TypeOK, callVars
  <2>3. /\ index' \in [Leaves -> Indexes]
        /\ pools' \cup listening' \cup ingress' \cup closed' \subseteq Leaves
        /\ reader' \in Leaves \cup {Nobody}
        /\ bus' \in [Leaves -> {"none", "on", "told", "off"}]
        /\ health' \in [Leaves -> {"none", "waits", "scans", "off"}]
        /\ jobs' \in [Leaves -> 0 .. MaxScans]
    BY <1>1, <1>2 DEF TypeOK, leafVars, asicVars
  <2> QED
    BY <2>1, <2>2, <2>3 DEF TypeOK
<1>6. CountsOK'
  BY <1>1 DEF IInv, CountsOK, Stopping, leafVars
<1>7. \A m \in Leaves : Arriving(m)' <=> Arriving(m)
  BY <1>1 DEF Arriving, Fetching
<1>8. ASSUME Undoomed
      PROVE  BooksOK' /\ QueuesOK' /\ ControllersOK'
  <2>1. /\ IsInjective(failedEgInt') /\ l \notin Range(failedEgInt')
    BY <1>1, <1>2, <1>8, TailOfInjective DEF Undoomed, QueuesOK
  <2>2. l \notin Range(failedLeaves) /\ ~Stopping(l)
    BY <1>3, <1>8 DEF Undoomed, BooksOK
  <2>3. IsInjective(failedLeaves')
    BY <1>1, <1>2, <1>3, <1>8, <2>2, AppendToInjective DEF Undoomed, QueuesOK
  <2>4. BooksOK'
    <3>1. \A m \in Leaves : /\ Asked(m)' <=> Asked(m)
                            /\ Dropped(m)' <=> Dropped(m)
                            /\ Fetching(m)' <=> Fetching(m)
                            /\ Stopping(m)' <=> Stopping(m)
                            /\ Leaving(m)' <=> Leaving(m)
      BY <1>1, <1>3, <1>4 DEF Asked, Dropped, Leaving, Fetching, Stopping, callVars
    <3> QED
      BY <1>1, <1>3, <1>4, <1>7, <1>8, <2>1, <2>2, <3>1 DEF Undoomed, BooksOK, callVars
  <2>5. QueuesOK'
    BY <1>1, <1>8, <2>1, <2>3 DEF Undoomed, QueuesOK, callVars
  <2>6. ControllersOK'
    BY <1>1, <1>8
       DEF Undoomed, ControllersOK, Started, Running, Ended, Stopping, Fetching, leafVars, asicVars
  <2> QED
    BY <2>4, <2>5, <2>6
<1> QED
  BY <1>1, <1>5, <1>6, <1>7, <1>8, MoveKeeps

LEMMA TakesNewKeeps ==
  ASSUME IInv, MgrTakesNew
  PROVE  IInv'
<1> PICK l : l = Head(newLeaves)
  OBVIOUS
<1>1. /\ newLeaves # <<>> /\ newLeaves' = Tail(newLeaves)
      /\ mgr.pc = "loop" /\ mgr' = [pc |-> "fetch", leaf |-> l, place |-> 0]
      /\ UNCHANGED <<up, callVars, spineVars, failedLeaves, ctrls, leafVars, asicVars, scans>>
  BY DEF MgrTakesNew, At
<1>2. /\ TypeOK /\ newLeaves \in Seq(Leaves)
  BY SeqTypes DEF IInv
<1>3. /\ l \in Leaves /\ newLeaves' \in Seq(Leaves)
      /\ \A m : m \in Range(newLeaves) <=> m = l \/ m \in Range(newLeaves')
  BY <1>1, <1>2, TailValue
<1>4. /\ mgr'.pc = "fetch" /\ mgr'.leaf = l
      /\ \A m : ~Stopping(m) /\ ~Stopping(m)' /\ ~Fetching(m) /\ (Fetching(m)' <=> m = l)
  BY <1>1 DEF Stopping, Fetching
<1>5. TypeOK'
  BY SMTT(30), <1>1, <1>2, <1>3 DEF TypeOK, callVars, spineVars, leafVars, asicVars
<1>6. CountsOK'
  BY SMTT(30), <1>1, <1>3, <1>4 DEF IInv, CountsOK, leafVars
<1>7. \A m \in Leaves : Arriving(m)' <=> Arriving(m)
  BY <1>1, <1>3, <1>4 DEF Arriving, spineVars
<1>8. ASSUME Undoomed
      PROVE  BooksOK' /\ QueuesOK' /\ ControllersOK'
  <2>1. /\ IsInjective(newLeaves') /\ l \notin Range(newLeaves')
    BY <1>1, <1>2, <1>8, TailOfInjective DEF Undoomed, QueuesOK
  <2>2. l \notin Range(newEgInt)
    BY <1>3, <1>8 DEF Undoomed, BooksOK
  <2>3. BooksOK'
    <3>1. \A m \in Leaves : /\ Asked(m)' <=> Asked(m)
                            /\ Dropped(m)' <=> Dropped(m)
                            /\ Leaving(m)' <=> Leaving(m)
      BY <1>1, <1>4 DEF Asked, Dropped, Leaving, callVars, spineVars
    <3> QED
      BY <1>1, <1>3, <1>4, <1>7, <1>8, <2>1, <2>2, <3>1 DEF Undoomed, BooksOK, callVars, spineVars
  <2>4. QueuesOK'
    BY <1>1, <1>8, <2>1 DEF Undoomed, QueuesOK, callVars, spineVars
  <2>5. ControllersOK'
    BY <1>1, <1>3, <1>4, <1>8
       DEF Undoomed, ControllersOK, Started, Running, Ended, leafVars, asicVars, spineVars
  <2> QED
    BY <2>3, <2>4, <2>5
<1> QED
  BY <1>1, <1>5, <1>6, <1>7, <1>8, MoveKeeps DEF spineVars

LEMMA RemovedLeafIdxValue ==
  ASSUME ctrls \in Seq(Leaves), NEW l
  PROVE  /\ RemovedLeafIdx(l) \in Nat
         /\ RemovedLeafIdx(l) > 0 <=> l \in Range(ctrls)
         /\ l \in Range(ctrls) => /\ RemovedLeafIdx(l) \in 1 .. Len(ctrls)
                                 /\ ctrls[RemovedLeafIdx(l)] = l
<1>1. /\ LastPlace(ctrls, l) \in 0 .. Len(ctrls)
      /\ LastPlace(ctrls, l) = 0 <=> \A i \in 1 .. Len(ctrls) : ctrls[i] # l
      /\ LastPlace(ctrls, l) # 0 => ctrls[LastPlace(ctrls, l)] = l
  BY LastPlaceValue
<1>2. l \in Range(ctrls) <=> \E i \in 1 .. Len(ctrls) : ctrls[i] = l
  BY RangeValue
<1>3. RemovedLeafIdx(l) = LastPlace(ctrls, l)
  BY DEF RemovedLeafIdx, LastPlace
<1> QED
  BY <1>1, <1>2, <1>3

LEMMA TakesFailedKeeps ==
  ASSUME IInv, MgrTakesFailed
  PROVE  IInv'
<1> PICK l : l = Head(failedLeaves)
  OBVIOUS
<1>1. /\ failedLeaves # <<>> /\ failedLeaves' = Tail(failedLeaves) /\ mgr.pc = "loop"
      /\ IF HasController(l) THEN mgr' = [pc |-> "stopBus", leaf |-> l, place |-> RemovedLeafIdx(l)]
         ELSE mgr' = mgr
      /\ UNCHANGED <<up, callVars, spineVars, newLeaves, ctrls, leafVars, asicVars, scans>>
  BY DEF MgrTakesFailed, At
<1>2. /\ TypeOK /\ failedLeaves \in Seq(Leaves) /\ ctrls \in Seq(Leaves)
  BY SeqTypes DEF IInv
<1>3. /\ l \in Leaves /\ failedLeaves' \in Seq(Leaves)
      /\ \A m : m \in Range(failedLeaves) <=> m = l \/ m \in Range(failedLeaves')
  BY <1>1, <1>2, TailValue
<1>4. HasController(l) <=> l \in Range(ctrls)
  BY <1>2, RemovedLeafIdxValue DEF HasController
<1>5. /\ \A m : ~Stopping(m) /\ ~Fetching(m) /\ ~Fetching(m)'
      /\ \A m : Stopping(m)' <=> m = l /\ l \in Range(ctrls)
      /\ mgr'.pc \in {"loop", "stopBus"} /\ (mgr'.pc # "loop" => mgr'.leaf \in Leaves)
  BY <1>1, <1>3, <1>4 DEF Stopping, Fetching
<1>6. TypeOK'
  <2>1. mgr \in MgrType
    BY <1>2 DEF TypeOK, MgrType
  <2>2. mgr' \in MgrType
    <3>1. PICK place \in Nat : place = RemovedLeafIdx(l)
      BY <1>2, RemovedLeafIdxValue
    <3> QED
      BY <1>1, <1>3, <2>1, <3>1 DEF MgrType
  <2>3. UNCHANGED <<up, callVars, spineVars, newLeaves, ctrls, leafVars, asicVars, scans>>
    BY <1>1
  <2> QED
    BY SMTT(30), <1>2, <1>3, <2>2, <2>3 DEF TypeOK, MgrType, callVars, spineVars, leafVars, asicVars
<1>7. CountsOK'
  BY SMTT(30), <1>1, <1>3, <1>5 DEF IInv, CountsOK, leafVars
<1>8. \A m \in Leaves : Arriving(m)' <=> Arriving(m)
  BY <1>1, <1>5 DEF Arriving, spineVars
<1>9. ASSUME Undoomed
      PROVE  BooksOK' /\ QueuesOK' /\ ControllersOK'
  <2>1. /\ IsInjective(failedLeaves') /\ l \notin Range(failedLeaves')
    BY <1>1, <1>2, <1>9, TailOfInjective DEF Undoomed, QueuesOK
  <2>2. l \notin Range(failedEgInt) /\ l \in Range(ctrls)
    BY <1>3, <1>9 DEF Undoomed, BooksOK, Leaving
  <2>3. BooksOK'
    <3>1. \A m \in Leaves : /\ Asked(m)' <=> Asked(m)
                            /\ Dropped(m)' <=> Dropped(m)
                            /\ Leaving(m)' <=> Leaving(m)
      BY <1>1, <1>3, <1>5, <2>2 DEF Asked, Dropped, Leaving, callVars, spineVars
    <3> QED
      BY <1>1, <1>3, <1>5, <1>8, <1>9, <2>1, <2>2, <3>1 DEF Undoomed, BooksOK, callVars, spineVars
  <2>4. QueuesOK'
    BY <1>1, <1>9, <2>1 DEF Undoomed, QueuesOK, callVars, spineVars
  <2>5. ControllersOK'
    BY <1>1, <1>3, <1>5, <1>9, <2>2
       DEF Undoomed, ControllersOK, Started, Running, Ended, leafVars, asicVars, spineVars
  <2> QED
    BY <2>3, <2>4, <2>5
<1> QED
  BY <1>1, <1>6, <1>7, <1>8, <1>9, MoveKeeps DEF spineVars

-----------------------------------------------------------------------------
(* A controller comes and goes.                                            *)

LEMMA PlaceInRange ==
  ASSUME NEW seq \in Seq(Leaves), NEW l \in Range(seq)
  PROVE  PlaceIn(seq, l) \in 1 .. Len(seq) /\ seq[PlaceIn(seq, l)] = l
<1>1. /\ FirstPlace(seq, l) \in 0 .. Len(seq)
      /\ FirstPlace(seq, l) = 0 <=> \A i \in 1 .. Len(seq) : seq[i] # l
      /\ FirstPlace(seq, l) # 0 => seq[FirstPlace(seq, l)] = l
  BY FirstPlaceValue
<1>2. \E i \in 1 .. Len(seq) : seq[i] = l
  BY RangeValue
<1>3. FirstPlace(seq, l) \in 1 .. Len(seq) /\ seq[FirstPlace(seq, l)] = l
  BY <1>1, <1>2
<1> QED
  BY <1>3, PlaceIsFirst

\* the index that a leaf gets from the central controller
LEMMA CentralIndex ==
  ASSUME TypeOK, ListsOK, NEW l \in Range(central)
  PROVE  PlaceIn(central, l) - 1 \in Indexes
<1>1. PlaceIn(central, l) \in 1 .. Len(central)
  BY SeqTypes, PlaceInRange
<1>2. /\ Len(central) \in Nat /\ Len(Configured) \in Nat
      /\ Len(central) <= Len(Configured) + calls /\ calls \in 0 .. MaxCalls /\ MaxCalls \in Nat
  BY SMTT(30), SeqTypes, ConfiguredAssumption, BoundsAssumption DEF TypeOK, ListsOK
<1> QED
  BY <1>1, <1>2 DEF Indexes

LEMMA FetchesKeeps ==
  ASSUME IInv, MgrFetches, ~Panic
  PROVE  IInv'
<1> PICK l : l = mgr.leaf
  OBVIOUS
<1>1. /\ mgr.pc = "fetch" /\ l \in Range(central)
      /\ index' = [index EXCEPT ![l] = PlaceIn(central, l) - 1]
      /\ ctrls' = Append(ctrls, l) /\ ingress' = ingress \cup {l} /\ closed' = closed \ {l}
      /\ bus' = [bus EXCEPT ![l] = "none"] /\ health' = [health EXCEPT ![l] = "none"]
      /\ mgr' = [pc |-> "loop", leaf |-> Nobody, place |-> 0]
      /\ UNCHANGED <<up, spineVars, newLeaves, failedLeaves, listening, jobs, reader, callVars, scans>>
  BY DEF MgrFetches, At, Loop
<1>2. /\ TypeOK /\ ListsOK /\ CountsOK /\ ctrls \in Seq(Leaves) /\ l \in Leaves
      /\ index \in [Leaves -> Indexes] /\ closed \subseteq Leaves /\ ingress \subseteq Leaves
      /\ bus \in [Leaves -> {"none", "on", "told", "off"}]
      /\ health \in [Leaves -> {"none", "waits", "scans", "off"}]
  BY <1>1, SeqTypes DEF IInv, TypeOK, CountsOK
<1>3. PlaceIn(central, l) - 1 \in Indexes
  BY <1>1, <1>2, CentralIndex
<1>4. /\ ctrls' \in Seq(Leaves)
      /\ \A m : m \in Range(ctrls') <=> m \in Range(ctrls) \/ m = l
  BY <1>1, <1>2, AppendValue
<1>5. /\ mgr'.pc = "loop" /\ mgr' \in MgrType
      /\ \A m : ~Stopping(m) /\ ~Stopping(m)' /\ ~Fetching(m)' /\ (Fetching(m) <=> m = l)
  BY <1>1 DEF Stopping, Fetching, MgrType
<1>6. /\ index' \in [Leaves -> Indexes] /\ index'[l] = PlaceIn(central, l) - 1
      /\ \A m \in Leaves : m # l => index'[m] = index[m]
      /\ bus' \in [Leaves -> {"none", "on", "told", "off"}] /\ bus'[l] = "none"
      /\ health' \in [Leaves -> {"none", "waits", "scans", "off"}] /\ health'[l] = "none"
      /\ \A m \in Leaves : m # l => bus'[m] = bus[m] /\ health'[m] = health[m]
      /\ closed' \subseteq Leaves /\ ingress' \subseteq Leaves
  BY <1>1, <1>2, <1>3
<1>7. TypeOK'
  BY SMTT(30), <1>1, <1>2, <1>4, <1>5, <1>6 DEF TypeOK, MgrType, spineVars, callVars
<1>8. ListsOK'
  BY <1>1, <1>2 DEF ListsOK, Asked, spineVars, callVars
<1>9. CountsOK'
  <2>1. ASSUME NEW m \in Leaves
        PROVE  jobs'[m] + (IF health'[m] = "scans" THEN 1 ELSE 0) <= scans'
    <3>1. jobs[m] + (IF health[m] = "scans" THEN 1 ELSE 0) <= scans /\ jobs[m] \in Nat /\ scans \in Nat
      BY <1>2 DEF CountsOK, TypeOK
    <3> QED
      BY <1>1, <1>6, <3>1
  <2> QED
    BY <1>5, <2>1 DEF CountsOK
<1>10. Doomed => Doomed'
  BY <1>1, <1>5 DEF Doomed, Asked, Arriving, spineVars, callVars
<1>11. ASSUME Undoomed
       PROVE  Undoomed'
  <2>1. l \notin Range(ctrls) /\ l \notin Range(newEgInt) /\ l \notin Range(newLeaves) /\ ~Asked(l)
        /\ ~Dropped(l) /\ ~Leaving(l)
    BY <1>1, <1>2, <1>5, <1>11 DEF Undoomed, BooksOK, Arriving
  <2>2. IsInjective(ctrls')
    BY <1>1, <1>2, <1>11, <2>1, AppendToInjective DEF Undoomed, QueuesOK
  <2>3. BooksOK'
    <3>1. \A m \in Leaves : /\ Asked(m)' <=> Asked(m)
                            /\ Dropped(m)' <=> Dropped(m)
                            /\ Leaving(m)' <=> Leaving(m)
                            /\ Arriving(m)' <=> Arriving(m) /\ m # l
      BY <1>1, <1>5, <2>1 DEF Asked, Dropped, Leaving, Arriving, callVars, spineVars
    <3> QED
      BY <1>1, <1>4, <1>5, <1>11, <2>1, <3>1 DEF Undoomed, BooksOK, callVars, spineVars
  <2>4. QueuesOK'
    BY <1>1, <1>11, <2>2 DEF Undoomed, QueuesOK, callVars, spineVars
  <2>5. ControllersOK'
    <3>1. ASSUME NEW m \in Leaves, m # l
          PROVE  /\ Ended(m)' <=> Ended(m)
                 /\ Started(m)' <=> Started(m)
      BY <1>1, <1>6, <3>1 DEF Ended, Started, Running
    <3>2. Ended(l) /\ l \in pools
      BY <1>2, <1>5, <1>11, <2>1 DEF Undoomed, ControllersOK
    <3>3. Started(l)'
      BY <1>6 DEF Started
    <3> QED
      BY <1>1, <1>4, <1>5, <1>11, <3>1, <3>2, <3>3 DEF Undoomed, ControllersOK, spineVars
  <2>6. OrdersOK'
    BY <1>1, <1>11 DEF Undoomed, OrdersOK, Ahead, callVars, spineVars
  <2>7. IndexesOK'
    <3>1. Range(ctrls) \subseteq Leaves
      BY <1>2, InRange
    <3> QED
      BY <1>1, <1>4, <1>6, <1>11, <3>1
         DEF Undoomed, IndexesOK, IndexComes, ToUpdate, callVars, spineVars
  <2> QED
    BY <2>3, <2>4, <2>5, <2>6, <2>7 DEF Undoomed
<1> QED
  BY <1>7, <1>8, <1>9, <1>10, <1>11 DEF IInv

LEMMA RemovesKeeps ==
  ASSUME IInv, SavedPlace, MgrRemoves
  PROVE  IInv'
<1> PICK l : l = mgr.leaf
  OBVIOUS
<1>1. /\ mgr.pc = "remove"
      /\ ctrls' = RemoveAt(ctrls, mgr.place) /\ ingress' = ingress \ {l}
      /\ mgr' = [pc |-> "loop", leaf |-> Nobody, place |-> 0]
      /\ UNCHANGED <<up, spineVars, newLeaves, failedLeaves, leafVars, reader, callVars, scans>>
  BY DEF MgrRemoves, CtrlsWithout, At, Loop
<1>2. /\ TypeOK /\ ListsOK /\ CountsOK /\ ctrls \in Seq(Leaves) /\ ingress \subseteq Leaves
  BY SeqTypes DEF IInv, TypeOK
<1>3. /\ mgr'.pc = "loop" /\ mgr' \in MgrType
      /\ \A m : ~Stopping(m)' /\ ~Fetching(m) /\ ~Fetching(m)' /\ (Stopping(m) <=> m = l)
  BY <1>1 DEF Stopping, Fetching, MgrType
<1>4. l \in Leaves /\ l \in Range(ctrls)
  BY <1>1, <1>2, <1>3 DEF CountsOK
<1>5. mgr.place \in 1 .. Len(ctrls) /\ ctrls[mgr.place] = l
  BY <1>1 DEF SavedPlace
<1>6. ctrls' \in Seq(Leaves)
  BY <1>1, <1>2, <1>5, RemoveAtValue
<1>7. TypeOK'
  BY SMTT(30), <1>1, <1>2, <1>3, <1>6 DEF TypeOK, MgrType, spineVars, callVars, leafVars
<1>8. ListsOK'
  BY <1>1, <1>2 DEF ListsOK, Asked, spineVars, callVars
<1>9. CountsOK'
  BY <1>1, <1>2, <1>3 DEF CountsOK, leafVars
<1>10. Doomed => Doomed'
  BY <1>1, <1>3 DEF Doomed, Asked, Arriving, spineVars, callVars
<1>11. ASSUME Undoomed
       PROVE  Undoomed'
  <2>1. /\ IsInjective(ctrls')
        /\ \A m : m \in Range(ctrls') <=> m \in Range(ctrls) /\ m # l
    BY <1>1, <1>2, <1>5, <1>11, RemoveFromInjective DEF Undoomed, QueuesOK
  <2>2. /\ l \notin Range(failedEgInt) /\ l \notin Range(failedLeaves) /\ ~Dropped(l) /\ Leaving(l)
        /\ l \notin Range(central)
    BY <1>3, <1>4, <1>11 DEF Undoomed, BooksOK, Leaving
  <2>3. BooksOK'
    <3>1. \A m \in Leaves : /\ Asked(m)' <=> Asked(m)
                            /\ Dropped(m)' <=> Dropped(m)
                            /\ Leaving(m)' <=> Leaving(m) /\ m # l
                            /\ Arriving(m)' <=> Arriving(m)
      BY <1>1, <1>3, <2>2 DEF Asked, Dropped, Leaving, Arriving, callVars, spineVars
    <3> QED
      BY <1>1, <1>3, <1>11, <2>1, <2>2, <3>1 DEF Undoomed, BooksOK, callVars, spineVars
  <2>4. QueuesOK'
    BY <1>1, <1>11, <2>1 DEF Undoomed, QueuesOK, callVars, spineVars
  <2>5. ControllersOK'
    <3>1. \A m \in Leaves : (Ended(m)' <=> Ended(m)) /\ (Started(m)' <=> Started(m))
      BY <1>1 DEF Ended, Started, Running, leafVars
    <3>2. Ended(l)
      BY <1>1, <1>3, <1>4, <1>11 DEF Undoomed, ControllersOK
    <3> QED
      BY <1>1, <1>3, <1>11, <2>1, <3>1, <3>2 DEF Undoomed, ControllersOK, spineVars, leafVars
  <2>6. OrdersOK'
    BY <1>1, <1>11 DEF Undoomed, OrdersOK, Ahead, callVars, spineVars
  <2>7. IndexesOK'
    BY <1>1, <1>11, <2>1
         DEF Undoomed, IndexesOK, IndexComes, ToUpdate, callVars, spineVars, leafVars
  <2> QED
    BY <2>3, <2>4, <2>5, <2>6, <2>7 DEF Undoomed
<1> QED
  BY <1>7, <1>8, <1>9, <1>10, <1>11 DEF IInv

-----------------------------------------------------------------------------
(* Updates of indexes.                                                     *)

LEMMA TreeIndex ==
  ASSUME TypeOK, ListsOK, NEW l \in Range(tree)
  PROVE  spineIndex[l] = PlaceIn(tree, l) - 1 /\ PlaceIn(tree, l) \in 1 .. Len(tree)
BY SeqTypes, PlaceInRange DEF ListsOK

(* A leaf has its place in both lists, unless the spine has yet to hear    *)
(* that one before it failed.                                              *)
LEMMA PlacesAgree ==
  ASSUME TypeOK, ListsOK, BooksOK, OrdersOK, NEW l \in Range(central), l \in Range(tree),
         \A m \in Range(failedAtCentral) : ~Before(tree, m, l)
  PROVE  PlaceIn(tree, l) = PlaceIn(central, l)
<1>1. /\ central \in Seq(Leaves) /\ tree \in Seq(Leaves) /\ newAtCentral \in Seq(Leaves)
      /\ IsInjective(central) /\ IsInjective(tree) /\ IsInjective(newAtCentral)
      /\ Range(central) \subseteq Leaves /\ Range(tree) \subseteq Leaves
  BY SeqTypes, InRange DEF ListsOK
<1>2. ~Asked(l)
  BY DEF ListsOK
<1>3. ASSUME NEW m
      PROVE  Before(tree, m, l) <=> Before(central, m, l)
  <2>1. ASSUME Before(tree, m, l)
        PROVE  Before(central, m, l)
    <3>1. m \in Range(tree)
      BY <1>1, <2>1, BeforeIsOrder
    <3>2. m \in Range(central)
      BY <1>1, <2>1, <3>1 DEF BooksOK, Dropped
    <3>3. Ahead(m, l)
      BY <2>1 DEF Ahead
    <3> QED
      BY <3>2, <3>3 DEF OrdersOK
  <2>2. ASSUME Before(central, m, l)
        PROVE  Before(tree, m, l)
    <3>1. m \in Range(central)
      BY <1>1, <2>2, BeforeIsOrder
    <3>2. Ahead(m, l)
      BY <2>2, <3>1 DEF OrdersOK
    <3>3. ~Before(newAtCentral, m, l)
      BY <1>1, <1>2, BeforeIsOrder DEF Asked
    <3> QED
      BY <1>2, <3>2, <3>3 DEF Ahead, Asked
  <2> QED
    BY <2>1, <2>2
<1>4. FirstPlace(tree, l) = FirstPlace(central, l)
  BY <1>1, <1>3, SamePlace
<1> QED
  BY <1>4, PlaceIsFirst

\* steps that change updates and indexes only
LEMMA UpdateKeeps ==
  ASSUME IInv, TypeOK', Undoomed => IndexesOK',
         UNCHANGED <<callVars, tree, spineIndex, newEgInt, failedEgInt, pools, mgrVars,
                     listening, bus, health, closed, jobs, asicVars, scans>>
  PROVE  IInv'
<1> USE DEF callVars, mgrVars, asicVars
<1>1. ListsOK'
  BY DEF IInv, ListsOK, Asked
<1>2. CountsOK'
  BY DEF IInv, CountsOK, Stopping
<1>3. Doomed => Doomed'
  BY DEF Doomed, Asked, Arriving, Fetching
<1>4. BooksOK => BooksOK'
  BY DEF BooksOK, Asked, Arriving, Fetching, Dropped, Leaving, Stopping
<1>5. QueuesOK => QueuesOK'
  BY DEF QueuesOK
<1>6. ControllersOK => ControllersOK'
  BY DEF ControllersOK, Started, Running, Ended, Stopping, Fetching
<1>7. OrdersOK => OrdersOK'
  BY DEF OrdersOK, Ahead
<1> QED
  BY <1>1, <1>2, <1>3, <1>4, <1>5, <1>6, <1>7 DEF IInv, Undoomed

LEMMA TakesUpdatedKeeps ==
  ASSUME IInv, SpineTakesUpdated
  PROVE  IInv'
<1>1. /\ updating = <<>> /\ updatedEgInt # <<>>
      /\ updating' = Head(updatedEgInt) /\ updatedEgInt' = Tail(updatedEgInt)
      /\ UNCHANGED <<up, tree, spineIndex, newEgInt, failedEgInt, pools, mgrVars, leafVars, asicVars, callVars, scans>>
  BY DEF SpineTakesUpdated
<1>2. TypeOK /\ updatedEgInt \in Seq(Seq(Leaves)) /\ updating \in Seq(Leaves)
  BY SeqTypes DEF IInv
<1>3. /\ updating' \in Seq(Leaves) /\ updatedEgInt' \in Seq(Seq(Leaves))
      /\ \A seq : seq \in Range(updatedEgInt) <=> seq = updating' \/ seq \in Range(updatedEgInt')
  BY <1>1, <1>2, TailValue
<1>4. TypeOK'
  <2>1. \A seq \in {central, newAtCentral, failedAtCentral, tree, newEgInt, failedEgInt, updating,
                    newLeaves, failedLeaves, ctrls}' : seq \in Seq(Leaves)
    <3>1. \A seq \in {central, newAtCentral, failedAtCentral, tree, newEgInt, failedEgInt,
                      newLeaves, failedLeaves, ctrls}' : seq \in Seq(Leaves)
      BY <1>1, <1>2 DEF TypeOK, callVars, mgrVars
    <3> QED
      BY <1>3, <3>1
  <2> QED
    BY SMTT(30), <1>1, <1>2, <1>3, <2>1 DEF TypeOK, mgrVars, leafVars, asicVars, callVars
<1>5. \A l : l \notin Range(updating)
  BY <1>1, EmptyValue
<1>6. \A l : ToUpdate(l)' <=> ToUpdate(l)
  BY <1>3, <1>5 DEF ToUpdate
<1>7. Undoomed => IndexesOK'
  BY <1>1, <1>6 DEF Undoomed, IndexesOK, IndexComes, mgrVars, leafVars, callVars
<1> QED
  BY <1>1, <1>4, <1>7, UpdateKeeps DEF leafVars

LEMMA UpdatesLeafKeeps ==
  ASSUME IInv, SpineUpdatesLeaf
  PROVE  IInv'
<1> PICK l : l = Head(updating)
  OBVIOUS
<1>1. /\ updating # <<>> /\ updating' = Tail(updating)
      /\ index' = IF l \in pools \cap listening THEN [index EXCEPT ![l] = spineIndex[l]] ELSE index
      /\ UNCHANGED <<up, tree, spineIndex, newEgInt, failedEgInt, updatedEgInt, pools,
                     listening, bus, health, closed, jobs, mgrVars, asicVars, callVars, scans>>
  BY DEF SpineUpdatesLeaf
<1>2. /\ TypeOK /\ ListsOK /\ updating \in Seq(Leaves) /\ index \in [Leaves -> Indexes]
      /\ spineIndex \in [Leaves -> Indexes]
  BY SeqTypes DEF IInv, TypeOK
<1>3. /\ l \in Leaves /\ updating' \in Seq(Leaves)
      /\ \A m : m \in Range(updating) <=> m = l \/ m \in Range(updating')
  BY <1>1, <1>2, TailValue
<1>4. index' \in [Leaves -> Indexes] /\ \A m \in Leaves : m # l => index'[m] = index[m]
  BY <1>1, <1>2, <1>3
<1>5. TypeOK'
  <2>1. UNCHANGED <<up, tree, spineIndex, newEgInt, failedEgInt, updatedEgInt, pools,
                    listening, bus, health, closed, jobs, mgrVars, asicVars, callVars, scans>>
    BY <1>1
  <2>2. TypeOK /\ updating' \in Seq(Leaves) /\ index' \in [Leaves -> Indexes]
    BY <1>2, <1>3, <1>4
  <2> QED
    BY SMTT(30), <2>1, <2>2 DEF TypeOK, mgrVars, asicVars, callVars
<1>6. ASSUME Undoomed, NEW m \in Range(central)', m \in Range(ctrls)'
      PROVE  index'[m] = PlaceIn(central, m)' - 1 \/ IndexComes(m)'
  <2>1. /\ m \in Range(central) /\ m \in Range(ctrls) /\ m \in Leaves
        /\ central' = central /\ PlaceIn(central, m)' = PlaceIn(central, m)
    BY <1>1, <1>2, <1>6, SeqTypes, InRange DEF callVars, mgrVars
  <2>2. index[m] = PlaceIn(central, m) - 1 \/ IndexComes(m)
    BY <1>6, <2>1 DEF Undoomed, IndexesOK
  <2>3. CASE m # l
    BY <1>1, <1>3, <1>4, <2>1, <2>2, <2>3 DEF IndexComes, ToUpdate, callVars
  <2>4. CASE m = l /\ l \notin pools \cap listening
    <3>1. index' = index /\ ~IndexComes(m)
      BY <1>1, <2>4 DEF IndexComes
    <3> QED
      BY <2>1, <2>2, <3>1
  <2>5. CASE m = l /\ l \in pools \cap listening
    <3>1. m \in Range(tree)
      BY <1>6, <2>1 DEF Undoomed, BooksOK
    <3>2. index'[m] = PlaceIn(tree, m) - 1
      BY <1>1, <1>2, <1>3, <2>5, <3>1, TreeIndex
    <3>3. CASE \E n \in Range(failedAtCentral) : Before(tree, n, m)
      BY <1>1, <2>5, <3>3 DEF IndexComes, callVars
    <3>4. CASE \A n \in Range(failedAtCentral) : ~Before(tree, n, m)
      BY <1>2, <1>6, <2>1, <3>1, <3>2, <3>4, PlacesAgree DEF Undoomed
    <3> QED
      BY <3>3, <3>4
  <2> QED
    BY <2>3, <2>4, <2>5
<1>7. Undoomed => IndexesOK'
  BY <1>6 DEF IndexesOK
<1> QED
  BY <1>1, <1>5, <1>7, UpdateKeeps

-----------------------------------------------------------------------------
(* The client's calls.                                                     *)

LEMMA ForgottenValue ==
  ASSUME NEW l \in Leaves, Forgotten(l)
  PROVE  /\ l \notin Range(central) /\ l \notin Range(tree) /\ l \notin Range(ctrls)
         /\ l \notin Range(newAtCentral) /\ l \notin Range(failedAtCentral)
         /\ l \notin Range(newEgInt) /\ l \notin Range(failedEgInt)
         /\ l \notin Range(newLeaves) /\ l \notin Range(failedLeaves)
         /\ mgr.leaf # l
BY DEF Forgotten, Messages

\* the types of the lists, and what the steps on them leave alone
LEMMA ListTypes ==
  ASSUME TypeOK, calls' \in 0 .. MaxCalls, up' = up,
         central' \in Seq(Leaves), newAtCentral' \in Seq(Leaves), failedAtCentral' \in Seq(Leaves),
         tree' \in Seq(Leaves), newEgInt' \in Seq(Leaves), failedEgInt' \in Seq(Leaves),
         updatedEgInt' \in Seq(Seq(Leaves)), spineIndex' \in [Leaves -> Indexes],
         UNCHANGED <<updating, pools, mgrVars, leafVars, asicVars, scans>>
  PROVE  TypeOK'
BY DEF TypeOK, mgrVars, leafVars, asicVars

LEMMA ListsKeepControllers ==
  ASSUME UNCHANGED <<pools, mgrVars, leafVars, asicVars, scans>>
  PROVE  /\ CountsOK => CountsOK'
         /\ ControllersOK => ControllersOK'
         /\ \A l : (Stopping(l)' <=> Stopping(l)) /\ (Fetching(l)' <=> Fetching(l))
<1> USE DEF mgrVars, leafVars, asicVars
<1>1. CountsOK => CountsOK'
  BY DEF CountsOK, Stopping
<1>2. ControllersOK => ControllersOK'
  BY DEF ControllersOK, Started, Running, Ended, Stopping, Fetching
<1> QED
  BY <1>1, <1>2 DEF Stopping, Fetching

LEMMA AddLeafKeeps ==
  ASSUME IInv, NEW l \in Leaves, CallAddLeaf(l)
  PROVE  IInv'
<1>1. /\ central' = Append(central, l) /\ newAtCentral' = Append(newAtCentral, l)
      /\ calls' = calls + 1 /\ calls < MaxCalls /\ Forgotten(l)
      /\ UNCHANGED <<up, failedAtCentral, spineVars, mgrVars, leafVars, asicVars, scans>>
  BY DEF CallAddLeaf
<1>2. /\ TypeOK /\ ListsOK /\ CountsOK
      /\ central \in Seq(Leaves) /\ newAtCentral \in Seq(Leaves) /\ tree \in Seq(Leaves)
      /\ IsInjective(central) /\ IsInjective(newAtCentral) /\ IsInjective(tree)
      /\ Range(central) \subseteq Leaves /\ Range(ctrls) \subseteq Leaves
      /\ Len(Configured) \in Nat /\ Len(tree) \in Nat
      /\ calls \in 0 .. MaxCalls /\ MaxCalls \in Nat
  BY SMTT(30), SeqTypes, InRange, ConfiguredAssumption, BoundsAssumption DEF IInv, ListsOK, TypeOK
<1>3. /\ l \notin Range(central) /\ l \notin Range(tree) /\ l \notin Range(ctrls)
      /\ l \notin Range(newAtCentral) /\ l \notin Range(failedAtCentral)
      /\ l \notin Range(newEgInt) /\ l \notin Range(failedEgInt)
      /\ l \notin Range(newLeaves) /\ l \notin Range(failedLeaves)
      /\ mgr.leaf # l
  BY <1>1, ForgottenValue
<1>4. /\ central' \in Seq(Leaves) /\ Len(central') = Len(central) + 1 /\ Len(central) \in Nat
      /\ \A i \in 1 .. Len(central) : central'[i] = central[i]
      /\ \A m : m \in Range(central') <=> m \in Range(central) \/ m = l
  BY <1>1, <1>2, AppendValue
<1>5. /\ newAtCentral' \in Seq(Leaves) /\ Len(newAtCentral') = Len(newAtCentral) + 1
      /\ Len(newAtCentral) \in Nat
      /\ \A m : m \in Range(newAtCentral') <=> m \in Range(newAtCentral) \/ m = l
  BY <1>1, <1>2, AppendValue
<1>6. /\ IsInjective(central')
      /\ \A m, n : Before(central', m, n) <=> Before(central, m, n) \/ (m \in Range(central) /\ n = l)
  BY <1>1, <1>2, <1>3, AppendToInjective
<1>7. /\ IsInjective(newAtCentral')
      /\ \A m, n : Before(newAtCentral', m, n) <=>
                     Before(newAtCentral, m, n) \/ (m \in Range(newAtCentral) /\ n = l)
  BY <1>1, <1>2, <1>3, AppendToInjective
<1>8. TypeOK'
  <2>1. calls' \in 0 .. MaxCalls
    BY <1>1, <1>2
  <2>2. /\ failedAtCentral' \in Seq(Leaves) /\ tree' \in Seq(Leaves) /\ newEgInt' \in Seq(Leaves)
        /\ failedEgInt' \in Seq(Leaves) /\ updatedEgInt' \in Seq(Seq(Leaves))
        /\ spineIndex' \in [Leaves -> Indexes]
    BY <1>1, <1>2, SeqTypes DEF spineVars, TypeOK
  <2> QED
    BY <1>1, <1>2, <1>4, <1>5, <2>1, <2>2, ListTypes DEF spineVars
<1>9. ListsOK'
  <2>1. \A m \in Range(tree) : ~Asked(m)'
    BY <1>2, <1>3, <1>5 DEF ListsOK, Asked
  <2>2. /\ Len(central') <= Len(Configured) + calls'
        /\ Len(tree) + Len(newAtCentral') <= Len(Configured) + calls'
    BY <1>1, <1>2, <1>4, <1>5 DEF ListsOK
  <2> QED
    BY <1>1, <1>2, <1>6, <1>7, <2>1, <2>2 DEF ListsOK, spineVars
<1>10. /\ CountsOK' /\ (ControllersOK => ControllersOK')
       /\ \A m : (Stopping(m)' <=> Stopping(m)) /\ (Fetching(m)' <=> Fetching(m))
  BY <1>1, <1>2, ListsKeepControllers DEF spineVars
<1>11. \A m \in Leaves : /\ Asked(m)' <=> Asked(m) \/ m = l
                         /\ Dropped(m)' <=> Dropped(m)
                         /\ Leaving(m)' <=> Leaving(m)
                         /\ Arriving(m)' <=> Arriving(m)
  BY <1>1, <1>5, <1>10 DEF Asked, Dropped, Leaving, Arriving, spineVars, mgrVars
<1>12. ~Asked(l) /\ ~Arriving(l) /\ ~Dropped(l) /\ ~Leaving(l)
  BY <1>3 DEF Asked, Arriving, Dropped, Leaving, Stopping, Fetching
<1>13. Doomed => Doomed'
  BY <1>4, <1>11, <1>12 DEF Doomed
<1>14. ASSUME Undoomed
       PROVE  Undoomed'
  <2>1. BooksOK'
    BY <1>1, <1>3, <1>4, <1>10, <1>11, <1>12, <1>14 DEF Undoomed, BooksOK, spineVars, mgrVars
  <2>2. QueuesOK'
    BY <1>1, <1>14 DEF Undoomed, QueuesOK, spineVars, mgrVars
  <2>3. OrdersOK'
    <3>1. \A m, n : Before(tree, m, n) => m \in Range(tree) /\ n \in Range(tree)
      BY <1>2, BeforeIsOrder
    <3>2. \A m, n : Before(newAtCentral, m, n) => m \in Range(newAtCentral) /\ n \in Range(newAtCentral)
      BY <1>2, BeforeIsOrder
    <3>3. \A m, n : Before(central, m, n) => m \in Range(central) /\ n \in Range(central)
      BY <1>2, BeforeIsOrder
    <3>4. \A m, n : Ahead(m, n)' <=> \/ Ahead(m, n)
                                     \/ (m \in Range(tree) \/ m \in Range(newAtCentral)) /\ n = l
      BY <1>1, <1>5, <1>7 DEF Ahead, spineVars
    <3>5. \A m \in Range(central) : m \in Range(tree) \/ m \in Range(newAtCentral)
      BY <1>2, <1>14 DEF Undoomed, BooksOK, Asked
    <3>6. \A m, n \in Range(central) : Before(central, m, n) <=> Ahead(m, n)
      BY <1>14 DEF Undoomed, OrdersOK
    <3>7. \A m : ~Ahead(l, m) /\ ~Ahead(m, l)
      BY <1>3, <3>1, <3>2 DEF Ahead
    <3>8. ASSUME NEW m \in Range(central'), NEW n \in Range(central')
          PROVE  Before(central', m, n) <=> Ahead(m, n)'
      BY <1>3, <1>4, <1>6, <3>3, <3>4, <3>5, <3>6, <3>7
    <3> QED
      BY <3>8 DEF OrdersOK
  <2>4. IndexesOK'
    <3>1. ASSUME NEW m \in Range(central)
          PROVE  PlaceIn(central', m) = PlaceIn(central, m)
      <4>1. PICK i \in 1 .. Len(central) : central[i] = m
        BY <1>2, RangeValue
      <4>2. i \in 1 .. Len(central') /\ central'[i] = m
        BY <1>4, <4>1
      <4>3. FirstPlace(central, m) = i
        BY <1>2, <4>1, PlaceInInjective
      <4>4. FirstPlace(central', m) = i
        BY <1>4, <1>6, <4>2, PlaceInInjective
      <4> QED
        BY <4>3, <4>4, PlaceIsFirst
    <3>2. ASSUME NEW m \in Range(central'), m \in Range(ctrls')
          PROVE  m \in Range(central) /\ m \in Range(ctrls)
      BY <1>1, <1>3, <1>4, <3>2 DEF mgrVars
    <3>3. \A m : IndexComes(m) => IndexComes(m)'
      BY <1>1 DEF IndexComes, ToUpdate, spineVars, leafVars
    <3> QED
      BY <1>1, <1>14, <3>1, <3>2, <3>3 DEF Undoomed, IndexesOK, leafVars
  <2> QED
    BY <1>10, <1>14, <2>1, <2>2, <2>3, <2>4 DEF Undoomed
<1> QED
  BY <1>8, <1>9, <1>10, <1>13, <1>14 DEF IInv

LEMMA FailLeafKeeps ==
  ASSUME IInv, NEW l \in Leaves, CallFailLeaf(l)
  PROVE  IInv'
<1>1. /\ central' = RemoveAt(central, PlaceIn(central, l))
      /\ failedAtCentral' = Append(failedAtCentral, l)
      /\ calls' = calls + 1 /\ calls < MaxCalls
      /\ l \in Range(central) /\ Range(central) \ {l} \subseteq listening
      /\ UNCHANGED <<up, newAtCentral, spineVars, mgrVars, leafVars, asicVars, scans>>
  BY DEF CallFailLeaf, Without
<1>2. /\ TypeOK /\ ListsOK /\ CountsOK
      /\ central \in Seq(Leaves) /\ newAtCentral \in Seq(Leaves) /\ tree \in Seq(Leaves)
      /\ failedAtCentral \in Seq(Leaves)
      /\ IsInjective(central) /\ IsInjective(newAtCentral) /\ IsInjective(tree)
      /\ Range(central) \subseteq Leaves /\ Range(ctrls) \subseteq Leaves
      /\ Len(Configured) \in Nat /\ Len(central) \in Nat
      /\ calls \in 0 .. MaxCalls /\ MaxCalls \in Nat
  BY SMTT(30), SeqTypes, InRange, ConfiguredAssumption, BoundsAssumption DEF IInv, ListsOK, TypeOK
<1>3. PlaceIn(central, l) \in 1 .. Len(central) /\ central[PlaceIn(central, l)] = l
  BY <1>1, <1>2, PlaceInRange
<1>4. central' \in Seq(Leaves) /\ Len(central') = Len(central) - 1
  BY <1>1, <1>2, <1>3, RemoveAtValue
<1>5. /\ IsInjective(central')
      /\ \A m : m \in Range(central') <=> m \in Range(central) /\ m # l
      /\ \A m, n : Before(central', m, n) <=> Before(central, m, n) /\ m # l /\ n # l
  BY <1>1, <1>2, <1>3, RemoveFromInjective
<1>6. /\ failedAtCentral' \in Seq(Leaves)
      /\ \A m : m \in Range(failedAtCentral') <=> m \in Range(failedAtCentral) \/ m = l
  BY <1>1, <1>2, AppendValue
<1>7. TypeOK'
  <2>1. calls' \in 0 .. MaxCalls
    BY <1>1, <1>2
  <2>2. /\ newAtCentral' \in Seq(Leaves) /\ tree' \in Seq(Leaves) /\ newEgInt' \in Seq(Leaves)
        /\ failedEgInt' \in Seq(Leaves) /\ updatedEgInt' \in Seq(Seq(Leaves))
        /\ spineIndex' \in [Leaves -> Indexes]
    BY <1>1, <1>2, SeqTypes DEF spineVars, TypeOK
  <2> QED
    BY <1>1, <1>2, <1>4, <1>6, <2>1, <2>2, ListTypes DEF spineVars
<1>8. ListsOK'
  <2>1. /\ Len(central') <= Len(Configured) + calls'
        /\ Len(tree) + Len(newAtCentral) <= Len(Configured) + calls'
    <3>1. Len(tree) \in Nat /\ Len(newAtCentral) \in Nat
      BY <1>2
    <3> QED
      BY <1>1, <1>2, <1>4, <3>1 DEF ListsOK
  <2> QED
    BY <1>1, <1>2, <1>5, <2>1 DEF ListsOK, spineVars, Asked
<1>9. /\ CountsOK' /\ (ControllersOK => ControllersOK')
      /\ \A m : (Stopping(m)' <=> Stopping(m)) /\ (Fetching(m)' <=> Fetching(m))
  BY <1>1, <1>2, ListsKeepControllers DEF spineVars
<1>10. \A m \in Leaves : /\ Asked(m)' <=> Asked(m)
                         /\ Dropped(m)' <=> Dropped(m) \/ m = l
                         /\ Leaving(m)' <=> Leaving(m)
                         /\ Arriving(m)' <=> Arriving(m)
  BY <1>1, <1>6, <1>9 DEF Asked, Dropped, Leaving, Arriving, spineVars, mgrVars
<1>11. Doomed => Doomed'
  BY <1>5, <1>10 DEF Doomed
<1>12. CASE Asked(l) \/ Arriving(l)
  <2>1. Doomed'
    BY <1>5, <1>10, <1>12 DEF Doomed
  <2> QED
    BY <1>7, <1>8, <1>9, <2>1 DEF IInv
<1>13. ASSUME Undoomed, ~Asked(l), ~Arriving(l)
       PROVE  Undoomed'
  <2>1. /\ l \in Range(ctrls) /\ l \in Range(tree) /\ ~Dropped(l) /\ ~Leaving(l)
    BY <1>1, <1>13 DEF Undoomed, BooksOK
  <2>2. BooksOK'
    BY <1>1, <1>5, <1>9, <1>10, <1>13, <2>1 DEF Undoomed, BooksOK, spineVars, mgrVars
  <2>3. IsInjective(failedAtCentral')
    BY <1>1, <1>2, <1>13, <2>1, AppendToInjective DEF Undoomed, QueuesOK, Dropped
  <2>4. QueuesOK'
    BY <1>1, <1>13, <2>3 DEF Undoomed, QueuesOK, spineVars, mgrVars
  <2>5. OrdersOK'
    BY <1>1, <1>5, <1>13 DEF Undoomed, OrdersOK, Ahead, spineVars
  <2>6. ASSUME NEW m \in Range(central'), m \in Range(ctrls')
        PROVE  index'[m] = PlaceIn(central', m) - 1 \/ IndexComes(m)'
    <3>1. m \in Range(central) /\ m # l /\ m \in Range(ctrls) /\ m \in Leaves /\ index' = index
      BY <1>1, <1>2, <1>5, <2>6 DEF mgrVars, leafVars
    <3>2. m \in listening /\ m \in pools /\ m \in Range(tree)
      BY <1>1, <1>13, <3>1 DEF Undoomed, ControllersOK, BooksOK
    <3>3. CASE Before(tree, l, m)
      BY <1>1, <1>6, <3>2, <3>3 DEF IndexComes, spineVars, leafVars
    <3>4. CASE IndexComes(m)
      BY <1>1, <1>6, <3>4 DEF IndexComes, ToUpdate, spineVars, leafVars
    <3>5. CASE ~Before(tree, l, m) /\ ~IndexComes(m)
      <4>1. index[m] = PlaceIn(central, m) - 1
        BY <1>13, <3>1, <3>5 DEF Undoomed, IndexesOK
      <4>2. ~Before(central, l, m)
        <5>1. ~Before(newAtCentral, l, m)
          BY <1>2, <1>13, BeforeIsOrder DEF Asked
        <5>2. m \notin Range(newAtCentral)
          BY <1>2, <3>2 DEF ListsOK, Asked
        <5>3. ~Ahead(l, m)
          BY <3>5, <5>1, <5>2 DEF Ahead
        <5> QED
          BY <1>1, <1>13, <3>1, <5>3 DEF Undoomed, OrdersOK
      <4>3. \A y : Before(central', y, m) <=> Before(central, y, m)
        BY <1>5, <3>1, <4>2
      <4>4. FirstPlace(central', m) = FirstPlace(central, m)
        BY <1>2, <1>4, <1>5, <2>6, <3>1, <4>3, SamePlace
      <4> QED
        BY <3>1, <4>1, <4>4, PlaceIsFirst
    <3> QED
      BY <3>3, <3>4, <3>5
  <2>7. IndexesOK'
    BY <2>6 DEF IndexesOK
  <2> QED
    BY <1>9, <1>13, <2>2, <2>4, <2>5, <2>7 DEF Undoomed
<1> QED
  BY <1>7, <1>8, <1>9, <1>11, <1>12, <1>13 DEF IInv

-----------------------------------------------------------------------------
(* The handlers of the spine controller.                                   *)

LEMMA SpineAddsKeeps ==
  ASSUME IInv, SpineAddsLeaf
  PROVE  IInv'
<1> PICK l : l = Head(newAtCentral)
  OBVIOUS
<1>1. /\ TypeOK /\ ListsOK /\ CountsOK /\ newAtCentral # <<>>
      /\ newAtCentral \in Seq(Leaves) /\ tree \in Seq(Leaves) /\ newEgInt \in Seq(Leaves)
      /\ IsInjective(newAtCentral) /\ IsInjective(tree)
      /\ Range(central) \subseteq Leaves /\ spineIndex \in [Leaves -> Indexes]
      /\ Len(Configured) \in Nat /\ Len(tree) \in Nat /\ Len(newAtCentral) \in Nat \ {0}
      /\ calls \in 0 .. MaxCalls /\ MaxCalls \in Nat
  <2>1. newAtCentral # <<>>
    BY DEF SpineAddsLeaf
  <2>2. newAtCentral \in Seq(Leaves) /\ central \in Seq(Leaves)
    BY SeqTypes DEF IInv
  <2>3. Len(newAtCentral) \in Nat \ {0}
    BY <2>1, <2>2, TailValue
  <2>4. Len(Configured) \in Nat /\ MaxCalls \in Nat
    BY ConfiguredAssumption, BoundsAssumption
  <2>5. /\ TypeOK /\ ListsOK /\ CountsOK /\ tree \in Seq(Leaves) /\ newEgInt \in Seq(Leaves)
        /\ IsInjective(newAtCentral) /\ IsInjective(tree)
        /\ spineIndex \in [Leaves -> Indexes] /\ calls \in 0 .. MaxCalls
    BY SeqTypes DEF IInv, ListsOK, TypeOK
  <2>6. Range(central) \subseteq Leaves /\ Len(tree) \in Nat
    BY <2>2, <2>5, InRange
  <2> QED
    BY <2>1, <2>2, <2>3, <2>4, <2>5, <2>6
<1>2. /\ l \in Leaves /\ Tail(newAtCentral) \in Seq(Leaves)
      /\ Len(Tail(newAtCentral)) = Len(newAtCentral) - 1
      /\ \A m : m \in Range(newAtCentral) <=> m = l \/ m \in Range(Tail(newAtCentral))
  BY <1>1, TailValue
<1>3. l \notin Range(tree)
  BY <1>1, <1>2 DEF ListsOK, Asked
<1>4. /\ newAtCentral' = Tail(newAtCentral) /\ tree' = Append(tree, l)
      /\ spineIndex' = [spineIndex EXCEPT ![l] = Len(tree)] /\ newEgInt' = Append(newEgInt, l)
      /\ UNCHANGED <<up, central, failedAtCentral, calls, failedEgInt, updatedEgInt, updating, pools,
                     mgrVars, leafVars, asicVars, scans>>
  BY <1>3 DEF SpineAddsLeaf
<1>5. /\ IsInjective(newAtCentral') /\ l \notin Range(newAtCentral')
      /\ \A m, n : Before(newAtCentral', m, n) <=> Before(newAtCentral, m, n) /\ m # l
      /\ \A n : Before(newAtCentral, l, n) <=> n \in Range(newAtCentral')
      /\ \A m : ~Before(newAtCentral, m, l)
  BY <1>1, <1>4, TailOfInjective
<1>6. /\ tree' \in Seq(Leaves) /\ Len(tree') = Len(tree) + 1
      /\ \A i \in 1 .. Len(tree) : tree'[i] = tree[i]
      /\ tree'[Len(tree) + 1] = l
      /\ \A m : m \in Range(tree') <=> m \in Range(tree) \/ m = l
  BY <1>1, <1>2, <1>4, AppendValue
<1>7. /\ IsInjective(tree')
      /\ \A m, n : Before(tree', m, n) <=> Before(tree, m, n) \/ (m \in Range(tree) /\ n = l)
  BY <1>1, <1>2, <1>3, <1>4, AppendToInjective
<1>8. /\ newEgInt' \in Seq(Leaves)
      /\ \A m : m \in Range(newEgInt') <=> m \in Range(newEgInt) \/ m = l
  BY <1>1, <1>2, <1>4, AppendValue
<1>9. /\ spineIndex' \in [Leaves -> Indexes] /\ spineIndex'[l] = Len(tree)
      /\ \A m \in Leaves : m # l => spineIndex'[m] = spineIndex[m]
  <2>1. Len(tree) \in Indexes
    BY <1>1 DEF ListsOK, Indexes
  <2> QED
    BY <1>1, <1>2, <1>4, <2>1
<1>10. TypeOK'
  <2>1. /\ central' \in Seq(Leaves) /\ failedAtCentral' \in Seq(Leaves)
        /\ failedEgInt' \in Seq(Leaves) /\ updatedEgInt' \in Seq(Seq(Leaves))
    BY <1>1, <1>4, SeqTypes
  <2> QED
    BY <1>1, <1>2, <1>4, <1>6, <1>8, <1>9, <2>1, ListTypes
<1>11. ListsOK'
  <2>1. \A m \in Range(tree') : m \notin Range(newAtCentral')
    BY <1>1, <1>2, <1>4, <1>5, <1>6 DEF ListsOK, Asked
  <2>2. \A i \in 1 .. Len(tree') : spineIndex'[tree'[i]] = i - 1
    <3>1. ASSUME NEW i \in 1 .. Len(tree)
          PROVE  spineIndex'[tree'[i]] = i - 1
      <4>1. tree[i] \in Leaves /\ tree[i] # l /\ spineIndex[tree[i]] = i - 1
        BY <1>1, <1>3, RangeValue DEF ListsOK
      <4> QED
        BY <1>6, <1>9, <4>1
    <3>2. \A i \in 1 .. Len(tree) + 1 : i \in 1 .. Len(tree) \/ i = Len(tree) + 1
      BY <1>1
    <3>3. spineIndex'[tree'[Len(tree) + 1]] = (Len(tree) + 1) - 1
      BY <1>1, <1>6, <1>9
    <3> QED
      BY <1>6, <3>1, <3>2, <3>3
  <2>3. Len(tree') + Len(newAtCentral') <= Len(Configured) + calls
    BY <1>1, <1>2, <1>4, <1>6 DEF ListsOK
  <2> QED
    BY <1>1, <1>4, <1>5, <1>7, <2>1, <2>2, <2>3 DEF ListsOK, Asked
<1>12. /\ CountsOK' /\ (ControllersOK => ControllersOK')
       /\ \A m : (Stopping(m)' <=> Stopping(m)) /\ (Fetching(m)' <=> Fetching(m))
  BY <1>1, <1>4, ListsKeepControllers
<1>13. \A m \in Leaves : /\ Asked(m) <=> Asked(m)' \/ m = l
                         /\ Dropped(m)' <=> Dropped(m)
                         /\ Leaving(m)' <=> Leaving(m)
                         /\ Arriving(m)' <=> Arriving(m) \/ m = l
  BY <1>2, <1>4, <1>8, <1>12 DEF Asked, Dropped, Leaving, Arriving, mgrVars
<1>14. Asked(l) /\ ~Asked(l)'
  BY <1>2, <1>5 DEF Asked
<1>15. Doomed => Doomed'
  BY <1>2, <1>4, <1>13 DEF Doomed
<1>16. ASSUME Undoomed
       PROVE  Undoomed'
  <2>1. /\ l \in Range(central) /\ ~Arriving(l) /\ ~Dropped(l) /\ ~Leaving(l) /\ l \notin Range(ctrls)
    BY <1>2, <1>14, <1>16 DEF Undoomed, BooksOK
  <2>2. l \notin Range(newEgInt) /\ l \notin Range(newLeaves) /\ ~Fetching(l)
    BY <2>1 DEF Arriving
  <2>3. BooksOK'
    BY <1>4, <1>6, <1>8, <1>12, <1>13, <1>14, <1>16, <2>1, <2>2 DEF Undoomed, BooksOK, mgrVars
  <2>4. IsInjective(newEgInt')
    BY <1>1, <1>2, <1>4, <1>16, <2>2, AppendToInjective DEF Undoomed, QueuesOK
  <2>5. QueuesOK'
    BY <1>4, <1>16, <2>4 DEF Undoomed, QueuesOK, mgrVars
  <2>6. OrdersOK'
    <3>1. \A m, n : Before(newAtCentral, m, n) => m \in Range(newAtCentral) /\ n \in Range(newAtCentral)
      BY <1>1, BeforeIsOrder
    <3>2. \A m, n : Ahead(m, n)' <=> Ahead(m, n)
      BY <1>2, <1>3, <1>4, <1>5, <1>6, <1>7, <3>1 DEF Ahead
    <3> QED
      BY <1>4, <1>16, <3>2 DEF Undoomed, OrdersOK
  <2>7. IndexesOK'
    <3>1. \A m : IndexComes(m) => IndexComes(m)'
      BY <1>4, <1>7 DEF IndexComes, ToUpdate, leafVars
    <3> QED
      BY <1>4, <1>16, <3>1 DEF Undoomed, IndexesOK, mgrVars, leafVars
  <2> QED
    BY <1>12, <1>16, <2>3, <2>5, <2>6, <2>7 DEF Undoomed
<1> QED
  BY <1>10, <1>11, <1>12, <1>15, <1>16 DEF IInv

(* Behind a leaf are those that come after it.                             *)
LEMMA BehindValue ==
  ASSUME tree \in Seq(Leaves), IsInjective(tree), NEW l \in Range(tree)
  PROVE  /\ Behind(l) \in Seq(Leaves)
         /\ \A m : m \in Range(Behind(l)) <=> Before(tree, l, m)
<1> DEFINE p == PlaceIn(tree, l)
           n == Len(tree)
           b == SubSeq(tree, p + 1, n)
<1>1. p \in 1 .. n /\ tree[p] = l /\ n \in Nat
  BY PlaceInRange
<1> HIDE DEF p
<1>2. \A i \in p + 1 .. n : tree[i] \in Leaves
  BY <1>1
<1>3. p + 1 \in Int /\ n \in Int
  BY <1>1
<1>4. /\ b \in Seq(Leaves)
      /\ Len(b) = IF p + 1 <= n THEN n - (p + 1) + 1 ELSE 0
      /\ \A i \in 1 .. n - (p + 1) + 1 : b[i] = tree[p + 1 + i - 1]
  BY <1>2, <1>3, SubSeqProperties
<1>5. Len(b) = n - p /\ \A i \in 1 .. n - p : b[i] = tree[p + i]
  <2>1. Len(b) = n - p /\ n - (p + 1) + 1 = n - p
    BY <1>1, <1>4
  <2>2. ASSUME NEW i \in 1 .. n - p
        PROVE  b[i] = tree[p + i]
    <3>1. p + 1 + i - 1 = p + i
      BY <1>1
    <3> QED
      BY <1>4, <2>1, <3>1
  <2> QED
    BY <2>1, <2>2
<1> HIDE DEF b
<1>6. \A i, j \in 1 .. n : tree[i] = tree[j] => i = j
  BY InjectiveValue
<1>7. ASSUME NEW m
      PROVE  m \in Range(b) <=> Before(tree, l, m)
  <2>1. m \in Range(b) <=> \E i \in 1 .. n - p : b[i] = m
    BY <1>4, <1>5, RangeValue
  <2>2. ASSUME NEW i \in 1 .. n - p, b[i] = m
        PROVE  Before(tree, l, m)
    <3>1. p + i \in 1 .. n /\ p < p + i /\ tree[p + i] = m
      BY <1>1, <1>5, <2>2
    <3> QED
      BY <1>1, <3>1 DEF Before
  <2>3. ASSUME NEW i \in 1 .. n, NEW j \in 1 .. n, i < j, tree[i] = l, tree[j] = m
        PROVE  \E k \in 1 .. n - p : b[k] = m
    <3>1. i = p
      BY <1>1, <1>6, <2>3
    <3>2. j - p \in 1 .. n - p /\ p + (j - p) = j
      BY <1>1, <2>3, <3>1
    <3>3. b[j - p] = m
      BY <1>5, <2>3, <3>2
    <3> QED
      BY <3>2, <3>3
  <2> QED
    BY <2>1, <2>2, <2>3 DEF Before
<1> QED
  BY <1>4, <1>7 DEF Behind, b, p

\* a message about a leaf that is not in the tree is dropped; the books rule it out
LEMMA SpineIgnoresKeeps ==
  ASSUME IInv, SpineFailsLeaf, Head(failedAtCentral) \notin Range(tree)
  PROVE  IInv'
<1> PICK l : l = Head(failedAtCentral)
  OBVIOUS
<1>1. /\ failedAtCentral # <<>> /\ failedAtCentral' = Tail(failedAtCentral)
      /\ UNCHANGED <<up, central, newAtCentral, calls, tree, spineIndex, newEgInt, failedEgInt, updatedEgInt,
                     updating, pools, mgrVars, leafVars, asicVars, scans>>
  BY DEF SpineFailsLeaf
<1>2. TypeOK /\ ListsOK /\ CountsOK /\ failedAtCentral \in Seq(Leaves) /\ calls' \in 0 .. MaxCalls
  BY <1>1, SeqTypes DEF IInv, TypeOK
<1>3. /\ l \in Leaves /\ failedAtCentral' \in Seq(Leaves) /\ l \in Range(failedAtCentral)
  BY <1>1, <1>2, TailValue
<1>4. ~Undoomed
  BY <1>3 DEF Undoomed, BooksOK, Dropped
<1>5. TypeOK'
  <2>1. /\ central' \in Seq(Leaves) /\ newAtCentral' \in Seq(Leaves) /\ tree' \in Seq(Leaves)
        /\ newEgInt' \in Seq(Leaves) /\ failedEgInt' \in Seq(Leaves)
        /\ updatedEgInt' \in Seq(Seq(Leaves)) /\ spineIndex' \in [Leaves -> Indexes]
    BY <1>1, <1>2, SeqTypes DEF TypeOK
  <2> QED
    BY <1>1, <1>2, <1>3, <2>1, ListTypes
<1>6. ListsOK'
  BY <1>1, <1>2 DEF ListsOK, Asked
<1>7. CountsOK' /\ \A m : Fetching(m)' <=> Fetching(m)
  BY <1>1, <1>2, ListsKeepControllers
<1>8. Doomed => Doomed'
  BY <1>1, <1>7 DEF Doomed, Asked, Arriving, mgrVars
<1> QED
  BY <1>4, <1>5, <1>6, <1>7, <1>8 DEF IInv

LEMMA SpineFailsKeeps ==
  ASSUME IInv, SpineFailsLeaf, Head(failedAtCentral) \in Range(tree)
  PROVE  IInv'
<1> PICK l : l = Head(failedAtCentral)
  OBVIOUS
<1>1. /\ failedAtCentral # <<>> /\ failedAtCentral' = Tail(failedAtCentral)
      /\ tree' = RemoveAt(tree, PlaceIn(tree, l))
      /\ spineIndex' = [m \in Leaves |-> IF m \in Range(Behind(l)) THEN spineIndex[m] - 1
                                         ELSE spineIndex[m]]
      /\ updatedEgInt' = IF Behind(l) = <<>> THEN updatedEgInt ELSE Append(updatedEgInt, Behind(l))
      /\ failedEgInt' = Append(failedEgInt, l)
      /\ UNCHANGED <<up, central, newAtCentral, calls, newEgInt, updating, pools,
                     mgrVars, leafVars, asicVars, scans>>
  BY DEF SpineFailsLeaf, Without, Updated
<1>2. /\ TypeOK /\ ListsOK /\ CountsOK /\ l \in Range(tree)
      /\ failedAtCentral \in Seq(Leaves) /\ tree \in Seq(Leaves) /\ failedEgInt \in Seq(Leaves)
      /\ updatedEgInt \in Seq(Seq(Leaves))
      /\ IsInjective(tree) /\ spineIndex \in [Leaves -> Indexes]
  BY SeqTypes DEF IInv, ListsOK, TypeOK
<1>3. /\ l \in Leaves /\ failedAtCentral' \in Seq(Leaves)
      /\ \A m : m \in Range(failedAtCentral) <=> m = l \/ m \in Range(failedAtCentral')
  BY <1>1, <1>2, TailValue
<1> DEFINE n == Len(tree)
<1>4. PICK p \in 1 .. n : p = PlaceIn(tree, l) /\ tree[p] = l
  BY <1>2, PlaceInRange
<1>5. /\ tree' \in Seq(Leaves) /\ Len(tree') = n - 1 /\ n \in Nat
      /\ \A i \in 1 .. n - 1 : tree'[i] = IF i < p THEN tree[i] ELSE tree[i + 1]
  <2>1. tree' = RemoveAt(tree, p) /\ tree \in Seq(Leaves) /\ n \in Nat
    BY <1>1, <1>2, <1>4
  <2> QED
    BY <2>1, RemoveAtValue
<1>6. /\ IsInjective(tree')
      /\ \A m : m \in Range(tree') <=> m \in Range(tree) /\ m # l
      /\ \A k, m : Before(tree', k, m) <=> Before(tree, k, m) /\ k # l /\ m # l
  BY <1>1, <1>2, <1>4, RemoveFromInjective
<1>7. /\ failedEgInt' \in Seq(Leaves)
      /\ \A m : m \in Range(failedEgInt') <=> m \in Range(failedEgInt) \/ m = l
  BY <1>1, <1>2, <1>3, AppendValue
<1>8. /\ Behind(l) \in Seq(Leaves)
      /\ \A m : m \in Range(Behind(l)) <=> Before(tree, l, m)
  BY <1>2, BehindValue
<1>9. /\ updatedEgInt' \in Seq(Seq(Leaves))
      /\ \A seq \in Range(updatedEgInt) : seq \in Range(updatedEgInt')
      /\ Behind(l) # <<>> => Behind(l) \in Range(updatedEgInt')
  <2>1. CASE Behind(l) = <<>>
    BY <1>1, <1>2, <2>1
  <2>2. CASE Behind(l) # <<>>
    <3>1. updatedEgInt' = Append(updatedEgInt, Behind(l))
      BY <1>1, <2>2
    <3> QED
      BY <1>2, <1>8, <3>1, AppendValue
  <2> QED
    BY <2>1, <2>2
\* the places of the others, and whether they are behind
<1>10. /\ \A i \in 1 .. n : tree[i] \in Leaves /\ spineIndex[tree[i]] = i - 1 /\ tree[i] \in Range(tree)
       /\ \A i, k \in 1 .. n : tree[i] = tree[k] => i = k
  BY <1>2, InjectiveValue, RangeValue DEF ListsOK
<1>11. \A i \in 1 .. n : tree[i] \in Range(Behind(l)) <=> p < i
  <2>1. ASSUME NEW i \in 1 .. n
        PROVE  Before(tree, l, tree[i]) <=> p < i
    BY <1>4, <1>10 DEF Before
  <2> QED
    BY <1>8, <2>1
<1>12. spineIndex' \in [Leaves -> Indexes]
  <2>1. ASSUME NEW m \in Leaves, m \in Range(Behind(l))
        PROVE  spineIndex[m] - 1 \in Indexes
    <3>1. m \in Range(tree)
      BY <1>2, <1>8, <2>1, BeforeIsOrder
    <3>2. PICK i \in 1 .. n : tree[i] = m
      BY <1>2, <3>1, RangeValue
    <3>3. p < i /\ spineIndex[m] = i - 1 /\ spineIndex[m] \in Indexes
      BY <1>2, <1>10, <1>11, <2>1, <3>2
    <3>4. Len(Configured) \in Nat /\ MaxCalls \in Nat
      BY ConfiguredAssumption, BoundsAssumption
    <3> QED
      BY <1>4, <1>5, <3>3, <3>4 DEF Indexes
  <2> QED
    BY <1>1, <1>2, <2>1
<1>13. TypeOK'
  <2>1. /\ central' \in Seq(Leaves) /\ newAtCentral' \in Seq(Leaves) /\ newEgInt' \in Seq(Leaves)
        /\ calls' \in 0 .. MaxCalls
    BY <1>1, <1>2, SeqTypes DEF TypeOK
  <2>2. up' = up /\ UNCHANGED <<updating, pools, mgrVars, leafVars, asicVars, scans>>
    BY <1>1
  <2> QED
    BY <1>2, <1>3, <1>5, <1>7, <1>9, <1>12, <2>1, <2>2, ListTypes
<1>14. ListsOK'
  <2>1. ASSUME NEW i \in 1 .. n - 1
        PROVE  spineIndex'[tree'[i]] = i - 1
    <3>1. CASE i < p
      <4>1. i \in 1 .. n /\ ~(p < i) /\ tree'[i] = tree[i]
        BY <1>4, <1>5, <3>1
      <4> QED
        BY <1>1, <1>10, <1>11, <4>1
    <3>2. CASE ~(i < p)
      <4>1. i + 1 \in 1 .. n /\ p < i + 1 /\ tree'[i] = tree[i + 1]
        BY <1>4, <1>5, <3>2
      <4>2. spineIndex'[tree[i + 1]] = spineIndex[tree[i + 1]] - 1 /\ spineIndex[tree[i + 1]] = (i + 1) - 1
        BY <1>1, <1>10, <1>11, <4>1
      <4> QED
        BY <1>5, <4>1, <4>2
    <3> QED
      BY <3>1, <3>2
  <2>2. Len(tree') + Len(newAtCentral') <= Len(Configured) + calls'
    <3>1. Len(newAtCentral) \in Nat /\ Len(Configured) \in Nat /\ calls \in Nat
      BY <1>2, LengthTypes
    <3> QED
      BY <1>1, <1>2, <1>5, <3>1 DEF ListsOK
  <2>3. \A i \in 1 .. Len(tree') : spineIndex'[tree'[i]] = i - 1
    BY <1>5, <2>1
  <2>4. UNCHANGED <<central, newAtCentral, calls>>
    BY <1>1
  <2> QED
    BY <1>2, <1>6, <2>2, <2>3, <2>4 DEF ListsOK, Asked
<1>15. UNCHANGED <<central, newAtCentral, calls, newEgInt, updating, pools, mgrVars, leafVars, asicVars, scans>>
  BY <1>1
<1>16. /\ CountsOK' /\ (ControllersOK => ControllersOK')
       /\ \A m : (Stopping(m)' <=> Stopping(m)) /\ (Fetching(m)' <=> Fetching(m))
  BY <1>2, <1>15, ListsKeepControllers
<1>17. \A m \in Leaves : /\ Asked(m)' <=> Asked(m)
                         /\ Dropped(m) <=> Dropped(m)' \/ m = l
                         /\ Leaving(m)' <=> Leaving(m) \/ m = l
                         /\ Arriving(m)' <=> Arriving(m)
  BY <1>3, <1>7, <1>15, <1>16 DEF Asked, Dropped, Leaving, Arriving, mgrVars
<1>18. Doomed => Doomed'
  BY <1>15, <1>17 DEF Doomed
<1>19. ASSUME Undoomed
       PROVE  Undoomed'
  <2>1. /\ Dropped(l) /\ l \notin Range(central) /\ ~Leaving(l)
    BY <1>3, <1>17, <1>19 DEF Undoomed, BooksOK
  <2>2. /\ l \notin Range(failedEgInt) /\ l \notin Range(failedLeaves) /\ ~Stopping(l)
    BY <2>1 DEF Leaving
  <2>3. IsInjective(failedAtCentral') /\ l \notin Range(failedAtCentral')
    BY <1>1, <1>2, <1>19, TailOfInjective DEF Undoomed, QueuesOK
  <2>4. ~Dropped(l)'
    BY <2>3 DEF Dropped
  <2>5. BooksOK'
    BY <1>6, <1>7, <1>15, <1>16, <1>17, <1>19, <2>1, <2>2, <2>4 DEF Undoomed, BooksOK, mgrVars
  <2>6. IsInjective(failedEgInt')
    BY <1>1, <1>2, <1>3, <1>19, <2>2, AppendToInjective DEF Undoomed, QueuesOK
  <2>7. QueuesOK'
    BY <1>15, <1>19, <2>3, <2>6 DEF Undoomed, QueuesOK, mgrVars
  <2>8. OrdersOK'
    <3>1. \A k, m \in Range(central) : Ahead(k, m)' <=> Ahead(k, m)
      BY <1>6, <1>15, <2>1 DEF Ahead
    <3> QED
      BY <1>15, <1>19, <3>1 DEF Undoomed, OrdersOK
  <2>9. ASSUME NEW m \in Range(central), IndexComes(m)
        PROVE  IndexComes(m)'
    <3>1. ToUpdate(m) => ToUpdate(m)'
      BY <1>9, <1>15 DEF ToUpdate
    <3>2. m \in listening' \cap pools'
      BY <1>15, <2>9 DEF IndexComes, leafVars
    <3>3. CASE ToUpdate(m)
      BY <3>1, <3>2, <3>3 DEF IndexComes
    <3>4. CASE Before(tree, l, m)
      <4>1. m \in Range(Behind(l))
        BY <1>8, <3>4
      <4>2. Behind(l) # <<>>
        BY <4>1, EmptyValue
      <4>3. ToUpdate(m)'
        BY <1>9, <4>1, <4>2 DEF ToUpdate
      <4> QED
        BY <3>2, <4>3 DEF IndexComes
    <3>5. ASSUME NEW k \in Range(failedAtCentral), k # l, Before(tree, k, m)
          PROVE  IndexComes(m)'
      <4>1. k \in Range(failedAtCentral') /\ Before(tree', k, m)
        BY <1>3, <1>6, <2>1, <3>5
      <4> QED
        BY <3>2, <4>1 DEF IndexComes
    <3> QED
      BY <2>9, <3>3, <3>4, <3>5 DEF IndexComes
  <2>10. IndexesOK'
    BY <1>15, <1>19, <2>9 DEF Undoomed, IndexesOK, mgrVars, leafVars
  <2> QED
    BY <1>16, <1>19, <2>5, <2>7, <2>8, <2>10 DEF Undoomed
<1> QED
  BY <1>13, <1>14, <1>16, <1>18, <1>19 DEF IInv

-----------------------------------------------------------------------------
(* The invariant, and what it means when nothing is under way.             *)

LEMMA SavedPlaceStays ==
  ASSUME IInv, SavedPlace, [Next]_vars
  PROVE  SavedPlace'
<1>1. CASE UNCHANGED <<mgr, ctrls>>
  BY <1>1 DEF SavedPlace
<1>2. CASE MgrTakesNew \/ MgrRemoves \/ (MgrFetches /\ ~Panic)
  <2>1. mgr'.pc \in {"loop", "fetch"}
    BY <1>2 DEF MgrTakesNew, MgrRemoves, MgrFetches, Loop
  <2> QED
    BY <2>1 DEF SavedPlace
<1>3. CASE MgrTakesFailed
  <2>1. PICK l : l = Head(failedLeaves)
    OBVIOUS
  <2>2. /\ ctrls' = ctrls
        /\ IF HasController(l) THEN mgr' = [pc |-> "stopBus", leaf |-> l, place |-> RemovedLeafIdx(l)]
           ELSE mgr' = mgr
    BY <1>3, <2>1 DEF MgrTakesFailed
  <2>3. ctrls \in Seq(Leaves)
    BY SeqTypes DEF IInv
  <2>4. CASE HasController(l)
    <3>1. mgr'.leaf = l /\ mgr'.place = RemovedLeafIdx(l)
      BY <2>2, <2>4
    <3>2. RemovedLeafIdx(l) \in 1 .. Len(ctrls) /\ ctrls[RemovedLeafIdx(l)] = l
      BY <2>3, <2>4, RemovedLeafIdxValue DEF HasController
    <3> QED
      BY <2>2, <3>1, <3>2 DEF SavedPlace
  <2>5. CASE ~HasController(l)
    BY <2>2, <2>5 DEF SavedPlace
  <2> QED
    BY <2>4, <2>5
<1>4. CASE (MgrStopsBus \/ MgrStopsHealth \/ MgrStopsServer \/ MgrCloses) /\ ~Panic
  <2>1. /\ ctrls' = ctrls /\ mgr.pc \in {"stopBus", "stopHealth", "stopServer", "goodbye"}
        /\ \E pc \in {"stopHealth", "stopServer", "goodbye", "remove"} : mgr' = [mgr EXCEPT !.pc = pc]
    BY <1>4 DEF MgrStopsBus, MgrStopsHealth, MgrStopsServer, MgrCloses, Goto, At
  <2>2. mgr \in MgrType
    BY DEF IInv, TypeOK, MgrType
  <2>3. mgr'.place = mgr.place /\ mgr'.leaf = mgr.leaf
    BY <2>1, <2>2 DEF MgrType
  <2> QED
    BY <2>1, <2>3 DEF SavedPlace
<1>5. CASE Panic \/ UNCHANGED vars
  BY <1>1, <1>5 DEF Panic, vars, mgrVars
<1>6. CASE Spine
  <2>1. UNCHANGED <<mgr, ctrls>>
    BY <1>6 DEF Spine, SpineAddsLeaf, SpineFailsLeaf, SpineSendsNew, SpineSendsFailed,
                SpineTakesUpdated, SpineUpdatesLeaf, mgrVars
  <2> QED
    BY <1>1, <2>1
<1>7. CASE AsicSends \/ \E l \in Leaves : CallAddLeaf(l) \/ CallFailLeaf(l) \/ AsicReads(l)
  <2>1. UNCHANGED <<mgr, ctrls>>
    BY <1>7 DEF AsicSends, Panic, CallAddLeaf, CallFailLeaf, AsicReads, mgrVars
  <2> QED
    BY <1>1, <2>1
<1>8. CASE \E l \in Leaves : Leaf(l) \/ BusWorks(l) \/ HealthScans(l)
  <2>1. UNCHANGED <<mgr, ctrls>>
    BY <1>8 DEF Leaf, Listens, Starts, BusStops, JobSends, HealthSends, BusWorks, HealthScans, Panic, mgrVars
  <2> QED
    BY <1>1, <2>1
<1> QED
  BY <1>2, <1>3, <1>4, <1>5, <1>6, <1>7, <1>8 DEF Next, Progress, Manager

LEMMA NextKeepsI == IInv /\ SavedPlace /\ [Next]_vars => IInv'
<1> SUFFICES ASSUME IInv, SavedPlace, [Next]_vars PROVE IInv'
  OBVIOUS
<1>1. CASE Spine
  BY <1>1, SpineAddsKeeps, SpineIgnoresKeeps, SpineFailsKeeps, SendsNewKeeps, SendsFailedKeeps,
     TakesUpdatedKeeps, UpdatesLeafKeeps DEF Spine
<1>2. CASE Manager
  BY <1>2, PanicKeepsI, TakesNewKeeps, FetchesKeeps, TakesFailedKeeps, ShutdownKeeps, RemovesKeeps DEF Manager
<1>3. CASE AsicSends \/ \E l \in Leaves : AsicReads(l)
  BY <1>3, AsicKeeps
<1>4. CASE \E l \in Leaves : Leaf(l) \/ BusWorks(l) \/ HealthScans(l)
  BY <1>4, WorkKeeps
<1>5. CASE \E l \in Leaves : CallAddLeaf(l) \/ CallFailLeaf(l)
  BY <1>5, AddLeafKeeps, FailLeafKeeps
<1>6. CASE UNCHANGED vars
  BY <1>6, NothingMoves DEF vars, asicVars, IInv, TypeOK
<1> QED
  BY <1>1, <1>2, <1>3, <1>4, <1>5, <1>6 DEF Next, Progress

(* Whatever leaves come and fail: channels and lists say of every leaf     *)
(* where it is, its controller is as far as its start or its shutdown, and *)
(* its index is right or an update is on its way, unless a leaf failed     *)
(* before the manager asked for it.  The place the manager found before it *)
(* shut a controller down is the one to remove afterwards.                 *)
THEOREM InductiveInvariant == Spec => [](IInv /\ SavedPlace)
<1>1. Init => IInv /\ SavedPlace
  BY InitIInv DEF Init, SavedPlace
<1>2. IInv /\ SavedPlace /\ [Next]_vars => (IInv /\ SavedPlace)'
  BY NextKeepsI, SavedPlaceStays
<1> QED
  BY <1>1, <1>2, PTL DEF Spec

(* Every variable keeps its type, and no index goes below the first one.   *)
THEOREM TypeCorrect == Spec => []TypeOK
<1>1. IInv => TypeOK
  BY DEF IInv
<1> QED
  BY InductiveInvariant, <1>1, PTL

\* at rest every channel is empty
LEMMA RestIsQuiet ==
  ASSUME TypeOK, AtRest
  PROVE  \A l \in Leaves :
           /\ ~Asked(l) /\ ~Arriving(l) /\ ~Dropped(l) /\ ~Leaving(l) /\ ~Stopping(l)
           /\ ~ToUpdate(l)
BY DEF AtRest, Messages, Asked, Arriving, Dropped, Leaving, Stopping, Fetching, ToUpdate

(* When nothing is under way there is one controller for every leaf, with  *)
(* open channels, a bus and a health manager; those of all others ended.   *)
THEOREM ControllersAlwaysMatchTree == Spec => []ControllersMatchTree
<1>1. ASSUME IInv, AtRest
      PROVE  /\ Range(ctrls) = Range(central) /\ Len(ctrls) = Len(central)
             /\ Range(tree) = Range(central)
             /\ ingress = Range(ctrls)
             /\ closed \cap ingress = {}
             /\ \A l \in Range(ctrls) : bus[l] = "on" /\ health[l] \in {"waits", "scans"}
             /\ \A l \in Leaves \ Range(ctrls) :
                  bus[l] # "on" /\ health[l] \in {"none", "off"} /\ l \notin listening
  <2>1. /\ TypeOK /\ ListsOK /\ Undoomed
        /\ \A l \in Leaves : ~Asked(l) /\ ~Arriving(l) /\ ~Dropped(l) /\ ~Leaving(l) /\ ~Stopping(l)
    BY <1>1, RestIsQuiet DEF IInv, Doomed
  <2>2. /\ ctrls \in Seq(Leaves) /\ central \in Seq(Leaves) /\ tree \in Seq(Leaves)
        /\ Range(ctrls) \subseteq Leaves /\ Range(central) \subseteq Leaves /\ Range(tree) \subseteq Leaves
        /\ ingress \subseteq Leaves
    BY <2>1, SeqTypes, InRange DEF TypeOK
  <2>3. Range(ctrls) = Range(central) /\ Range(tree) = Range(central)
    BY <2>1, <2>2 DEF Undoomed, BooksOK
  <2>4. Len(ctrls) = Len(central)
    BY <2>1, <2>2, <2>3, SameLength DEF Undoomed, QueuesOK, ListsOK
  <2>5. ingress = Range(ctrls) /\ closed \cap ingress = {}
    BY <2>1, <2>2 DEF Undoomed, ControllersOK
  <2>6. ASSUME NEW l \in Range(ctrls)
        PROVE  bus[l] = "on" /\ health[l] \in {"waits", "scans"}
    <3>1. bus[l] # "none"
      BY <1>1, <2>5 DEF AtRest
    <3> QED
      BY <2>1, <2>2, <3>1 DEF Undoomed, ControllersOK, Started, Running
  <2>7. \A l \in Leaves \ Range(ctrls) :
          bus[l] # "on" /\ health[l] \in {"none", "off"} /\ l \notin listening
    BY <2>1 DEF Undoomed, ControllersOK, Ended
  <2> QED
    BY <2>3, <2>4, <2>5, <2>6, <2>7
<1>2. IInv => ControllersMatchTree
  BY <1>1 DEF ControllersMatchTree
<1> QED
  BY InductiveInvariant, <1>2, PTL

(* When nothing is under way every controller has the index that its leaf  *)
(* has at the spine and at the central controller.                         *)
THEOREM IndexesAlwaysAgree == Spec => []IndexesAgree
<1>1. ASSUME IInv, AtRest, NEW l \in Range(ctrls)
      PROVE  index[l] = PlaceIn(central, l) - 1 /\ spineIndex[l] = index[l]
  <2>1. /\ TypeOK /\ ListsOK /\ Undoomed
        /\ \A m \in Leaves : /\ ~Asked(m) /\ ~Arriving(m) /\ ~Dropped(m) /\ ~Leaving(m) /\ ~Stopping(m)
                             /\ ~ToUpdate(m)
    BY <1>1, RestIsQuiet DEF IInv, Doomed
  <2>2. Range(ctrls) \subseteq Leaves /\ Range(failedAtCentral) \subseteq Leaves
    BY <2>1, SeqTypes, InRange
  <2>3. l \in Range(central) /\ l \in Range(tree)
    BY <2>1, <2>2 DEF Undoomed, BooksOK
  <2>4. \A m \in Range(failedAtCentral) : FALSE
    BY <2>1, <2>2 DEF Dropped
  <2>5. ~IndexComes(l)
    BY <2>1, <2>2, <2>4 DEF IndexComes
  <2>6. index[l] = PlaceIn(central, l) - 1
    BY <2>1, <2>3, <2>5 DEF Undoomed, IndexesOK
  <2>7. PlaceIn(tree, l) = PlaceIn(central, l)
    BY <2>1, <2>3, <2>4, PlacesAgree DEF Undoomed
  <2>8. spineIndex[l] = PlaceIn(tree, l) - 1
    BY <2>1, <2>3, TreeIndex
  <2> QED
    BY <2>6, <2>7, <2>8
<1>2. IInv => IndexesAgree
  BY <1>1 DEF IndexesAgree
<1> QED
  BY InductiveInvariant, <1>2, PTL
=============================================================================
