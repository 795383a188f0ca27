--------------------------- MODULE SpineBusProofs ---------------------------
(***************************************************************************)
(* What the goroutines of SpineBus make of the tables, for any leaves and  *)
(* servers and any number of changes.  Types hold however the goroutines   *)
(* overlap; the tables need that a change waits for those before it.       *)
(***************************************************************************)
EXTENDS SpineBus, SequenceLemmas, FiniteSetTheorems

-----------------------------------------------------------------------------
(* The invariants.                                                         *)

\* the places of each kind of goroutine
Stages ==
  {<<"newLeaf", pc>> : pc \in {"start", "pend", "port", "loop", "regs"}}
  \cup {<<"newServer", pc>> : pc \in {"start", "port", "loop", "regs", "unpend"}}
  \cup {<<"failedLeaf", pc>> : pc \in {"start", "loop", "regs", "read", "best", "second"}}

Goroutine ==
  [id : Nat, type : {"newLeaf", "newServer", "failedLeaf"}, node : Leaves \cup Servers,
   leaf : Leaves \cup {None},
   pc : {"start", "pend", "port", "loop", "regs", "unpend", "read", "best", "second"},
   list : Seq(Leaves), next : Nat]

JobOK(j) ==
  /\ j \in Goroutine
  /\ <<j.type, j.pc>> \in Stages
  /\ IF j.type = "newServer" THEN j.node \in Servers ELSE j.node \in Leaves
  /\ j.pc # "start" /\ j.type # "failedLeaf" => j.leaf \in Leaves
  /\ j.pc \in {"read", "best"} => j.leaf \in Leaves
  /\ Len(j.list) <= MaxLeaves
  /\ j.next > 0 \/ j.pc # "loop"

\* a leaf is below the spine once, at its index, and has the servers
ListOK ==
  /\ \A i, k \in 1 .. Len(children) : children[i] = children[k] => i = k
  /\ \A i \in 1 .. Len(children) : index[children[i]] = i - 1
  /\ \A s \in Servers : leafOf[s] # None => leafOf[s] \in Live

TInv == TypeOK /\ ListOK /\ \A j \in jobs : JobOK(j)

\* the first n leaves are in the tables
InTables(n) ==
  \A i \in 1 .. n : randLeaf[i - 1] = children[i] /\ switchIndex[children[i]] = i - 1

Awaited(l) == l \in pending \/ \E j \in jobs : j.type = "newLeaf" /\ j.node = l

\* a leaf that is missing from the tables is pending, or will be
Consistent ==
  /\ numLeafs <= Len(children)
  /\ InTables(numLeafs)
  /\ \A l \in Live : index[l] >= numLeafs => Awaited(l)

\* what the one goroutine there is has done, under v1
WrittenBy(j) ==
  /\ j.pc \in {"start", "pend", "port"} /\ j.type # "failedLeaf" => Consistent
  /\ j.pc = "loop" => /\ j.list = children
                      /\ j.next <= Len(children) + 1
                      /\ InTables(j.next - 1)
  /\ j.pc \in {"regs", "unpend"} => numLeafs = Len(children) /\ InTables(numLeafs)

Serves(j) ==
  /\ j.type = "newLeaf" => j.pc \in {"start", "pend"} /\ j.node \in Live /\ ~HasServers(j.node)
  /\ j.pc = "pend" => j.leaf = j.node
  /\ j.type = "newServer" => /\ leafOf[j.node] # None
                             /\ j.pc # "start" => j.leaf = leafOf[j.node]
  /\ j.pc \in {"loop", "regs"} => version = "v1"
  /\ j.pc \in {"read", "best", "second"} => version = "v2"

\* a pending leaf has no servers, unless its first one is about to unpend it
PendingOK ==
  \A l \in pending \cap Live :
    HasServers(l) => \E j \in jobs : j.type = "newServer" /\ leafOf[j.node] = l

\* one of the leaves v2 tracks lives, or the goroutine of the one that failed
\* is going to write another
OneAlive == {best, second} \cap Live # {}
TrackedBy(j) ==
  /\ j.type # "failedLeaf" => OneAlive
  /\ j.type = "failedLeaf" /\ j.pc = "start" => OneAlive \/ j.node \in {best, second}
  /\ j.pc = "read" => OneAlive \/ j.node \in {j.leaf, second}

PInv ==
  /\ \A j, k \in jobs : j = k
  /\ up =>
      /\ \A j \in jobs : Serves(j)
      /\ PendingOK
      /\ version = "v1" => /\ \A j \in jobs : WrittenBy(j)
                           /\ jobs = {} => Consistent
      /\ version = "v2" => /\ \A j \in jobs : TrackedBy(j)
                           /\ jobs = {} => OneAlive

-----------------------------------------------------------------------------
(* The list of leaves.                                                     *)

(* A list without duplicates is no longer than what it is taken from.      *)
LEMMA DistinctFits ==
  ASSUME NEW T, IsFiniteSet(T), NEW seq \in Seq(T),
         \A i, k \in 1 .. Len(seq) : seq[i] = seq[k] => i = k
  PROVE  Len(seq) <= Cardinality(T)
<1>1. Len(seq) \in Nat /\ seq \in [1 .. Len(seq) -> T]
  OBVIOUS
<1>2. seq \in Injection(1 .. Len(seq), T)
  BY <1>1 DEF Injection, IsInjective
<1>3. Cardinality(1 .. Len(seq)) <= Cardinality(T)
  BY <1>2, FS_Injection
<1>4. Cardinality(1 .. Len(seq)) = Len(seq)
  <2>1. 1 \in Int /\ Len(seq) \in Int
    BY <1>1
  <2>2. Cardinality(1 .. Len(seq)) = IF 1 > Len(seq) THEN 0 ELSE Len(seq) - 1 + 1
    BY <2>1, FS_Interval
  <2> QED
    BY <1>1, <2>2
<1> QED
  BY <1>3, <1>4

LEMMA MaxLeavesIsNat == MaxLeaves \in Nat
BY LeavesAssumption, FS_CardinalityType DEF MaxLeaves

LEMMA LiveValue ==
  ASSUME children \in Seq(Leaves), NEW l
  PROVE  /\ Len(children) \in Nat /\ Live \subseteq Leaves
         /\ l \in Live <=> \E i \in 1 .. Len(children) : children[i] = l
<1>1. DOMAIN children = 1 .. Len(children) /\ Len(children) \in Nat
      /\ \A i \in 1 .. Len(children) : children[i] \in Leaves
  OBVIOUS
<1> QED
  BY <1>1 DEF Live, ToSet

LEMMA PositionValue ==
  ASSUME children \in Seq(Leaves), NEW l \in Live
  PROVE  Position(l) \in 1 .. Len(children) /\ children[Position(l)] = l
BY LiveValue DEF Position

LEMMA ListFits ==
  ASSUME TypeOK, ListOK
  PROVE  /\ Len(children) \in Nat /\ Len(children) <= MaxLeaves /\ MaxLeaves \in Nat
         /\ \A i \in 1 .. Len(children) : children[i] \in Live /\ children[i] \in Leaves
         /\ \A l \in Live : index[l] + 1 \in 1 .. Len(children) /\ children[index[l] + 1] = l
<1>1. children \in Seq(Leaves)
  BY DEF TypeOK
<1>2. Len(children) <= MaxLeaves
  BY <1>1, LeavesAssumption, DistinctFits DEF ListOK, MaxLeaves
<1>3. \A i \in 1 .. Len(children) : children[i] \in Live /\ children[i] \in Leaves
  BY <1>1, LiveValue
<1>4. ASSUME NEW l \in Live
      PROVE  index[l] + 1 \in 1 .. Len(children) /\ children[index[l] + 1] = l
  <2>1. PICK i \in 1 .. Len(children) : children[i] = l
    BY <1>1, LiveValue
  <2>2. index[l] = i - 1
    BY <2>1 DEF ListOK
  <2>3. i \in Nat
    OBVIOUS
  <2> QED
    BY <2>1, <2>2, <2>3
<1> QED
  BY <1>1, <1>2, <1>3, <1>4, MaxLeavesIsNat, LiveValue

(* A new leaf comes last.                                                  *)
LEMMA AddLeafList ==
  ASSUME TypeOK, ListOK, NEW l \in Leaves, AddLeaf(l)
  PROVE  /\ children' \in Seq(Leaves) /\ Len(children') = Len(children) + 1
         /\ \A i \in 1 .. Len(children) : children'[i] = children[i]
         /\ children'[Len(children) + 1] = l
         /\ Live' = Live \cup {l} /\ l \notin Live
         /\ index' \in [Leaves -> Index] /\ index'[l] = Len(children)
         /\ \A m \in Leaves : m # l => index'[m] = index[m]
         /\ ListOK'
<1>1. /\ children \in Seq(Leaves) /\ index \in [Leaves -> Index]
      /\ leafOf \in [Servers -> Leaves \cup {None}]
  BY DEF TypeOK
<1>2. /\ l \notin Live /\ children' = Append(children, l) /\ leafOf' = leafOf
      /\ index' = [index EXCEPT ![l] = Len(children)]
  BY DEF AddLeaf
<1>3. /\ children' \in Seq(Leaves) /\ Len(children') = Len(children) + 1 /\ Len(children) \in Nat
      /\ \A i \in 1 .. Len(children) : children'[i] = children[i]
      /\ children'[Len(children) + 1] = l
  BY <1>1, <1>2, AppendValue
<1>4. \A i \in 1 .. Len(children) : children[i] # l /\ children[i] \in Leaves
  BY <1>1, <1>2, LiveValue
<1>5. \A i, k \in 1 .. Len(children') : children'[i] = children'[k] => i = k
  BY <1>3, <1>4 DEF ListOK
<1>6. Len(children') <= MaxLeaves
  BY <1>3, <1>5, LeavesAssumption, DistinctFits DEF MaxLeaves
<1>7. Len(children) \in Index
  BY <1>3, <1>6, MaxLeavesIsNat DEF Index
<1>8. index' \in [Leaves -> Index] /\ index'[l] = Len(children)
      /\ \A m \in Leaves : m # l => index'[m] = index[m]
  BY <1>1, <1>2, <1>7
<1>9. \A i \in 1 .. Len(children') : index'[children'[i]] = i - 1
  BY <1>3, <1>4, <1>8 DEF ListOK
<1>10. Live' = Live \cup {l}
  <2>1. ASSUME NEW m
        PROVE  m \in Live' <=> m \in Live \cup {l}
    <3>1. m \in Live <=> \E i \in 1 .. Len(children) : children[i] = m
      BY <1>1, LiveValue
    <3>2. m \in Live' <=> \E i \in 1 .. Len(children') : children'[i] = m
      <4>1. DOMAIN children' = 1 .. Len(children')
        BY <1>3
      <4> QED
        BY <4>1 DEF Live, ToSet
    <3>3. 1 .. Len(children') = 1 .. Len(children) \cup {Len(children) + 1}
      BY <1>3
    <3> QED
      BY <1>3, <3>1, <3>2, <3>3
  <2> QED
    BY <2>1
<1>11. \A s \in Servers : leafOf'[s] # None => leafOf'[s] \in Live'
  BY <1>2, <1>10 DEF ListOK
<1> QED
  BY <1>2, <1>3, <1>5, <1>8, <1>9, <1>10, <1>11 DEF ListOK

(* The leaves behind a failed one move up, and so do their indexes.        *)
LEMMA FailLeafList ==
  ASSUME TypeOK, ListOK, NEW l \in Leaves, FailLeaf(l)
  PROVE  /\ children' \in Seq(Leaves) /\ Len(children') = Len(children) - 1
         /\ Live' = Live \ {l} /\ l \in Live
         /\ index' \in [Leaves -> Index]
         /\ leafOf' \in [Servers -> Leaves \cup {None}]
         /\ ListOK'
<1> DEFINE p == Position(l)
           n == Len(children)
<1>1. /\ children \in Seq(Leaves) /\ index \in [Leaves -> Index]
      /\ leafOf \in [Servers -> Leaves \cup {None}]
  BY DEF TypeOK
<1>2. /\ l \in Live /\ children' = RemoveAt(children, p)
      /\ leafOf' = [s \in Servers |-> IF leafOf[s] = l THEN None ELSE leafOf[s]]
      /\ index' = [m \in Leaves |-> IF m \in Live /\ index[m] > index[l] THEN index[m] - 1 ELSE index[m]]
  BY DEF FailLeaf, IndexWithout
<1>3. p \in 1 .. n /\ children[p] = l /\ n \in Nat
  BY <1>1, <1>2, PositionValue
<1> HIDE DEF p
<1>4. /\ children' \in Seq(Leaves) /\ Len(children') = n - 1
      /\ \A i \in 1 .. n - 1 : children'[i] = IF i < p THEN children[i] ELSE children[i + 1]
  BY <1>1, <1>2, <1>3, RemoveAtValue
<1>5. /\ \A i \in 1 .. n : index[children[i]] = i - 1 /\ children[i] \in Live /\ children[i] \in Leaves
      /\ \A i, k \in 1 .. n : children[i] = children[k] => i = k
  BY ListFits DEF ListOK
<1>6. \A i \in 1 .. n - 1 : index'[children'[i]] = i - 1 /\ children'[i] # l
  <2>1. ASSUME NEW i \in 1 .. n - 1
        PROVE  index'[children'[i]] = i - 1 /\ children'[i] # l
    <3>1. CASE i < p
      <4>1. i \in 1 .. n /\ children'[i] = children[i] /\ i # p
        BY <1>3, <1>4, <3>1
      <4>2. index[children[i]] = i - 1 /\ index[l] = p - 1 /\ children[i] # l /\ children[i] \in Leaves
        BY <1>3, <1>5, <4>1
      <4> QED
        BY <1>2, <1>3, <3>1, <4>1, <4>2
    <3>2. CASE ~ (i < p)
      <4>1. i + 1 \in 1 .. n /\ children'[i] = children[i + 1] /\ i + 1 # p
        BY <1>3, <1>4, <3>2
      <4>2. /\ index[children[i + 1]] = i /\ index[l] = p - 1 /\ children[i + 1] # l
            /\ children[i + 1] \in Leaves /\ children[i + 1] \in Live
        BY <1>3, <1>5, <4>1
      <4> QED
        BY <1>2, <1>3, <3>2, <4>1, <4>2
    <3> QED
      BY <3>1, <3>2
  <2> QED
    BY <2>1
<1>7. \A i, k \in 1 .. n - 1 : children'[i] = children'[k] => i = k
  BY <1>3, <1>6
<1>8. Live' = Live \ {l}
  <2>1. ASSUME NEW m
        PROVE  m \in Live' <=> m \in Live \ {l}
    <3>1. m \in Live <=> \E i \in 1 .. n : children[i] = m
      BY <1>1, LiveValue
    <3>2. m \in Live' <=> \E i \in 1 .. n - 1 : children'[i] = m
      <4>1. DOMAIN children' = 1 .. n - 1
        BY <1>3, <1>4
      <4> QED
        BY <4>1 DEF Live, ToSet
    <3>3. CASE m = l
      BY <1>6, <3>2, <3>3
    <3>4. ASSUME m # l, NEW i \in 1 .. n, children[i] = m
          PROVE  \E k \in 1 .. n - 1 : children'[k] = m
      <4>1. CASE i < p
        BY <1>3, <1>4, <3>4, <4>1
      <4>2. CASE i > p
        <5>1. i - 1 \in 1 .. n - 1 /\ ~ (i - 1 < p) /\ (i - 1) + 1 = i
          BY <1>3, <4>2
        <5>2. children'[i - 1] = children[i]
          BY <1>4, <5>1
        <5> QED
          BY <3>4, <5>1, <5>2
      <4> QED
        BY <1>3, <3>4, <4>1, <4>2
    <3>5. ASSUME NEW k \in 1 .. n - 1, children'[k] = m
          PROVE  \E i \in 1 .. n : children[i] = m
      <4>1. k \in 1 .. n /\ k + 1 \in 1 .. n
        BY <1>3
      <4> QED
        BY <1>4, <3>5, <4>1
    <3> QED
      BY <3>1, <3>2, <3>3, <3>4, <3>5
  <2> QED
    BY <2>1
<1>9. index' \in [Leaves -> Index]
  <2>1. ASSUME NEW m \in Leaves
        PROVE  index'[m] \in Index
    <3>1. index[m] \in Index /\ index[l] \in Index
      BY <1>1
    <3> QED
      BY <1>2, <3>1, MaxLeavesIsNat DEF Index
  <2> QED
    BY <1>2, <2>1
<1>10. leafOf' \in [Servers -> Leaves \cup {None}]
  BY <1>1, <1>2
<1>11. \A s \in Servers : leafOf'[s] # None => leafOf'[s] \in Live'
  BY <1>2, <1>8 DEF ListOK
<1> QED
  BY <1>2, <1>4, <1>6, <1>7, <1>8, <1>9, <1>10, <1>11 DEF ListOK

-----------------------------------------------------------------------------
(* Types.                                                                  *)

(* A goroutine that goes on has the places and leaves of its kind.         *)
LEMMA JobGoesOn ==
  ASSUME NEW j \in Goroutine, NEW k,
         NEW pc \in {"start", "pend", "port", "loop", "regs", "unpend", "read", "best", "second"},
         k = [j EXCEPT !.pc = pc]
  PROVE  /\ k \in Goroutine /\ k.pc = pc /\ k.type = j.type
         /\ k.node = j.node /\ k.leaf = j.leaf /\ k.list = j.list /\ k.next = j.next
BY DEF Goroutine

LEMMA JobLoops ==
  ASSUME NEW j \in Goroutine, children \in Seq(Leaves), NEW k, k = Looping(j)
  PROVE  /\ k \in Goroutine /\ k.pc = "loop" /\ k.type = j.type
         /\ k.node = j.node /\ k.leaf = j.leaf /\ k.list = children /\ k.next = 1
BY DEF Goroutine, Looping

LEMMA JobLoopsOn ==
  ASSUME NEW j \in Goroutine, NEW k, k = [j EXCEPT !.next = @ + 1]
  PROVE  /\ k \in Goroutine /\ k.pc = j.pc /\ k.type = j.type
         /\ k.node = j.node /\ k.leaf = j.leaf /\ k.list = j.list /\ k.next = j.next + 1
BY DEF Goroutine

LEMMA JobStarts ==
  ASSUME NEW type \in {"newLeaf", "newServer", "failedLeaf"},
         NEW node \in IF type = "newServer" THEN Servers ELSE Leaves, calls \in Nat
  PROVE  LET j == Job(calls, type, node)
         IN  JobOK(j) /\ j.pc = "start" /\ j.type = type /\ j.node = node
<1> DEFINE j == Job(calls, type, node)
<1>1. <<>> \in Seq(Leaves) /\ Len(<<>>) = 0
  OBVIOUS
<1>2. j \in Goroutine /\ j.pc = "start" /\ j.type = type /\ j.node = node /\ j.list = <<>>
  BY <1>1 DEF Job, Goroutine
<1>3. <<type, "start">> \in Stages
  BY DEF Stages
<1> QED
  BY <1>1, <1>2, <1>3, MaxLeavesIsNat DEF JobOK

LEMMA ChangeKeepsTypes ==
  ASSUME TInv, \/ \E l \in Leaves : AddLeaf(l) \/ FailLeaf(l)
               \/ \E s \in Servers, l \in Leaves : AddServer(s, l)
               \/ \E s \in Servers : FailServer(s)
  PROVE  TInv'
<1>1. /\ calls' \in 0 .. MaxCalls /\ calls \in Nat /\ up' \in BOOLEAN
      /\ UNCHANGED <<pending, fwd, switchIndex, randLeaf, numLeafs, best, second, version>>
  BY MaxCallsAssumption DEF TInv, TypeOK, AddLeaf, FailLeaf, AddServer, FailServer, Change, tableVars, trackVars
<1>2. ASSUME /\ children' \in Seq(Leaves) /\ index' \in [Leaves -> Index]
             /\ leafOf' \in [Servers -> Leaves \cup {None}] /\ ListOK'
             /\ \A j \in jobs' : JobOK(j)
      PROVE  TInv'
  <2>1. TypeOK'
    BY <1>1, <1>2 DEF TInv, TypeOK, JobOK, Goroutine
  <2> QED
    BY <1>2, <2>1 DEF TInv
<1>3. ASSUME NEW l \in Leaves, AddLeaf(l)
      PROVE  TInv'
  <2>1. leafOf' = leafOf /\ jobs' = jobs \cup {Job(calls, "newLeaf", l)}
    BY <1>3 DEF AddLeaf
  <2>2. JobOK(Job(calls, "newLeaf", l))
    BY <1>1, JobStarts
  <2>3. children' \in Seq(Leaves) /\ index' \in [Leaves -> Index] /\ ListOK'
    BY <1>3, AddLeafList DEF TInv
  <2>4. \A j \in jobs' : JobOK(j)
    BY <2>1, <2>2 DEF TInv
  <2> QED
    BY <1>2, <2>1, <2>3, <2>4 DEF TInv, TypeOK
<1>4. ASSUME NEW l \in Leaves, FailLeaf(l)
      PROVE  TInv'
  <2>1. jobs' = jobs \cup {Job(calls, "failedLeaf", l)}
    BY <1>4 DEF FailLeaf
  <2>2. JobOK(Job(calls, "failedLeaf", l))
    BY <1>1, JobStarts
  <2>3. /\ children' \in Seq(Leaves) /\ index' \in [Leaves -> Index] /\ ListOK'
        /\ leafOf' \in [Servers -> Leaves \cup {None}]
    BY <1>4, FailLeafList DEF TInv
  <2>4. \A j \in jobs' : JobOK(j)
    BY <2>1, <2>2 DEF TInv
  <2> QED
    BY <1>2, <2>3, <2>4
<1>5. ASSUME NEW s \in Servers, NEW l \in Leaves, AddServer(s, l)
      PROVE  TInv'
  <2>1. /\ leafOf' = [leafOf EXCEPT ![s] = l] /\ l \in Live /\ children' = children /\ index' = index
        /\ jobs' = jobs \cup {Job(calls, "newServer", s)}
    BY <1>5 DEF AddServer
  <2>2. JobOK(Job(calls, "newServer", s))
    BY <1>1, JobStarts
  <2>3. leafOf' \in [Servers -> Leaves \cup {None}] /\ ListOK'
    BY <2>1 DEF TInv, TypeOK, ListOK, Live
  <2>4. \A j \in jobs' : JobOK(j)
    BY <2>1, <2>2 DEF TInv
  <2> QED
    BY <1>2, <2>1, <2>3, <2>4 DEF TInv, TypeOK
<1>6. ASSUME NEW s \in Servers, FailServer(s)
      PROVE  TInv'
  <2>1. /\ leafOf' = [leafOf EXCEPT ![s] = None] /\ children' = children /\ index' = index
        /\ jobs' = jobs
    BY <1>6 DEF FailServer
  <2>2. leafOf' \in [Servers -> Leaves \cup {None}] /\ ListOK'
    BY <2>1 DEF TInv, TypeOK, ListOK, Live
  <2> QED
    BY <1>2, <2>1, <2>2 DEF TInv, TypeOK
<1> QED
  BY <1>3, <1>4, <1>5, <1>6

(* What a goroutine's step writes is a leaf, an index or a count of leaves.*)
LEMMA StepKeepsTypes ==
  ASSUME TInv, NEW j \in jobs, Step(j)
  PROVE  TInv'
<1>1. /\ JobOK(j) /\ TypeOK /\ ListOK /\ children \in Seq(Leaves)
      /\ j \in Goroutine /\ <<j.type, j.pc>> \in Stages
  BY DEF TInv, TypeOK, JobOK
<1>2. UNCHANGED <<topoVars, version>> /\ up' \in BOOLEAN
  BY DEF Step, NewLeaf, PendLeaf, NewServer, Unpend, FailedLeaf, WritePort, WriteLeaf, WriteCount,
         WriteRegisters, ReadBest, ReadSecond, WriteBest, WriteSecond, Panic, TInv, TypeOK
<1>3. ListOK'
  BY <1>1, <1>2 DEF ListOK, topoVars, Live
<1>4. \A k \in jobs' : JobOK(k)
  <2>1. ASSUME NEW k, JobOK(k), Goto(j, k)
        PROVE  \A x \in jobs' : JobOK(x)
    BY <2>1 DEF Goto, TInv
  <2>2. ASSUME End(j) \/ jobs' = jobs
        PROVE  \A x \in jobs' : JobOK(x)
    BY <2>2 DEF End, TInv
  <2>3. CASE NewLeaf(j)
    <3>1. j.type = "newLeaf" /\ j.node \in Leaves
      BY <1>1, <2>3 DEF NewLeaf, JobOK
    <3>2. ASSUME NEW pc \in {"port", "pend"}
          PROVE  JobOK([j EXCEPT !.pc = pc, !.leaf = j.node])
      <4> DEFINE k == [j EXCEPT !.pc = pc, !.leaf = j.node]
      <4>1. <<"newLeaf", pc>> \in Stages
        BY DEF Stages
      <4>2. /\ k \in Goroutine /\ k.pc = pc /\ k.type = j.type
            /\ k.node = j.node /\ k.leaf = j.node /\ k.list = j.list /\ k.next = j.next
        BY <1>1, <3>1 DEF Goroutine
      <4> HIDE DEF k
      <4>3. JobOK(k)
        BY <1>1, <3>1, <4>1, <4>2 DEF JobOK
      <4> QED
        BY <4>3 DEF k
    <3>3. \/ jobs' = jobs
          \/ Goto(j, [j EXCEPT !.pc = IF HasServers(j.node) THEN "port" ELSE "pend", !.leaf = j.node])
      BY <2>3 DEF NewLeaf, Panic
    <3> QED
      BY <2>1, <2>2, <3>2, <3>3
  <2>4. CASE PendLeaf(j) \/ Unpend(j)
    BY <2>2, <2>4 DEF PendLeaf, Unpend
  <2>5. CASE NewServer(j)
    <3>1. j.type = "newServer" /\ j.node \in Servers
      BY <1>1, <2>5 DEF NewServer, JobOK
    <3>2. \/ End(j) \/ jobs' = jobs
          \/ leafOf[j.node] # None /\ Goto(j, [j EXCEPT !.pc = "port", !.leaf = leafOf[j.node]])
      BY <2>5 DEF NewServer, Panic
    <3>3. ASSUME leafOf[j.node] # None
          PROVE  JobOK([j EXCEPT !.pc = "port", !.leaf = leafOf[j.node]])
      <4>1. <<"newServer", "port">> \in Stages
        BY DEF Stages
      <4>2. leafOf[j.node] \in Leaves
        BY <1>1, <3>1, <3>3 DEF TypeOK
      <4> DEFINE k == [j EXCEPT !.pc = "port", !.leaf = leafOf[j.node]]
      <4>3. /\ k \in Goroutine /\ k.pc = "port" /\ k.type = j.type
            /\ k.node = j.node /\ k.leaf = leafOf[j.node] /\ k.list = j.list /\ k.next = j.next
        BY <1>1, <4>2 DEF Goroutine
      <4> HIDE DEF k
      <4>4. JobOK(k)
        BY <1>1, <3>1, <4>1, <4>2, <4>3 DEF JobOK
      <4> QED
        BY <4>4 DEF k
    <3> QED
      BY <2>1, <2>2, <3>2, <3>3
  <2>6. ASSUME j.pc \in {"port", "regs"}, Return(j)
        PROVE  \A x \in jobs' : JobOK(x)
    <3>1. CASE j.type = "newServer"
      <4>1. <<"newServer", "unpend">> \in Stages
        BY DEF Stages
      <4>2. JobOK([j EXCEPT !.pc = "unpend"])
        <5> DEFINE k == [j EXCEPT !.pc = "unpend"]
        <5>1. /\ k \in Goroutine /\ k.pc = "unpend" /\ k.type = j.type
              /\ k.node = j.node /\ k.leaf = j.leaf /\ k.list = j.list /\ k.next = j.next
          BY <1>1, JobGoesOn
        <5> HIDE DEF k
        <5>2. JobOK(k)
          BY <1>1, <2>6, <3>1, <4>1, <5>1 DEF JobOK
        <5> QED
          BY <5>2 DEF k
      <4> QED
        BY <2>1, <2>6, <3>1, <4>2 DEF Return
    <3>2. CASE j.type # "newServer"
      BY <2>2, <2>6, <3>2 DEF Return
    <3> QED
      BY <3>1, <3>2
  <2>7. ASSUME j.pc = "port" \/ (j.type = "failedLeaf" /\ j.pc = "start")
        PROVE  JobOK(Looping(j))
    <3>1. <<j.type, "loop">> \in Stages
      BY <1>1, <2>7 DEF Stages
    <3>2. Len(children) <= MaxLeaves
      BY <1>1, ListFits
    <3>3. j.type # "failedLeaf" => j.leaf \in Leaves
      BY <1>1, <2>7 DEF JobOK
    <3> DEFINE k == Looping(j)
    <3>4. /\ k \in Goroutine /\ k.pc = "loop" /\ k.type = j.type
          /\ k.node = j.node /\ k.leaf = j.leaf /\ k.list = children /\ k.next = 1
      BY <1>1, JobLoops
    <3> HIDE DEF k
    <3>5. JobOK(k)
      BY <1>1, <2>7, <3>1, <3>2, <3>3, <3>4 DEF JobOK
    <3> QED
      BY <3>5 DEF k
  <2>8. CASE WritePort(j)
    <3>1. j.pc = "port" /\ (Goto(j, Looping(j)) \/ Return(j) \/ jobs' = jobs)
      BY <2>8 DEF WritePort, Panic
    <3> QED
      BY <2>1, <2>2, <2>6, <2>7, <3>1
  <2>9. CASE FailedLeaf(j)
    BY <2>1, <2>7, <2>9 DEF FailedLeaf
  <2>10. CASE WriteLeaf(j)
    <3>1. j.pc = "loop" /\ Goto(j, [j EXCEPT !.next = @ + 1])
      BY <2>10 DEF WriteLeaf
    <3>2. j.next + 1 > 0
      BY <1>1 DEF Goroutine
    <3>3. JobOK([j EXCEPT !.next = @ + 1])
      <4> DEFINE k == [j EXCEPT !.next = @ + 1]
      <4>1. /\ k \in Goroutine /\ k.pc = j.pc /\ k.type = j.type
            /\ k.node = j.node /\ k.leaf = j.leaf /\ k.list = j.list /\ k.next = j.next + 1
        BY <1>1, JobLoopsOn
      <4> HIDE DEF k
      <4>2. JobOK(k)
        BY <1>1, <3>1, <3>2, <4>1 DEF JobOK
      <4> QED
        BY <4>2 DEF k
    <3> QED
      BY <2>1, <3>1, <3>3
  <2>11. CASE WriteCount(j)
    <3>1. j.pc = "loop" /\ Goto(j, [j EXCEPT !.pc = "regs"])
      BY <2>11 DEF WriteCount
    <3>2. <<j.type, "regs">> \in Stages
      BY <1>1, <3>1 DEF Stages
    <3>3. JobOK([j EXCEPT !.pc = "regs"])
      <4> DEFINE k == [j EXCEPT !.pc = "regs"]
      <4>1. /\ k \in Goroutine /\ k.pc = "regs" /\ k.type = j.type
            /\ k.node = j.node /\ k.leaf = j.leaf /\ k.list = j.list /\ k.next = j.next
        BY <1>1, JobGoesOn
      <4> HIDE DEF k
      <4>2. JobOK(k)
        BY <1>1, <3>1, <3>2, <4>1 DEF JobOK
      <4> QED
        BY <4>2 DEF k
    <3> QED
      BY <2>1, <3>1, <3>3
  <2>12. CASE WriteRegisters(j)
    <3>1. j.pc = "regs" /\ (Return(j) \/ jobs' = jobs)
      BY <2>12 DEF WriteRegisters, Panic
    <3> QED
      BY <2>2, <2>6, <3>1
  <2>13. CASE ReadBest(j) \/ ReadSecond(j)
    <3>1. j.type = "failedLeaf" /\ best \in Leaves /\ second \in Leaves
      BY <1>1, <2>13 DEF ReadBest, ReadSecond, TypeOK, Stages
    <3>2. ASSUME NEW pc \in {"read", "best", "second"}, NEW l \in Leaves
          PROVE  JobOK([j EXCEPT !.pc = pc, !.leaf = l])
      <4>1. <<"failedLeaf", pc>> \in Stages
        BY DEF Stages
      <4> DEFINE k == [j EXCEPT !.pc = pc, !.leaf = l]
      <4>2. /\ k \in Goroutine /\ k.pc = pc /\ k.type = j.type
            /\ k.node = j.node /\ k.leaf = l /\ k.list = j.list /\ k.next = j.next
        BY <1>1 DEF Goroutine
      <4> HIDE DEF k
      <4>3. JobOK(k)
        BY <1>1, <3>1, <4>1, <4>2 DEF JobOK
      <4> QED
        BY <4>3 DEF k
    <3>3. \/ End(j) \/ Goto(j, [j EXCEPT !.pc = "read", !.leaf = best])
          \/ Goto(j, [j EXCEPT !.pc = "best", !.leaf = second])
          \/ Goto(j, [j EXCEPT !.pc = "second", !.leaf = second])
      BY <2>13 DEF ReadBest, ReadSecond
    <3>4. /\ JobOK([j EXCEPT !.pc = "read", !.leaf = best])
          /\ JobOK([j EXCEPT !.pc = "best", !.leaf = second])
          /\ JobOK([j EXCEPT !.pc = "second", !.leaf = second])
      BY <3>1, <3>2
    <3> QED
      BY <2>1, <2>2, <3>3, <3>4
  <2>14. CASE WriteBest(j)
    <3>1. j.pc = "best" /\ Goto(j, [j EXCEPT !.pc = "second"])
      BY <2>14 DEF WriteBest
    <3>2. j.type = "failedLeaf"
      BY <1>1, <3>1 DEF Stages
    <3>3. <<"failedLeaf", "second">> \in Stages
      BY DEF Stages
    <3>4. JobOK([j EXCEPT !.pc = "second"])
      <4> DEFINE k == [j EXCEPT !.pc = "second"]
      <4>1. /\ k \in Goroutine /\ k.pc = "second" /\ k.type = j.type
            /\ k.node = j.node /\ k.leaf = j.leaf /\ k.list = j.list /\ k.next = j.next
        BY <1>1, JobGoesOn
      <4> HIDE DEF k
      <4>2. JobOK(k)
        BY <1>1, <3>2, <3>3, <4>1 DEF JobOK
      <4> QED
        BY <4>2 DEF k
    <3> QED
      BY <2>1, <3>1, <3>4
  <2>15. CASE WriteSecond(j)
    BY <2>2, <2>15 DEF WriteSecond, Panic
  <2> QED
    BY <2>3, <2>4, <2>5, <2>8, <2>9, <2>10, <2>11, <2>12, <2>13, <2>14, <2>15 DEF Step
<1>5. /\ pending' \subseteq Leaves /\ fwd' \subseteq Leaves
      /\ switchIndex' \in [Leaves -> Index \cup {None}]
      /\ randLeaf' \in [Index -> Leaves \cup {None}]
      /\ numLeafs' \in 0 .. MaxLeaves
      /\ best' \in Leaves /\ second' \in Leaves
  <2>1. /\ pending \subseteq Leaves /\ fwd \subseteq Leaves
        /\ switchIndex \in [Leaves -> Index \cup {None}] /\ index \in [Leaves -> Index]
        /\ randLeaf \in [Index -> Leaves \cup {None}]
        /\ numLeafs \in 0 .. MaxLeaves
        /\ best \in Leaves /\ second \in Leaves
    BY <1>1 DEF TypeOK
  <2>2. CASE PendLeaf(j)
    <3>1. j.leaf \in Leaves
      BY <1>1, <2>2 DEF PendLeaf, JobOK, Stages
    <3> QED
      BY <2>1, <2>2, <3>1 DEF PendLeaf, tableVars, trackVars
  <2>3. CASE Unpend(j)
    BY <2>1, <2>3 DEF Unpend, tableVars, trackVars
  <2>4. CASE WritePort(j)
    <3>1. j.leaf \in Live => j.leaf \in Leaves
      BY <1>1, LiveValue
    <3> QED
      BY <2>1, <2>4, <3>1 DEF WritePort, trackVars
  <2>5. CASE WriteLeaf(j)
    <3>1. j.next \in 1 .. Len(j.list) /\ j.list \in Seq(Leaves)
      BY <1>1, <2>5 DEF WriteLeaf, JobOK, Goroutine
    <3>2. PICK l \in Seen(j) : /\ switchIndex' = [switchIndex EXCEPT ![l] = index[l]]
                               /\ randLeaf' = [randLeaf EXCEPT ![index[l]] = l]
      BY <2>5 DEF WriteLeaf
    <3>3. l \in Leaves
      BY <1>1, <3>1, <3>2, ElementOfSeq DEF Seen
    <3>4. index[l] \in Index
      BY <2>1, <3>3
    <3> QED
      BY <2>1, <2>5, <3>2, <3>3, <3>4 DEF WriteLeaf, trackVars
  <2>6. CASE WriteCount(j)
    <3>1. Len(j.list) \in 0 .. MaxLeaves
      <4>1. j.list \in Seq(Leaves) /\ Len(j.list) <= MaxLeaves
        BY <1>1 DEF JobOK, Goroutine
      <4>2. Len(j.list) \in Nat
        BY <4>1
      <4> QED
        BY <4>1, <4>2, MaxLeavesIsNat
    <3> QED
      BY <2>1, <2>6, <3>1 DEF WriteCount, CountOf, trackVars
  <2>7. CASE WriteBest(j)
    <3>1. j.leaf \in Leaves
      BY <1>1, <2>7 DEF WriteBest, JobOK
    <3> QED
      BY <2>1, <2>7, <3>1 DEF WriteBest
  <2>8. CASE WriteSecond(j)
    <3>1. children # <<>> => Head(children) \in Leaves
      BY <1>1
    <3> QED
      BY <2>1, <2>8, <3>1 DEF WriteSecond
  <2>9. CASE NewLeaf(j) \/ NewServer(j) \/ FailedLeaf(j) \/ WriteRegisters(j) \/ ReadBest(j) \/ ReadSecond(j)
    BY <2>1, <2>9 DEF NewLeaf, NewServer, FailedLeaf, WriteRegisters, ReadBest, ReadSecond, tableVars, trackVars
  <2> QED
    BY <2>2, <2>3, <2>4, <2>5, <2>6, <2>7, <2>8, <2>9 DEF Step
<1>6. TypeOK'
  BY <1>1, <1>2, <1>4, <1>5 DEF TypeOK, topoVars, JobOK, Goroutine
<1> QED
  BY <1>3, <1>4, <1>6 DEF TInv

LEMMA InitTypes ==
  ASSUME Init
  PROVE  TInv
<1>1. PICK start \in Starts : children = start.children /\ leafOf = start.leafOf
  BY DEF Init
<1>2. /\ children \in Seq(Leaves) /\ children # <<>>
      /\ \A i, k \in 1 .. Len(children) : children[i] = children[k] => i = k
      /\ leafOf \in [Servers -> Live \cup {None}]
  <2>1. StartOK(start)
    BY StartsAssumption
  <2>2. DOMAIN children = 1 .. Len(children)
    BY <1>1, <2>1 DEF StartOK
  <2> QED
    BY <1>1, <2>1, <2>2 DEF StartOK, Live
<1>3. /\ Len(children) \in Nat /\ Len(children) <= MaxLeaves /\ MaxLeaves \in Nat
      /\ Live \subseteq Leaves
  BY <1>2, LeavesAssumption, DistinctFits, MaxLeavesIsNat, LiveValue DEF MaxLeaves
<1>4. /\ Len(children) > 0 /\ children[1] \in Leaves /\ children[Len(children)] \in Leaves
      /\ \A i \in 1 .. Len(children) : children[i] \in Leaves
  BY <1>2, <1>3
<1>5. /\ index = [l \in Leaves |-> IF l \in Live THEN Position(l) - 1 ELSE 0]
      /\ jobs = {} /\ pending = {} /\ fwd = Live
      /\ switchIndex = [l \in Leaves |-> IF l \in Live THEN index[l] ELSE None]
      /\ randLeaf = [i \in Index |-> IF i < Len(children) THEN children[i + 1] ELSE None]
      /\ numLeafs = Len(children) /\ version \in Versions
      /\ best = children[1] /\ second = children[Len(children)]
      /\ up = TRUE /\ calls = 0
  BY <1>2 DEF Init, Last
<1>6. \A l \in Live : Position(l) \in 1 .. Len(children) /\ children[Position(l)] = l
  BY <1>2, PositionValue
<1>7. index \in [Leaves -> Index]
  <2>1. ASSUME NEW l \in Leaves
        PROVE  index[l] \in Index
    BY <1>3, <1>4, <1>5, <1>6 DEF Index
  <2> QED
    BY <1>5, <2>1
<1>8. ASSUME NEW i \in 1 .. Len(children)
      PROVE  index[children[i]] = i - 1
  <2>1. children[i] \in Live /\ children[i] \in Leaves
    BY <1>2, <1>4, LiveValue
  <2>2. Position(children[i]) = i
    BY <1>2, <1>6, <2>1
  <2> QED
    BY <1>5, <2>1, <2>2
<1>9. switchIndex \in [Leaves -> Index \cup {None}]
  BY <1>5, <1>7
<1>10. randLeaf \in [Index -> Leaves \cup {None}]
  <2>1. ASSUME NEW i \in Index
        PROVE  randLeaf[i] \in Leaves \cup {None}
    <3>1. i \in Nat /\ (i < Len(children) => i + 1 \in 1 .. Len(children))
      BY <1>3 DEF Index
    <3> QED
      BY <1>4, <1>5, <3>1
  <2> QED
    BY <1>5, <2>1
<1>11. TypeOK
  BY <1>2, <1>3, <1>4, <1>5, <1>7, <1>9, <1>10, MaxCallsAssumption DEF TypeOK
<1>12. ListOK
  BY <1>2, <1>3, <1>8 DEF ListOK
<1> QED
  BY <1>5, <1>11, <1>12 DEF TInv

LEMMA NextKeepsTypes == TInv /\ [Next]_vars => TInv'
<1>1. ASSUME TInv, UNCHANGED vars
      PROVE  TInv'
  BY <1>1 DEF TInv, TypeOK, ListOK, Live, vars, topoVars, tableVars, trackVars
<1>2. ASSUME TInv, NEW l \in Leaves, LoadSignal(l)
      PROVE  TInv'
  BY <1>2 DEF TInv, TypeOK, ListOK, Live, LoadSignal, topoVars
<1>3. ASSUME TInv, Next
      PROVE  TInv'
  BY <1>2, <1>3, ChangeKeepsTypes, StepKeepsTypes DEF Next
<1> QED
  BY <1>1, <1>3

-----------------------------------------------------------------------------
(* The tables, when a change waits for the goroutines of those before it.  *)

LEMMA PInvOfNone ==
  ASSUME jobs' = {},
         up' => /\ PendingOK'
                /\ version' = "v1" => Consistent'
                /\ version' = "v2" => OneAlive'
  PROVE  PInv'
BY DEF PInv

LEMMA PInvOfOne ==
  ASSUME NEW j, jobs' = {j},
         up' => /\ Serves(j)' /\ PendingOK'
                /\ version' = "v1" => WrittenBy(j)'
                /\ version' = "v2" => TrackedBy(j)'
  PROVE  PInv'
<1>1. jobs' # {} /\ \A k \in jobs' : k = j
  OBVIOUS
<1>2. \A k \in jobs' : Serves(k)' <=> Serves(j)'
  BY <1>1
<1>3. \A k \in jobs' : (WrittenBy(k)' <=> WrittenBy(j)') /\ (TrackedBy(k)' <=> TrackedBy(j)')
  BY <1>1
<1> QED
  BY <1>1, <1>2, <1>3 DEF PInv

LEMMA QuietFacts ==
  ASSUME TInv, PInv, up, jobs = {}
  PROVE  /\ \A l \in pending \cap Live : ~HasServers(l)
         /\ version = "v1" => /\ numLeafs <= Len(children) /\ numLeafs \in Nat
                              /\ InTables(numLeafs)
                              /\ \A l \in Live : index[l] >= numLeafs => l \in pending
         /\ version = "v2" => OneAlive
<1>1. numLeafs \in Nat
  BY MaxLeavesIsNat DEF TInv, TypeOK
<1> QED
  BY <1>1 DEF PInv, PendingOK, Consistent, Awaited

LEMMA PacedAddLeaf ==
  ASSUME Paced, TInv, PInv, NEW l \in Leaves, AddLeaf(l)
  PROVE  PInv'
<1>1. PICK j : j = Job(calls, "newLeaf", l)
  OBVIOUS
<1>2. /\ up /\ up' = up /\ jobs = {} /\ jobs' = {j} /\ leafOf' = leafOf
      /\ UNCHANGED <<pending, numLeafs, randLeaf, switchIndex, best, second, version>>
  BY <1>1 DEF AddLeaf, Change, tableVars, trackVars
<1>3. /\ children \in Seq(Leaves) /\ calls \in Nat /\ index \in [Leaves -> Index]
      /\ Len(children) \in Nat /\ ListOK /\ TypeOK
  BY DEF TInv, TypeOK
<1>4. j.pc = "start" /\ j.type = "newLeaf" /\ j.node = l
  BY <1>1 DEF Job
<1>5. /\ Len(children') = Len(children) + 1
      /\ \A i \in 1 .. Len(children) : children'[i] = children[i]
      /\ Live' = Live \cup {l} /\ l \notin Live
      /\ \A m \in Leaves : m # l => index'[m] = index[m]
  BY <1>3, AddLeafList
<1>6. \A m : HasServers(m)' <=> HasServers(m)
  BY <1>2 DEF HasServers
<1>7. ~HasServers(l)
  BY <1>3, <1>5, NoneIsNoLeaf DEF HasServers, ListOK
<1>8. Serves(j)'
  BY <1>4, <1>5, <1>6, <1>7 DEF Serves
<1>9. PendingOK'
  BY <1>2, <1>5, <1>6, <1>7, QuietFacts DEF PendingOK
<1>10. ASSUME version' = "v1"
       PROVE  WrittenBy(j)'
  <2>1. /\ numLeafs <= Len(children) /\ numLeafs \in Nat /\ InTables(numLeafs)
        /\ \A m \in Live : index[m] >= numLeafs => m \in pending
    BY <1>2, <1>10, QuietFacts
  <2>2. numLeafs' <= Len(children') /\ numLeafs' = numLeafs
    BY <1>2, <1>3, <1>5, <2>1
  <2>3. InTables(numLeafs)'
    <3>1. \A i \in 1 .. numLeafs : i \in 1 .. Len(children)
      BY <1>3, <2>1
    <3> QED
      BY <1>2, <1>5, <2>1, <2>2, <3>1 DEF InTables
  <2>4. ASSUME NEW m \in Live', index'[m] >= numLeafs'
        PROVE  Awaited(m)'
    <3>1. CASE m = l
      BY <1>2, <1>4, <3>1 DEF Awaited
    <3>2. CASE m # l
      <4>1. m \in Live /\ m \in Leaves
        BY <1>3, <1>5, <3>2, LiveValue
      <4> QED
        BY <1>2, <1>5, <2>1, <2>4, <3>2, <4>1 DEF Awaited
    <3> QED
      BY <3>1, <3>2
  <2>5. Consistent'
    BY <2>2, <2>3, <2>4 DEF Consistent
  <2> QED
    BY <1>4, <2>5 DEF WrittenBy
<1>11. ASSUME version' = "v2"
       PROVE  TrackedBy(j)'
  <2>1. OneAlive
    BY <1>2, <1>11, QuietFacts
  <2>2. OneAlive'
    BY <1>2, <1>5, <2>1 DEF OneAlive
  <2> QED
    BY <1>4, <2>2 DEF TrackedBy
<1> QED
  BY <1>2, <1>8, <1>9, <1>10, <1>11, PInvOfOne

LEMMA PacedFailLeaf ==
  ASSUME Paced, TInv, PInv, NEW l \in Leaves, FailLeaf(l)
  PROVE  PInv'
<1>1. PICK j : j = Job(calls, "failedLeaf", l)
  OBVIOUS
<1>2. /\ up /\ up' = up /\ jobs = {} /\ jobs' = {j}
      /\ leafOf' = [s \in Servers |-> IF leafOf[s] = l THEN None ELSE leafOf[s]]
      /\ UNCHANGED <<pending, best, second, version>>
  BY <1>1 DEF FailLeaf, Change, tableVars, trackVars
<1>3. j.pc = "start" /\ j.type = "failedLeaf" /\ j.node = l
  BY <1>1 DEF Job
<1>4. Live' = Live \ {l} /\ Live \subseteq Leaves
  BY FailLeafList, LiveValue DEF TInv, TypeOK
<1>5. \A m \in Leaves : HasServers(m)' => HasServers(m)
  BY <1>2, NoneIsNoLeaf DEF HasServers
<1>6. Serves(j)'
  BY <1>3 DEF Serves
<1>7. PendingOK'
  BY <1>2, <1>4, <1>5, QuietFacts DEF PendingOK
<1>8. WrittenBy(j)'
  BY <1>3 DEF WrittenBy
<1>9. ASSUME version' = "v2"
      PROVE  TrackedBy(j)'
  <2>1. OneAlive
    BY <1>2, <1>9, QuietFacts
  <2>2. OneAlive' \/ j.node \in {best, second}'
    BY <1>2, <1>3, <1>4, <2>1 DEF OneAlive
  <2> QED
    BY <1>3, <2>2 DEF TrackedBy
<1> QED
  BY <1>2, <1>6, <1>7, <1>8, <1>9, PInvOfOne

LEMMA PacedAddServer ==
  ASSUME Paced, TInv, PInv, NEW s \in Servers, NEW l \in Leaves, AddServer(s, l)
  PROVE  PInv'
<1>1. PICK j : j = Job(calls, "newServer", s)
  OBVIOUS
<1>2. /\ up /\ up' = up /\ jobs = {} /\ jobs' = {j} /\ leafOf' = [leafOf EXCEPT ![s] = l]
      /\ UNCHANGED <<children, index, pending, numLeafs, randLeaf, switchIndex, best, second, version>>
  BY <1>1 DEF AddServer, Change, tableVars, trackVars
<1>3. j.pc = "start" /\ j.type = "newServer" /\ j.node = s
  BY <1>1 DEF Job
<1>4. leafOf \in [Servers -> Leaves \cup {None}] /\ leafOf'[s] = l
  BY <1>2 DEF TInv, TypeOK
<1>5. Live' = Live /\ (OneAlive' <=> OneAlive)
  BY <1>2 DEF Live, OneAlive
<1>6. \A m : m # l /\ m # None => (HasServers(m)' <=> HasServers(m))
  <2>1. \A x \in Servers : x # s => leafOf'[x] = leafOf[x]
    BY <1>2, <1>4
  <2>2. leafOf[s] = None
    BY DEF AddServer
  <2>3. ASSUME NEW m, m # l, HasServers(m)
        PROVE  m = None \/ HasServers(m)'
    BY <2>1, <2>2, <2>3 DEF HasServers
  <2>4. ASSUME NEW m, m # l, HasServers(m)'
        PROVE  HasServers(m)
    BY <1>4, <2>1, <2>4 DEF HasServers
  <2> QED
    BY <2>3, <2>4
<1>7. Serves(j)'
  BY <1>3, <1>4, NoneIsNoLeaf DEF Serves
<1>8. PendingOK'
  <2>1. ASSUME NEW m \in pending' \cap Live', HasServers(m)'
        PROVE  leafOf'[s] = m
    <3>1. m \in pending \cap Live /\ m # None
      BY <1>2, <1>5, NoneIsNoLeaf DEF TInv, TypeOK
    <3> QED
      BY <1>2, <1>4, <1>6, <2>1, <3>1, QuietFacts
  <2> QED
    BY <1>2, <1>3, <2>1 DEF PendingOK
<1>9. ASSUME version' = "v1"
      PROVE  WrittenBy(j)'
  <2>1. /\ numLeafs <= Len(children) /\ InTables(numLeafs)
        /\ \A m \in Live : index[m] >= numLeafs => m \in pending
    BY <1>2, <1>9, QuietFacts
  <2>2. Consistent'
    BY <1>2, <1>5, <2>1 DEF Consistent, InTables, Awaited
  <2> QED
    BY <1>3, <2>2 DEF WrittenBy
<1>10. ASSUME version' = "v2"
       PROVE  TrackedBy(j)'
  BY <1>2, <1>3, <1>5, <1>10, QuietFacts DEF TrackedBy
<1> QED
  BY <1>2, <1>7, <1>8, <1>9, <1>10, PInvOfOne

LEMMA PacedFailServer ==
  ASSUME Paced, TInv, PInv, NEW s \in Servers, FailServer(s)
  PROVE  PInv'
<1>1. /\ up /\ up' = up /\ jobs = {} /\ jobs' = {} /\ leafOf' = [leafOf EXCEPT ![s] = None]
      /\ UNCHANGED <<children, index, pending, numLeafs, randLeaf, switchIndex, best, second, version>>
  BY DEF FailServer, Change, tableVars, trackVars
<1>2. leafOf \in [Servers -> Leaves \cup {None}] /\ children \in Seq(Leaves)
  BY DEF TInv, TypeOK
<1>3. Live' = Live /\ (OneAlive' <=> OneAlive) /\ Live \subseteq Leaves
  BY <1>1, <1>2, LiveValue DEF Live, OneAlive
<1>4. \A m \in Leaves : HasServers(m)' => HasServers(m)
  BY <1>1, <1>2, NoneIsNoLeaf DEF HasServers
<1>5. PendingOK'
  BY <1>1, <1>3, <1>4, QuietFacts DEF PendingOK
<1>6. version' = "v1" => Consistent'
  BY <1>1, <1>3, QuietFacts DEF Consistent, InTables, Awaited
<1> QED
  BY <1>1, <1>3, <1>5, <1>6, QuietFacts, PInvOfNone

LEMMA PacedLoadSignal ==
  ASSUME TInv, PInv, NEW l \in Leaves, LoadSignal(l)
  PROVE  PInv'
<1>1. /\ up /\ up' = up /\ jobs' = jobs /\ version = "v2" /\ version' = "v2" /\ l \in Live
      /\ \/ best' = l /\ second' = IF best = l THEN second ELSE best
         \/ l # best /\ second' = l /\ best' = best
      /\ UNCHANGED <<children, index, leafOf, pending, numLeafs, randLeaf, switchIndex>>
  BY DEF LoadSignal, topoVars
<1>2. Live' = Live /\ OneAlive'
  BY <1>1 DEF Live, OneAlive
<1>3. PendingOK' /\ \A j \in jobs : Serves(j)'
  BY <1>1, <1>2 DEF PInv, PendingOK, Serves, HasServers
<1>4. ASSUME NEW j \in jobs
      PROVE  TrackedBy(j)'
  BY <1>2 DEF TrackedBy
<1> QED
  BY <1>1, <1>2, <1>3, <1>4 DEF PInv

-----------------------------------------------------------------------------
(* The steps of the one goroutine there is.                                *)

LEMMA AloneFacts ==
  ASSUME TInv, PInv, up, NEW j \in jobs
  PROVE  /\ jobs = {j} /\ JobOK(j) /\ j \in Goroutine /\ <<j.type, j.pc>> \in Stages
         /\ Serves(j)
         /\ version = "v1" => WrittenBy(j)
         /\ version = "v2" => TrackedBy(j)
         /\ \A l \in pending \cap Live : HasServers(l) => j.type = "newServer" /\ leafOf[j.node] = l
<1>1. jobs = {j}
  BY DEF PInv
<1> QED
  BY <1>1 DEF PInv, TInv, JobOK, PendingOK

LEMMA AloneMoves ==
  ASSUME NEW j, jobs = {j}, NEW k
  PROVE  /\ Goto(j, k) => jobs' = {k}
         /\ End(j) => jobs' = {}
BY DEF Goto, End

(* The process ends, and nothing is claimed any more.                      *)
LEMMA PanicKeeps ==
  ASSUME PInv, Panic
  PROVE  PInv'
BY DEF PInv, Panic

(* What depends on the topology only stays as it is.                       *)
LEMMA SameTopology ==
  ASSUME UNCHANGED topoVars
  PROVE  /\ children' = children /\ index' = index /\ leafOf' = leafOf /\ Live' = Live
         /\ \A l : HasServers(l)' <=> HasServers(l)
         /\ best' = best /\ second' = second => (OneAlive' <=> OneAlive)
<1>1. children' = children /\ index' = index /\ leafOf' = leafOf
  BY DEF topoVars
<1>2. Live' = Live
  BY <1>1 DEF Live
<1> QED
  BY <1>1, <1>2 DEF HasServers, OneAlive

LEMMA PacedNewLeaf ==
  ASSUME TInv, PInv, up, NEW j \in jobs, Step(j), NewLeaf(j)
  PROVE  PInv'
<1>1. /\ jobs = {j} /\ j \in Goroutine /\ Serves(j) /\ j.type = "newLeaf" /\ j.pc = "start"
      /\ \A l \in pending \cap Live : ~HasServers(l)
      /\ version = "v1" => Consistent
      /\ version = "v2" => OneAlive
  BY AloneFacts DEF NewLeaf, WrittenBy, TrackedBy
<1>2. j.node \in Live /\ ~HasServers(j.node)
  BY <1>1 DEF Serves
<1>3. PICK k : k = [j EXCEPT !.pc = "pend", !.leaf = j.node]
  OBVIOUS
<1>4. /\ k.pc = "pend" /\ k.type = "newLeaf" /\ k.node = j.node /\ k.leaf = j.node
  BY <1>1, <1>3 DEF Goroutine
<1>5. /\ Goto(j, k) /\ up' = up /\ UNCHANGED topoVars /\ version' = version
      /\ UNCHANGED <<pending, numLeafs, randLeaf, switchIndex, best, second>>
  BY <1>2, <1>3 DEF NewLeaf, Step, tableVars, trackVars
<1>6. jobs' = {k}
  BY <1>1, <1>5, AloneMoves
<1>7. Serves(k)' /\ PendingOK'
  BY <1>1, <1>2, <1>4, <1>5, SameTopology DEF Serves, PendingOK
<1>8. version' = "v1" => WrittenBy(k)'
  <2>1. \A l : Awaited(l) => Awaited(l)'
    BY <1>1, <1>4, <1>5, <1>6 DEF Awaited
  <2>2. Consistent => Consistent'
    BY <1>5, <2>1, SameTopology DEF Consistent, InTables
  <2> QED
    BY <1>1, <1>4, <1>5, <2>2 DEF WrittenBy
<1>9. version' = "v2" => TrackedBy(k)'
  BY <1>1, <1>4, <1>5, SameTopology DEF TrackedBy
<1> QED
  BY <1>6, <1>7, <1>8, <1>9, PInvOfOne

LEMMA PacedPendLeaf ==
  ASSUME TInv, PInv, up, NEW j \in jobs, Step(j), PendLeaf(j)
  PROVE  PInv'
<1>1. /\ jobs = {j} /\ Serves(j) /\ j.pc = "pend" /\ j.type = "newLeaf"
      /\ \A l \in pending \cap Live : ~HasServers(l)
      /\ version = "v1" => Consistent
      /\ version = "v2" => OneAlive
  BY AloneFacts DEF PendLeaf, WrittenBy, TrackedBy, Stages
<1>2. j.leaf = j.node /\ ~HasServers(j.node)
  BY <1>1 DEF Serves
<1>3. /\ pending' = pending \cup {j.leaf} /\ jobs' = {}
      /\ UNCHANGED topoVars /\ version' = version
      /\ UNCHANGED <<numLeafs, randLeaf, switchIndex, best, second>>
  BY <1>1, AloneMoves DEF PendLeaf, Step, tableVars, trackVars
<1>4. PendingOK'
  BY <1>1, <1>2, <1>3, SameTopology DEF PendingOK
<1>5. version' = "v1" => Consistent'
  <2>1. \A l : Awaited(l) => Awaited(l)'
    BY <1>1, <1>2, <1>3 DEF Awaited
  <2> QED
    BY <1>1, <1>3, <2>1, SameTopology DEF Consistent, InTables
<1> QED
  BY <1>1, <1>3, <1>4, <1>5, SameTopology, PInvOfNone

LEMMA PacedNewServer ==
  ASSUME TInv, PInv, up, NEW j \in jobs, Step(j), NewServer(j)
  PROVE  PInv'
<1>1. /\ jobs = {j} /\ j \in Goroutine /\ Serves(j) /\ j.type = "newServer" /\ j.pc = "start"
      /\ \A l \in pending \cap Live : HasServers(l) => leafOf[j.node] = l
      /\ version = "v1" => Consistent
      /\ version = "v2" => OneAlive
  BY AloneFacts DEF NewServer, WrittenBy, TrackedBy
<1>2. leafOf[j.node] # None
  BY <1>1 DEF Serves
<1>3. PICK k : k = [j EXCEPT !.pc = "port", !.leaf = leafOf[j.node]]
  OBVIOUS
<1>4. k.pc = "port" /\ k.type = "newServer" /\ k.node = j.node /\ k.leaf = leafOf[j.node]
  BY <1>1, <1>3 DEF Goroutine
<1>5. /\ IF leafOf[j.node] \in pending THEN Goto(j, k) ELSE End(j)
      /\ UNCHANGED topoVars /\ version' = version
      /\ UNCHANGED <<pending, numLeafs, randLeaf, switchIndex, best, second>>
  BY <1>2, <1>3 DEF NewServer, Step, tableVars, trackVars
<1>6. version' = "v1" => Consistent'
  <2>1. \A l : Awaited(l) => Awaited(l)'
    BY <1>1, <1>5 DEF Awaited
  <2> QED
    BY <1>1, <1>5, <2>1, SameTopology DEF Consistent, InTables
<1>7. CASE leafOf[j.node] \in pending
  <2>1. jobs' = {k}
    BY <1>1, <1>5, <1>7, AloneMoves
  <2>2. Serves(k)' /\ PendingOK'
    BY <1>1, <1>2, <1>4, <1>5, <2>1, SameTopology DEF Serves, PendingOK
  <2>3. (version' = "v1" => WrittenBy(k)') /\ (version' = "v2" => TrackedBy(k)')
    BY <1>1, <1>4, <1>5, <1>6, SameTopology DEF WrittenBy, TrackedBy
  <2> QED
    BY <2>1, <2>2, <2>3, PInvOfOne
<1>8. CASE leafOf[j.node] \notin pending
  <2>1. jobs' = {}
    BY <1>1, <1>5, <1>8, AloneMoves
  <2>2. PendingOK'
    BY <1>1, <1>5, <1>8, SameTopology DEF PendingOK
  <2> QED
    BY <1>1, <1>5, <1>6, <2>1, <2>2, SameTopology, PInvOfNone
<1> QED
  BY <1>7, <1>8

(* With all leaves in the tables, nothing has to be pending.               *)
LEMMA AllInTables ==
  ASSUME TInv, numLeafs = Len(children)
  PROVE  numLeafs <= Len(children) /\ \A l \in Live : ~ (index[l] >= numLeafs)
<1>1. \A l \in Live : ~ (index[l] >= numLeafs)
  <2>1. ASSUME NEW l \in Live
        PROVE  ~ (index[l] >= numLeafs)
    <3>1. index[l] + 1 \in 1 .. Len(children) /\ Len(children) \in Nat
      BY ListFits DEF TInv
    <3>2. index[l] \in Int
      <4>1. Live \subseteq Leaves /\ index \in [Leaves -> Index]
        BY LiveValue DEF TInv, TypeOK
      <4> QED
        BY <4>1, MaxLeavesIsNat DEF Index
    <3> QED
      BY <3>1, <3>2
  <2> QED
    BY <2>1
<1>2. numLeafs <= Len(children)
  BY ListFits DEF TInv
<1> QED
  BY <1>1, <1>2

LEMMA PacedUnpend ==
  ASSUME TInv, PInv, up, NEW j \in jobs, Step(j), Unpend(j)
  PROVE  PInv'
<1>1. /\ jobs = {j} /\ Serves(j) /\ j.type = "newServer" /\ j.pc = "unpend"
      /\ \A l \in pending \cap Live : HasServers(l) => leafOf[j.node] = l
      /\ version = "v1" => numLeafs = Len(children) /\ InTables(numLeafs)
      /\ version = "v2" => OneAlive
  BY AloneFacts DEF Unpend, WrittenBy, TrackedBy, Stages
<1>2. j.leaf = leafOf[j.node]
  BY <1>1 DEF Serves
<1>3. /\ pending' = pending \ {j.leaf} /\ jobs' = {}
      /\ UNCHANGED topoVars /\ version' = version
      /\ UNCHANGED <<numLeafs, randLeaf, switchIndex, best, second>>
  BY <1>1, AloneMoves DEF Unpend, Step, tableVars, trackVars
<1>4. PendingOK'
  BY <1>1, <1>2, <1>3, SameTopology DEF PendingOK
<1>5. version = "v1" => numLeafs <= Len(children) /\ \A l \in Live : ~ (index[l] >= numLeafs)
  BY <1>1, AllInTables
<1>6. version' = "v1" => Consistent'
  BY <1>1, <1>3, <1>5, SameTopology DEF Consistent, InTables
<1> QED
  BY <1>1, <1>3, <1>4, <1>6, SameTopology, PInvOfNone

(* OnLeafChange starts its loop over the leaves.                           *)
LEMMA LoopStarts ==
  ASSUME TInv, PInv, up, NEW j \in jobs, version = "v1", j.pc \in {"start", "port"},
         Goto(j, Looping(j)), UNCHANGED topoVars, version' = version,
         UNCHANGED <<pending, numLeafs, randLeaf, switchIndex, best, second>>
  PROVE  j.type = "failedLeaf" \/ j.pc = "port" => PInv'
<1> SUFFICES ASSUME j.type = "failedLeaf" \/ j.pc = "port"
             PROVE  PInv'
  OBVIOUS
<1>1. /\ jobs = {j} /\ j \in Goroutine /\ Serves(j)
      /\ \A l \in pending \cap Live : HasServers(l) => j.type = "newServer" /\ leafOf[j.node] = l
  BY AloneFacts
<1>2. PICK k : k = Looping(j)
  OBVIOUS
<1>3. children \in Seq(Leaves) /\ Len(children) \in Nat
  BY LiveValue DEF TInv, TypeOK
<1>4. /\ k.pc = "loop" /\ k.type = j.type /\ k.node = j.node /\ k.leaf = j.leaf
      /\ k.list = children /\ k.next = 1
  BY <1>1, <1>2, <1>3, JobLoops
<1>5. jobs' = {k}
  BY <1>1, <1>2, AloneMoves
<1>6. j.type # "newLeaf"
  BY <1>1 DEF Serves
<1>7. Serves(k)'
  BY <1>1, <1>4, <1>6, SameTopology DEF Serves
<1>8. PendingOK'
  BY <1>1, <1>4, <1>5, SameTopology DEF PendingOK
<1>9. WrittenBy(k)'
  <2>1. InTables(k.next - 1)'
    BY <1>4 DEF InTables
  <2> QED
    BY <1>3, <1>4, <2>1, SameTopology DEF WrittenBy
<1> QED
  BY <1>5, <1>7, <1>8, <1>9, PInvOfOne

(* OnLeafChange ends, with every leaf in the tables under v1.              *)
LEMMA Returned ==
  ASSUME TInv, PInv, up, NEW j \in jobs, j.pc \in {"port", "regs"},
         version = "v1" => numLeafs = Len(children) /\ InTables(numLeafs),
         version = "v2" => OneAlive,
         Return(j), UNCHANGED topoVars, version' = version,
         UNCHANGED <<pending, numLeafs, randLeaf, switchIndex, best, second>>
  PROVE  PInv'
<1>1. /\ jobs = {j} /\ j \in Goroutine /\ Serves(j)
      /\ \A l \in pending \cap Live : HasServers(l) => j.type = "newServer" /\ leafOf[j.node] = l
  BY AloneFacts
<1>2. CASE j.type = "newServer"
  <2>1. PICK k : k = [j EXCEPT !.pc = "unpend"]
    OBVIOUS
  <2>2. k.pc = "unpend" /\ k.type = "newServer" /\ k.node = j.node /\ k.leaf = j.leaf
    BY <1>1, <1>2, <2>1 DEF Goroutine
  <2>3. jobs' = {k}
    BY <1>1, <1>2, <2>1, AloneMoves DEF Return
  <2>4. Serves(k)'
    BY <1>1, <1>2, <2>2, SameTopology DEF Serves
  <2>5. PendingOK'
    BY <1>1, <2>2, <2>3, SameTopology DEF PendingOK
  <2>6. version' = "v1" => WrittenBy(k)'
    BY <2>2, SameTopology DEF WrittenBy, InTables
  <2>7. version' = "v2" => TrackedBy(k)'
    BY <2>2, SameTopology DEF TrackedBy
  <2> QED
    BY <2>3, <2>4, <2>5, <2>6, <2>7, PInvOfOne
<1>3. CASE j.type # "newServer"
  <2>1. jobs' = {}
    BY <1>1, <1>3, AloneMoves DEF Return
  <2>2. PendingOK'
    BY <1>1, <1>3, SameTopology DEF PendingOK
  <2>3. version = "v1" => numLeafs <= Len(children) /\ \A l \in Live : ~ (index[l] >= numLeafs)
    BY AllInTables
  <2>4. version' = "v1" => Consistent'
    BY <2>3, SameTopology DEF Consistent, InTables
  <2> QED
    BY <2>1, <2>2, <2>4, SameTopology, PInvOfNone
<1> QED
  BY <1>2, <1>3

LEMMA PacedWritePort ==
  ASSUME TInv, PInv, up, NEW j \in jobs, Step(j), WritePort(j)
  PROVE  PInv'
<1>1. /\ Serves(j) /\ j.pc = "port" /\ <<j.type, j.pc>> \in Stages
      /\ version = "v2" => TrackedBy(j)
  BY AloneFacts DEF WritePort
<1>2. j.type = "newServer"
  BY <1>1 DEF Serves, Stages
<1>3. /\ IF j.leaf \notin Live THEN Panic
         ELSE IF version = "v1" THEN Goto(j, Looping(j)) ELSE Return(j)
      /\ UNCHANGED topoVars /\ version' = version
      /\ UNCHANGED <<pending, numLeafs, randLeaf, switchIndex, best, second>>
  BY DEF WritePort, Step, trackVars
<1>4. version = "v2" => OneAlive
  BY <1>1, <1>2 DEF TrackedBy
<1>5. CASE j.leaf \notin Live
  BY <1>3, <1>5, PanicKeeps
<1>6. CASE j.leaf \in Live /\ version = "v1"
  BY <1>1, <1>3, <1>6, LoopStarts
<1>7. CASE j.leaf \in Live /\ version # "v1"
  BY <1>1, <1>3, <1>4, <1>7, Returned
<1> QED
  BY <1>5, <1>6, <1>7

LEMMA PacedFailedLeaf ==
  ASSUME TInv, PInv, up, NEW j \in jobs, Step(j), FailedLeaf(j)
  PROVE  PInv'
<1>1. /\ j.type = "failedLeaf" /\ j.pc = "start" /\ version = "v1" /\ Goto(j, Looping(j))
      /\ UNCHANGED topoVars /\ version' = version
      /\ UNCHANGED <<pending, numLeafs, randLeaf, switchIndex, best, second>>
  BY DEF FailedLeaf, Step, tableVars, trackVars
<1> QED
  BY <1>1, LoopStarts

(* Paced, the loop sees the leaves where they are.                         *)
LEMMA PacedWriteLeaf ==
  ASSUME TInv, PInv, up, NEW j \in jobs, Step(j), WriteLeaf(j)
  PROVE  PInv'
<1>1. /\ jobs = {j} /\ j \in Goroutine /\ Serves(j) /\ j.pc = "loop" /\ JobOK(j)
      /\ version = "v1" => WrittenBy(j)
      /\ \A l \in pending \cap Live : HasServers(l) => j.type = "newServer" /\ leafOf[j.node] = l
  BY AloneFacts DEF WriteLeaf
<1>2. version = "v1" /\ j.list = children /\ InTables(j.next - 1)
  BY <1>1 DEF Serves, WrittenBy
<1>3. /\ children \in Seq(Leaves) /\ Len(children) \in Nat /\ ListOK /\ TypeOK
      /\ \A i \in 1 .. Len(children) : children[i] \in Leaves
  BY ListFits DEF TInv, TypeOK
<1>4. j.next \in 1 .. Len(children)
  BY <1>1, <1>2, <1>3 DEF WriteLeaf, JobOK, Goroutine
<1>5. PICK n \in 1 .. Len(children) : n = j.next
  BY <1>4
<1>6. Seen(j) = {children[n]}
  BY <1>2, <1>5 DEF Seen
<1>7. index[children[n]] = n - 1 /\ children[n] \in Leaves
  BY <1>3, <1>5 DEF ListOK
<1>8. /\ switchIndex' = [switchIndex EXCEPT ![children[n]] = n - 1]
      /\ randLeaf' = [randLeaf EXCEPT ![n - 1] = children[n]]
      /\ Goto(j, [j EXCEPT !.next = @ + 1])
      /\ UNCHANGED topoVars /\ version' = version
      /\ UNCHANGED <<pending, numLeafs, best, second>>
  BY <1>6, <1>7 DEF WriteLeaf, Step, trackVars
<1>9. PICK k : k = [j EXCEPT !.next = @ + 1]
  OBVIOUS
<1>10. /\ k.pc = "loop" /\ k.type = j.type /\ k.node = j.node /\ k.leaf = j.leaf
       /\ k.list = children /\ k.next = n + 1
  BY <1>1, <1>2, <1>5, <1>9, JobLoopsOn
<1>11. jobs' = {k}
  BY <1>1, <1>8, <1>9, AloneMoves
<1>12. Serves(k)'
  BY <1>1, <1>8, <1>10, SameTopology DEF Serves
<1>13. PendingOK'
  BY <1>1, <1>8, <1>10, <1>11, SameTopology DEF PendingOK
<1>14. \A i \in 1 .. n : randLeaf'[i - 1] = children[i] /\ switchIndex'[children[i]] = i - 1
  <2>1. /\ switchIndex \in [Leaves -> Index \cup {None}] /\ randLeaf \in [Index -> Leaves \cup {None}]
        /\ Len(children) <= MaxLeaves /\ MaxLeaves \in Nat
    BY <1>3, ListFits DEF TypeOK
  <2>2. ASSUME NEW i \in 1 .. n
        PROVE  randLeaf'[i - 1] = children[i] /\ switchIndex'[children[i]] = i - 1
    <3>1. i \in 1 .. Len(children) /\ i - 1 \in Index /\ n - 1 \in Index /\ children[i] \in Leaves
      BY <1>3, <2>1 DEF Index
    <3>2. CASE i = n
      BY <1>7, <1>8, <2>1, <3>1, <3>2
    <3>3. CASE i # n
      <4>1. i \in 1 .. (j.next - 1) /\ children[i] # children[n] /\ i - 1 # n - 1
        BY <1>3, <1>5, <3>1, <3>3 DEF ListOK
      <4>2. randLeaf[i - 1] = children[i] /\ switchIndex[children[i]] = i - 1
        BY <1>2, <4>1 DEF InTables
      <4> QED
        BY <1>7, <1>8, <2>1, <3>1, <4>1, <4>2
    <3> QED
      BY <3>2, <3>3
  <2> QED
    BY <2>2
<1>15. WrittenBy(k)'
  <2>1. k.next - 1 = n /\ k.next <= Len(children) + 1
    BY <1>3, <1>10
  <2>2. InTables(k.next - 1)'
    BY <1>8, <1>14, <2>1, SameTopology DEF InTables
  <2> QED
    BY <1>8, <1>10, <2>1, <2>2, SameTopology DEF WrittenBy
<1> QED
  BY <1>2, <1>8, <1>11, <1>12, <1>13, <1>15, PInvOfOne

LEMMA PacedWriteCount ==
  ASSUME TInv, PInv, up, NEW j \in jobs, Step(j), WriteCount(j)
  PROVE  PInv'
<1>1. /\ jobs = {j} /\ j \in Goroutine /\ Serves(j) /\ j.pc = "loop" /\ JobOK(j)
      /\ version = "v1" => WrittenBy(j)
      /\ \A l \in pending \cap Live : HasServers(l) => j.type = "newServer" /\ leafOf[j.node] = l
  BY AloneFacts DEF WriteCount
<1>2. version = "v1" /\ j.list = children /\ InTables(j.next - 1) /\ j.next <= Len(children) + 1
  BY <1>1 DEF Serves, WrittenBy
<1>3. Len(children) \in Nat
  BY ListFits DEF TInv
<1>4. j.next - 1 = Len(children)
  BY <1>1, <1>2, <1>3 DEF WriteCount, Goroutine
<1>5. /\ numLeafs' = Len(children) /\ Goto(j, [j EXCEPT !.pc = "regs"])
      /\ UNCHANGED topoVars /\ version' = version
      /\ UNCHANGED <<pending, randLeaf, switchIndex, best, second>>
  BY <1>2 DEF WriteCount, CountOf, Step, trackVars
<1>6. PICK k : k = [j EXCEPT !.pc = "regs"]
  OBVIOUS
<1>7. k.pc = "regs" /\ k.type = j.type /\ k.node = j.node /\ k.leaf = j.leaf
  BY <1>1, <1>6, JobGoesOn
<1>8. jobs' = {k}
  BY <1>1, <1>5, <1>6, AloneMoves
<1>9. Serves(k)'
  BY <1>1, <1>2, <1>5, <1>7, SameTopology DEF Serves
<1>10. PendingOK'
  BY <1>1, <1>5, <1>7, <1>8, SameTopology DEF PendingOK
<1>11. WrittenBy(k)'
  BY <1>2, <1>4, <1>5, <1>7, SameTopology DEF WrittenBy, InTables
<1> QED
  BY <1>2, <1>5, <1>8, <1>9, <1>10, <1>11, PInvOfOne

LEMMA PacedWriteRegisters ==
  ASSUME TInv, PInv, up, NEW j \in jobs, Step(j), WriteRegisters(j)
  PROVE  PInv'
<1>1. Serves(j) /\ j.pc = "regs" /\ (version = "v1" => WrittenBy(j))
  BY AloneFacts DEF WriteRegisters
<1>2. version = "v1" /\ numLeafs = Len(children) /\ InTables(numLeafs)
  BY <1>1 DEF Serves, WrittenBy
<1>3. /\ Panic \/ Return(j)
      /\ UNCHANGED topoVars /\ version' = version
      /\ UNCHANGED <<pending, numLeafs, randLeaf, switchIndex, best, second>>
  BY DEF WriteRegisters, Step, tableVars, trackVars
<1> QED
  BY <1>1, <1>2, <1>3, PanicKeeps, Returned

-----------------------------------------------------------------------------
(* The tracked leaves of v2.                                               *)

LEMMA PacedReadBest ==
  ASSUME TInv, PInv, up, NEW j \in jobs, Step(j), ReadBest(j)
  PROVE  PInv'
<1>1. /\ jobs = {j} /\ j \in Goroutine /\ j.pc = "start" /\ j.type = "failedLeaf" /\ version = "v2"
      /\ TrackedBy(j)
      /\ \A l \in pending \cap Live : ~HasServers(l)
  BY AloneFacts DEF ReadBest
<1>2. OneAlive \/ j.node \in {best, second}
  BY <1>1 DEF TrackedBy
<1>3. /\ UNCHANGED topoVars /\ version' = version /\ Goto(j, [j EXCEPT !.pc = "read", !.leaf = best])
      /\ UNCHANGED <<pending, numLeafs, randLeaf, switchIndex, best, second>>
  BY DEF ReadBest, Step, tableVars, trackVars
<1>4. PendingOK'
  BY <1>1, <1>3, SameTopology DEF PendingOK
<1>5. PICK k : k = [j EXCEPT !.pc = "read", !.leaf = best]
  OBVIOUS
<1>6. k.pc = "read" /\ k.type = "failedLeaf" /\ k.node = j.node /\ k.leaf = best
  BY <1>1, <1>5 DEF Goroutine
<1>7. jobs' = {k}
  BY <1>1, <1>3, <1>5, AloneMoves
<1>8. Serves(k)'
  BY <1>1, <1>3, <1>6 DEF Serves
<1>9. TrackedBy(k)'
  BY <1>2, <1>3, <1>6, SameTopology DEF TrackedBy
<1> QED
  BY <1>1, <1>3, <1>4, <1>7, <1>8, <1>9, PInvOfOne

LEMMA PacedReadSecond ==
  ASSUME TInv, PInv, up, NEW j \in jobs, Step(j), ReadSecond(j)
  PROVE  PInv'
<1>1. /\ jobs = {j} /\ j \in Goroutine /\ j.pc = "read" /\ <<j.type, j.pc>> \in Stages /\ Serves(j)
      /\ version = "v2" => TrackedBy(j)
      /\ \A l \in pending \cap Live : HasServers(l) => j.type = "newServer"
  BY AloneFacts DEF ReadSecond
<1>2. version = "v2" /\ j.type = "failedLeaf" /\ (OneAlive \/ j.node \in {j.leaf, second})
  BY <1>1 DEF Serves, TrackedBy, Stages
<1>3. /\ UNCHANGED topoVars /\ version' = version
      /\ UNCHANGED <<pending, numLeafs, randLeaf, switchIndex, best, second>>
  BY DEF ReadSecond, Step, tableVars, trackVars
<1>4. PendingOK'
  BY <1>1, <1>2, <1>3, SameTopology DEF PendingOK
<1>5. CASE ~Tracked(j)
  <2>1. jobs' = {}
    BY <1>1, <1>5, AloneMoves DEF ReadSecond
  <2>2. OneAlive
    BY <1>2, <1>5 DEF Tracked
  <2> QED
    BY <1>2, <1>3, <1>4, <2>1, <2>2, SameTopology, PInvOfNone
<1>6. CASE Tracked(j)
  <2>1. PICK pc \in {"best", "second"} : Goto(j, [j EXCEPT !.pc = pc, !.leaf = second])
    BY <1>6 DEF ReadSecond
  <2>2. PICK k : k = [j EXCEPT !.pc = pc, !.leaf = second]
    OBVIOUS
  <2>3. k.pc = pc /\ k.type = "failedLeaf"
    BY <1>1, <1>2, <2>2 DEF Goroutine
  <2>4. jobs' = {k}
    BY <1>1, <2>1, <2>2, AloneMoves
  <2>5. Serves(k)' /\ TrackedBy(k)'
    BY <1>2, <1>3, <2>1, <2>3 DEF Serves, TrackedBy
  <2> QED
    BY <1>2, <1>3, <1>4, <2>4, <2>5, PInvOfOne
<1> QED
  BY <1>5, <1>6

LEMMA PacedWriteBest ==
  ASSUME TInv, PInv, up, NEW j \in jobs, Step(j), WriteBest(j)
  PROVE  PInv'
<1>1. /\ jobs = {j} /\ j \in Goroutine /\ j.pc = "best" /\ <<j.type, j.pc>> \in Stages /\ Serves(j)
      /\ \A l \in pending \cap Live : HasServers(l) => j.type = "newServer"
  BY AloneFacts DEF WriteBest
<1>2. version = "v2" /\ j.type = "failedLeaf"
  BY <1>1 DEF Serves, Stages
<1>3. /\ Goto(j, [j EXCEPT !.pc = "second"])
      /\ UNCHANGED topoVars /\ version' = version
      /\ UNCHANGED <<pending, numLeafs, randLeaf, switchIndex>>
  BY DEF WriteBest, Step
<1>4. PICK k : k = [j EXCEPT !.pc = "second"]
  OBVIOUS
<1>5. k.pc = "second" /\ k.type = "failedLeaf"
  BY <1>1, <1>2, <1>4, JobGoesOn
<1>6. jobs' = {k}
  BY <1>1, <1>3, <1>4, AloneMoves
<1>7. Serves(k)' /\ PendingOK'
  BY <1>1, <1>2, <1>3, <1>5, SameTopology DEF Serves, PendingOK
<1>8. TrackedBy(k)'
  BY <1>5 DEF TrackedBy
<1> QED
  BY <1>2, <1>3, <1>6, <1>7, <1>8, PInvOfOne

LEMMA PacedWriteSecond ==
  ASSUME TInv, PInv, up, NEW j \in jobs, Step(j), WriteSecond(j)
  PROVE  PInv'
<1>1. CASE children = <<>>
  BY <1>1, PanicKeeps DEF WriteSecond
<1>2. CASE children # <<>>
  <2>1. /\ jobs = {j} /\ j.pc = "second" /\ <<j.type, j.pc>> \in Stages /\ Serves(j)
        /\ \A l \in pending \cap Live : HasServers(l) => j.type = "newServer"
    BY AloneFacts DEF WriteSecond
  <2>2. version = "v2" /\ j.type = "failedLeaf"
    BY <2>1 DEF Serves, Stages
  <2>3. /\ second' = Head(children) /\ jobs' = {}
        /\ UNCHANGED topoVars /\ version' = version
        /\ UNCHANGED <<pending, numLeafs, randLeaf, switchIndex>>
    BY <1>2, <2>1, AloneMoves DEF WriteSecond, Step
  <2>4. Head(children) \in Live
    <3>1. children \in Seq(Leaves)
      BY DEF TInv, TypeOK
    <3>2. 1 \in 1 .. Len(children) /\ Head(children) = children[1]
      BY <1>2, <3>1
    <3> QED
      BY <3>1, <3>2, LiveValue
  <2>5. OneAlive'
    BY <2>3, <2>4, SameTopology DEF OneAlive
  <2>6. PendingOK'
    BY <2>1, <2>2, <2>3, SameTopology DEF PendingOK
  <2> QED
    BY <2>2, <2>3, <2>5, <2>6, PInvOfNone
<1> QED
  BY <1>1, <1>2

-----------------------------------------------------------------------------
(* The theorems.                                                           *)

LEMMA InitTables ==
  ASSUME Init
  PROVE  PInv
<1>1. TInv
  BY InitTypes
<1>2. /\ jobs = {} /\ pending = {} /\ numLeafs = Len(children) /\ best = children[1]
      /\ second = children[Len(children)]
      /\ switchIndex = [l \in Leaves |-> IF l \in Live THEN index[l] ELSE None]
      /\ randLeaf = [i \in Index |-> IF i < Len(children) THEN children[i + 1] ELSE None]
  <2>1. children \in Seq(Leaves) /\ children # <<>>
    BY StartsAssumption DEF Init, StartOK
  <2> QED
    BY <2>1 DEF Init, Last
<1>3. Len(children) > 0
  BY StartsAssumption DEF Init, StartOK
<1>4. ASSUME NEW i \in 1 .. Len(children)
      PROVE  randLeaf[i - 1] = children[i] /\ switchIndex[children[i]] = i - 1
  <2>1. /\ Len(children) \in Nat /\ Len(children) <= MaxLeaves /\ MaxLeaves \in Nat
        /\ children[i] \in Live /\ children[i] \in Leaves
    BY <1>1, ListFits DEF TInv
  <2>2. i - 1 \in Index /\ i - 1 < Len(children) /\ (i - 1) + 1 = i
    BY <2>1 DEF Index
  <2>3. index[children[i]] = i - 1
    BY <1>1 DEF TInv, ListOK
  <2> QED
    BY <1>2, <2>1, <2>2, <2>3
<1>5. Consistent
  <2>1. numLeafs <= Len(children) /\ \A l \in Live : ~ (index[l] >= numLeafs)
    BY <1>1, <1>2, AllInTables
  <2> QED
    BY <1>2, <1>4, <2>1 DEF Consistent, InTables
<1>6. OneAlive
  <2>1. Len(children) \in Nat /\ \A i \in 1 .. Len(children) : children[i] \in Live
    BY <1>1, ListFits DEF TInv
  <2> QED
    BY <1>2, <1>3, <2>1 DEF OneAlive
<1> QED
  BY <1>2, <1>5, <1>6 DEF PInv, PendingOK

LEMMA NextKeepsTables ==
  ASSUME Paced, TInv, PInv, [Next]_vars
  PROVE  PInv'
<1>1. CASE UNCHANGED vars
  <2>1. UNCHANGED topoVars /\ version' = version /\ up' = up /\ jobs' = jobs
        /\ UNCHANGED <<pending, numLeafs, randLeaf, switchIndex, best, second>>
    BY <1>1 DEF vars, tableVars, trackVars
  <2>2. \A j : (Serves(j)' <=> Serves(j)) /\ (TrackedBy(j)' <=> TrackedBy(j))
    BY <2>1, SameTopology DEF Serves, TrackedBy
  <2>3. Consistent' <=> Consistent
    BY <2>1, SameTopology DEF Consistent, InTables, Awaited
  <2>4. \A j : WrittenBy(j)' <=> WrittenBy(j)
    BY <2>1, <2>3, SameTopology DEF WrittenBy, InTables
  <2>5. PendingOK' <=> PendingOK
    BY <2>1, SameTopology DEF PendingOK
  <2> QED
    BY <2>1, <2>2, <2>3, <2>4, <2>5, SameTopology DEF PInv
<1>2. ASSUME NEW l \in Leaves, AddLeaf(l) \/ FailLeaf(l) \/ LoadSignal(l)
      PROVE  PInv'
  BY <1>2, PacedAddLeaf, PacedFailLeaf, PacedLoadSignal
<1>3. ASSUME NEW s \in Servers, NEW l \in Leaves, AddServer(s, l)
      PROVE  PInv'
  BY <1>3, PacedAddServer
<1>4. ASSUME NEW s \in Servers, FailServer(s)
      PROVE  PInv'
  BY <1>4, PacedFailServer
<1>5. ASSUME up, NEW j \in jobs, Step(j)
      PROVE  PInv'
  <2>1. CASE NewLeaf(j) \/ PendLeaf(j) \/ NewServer(j) \/ Unpend(j)
    BY <1>5, <2>1, PacedNewLeaf, PacedPendLeaf, PacedNewServer, PacedUnpend
  <2>2. CASE FailedLeaf(j) \/ WritePort(j) \/ WriteLeaf(j) \/ WriteCount(j) \/ WriteRegisters(j)
    BY <1>5, <2>2, PacedFailedLeaf, PacedWritePort, PacedWriteLeaf, PacedWriteCount, PacedWriteRegisters
  <2>3. CASE ReadBest(j) \/ ReadSecond(j) \/ WriteBest(j) \/ WriteSecond(j)
    BY <1>5, <2>3, PacedReadBest, PacedReadSecond, PacedWriteBest, PacedWriteSecond
  <2> QED
    BY <1>5, <2>1, <2>2, <2>3 DEF Step
<1> QED
  BY <1>1, <1>2, <1>3, <1>4, <1>5 DEF Next

(* Every value in the tables is a leaf, an index below the number of       *)
(* leaves or none, however the goroutines of SpineBus overlap.             *)
THEOREM TypeCorrect == Spec => []TypeOK
<1>1. Init => TInv
  BY InitTypes
<1>2. TInv => TypeOK
  BY DEF TInv
<1> QED
  BY <1>1, <1>2, NextKeepsTypes, PTL DEF Spec

(* Changes that come one at a time keep the invariant of lists, goroutines *)
(* and tables, with any number of leaves, servers and changes.             *)
THEOREM InductiveInvariant ==
  ASSUME Paced
  PROVE  Spec => [](TInv /\ PInv)
<1>1. Init => TInv /\ PInv
  BY InitTypes, InitTables
<1>2. TInv /\ PInv /\ [Next]_vars => (TInv /\ PInv)'
  BY NextKeepsTypes, NextKeepsTables
<1> QED
  BY <1>1, <1>2, PTL DEF Spec

(* v1: whenever its goroutines have ended, the data plane chooses among    *)
(* leaves of the spine only, and finds each one under its index.           *)
THEOREM TablesAlwaysMatchTree ==
  ASSUME Paced
  PROVE  Spec => []TablesMatchTree
<1>1. ASSUME TInv, PInv, Quiet, version = "v1"
      PROVE  /\ numLeafs <= Len(children)
             /\ \A i \in 0 .. numLeafs - 1 :
                  randLeaf[i] = children[i + 1] /\ switchIndex[randLeaf[i]] = i
  <2>1. numLeafs <= Len(children) /\ numLeafs \in Nat /\ InTables(numLeafs)
    BY <1>1, QuietFacts DEF Quiet
  <2>2. ASSUME NEW i \in 0 .. numLeafs - 1
        PROVE  randLeaf[i] = children[i + 1] /\ switchIndex[randLeaf[i]] = i
    <3>1. i + 1 \in 1 .. numLeafs /\ (i + 1) - 1 = i
      BY <2>1
    <3> QED
      BY <2>1, <3>1 DEF InTables
  <2> QED
    BY <2>1, <2>2
<1>2. TInv /\ PInv => TablesMatchTree
  BY <1>1 DEF TablesMatchTree
<1> QED
  BY <1>2, InductiveInvariant, PTL

(* v1: a leaf that the tables lack is pending, so that its first server    *)
(* makes it known, and no leaf with servers is pending.                    *)
THEOREM PendingAlwaysMatchesTables ==
  ASSUME Paced
  PROVE  Spec => []PendingMatchesTables
<1>1. TInv /\ PInv => PendingMatchesTables
  BY QuietFacts DEF PendingMatchesTables, Quiet
<1> QED
  BY <1>1, InductiveInvariant, PTL

(* v2: whatever the data plane makes of loads meanwhile, one of the two    *)
(* leaves it tracks lives, also when a failed one was written back.        *)
THEOREM SomeTrackedLeafIsAlwaysAlive ==
  ASSUME Paced
  PROVE  Spec => []SomeTrackedLeafIsAlive
<1>1. TInv /\ PInv => SomeTrackedLeafIsAlive
  BY QuietFacts DEF SomeTrackedLeafIsAlive, Quiet, OneAlive
<1> QED
  BY <1>1, InductiveInvariant, PTL
=============================================================================
