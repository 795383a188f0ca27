---------------------------- MODULE LeafBusProofs ----------------------------
(***************************************************************************)
(* Proofs about LeafBus, for any servers, worker counts and starts: every  *)
(* variable keeps its type; and where a change of the servers waits for    *)
(* the goroutines of the one before, the data plane reaches every worker   *)
(* and every server that was moved was told so once they ended.            *)
(***************************************************************************)
EXTENDS LeafBus, SequenceLemmas

-----------------------------------------------------------------------------
(* The invariants.                                                         *)

JobType ==
  [id : Nat, type : {"new", "update"}, nodes : SUBSET Servers,
   pc : {"start", "num", "ports", "idle", "packets"}, count : 0 .. MaxTotal,
   rest : SUBSET Servers]

JobOK(j) ==
  /\ j \in JobType
  /\ j.nodes # {}
  /\ \A s \in j.nodes : first[s] # None
  /\ j.type = "new" => \E s \in Servers : j.nodes = {s}
  /\ j.pc = "idle" => j.type = "new"
  /\ j.pc = "packets" => j.type = "update"

Listed ==
  /\ children \in Seq(Servers) /\ IsInjective(children)
  /\ first \in [Servers -> WorkerIDs \cup {None}]
  /\ \A s \in Live : first[s] = FirstIn(children, s)

TablesOK ==
  /\ num \in 0 .. MaxTotal
  /\ fwd \in [WorkerIDs -> Servers \cup {None}]
  /\ idleList \in [WorkerIDs -> Nat \cup {None}]
  /\ idleCount \in 0 .. MaxTotal
  /\ told \in [Servers -> WorkerIDs \cup {None}]
  /\ joined \in [Servers -> WorkerIDs \cup {None}]

HealthOK ==
  /\ failing \subseteq [id : 0 .. MaxCalls, server : Servers]
  /\ hm.pc = "cut" => hm.failed # <<>>
  /\ seen \subseteq Servers /\ fresh \subseteq Servers /\ crashed \subseteq Servers
  /\ hm \in [pc : {"scan", "remove", "cut"}, failed : Seq(Servers), moved : SUBSET Servers]
  /\ \A s \in hm.moved : first[s] # None

Typed ==
  /\ Listed
  /\ TablesOK
  /\ HealthOK
  /\ \A j \in jobs : JobOK(j)
  /\ index \in Indexes \cup {LeafID}
  /\ up \in BOOLEAN
  /\ calls \in 0 .. MaxCalls

\* one change at a time: at most one goroutine, and none while servers are removed
JobInTurn(j) ==
  /\ j.nodes \subseteq Live /\ j.rest \subseteq j.nodes
  /\ j.pc \in {"start", "num"} => j.rest = j.nodes
  /\ j.pc # "start" => j.count = Total(children)
  /\ j.pc \in {"ports", "idle", "packets"} => num = Total(children)

InTurn ==
  /\ hm.pc = "scan" => hm.failed = <<>> /\ hm.moved = {}
  /\ hm.pc # "scan" => jobs = {} /\ failing = {}
  /\ failing # {} => jobs = {}
  /\ \A f, g \in failing : f = g
  /\ hm.moved \subseteq Live
  /\ \A j, k \in jobs : j = k
  /\ \A j \in jobs : JobInTurn(j)

\* the servers whose worker IDs table fwd does not have yet ...
ToWrite(j) == IF j.pc \in {"start", "num", "ports"} THEN j.rest ELSE {}
Lacking == hm.moved \cup UNION {ToWrite(j) : j \in jobs}

\* ... and those that do not know them yet
ToTell(j) == IF j.type = "new" THEN {} ELSE IF j.pc = "packets" THEN j.rest ELSE j.nodes
Untold == hm.moved \cup UNION {ToTell(j) : j \in jobs}

Reached(t) == \A w \in WidsOf(t) : w < num /\ fwd[w] = t

\* a worker ID the data plane may choose leads to a server that has it
Exact == \A w \in 0 .. num - 1 : fwd[w] \in Live \ Lacking => w \in WidsOf(fwd[w])

Tables ==
  /\ \A t \in Live \ Lacking : Reached(t)
  /\ (\A j \in jobs : j.pc # "ports") => Exact

\* what a server takes for the ID of its first worker
Taken(t) == IF told[t] = None THEN joined[t] ELSE told[t]
Told == \A t \in Live \ Untold : Taken(t) = first[t]

-----------------------------------------------------------------------------
(* The numbering loop.                                                     *)

LEMMA OffsetsExist ==
  ASSUME NEW list \in Seq(Servers)
  PROVE  \E f : f = [i \in 0 .. Len(list) |->
                       IF i = 0 THEN 0 ELSE f[i - 1] + Workers[list[i]]]
<1> DEFINE IsOff(f, n) == \A i \in 0 .. n :
                            f[i] = IF i = 0 THEN 0 ELSE f[i - 1] + Workers[list[i]]
           S == {n \in Nat : n <= Len(list) => \E f \in [0 .. n -> Nat] : IsOff(f, n)}
<1>1. Len(list) \in Nat /\ \A i \in 1 .. Len(list) : Workers[list[i]] \in Nat
  BY WorkersAssumption
<1>2. 0 \in S
  <2>1. [i \in 0 .. 0 |-> 0] \in [0 .. 0 -> Nat]
    OBVIOUS
  <2>2. IsOff([i \in 0 .. 0 |-> 0], 0)
    OBVIOUS
  <2>3. \E f \in [0 .. 0 -> Nat] : IsOff(f, 0)
    <3> HIDE DEF IsOff
    <3> QED
      BY <2>1, <2>2
  <2> HIDE DEF IsOff
  <2> QED
    BY <2>3
<1>3. ASSUME NEW n \in Nat, n \in S
      PROVE  n + 1 \in S
  <2> SUFFICES ASSUME n + 1 <= Len(list)
               PROVE  \E f \in [0 .. n + 1 -> Nat] : IsOff(f, n + 1)
    <3> HIDE DEF IsOff
    <3> QED
      OBVIOUS
  <2>1. PICK f \in [0 .. n -> Nat] : IsOff(f, n)
    <3> HIDE DEF IsOff
    <3> QED
      BY <1>1, <1>3
  <2> DEFINE g == [i \in 0 .. n + 1 |->
                     IF i = n + 1 THEN f[n] + Workers[list[i]] ELSE f[i]]
  <2>2. g \in [0 .. n + 1 -> Nat]
    <3>1. f[n] \in Nat /\ n + 1 \in 1 .. Len(list)
      BY <1>1
    <3> QED
      BY <1>1, <3>1
  <2>3. IsOff(g, n + 1)
    BY <1>1, <2>1
  <2> HIDE DEF g, IsOff
  <2> QED
    BY <2>2, <2>3
<1>4. Nat \subseteq S
  <2> HIDE DEF S
  <2> QED
    BY <1>2, <1>3, NatSetInduction
<1>5. PICK f \in [0 .. Len(list) -> Nat] : IsOff(f, Len(list))
  <2> HIDE DEF IsOff
  <2> QED
    BY <1>1, <1>4
<1> QED
  BY <1>5

LEMMA OffsetsValue ==
  ASSUME NEW list \in Seq(Servers)
  PROVE  /\ Offsets(list)[0] = 0
         /\ \A i \in 1 .. Len(list) : Offsets(list)[i] = Offsets(list)[i - 1] + Workers[list[i]]
         /\ \A i \in 0 .. Len(list) : Offsets(list)[i] \in Nat
<1> DEFINE off == Offsets(list)
<1>1. off = [i \in 0 .. Len(list) |-> IF i = 0 THEN 0 ELSE off[i - 1] + Workers[list[i]]]
  BY OffsetsExist DEF Offsets
<1>2. Len(list) \in Nat /\ \A i \in 1 .. Len(list) : Workers[list[i]] \in Nat
  BY WorkersAssumption
<1> HIDE DEF off
<1>3. off[0] = 0
  BY <1>1, <1>2
<1>4. \A i \in 1 .. Len(list) : off[i] = off[i - 1] + Workers[list[i]]
  BY <1>1, <1>2
<1> DEFINE S == {n \in Nat : n <= Len(list) => off[n] \in Nat}
<1>5. 0 \in S
  BY <1>3
<1>6. ASSUME NEW n \in Nat, n \in S
      PROVE  n + 1 \in S
  <2> SUFFICES ASSUME n + 1 <= Len(list)
               PROVE  off[n + 1] \in Nat
    OBVIOUS
  <2>1. off[n] \in Nat /\ n + 1 \in 1 .. Len(list)
    BY <1>2, <1>6
  <2> QED
    BY <1>2, <1>4, <2>1
<1>7. Nat \subseteq S
  <2> HIDE DEF S
  <2> QED
    BY <1>5, <1>6, NatSetInduction
<1>8. \A i \in 0 .. Len(list) : off[i] \in Nat
  BY <1>2, <1>7
<1> QED
  BY <1>3, <1>4, <1>8 DEF off

LEMMA OffsetsGrow ==
  ASSUME NEW list \in Seq(Servers), NEW i \in 0 .. Len(list), NEW k \in 0 .. Len(list), i <= k
  PROVE  Offsets(list)[i] <= Offsets(list)[k]
<1> DEFINE off == Offsets(list)
           S == {m \in Nat : i + m <= Len(list) => off[i] <= off[i + m]}
<1>1. /\ \A x \in 1 .. Len(list) : off[x] = off[x - 1] + Workers[list[x]]
      /\ \A x \in 0 .. Len(list) : off[x] \in Nat
  BY OffsetsValue
<1>2. Len(list) \in Nat /\ \A x \in 1 .. Len(list) : Workers[list[x]] \in Nat
  BY WorkersAssumption
<1> HIDE DEF off
<1>3. 0 \in S
  BY <1>1
<1>4. ASSUME NEW m \in Nat, m \in S
      PROVE  m + 1 \in S
  <2> SUFFICES ASSUME i + (m + 1) <= Len(list)
               PROVE  off[i] <= off[i + (m + 1)]
    OBVIOUS
  <2>1. /\ off[i] <= off[i + m]
        /\ i + m \in 0 .. Len(list) /\ i + (m + 1) \in 1 .. Len(list)
        /\ (i + (m + 1)) - 1 = i + m
    BY <1>2, <1>4
  <2>2. off[i + (m + 1)] = off[i + m] + Workers[list[i + (m + 1)]]
    BY <1>1, <2>1
  <2>3. off[i] \in Nat /\ off[i + m] \in Nat /\ Workers[list[i + (m + 1)]] \in Nat
    BY <1>1, <1>2, <2>1
  <2> QED
    BY <2>1, <2>2, <2>3
<1>5. Nat \subseteq S
  <2> HIDE DEF S
  <2> QED
    BY <1>3, <1>4, NatSetInduction
<1>6. PICK m \in Nat : m = k - i
  OBVIOUS
<1>7. i + m = k /\ i + m <= Len(list)
  BY <1>2, <1>6
<1>8. off[i] <= off[i + m]
  <2>1. m \in S
    BY <1>5
  <2> QED
    BY <1>7, <2>1
<1>9. off[i] <= off[k]
  BY <1>7, <1>8
<1> QED
  BY <1>9 DEF off

LEMMA OffsetsOfPrefix ==
  ASSUME NEW list \in Seq(Servers), NEW other \in Seq(Servers), NEW n \in 0 .. Len(list),
         n <= Len(other), \A i \in 1 .. n : other[i] = list[i]
  PROVE  \A i \in 0 .. n : Offsets(other)[i] = Offsets(list)[i]
<1> DEFINE off == Offsets(list)
           new == Offsets(other)
           S == {m \in Nat : m <= n => new[m] = off[m]}
<1>1. /\ off[0] = 0 /\ \A i \in 1 .. Len(list) : off[i] = off[i - 1] + Workers[list[i]]
      /\ new[0] = 0 /\ \A i \in 1 .. Len(other) : new[i] = new[i - 1] + Workers[other[i]]
  BY OffsetsValue
<1>2. Len(list) \in Nat /\ Len(other) \in Nat
  OBVIOUS
<1> HIDE DEF off, new
<1>3. 0 \in S
  BY <1>1
<1>4. ASSUME NEW m \in Nat, m \in S
      PROVE  m + 1 \in S
  <2> SUFFICES ASSUME m + 1 <= n
               PROVE  new[m + 1] = off[m + 1]
    OBVIOUS
  <2>1. m + 1 \in 1 .. n /\ m + 1 \in 1 .. Len(list) /\ m + 1 \in 1 .. Len(other)
    BY <1>2
  <2>2. off[m + 1] = off[m] + Workers[list[m + 1]] /\ new[m + 1] = new[m] + Workers[other[m + 1]]
    BY <1>1, <2>1
  <2>3. new[m] = off[m]
    BY <1>4
  <2> QED
    BY <2>1, <2>2, <2>3
<1>5. Nat \subseteq S
  <2> HIDE DEF S
  <2> QED
    BY <1>3, <1>4, NatSetInduction
<1>6. \A i \in 0 .. n : new[i] = off[i]
  BY <1>5
<1> QED
  BY <1>6 DEF off, new

(* What stays before a removed server keeps its numbers, and what is       *)
(* behind it moves down by the workers of the removed one.                 *)
LEMMA OffsetsOfRest ==
  ASSUME NEW list \in Seq(Servers), NEW k \in 1 .. Len(list)
  PROVE  \A i \in 0 .. Len(list) - 1 :
           Offsets(RemoveAt(list, k))[i] =
             IF i < k THEN Offsets(list)[i] ELSE Offsets(list)[i + 1] - Workers[list[k]]
<1> DEFINE off == Offsets(list)
           rest == RemoveAt(list, k)
           new == Offsets(rest)
           n == Len(list)
           S == {m \in Nat : m < n => new[m] = IF m < k THEN off[m] ELSE off[m + 1] - Workers[list[k]]}
<1>1. /\ rest \in Seq(Servers) /\ Len(rest) = n - 1
      /\ \A i \in 1 .. n - 1 : rest[i] = IF i < k THEN list[i] ELSE list[i + 1]
  BY RemoveAtValue
<1>2. n \in Nat /\ \A i \in 1 .. n : Workers[list[i]] \in Nat
  BY WorkersAssumption
<1> HIDE DEF rest
<1>3. /\ off[0] = 0 /\ \A i \in 1 .. n : off[i] = off[i - 1] + Workers[list[i]]
      /\ \A i \in 0 .. n : off[i] \in Nat
      /\ new[0] = 0 /\ \A i \in 1 .. n - 1 : new[i] = new[i - 1] + Workers[rest[i]]
  BY <1>1, OffsetsValue
<1> HIDE DEF off, new, n
<1>4. k \in 1 .. n
  BY DEF n
<1>5. 0 \in S
  BY <1>3, <1>4
<1>6. ASSUME NEW m \in Nat, m \in S
      PROVE  m + 1 \in S
  <2> SUFFICES ASSUME m + 1 < n
               PROVE  new[m + 1] = IF m + 1 < k THEN off[m + 1] ELSE off[(m + 1) + 1] - Workers[list[k]]
    OBVIOUS
  <2>1. m + 1 \in 1 .. n - 1 /\ m + 1 \in 1 .. n /\ m + 2 \in 1 .. n /\ (m + 1) + 1 = m + 2
    BY <1>2
  <2>2. new[m + 1] = new[m] + Workers[rest[m + 1]]
    BY <1>3, <2>1
  <2>3. new[m] = IF m < k THEN off[m] ELSE off[m + 1] - Workers[list[k]]
    BY <1>2, <1>6
  <2>4. off[m + 1] = off[m] + Workers[list[m + 1]] /\ off[m + 2] = off[m + 1] + Workers[list[m + 2]]
    BY <1>3, <2>1
  <2>5. off[m] \in Nat /\ off[m + 1] \in Nat /\ off[m + 2] \in Nat
    BY <1>2, <1>3, <2>1
  <2>6. Workers[list[m + 1]] \in Nat /\ Workers[list[m + 2]] \in Nat /\ Workers[list[k]] \in Nat
    BY <1>2, <1>4, <2>1
  <2>7. CASE m + 1 < k
    <3>1. rest[m + 1] = list[m + 1] /\ m < k
      BY <1>1, <1>4, <2>1, <2>7 DEF n
    <3> QED
      BY <2>2, <2>3, <2>4, <2>7, <3>1
  <2>8. CASE m + 1 = k
    <3>1. rest[m + 1] = list[m + 2] /\ m < k /\ ~ (m + 1 < k)
      BY <1>1, <1>4, <2>1, <2>8 DEF n
    <3> QED
      BY SMTT(30), <2>1, <2>2, <2>3, <2>4, <2>5, <2>6, <2>8, <3>1
  <2>9. CASE m + 1 > k
    <3>1. rest[m + 1] = list[m + 2] /\ ~ (m < k) /\ ~ (m + 1 < k)
      BY <1>1, <1>4, <2>1, <2>9 DEF n
    <3> QED
      BY SMTT(30), <2>1, <2>2, <2>3, <2>4, <2>5, <2>6, <3>1
  <2> QED
    BY <1>4, <2>7, <2>8, <2>9
<1>7. Nat \subseteq S
  <2> HIDE DEF S
  <2> QED
    BY <1>5, <1>6, NatSetInduction
<1>8. ASSUME NEW i \in 0 .. n - 1
      PROVE  new[i] = IF i < k THEN off[i] ELSE off[i + 1] - Workers[list[k]]
  <2>1. i \in Nat /\ i < n
    BY <1>2
  <2> QED
    BY <1>7, <2>1
<1> QED
  BY <1>8 DEF off, new, rest, n

-----------------------------------------------------------------------------
(* Places in a list of servers, and the worker IDs that follow from them.  *)

LEMMA PlaceValue ==
  ASSUME NEW list \in Seq(Servers), IsInjective(list), NEW s \in Range(list)
  PROVE  /\ PlaceOf(list, s) \in 1 .. Len(list) /\ list[PlaceOf(list, s)] = s
         /\ \A i \in 1 .. Len(list) : list[i] = s => i = PlaceOf(list, s)
<1>1. PICK i \in 1 .. Len(list) : list[i] = s
  BY RangeValue
<1>2. PlaceOf(list, s) = FirstPlace(list, s)
  BY DEF PlaceOf, FirstPlace
<1>3. FirstPlace(list, s) = i
  BY <1>1, PlaceInInjective
<1>4. \A k \in 1 .. Len(list) : list[k] = s => k = i
  BY <1>1, InjectiveValue
<1> QED
  BY <1>1, <1>2, <1>3, <1>4

(* The worker IDs of a server are below the number of workers.             *)
LEMMA FirstInValue ==
  ASSUME NEW list \in Seq(Servers), IsInjective(list), NEW s \in Range(list)
  PROVE  /\ FirstIn(list, s) \in Nat /\ Workers[s] \in Nat \ {0, 1}
         /\ Offsets(list)[PlaceOf(list, s)] = FirstIn(list, s) + Workers[s]
         /\ FirstIn(list, s) + Workers[s] <= Total(list)
         /\ Total(list) \in Nat
<1> DEFINE i == PlaceOf(list, s)
           off == Offsets(list)
<1>1. i \in 1 .. Len(list) /\ list[i] = s /\ s \in Servers /\ Len(list) \in Nat
  BY PlaceValue
<1>2. /\ \A x \in 1 .. Len(list) : off[x] = off[x - 1] + Workers[list[x]]
      /\ \A x \in 0 .. Len(list) : off[x] \in Nat
  BY OffsetsValue
<1>3. off[i] <= off[Len(list)]
  BY <1>1, OffsetsGrow
<1>4. i - 1 \in 0 .. Len(list) /\ Len(list) \in 0 .. Len(list)
  BY <1>1
<1>5. FirstIn(list, s) = off[i - 1] /\ Total(list) = off[Len(list)]
  BY DEF FirstIn, Total
<1>6. off[i] = off[i - 1] + Workers[s]
  BY <1>1, <1>2
<1> HIDE DEF off, i
<1>7. FirstIn(list, s) \in Nat /\ Total(list) \in Nat
  BY <1>2, <1>4, <1>5
<1>8. Workers[s] \in Nat \ {0, 1}
  BY <1>1, WorkersAssumption
<1> QED
  BY <1>3, <1>5, <1>6, <1>7, <1>8 DEF off, i

(* The worker IDs of a server come after those of the ones before it.      *)
LEMMA FirstInOrder ==
  ASSUME NEW list \in Seq(Servers), IsInjective(list), NEW s \in Range(list), NEW t \in Range(list),
         s # t
  PROVE  \/ FirstIn(list, s) + Workers[s] <= FirstIn(list, t)
         \/ FirstIn(list, t) + Workers[t] <= FirstIn(list, s)
<1>1. PICK i \in 1 .. Len(list) : i = PlaceOf(list, s) /\ list[i] = s
  BY PlaceValue
<1>2. PICK k \in 1 .. Len(list) : k = PlaceOf(list, t) /\ list[k] = t
  BY PlaceValue
<1>3. i # k /\ Len(list) \in Nat
  BY <1>1, <1>2
<1>4. i - 1 \in 0 .. Len(list) /\ k - 1 \in 0 .. Len(list) /\ i \in 0 .. Len(list) /\ k \in 0 .. Len(list)
  BY <1>3
<1>5. /\ Offsets(list)[i] = FirstIn(list, s) + Workers[s] /\ FirstIn(list, s) = Offsets(list)[i - 1]
      /\ Offsets(list)[k] = FirstIn(list, t) + Workers[t] /\ FirstIn(list, t) = Offsets(list)[k - 1]
  BY <1>1, <1>2, FirstInValue DEF FirstIn
<1>6. CASE i < k
  <2>1. i <= k - 1
    BY <1>6
  <2>2. Offsets(list)[i] <= Offsets(list)[k - 1]
    BY <1>4, <2>1, OffsetsGrow
  <2> QED
    BY <1>5, <2>2
<1>7. CASE k < i
  <2>1. k <= i - 1
    BY <1>7
  <2>2. Offsets(list)[k] <= Offsets(list)[i - 1]
    BY <1>4, <2>1, OffsetsGrow
  <2> QED
    BY <1>5, <2>2
<1> QED
  BY <1>3, <1>6, <1>7

(* There is no gap: each worker ID below the number of workers belongs to  *)
(* one of the servers.                                                     *)
LEMMA NoGap ==
  ASSUME NEW list \in Seq(Servers), IsInjective(list), NEW w \in Nat, w < Total(list)
  PROVE  \E s \in Range(list) : FirstIn(list, s) <= w /\ w < FirstIn(list, s) + Workers[s]
<1> DEFINE off == Offsets(list)
           I == {i \in 0 .. Len(list) : w < off[i]}
<1>1. /\ off[0] = 0 /\ \A x \in 0 .. Len(list) : off[x] \in Nat
      /\ Len(list) \in Nat
  BY OffsetsValue
<1>2. Len(list) \in I
  BY <1>1 DEF Total
<1>3. I \subseteq Nat /\ I # {}
  BY <1>2
<1>4. PICK i \in I : \A x \in I : i <= x
  <2> HIDE DEF I
  <2>1. Min(I) \in I /\ \A x \in I : Min(I) <= x
    BY <1>3, MinValue
  <2> QED
    BY <2>1
<1>5. i \in 1 .. Len(list) /\ w < off[i] /\ i - 1 \in 0 .. Len(list)
  BY <1>1, <1>4
<1>6. ~ (w < off[i - 1])
  <2>1. i - 1 \notin I
    BY <1>4, <1>5
  <2> QED
    BY <1>5, <2>1
<1>7. PICK s \in Servers : s = list[i]
  BY <1>5
<1>8. s \in Range(list)
  BY <1>5, <1>7, RangeValue
<1>9. PlaceOf(list, s) = i
  BY <1>5, <1>7, <1>8, PlaceValue
<1>10. FirstIn(list, s) = off[i - 1] /\ off[i] = FirstIn(list, s) + Workers[s]
  BY <1>8, <1>9, FirstInValue DEF FirstIn
<1>11. off[i - 1] \in Nat
  BY <1>1, <1>5
<1> HIDE DEF off
<1>12. FirstIn(list, s) <= w /\ w < FirstIn(list, s) + Workers[s]
  BY <1>5, <1>6, <1>10, <1>11
<1> QED
  BY <1>8, <1>12

LEMMA TotalOfAppend ==
  ASSUME NEW list \in Seq(Servers), IsInjective(list), NEW s \in Servers, s \notin Range(list)
  PROVE  /\ Append(list, s) \in Seq(Servers) /\ IsInjective(Append(list, s))
         /\ Range(Append(list, s)) = Range(list) \cup {s}
         /\ FirstIn(Append(list, s), s) = Total(list)
         /\ Total(Append(list, s)) = Total(list) + Workers[s]
         /\ \A t \in Range(list) : FirstIn(Append(list, s), t) = FirstIn(list, t)
<1> DEFINE n == Len(list)
<1>1. PICK long \in Seq(Servers) : long = Append(list, s)
  BY AppendValue
<1>2. /\ Len(long) = n + 1 /\ n \in Nat
      /\ \A i \in 1 .. n : long[i] = list[i]
      /\ long[n + 1] = s
      /\ \A y : y \in Range(long) <=> y \in Range(list) \/ y = s
  BY <1>1, AppendValue
<1>3. IsInjective(long)
  BY <1>1, AppendToInjective
<1>4. Range(long) = Range(list) \cup {s}
  BY <1>2
<1>5. \A i \in 0 .. n : Offsets(long)[i] = Offsets(list)[i]
  <2>1. n \in 0 .. Len(list) /\ n <= Len(long)
    BY <1>2
  <2> QED
    BY <1>2, <2>1, OffsetsOfPrefix
<1>6. PlaceOf(long, s) = n + 1
  <2>1. s \in Range(long) /\ n + 1 \in 1 .. Len(long)
    BY <1>2
  <2> QED
    BY <1>2, <1>3, <2>1, PlaceValue
<1>7. FirstIn(long, s) = Total(list)
  <2>1. (n + 1) - 1 = n /\ n \in 0 .. n
    BY <1>2
  <2> QED
    BY <1>5, <1>6, <2>1 DEF FirstIn, Total
<1>8. Total(long) = Total(list) + Workers[s]
  <2>1. s \in Range(long)
    BY <1>4
  <2>2. Offsets(long)[PlaceOf(long, s)] = FirstIn(long, s) + Workers[s]
    BY <1>3, <2>1, FirstInValue
  <2> QED
    BY <1>2, <1>6, <1>7, <2>2 DEF Total
<1>9. ASSUME NEW t \in Range(list)
      PROVE  FirstIn(long, t) = FirstIn(list, t)
  <2>1. PICK i \in 1 .. n : i = PlaceOf(list, t) /\ list[i] = t
    BY PlaceValue
  <2>2. t \in Range(long) /\ i \in 1 .. Len(long) /\ long[i] = t
    BY <1>2, <2>1
  <2>3. PlaceOf(long, t) = i
    BY <1>3, <2>2, PlaceValue
  <2>4. i - 1 \in 0 .. n
    BY <1>2
  <2> QED
    BY <1>5, <2>1, <2>3, <2>4 DEF FirstIn
<1> QED
  BY <1>1, <1>3, <1>4, <1>7, <1>8, <1>9

(* Removing a server leaves the ones before it where they are.             *)
LEMMA WithoutValue ==
  ASSUME NEW list \in Seq(Servers), IsInjective(list), NEW s \in Range(list)
  PROVE  /\ Without(list, s) \in Seq(Servers) /\ IsInjective(Without(list, s))
         /\ Range(Without(list, s)) = Range(list) \ {s}
         /\ Total(Without(list, s)) = Total(list) - Workers[s]
         /\ Len(Without(list, s)) = Len(list) - 1
         /\ \A t \in Range(list) \ ({s} \cup Behind(list, s)) :
              FirstIn(Without(list, s), t) = FirstIn(list, t)
<1>1. PICK k \in 1 .. Len(list) : k = PlaceOf(list, s) /\ list[k] = s
  BY PlaceValue
<1>2. PICK rest \in Seq(Servers) : rest = RemoveAt(list, k)
  BY RemoveAtValue
<1>3. Without(list, s) = rest
  BY <1>1, <1>2 DEF Without
<1>4. /\ Len(rest) = Len(list) - 1 /\ Len(list) \in Nat
      /\ \A i \in 1 .. Len(list) - 1 : rest[i] = IF i < k THEN list[i] ELSE list[i + 1]
  <2>1. /\ Len(RemoveAt(list, k)) = Len(list) - 1
        /\ \A i \in 1 .. Len(list) - 1 :
             RemoveAt(list, k)[i] = IF i < k THEN list[i] ELSE list[i + 1]
    BY RemoveAtValue
  <2> QED
    BY <1>2, <2>1
<1>5. IsInjective(rest) /\ \A y : y \in Range(rest) <=> y \in Range(list) /\ y # s
  BY <1>1, <1>2, RemoveFromInjective
<1>6. \A i \in 0 .. Len(list) - 1 :
         Offsets(rest)[i] = IF i < k THEN Offsets(list)[i] ELSE Offsets(list)[i + 1] - Workers[s]
  BY <1>1, <1>2, OffsetsOfRest
<1>7. Range(rest) = Range(list) \ {s}
  BY <1>5
<1>8. Total(rest) = Total(list) - Workers[s]
  <2>1. Len(list) - 1 \in 0 .. Len(list) - 1 /\ (Len(list) - 1) + 1 = Len(list)
    BY <1>4
  <2>2. CASE Len(list) - 1 < k
    <3>1. k = Len(list)
      BY <1>4, <2>2
    <3>2. Offsets(rest)[k - 1] = Offsets(list)[k - 1]
      BY <1>6, <2>1, <2>2, <3>1
    <3>3. /\ Offsets(list)[k] = FirstIn(list, s) + Workers[s] /\ FirstIn(list, s) \in Nat
          /\ Workers[s] \in Nat
      BY <1>1, FirstInValue
    <3>4. FirstIn(list, s) = Offsets(list)[k - 1]
      BY <1>1 DEF FirstIn
    <3> QED
      BY <1>4, <3>1, <3>2, <3>3, <3>4 DEF Total
  <2>3. CASE ~ (Len(list) - 1 < k)
    <3>1. Offsets(rest)[Len(list) - 1] = Offsets(list)[Len(list)] - Workers[s]
      BY <1>6, <2>1, <2>3
    <3> QED
      BY <1>4, <3>1 DEF Total
  <2> QED
    BY <2>2, <2>3
<1>9. ASSUME NEW t \in Range(list), t # s, t \notin Behind(list, s)
      PROVE  FirstIn(rest, t) = FirstIn(list, t)
  <2>1. PICK i \in 1 .. Len(list) : i = PlaceOf(list, t) /\ list[i] = t
    BY PlaceValue
  <2>2. ~ (k < i)
    BY <1>1, <1>9, <2>1 DEF Behind
  <2>3. i # k
    BY <1>1, <1>9, <2>1
  <2>4. i < k /\ i \in 1 .. Len(list) - 1 /\ i \in 1 .. Len(rest) /\ i - 1 \in 0 .. Len(list) - 1 /\ i - 1 < k
    BY <1>4, <2>2, <2>3
  <2>5. rest[i] = t /\ t \in Range(rest)
    BY <1>4, <1>5, <1>9, <2>1, <2>4
  <2>6. PlaceOf(rest, t) = i
    BY <1>5, <2>4, <2>5, PlaceValue
  <2>7. Offsets(rest)[i - 1] = Offsets(list)[i - 1]
    BY <1>6, <2>4
  <2> QED
    BY <2>1, <2>6, <2>7 DEF FirstIn
<1> QED
  BY <1>2, <1>3, <1>4, <1>5, <1>7, <1>8, <1>9

LEMMA BehindValue ==
  ASSUME NEW list \in Seq(Servers), IsInjective(list), NEW s
  PROVE  Behind(list, s) \subseteq Range(list) \ {s}
<1>1. ASSUME s \in Range(list)
      PROVE  s \notin Behind(list, s)
  <2>1. PlaceOf(list, s) \in Int
    BY <1>1, PlaceValue
  <2> QED
    BY <2>1 DEF Behind
<1> QED
  BY <1>1 DEF Behind

(* Fewer servers have no more workers.                                     *)
LEMMA TotalOfSome ==
  ASSUME NEW list \in Seq(Servers), NEW all \in Seq(Servers),
         IsInjective(list), IsInjective(all), Range(list) \subseteq Range(all)
  PROVE  Total(list) <= Total(all)
<1> DEFINE S == {n \in Nat : \A a, b \in Seq(Servers) :
                   /\ IsInjective(a) /\ IsInjective(b)
                   /\ Len(b) = n /\ Range(a) \subseteq Range(b)
                   => Total(a) <= Total(b)}
<1>1. 0 \in S
  <2> SUFFICES ASSUME NEW a \in Seq(Servers), NEW b \in Seq(Servers),
                      Len(b) = 0, Range(a) \subseteq Range(b)
               PROVE  Total(a) <= Total(b)
    OBVIOUS
  <2>1. ASSUME NEW x \in Range(b)
        PROVE  FALSE
    <3>1. PICK i \in 1 .. Len(b) : b[i] = x
      BY RangeValue
    <3> QED
      BY <3>1
  <2>2. ASSUME NEW i \in 1 .. Len(a)
        PROVE  FALSE
    <3>1. a[i] \in Range(a)
      BY RangeValue
    <3> QED
      BY <2>1, <3>1
  <2>3. Len(a) = 0
    BY <2>2
  <2>4. Offsets(a)[0] = 0 /\ Offsets(b)[0] = 0
    BY OffsetsValue
  <2> QED
    BY <2>3, <2>4 DEF Total
<1>2. ASSUME NEW n \in Nat, n \in S
      PROVE  n + 1 \in S
  <2> SUFFICES ASSUME NEW a \in Seq(Servers), NEW b \in Seq(Servers),
                      IsInjective(a), IsInjective(b),
                      Len(b) = n + 1, Range(a) \subseteq Range(b)
               PROVE  Total(a) <= Total(b)
    OBVIOUS
  <2>1. PICK s \in Servers : s = b[n + 1]
    OBVIOUS
  <2>2. s \in Range(b)
    <3>1. n + 1 \in 1 .. Len(b)
      OBVIOUS
    <3> QED
      BY <2>1, <3>1, RangeValue
  <2>3. PICK c \in Seq(Servers) : c = IF s \in Range(a) THEN Without(a, s) ELSE a
    BY WithoutValue
  <2>4. PICK d \in Seq(Servers) : d = Without(b, s)
    BY <2>2, WithoutValue
  <2>5. /\ IsInjective(c) /\ Range(c) = Range(a) \ {s}
        /\ s \in Range(a) => Total(c) = Total(a) - Workers[s]
        /\ s \notin Range(a) => c = a
    <3>1. CASE s \in Range(a)
      BY <2>3, <3>1, WithoutValue
    <3>2. CASE s \notin Range(a)
      BY <2>3, <3>2
    <3> QED
      BY <3>1, <3>2
  <2>6. /\ IsInjective(d) /\ Range(d) = Range(b) \ {s}
        /\ Total(d) = Total(b) - Workers[s] /\ Len(d) = n
    BY <2>2, <2>4, WithoutValue
  <2>7. Total(c) <= Total(d)
    <3>1. Range(c) \subseteq Range(d)
      BY <2>5, <2>6
    <3> QED
      BY <1>2, <2>5, <2>6, <3>1
  <2>8. Total(b) \in Nat /\ Workers[s] \in Nat
    BY <2>2, FirstInValue
  <2>9. CASE s \in Range(a)
    <3>1. Total(a) \in Nat
      BY <2>9, FirstInValue
    <3> QED
      BY <2>5, <2>6, <2>7, <2>8, <2>9, <3>1
  <2>10. CASE s \notin Range(a)
    <3>1. Total(a) <= Total(b) - Workers[s]
      BY <2>5, <2>6, <2>7, <2>10
    <3>2. Total(a) \in Nat
      <4>1. Len(a) \in 0 .. Len(a)
        OBVIOUS
      <4> QED
        BY <4>1, OffsetsValue DEF Total
    <3> QED
      BY <2>8, <3>1, <3>2
  <2> QED
    BY <2>9, <2>10
<1>3. Nat \subseteq S
  <2> HIDE DEF S
  <2> QED
    BY <1>1, <1>2, NatSetInduction
<1>4. Len(all) \in S
  BY <1>3
<1> QED
  BY <1>4

LEMMA AllServers ==
  /\ SetToSeq(Servers) \in Seq(Servers)
  /\ IsInjective(SetToSeq(Servers))
  /\ Range(SetToSeq(Servers)) = Servers
BY ServersAssumption, SetToSeqValue

(* The tables have room for the worker IDs of whatever servers there are.  *)
LEMMA NumbersFit ==
  ASSUME NEW list \in Seq(Servers), IsInjective(list)
  PROVE  /\ MaxTotal \in Nat /\ Total(list) \in 0 .. MaxTotal
         /\ \A s \in Range(list) : FirstIn(list, s) \in WorkerIDs
<1>1. PICK all \in Seq(Servers) : all = SetToSeq(Servers)
  BY AllServers
<1>2. IsInjective(all) /\ Range(all) = Servers /\ MaxTotal = Total(all)
  BY <1>1, AllServers DEF MaxTotal
<1>3. Range(list) \subseteq Range(all)
  BY <1>2 DEF Range
<1>4. Total(list) <= Total(all)
  BY <1>2, <1>3, TotalOfSome
<1>5. Total(list) \in Nat /\ Total(all) \in Nat
  <2>1. Len(list) \in 0 .. Len(list) /\ Len(all) \in 0 .. Len(all)
    OBVIOUS
  <2> QED
    BY <2>1, OffsetsValue DEF Total
<1>6. Total(list) \in 0 .. MaxTotal
  BY <1>2, <1>4, <1>5
<1>7. ASSUME NEW s \in Range(list)
      PROVE  FirstIn(list, s) \in WorkerIDs
  <2>1. /\ FirstIn(list, s) \in Nat /\ Workers[s] \in Nat \ {0, 1}
        /\ FirstIn(list, s) + Workers[s] <= Total(list)
    BY FirstInValue
  <2> QED
    BY <1>2, <1>4, <1>5, <2>1 DEF WorkerIDs
<1> QED
  BY <1>2, <1>5, <1>6, <1>7

-----------------------------------------------------------------------------
(* Every variable keeps its type, at whatever time the calls come.         *)

LEMMA ValueOfWorkerIDs == MaxTotal \in Nat /\ WorkerIDs \subseteq Nat /\ None \notin WorkerIDs
<1>1. PICK all \in Seq(Servers) : all = SetToSeq(Servers)
  BY AllServers
<1>2. IsInjective(all)
  BY <1>1, AllServers
<1>3. MaxTotal \in Nat
  BY <1>2, NumbersFit
<1> QED
  BY <1>3, ServersAssumption DEF WorkerIDs

LEMMA TypedIsType ==
  ASSUME Typed
  PROVE  TypeOK
BY DEF Typed, Listed, TablesOK, HealthOK, JobOK, JobType, TypeOK

LEMMA FailedExist ==
  ASSUME children \in Seq(Servers)
  PROVE  \E f : f = [i \in 0 .. Len(children) |->
                       IF i = 0 THEN <<>>
                       ELSE IF TimedOut(children[i]) THEN Append(f[i - 1], children[i]) ELSE f[i - 1]]
<1> DEFINE Is(f, n) == \A i \in 0 .. n :
                         f[i] = IF i = 0 THEN <<>>
                                ELSE IF TimedOut(children[i]) THEN Append(f[i - 1], children[i])
                                ELSE f[i - 1]
           S == {n \in Nat : n <= Len(children) => \E f \in [0 .. n -> Seq(Servers)] : Is(f, n)}
<1>1. Len(children) \in Nat /\ \A i \in 1 .. Len(children) : children[i] \in Servers
  OBVIOUS
<1>2. 0 \in S
  <2>1. [i \in 0 .. 0 |-> <<>>] \in [0 .. 0 -> Seq(Servers)]
    OBVIOUS
  <2>2. Is([i \in 0 .. 0 |-> <<>>], 0)
    OBVIOUS
  <2>3. \E f \in [0 .. 0 -> Seq(Servers)] : Is(f, 0)
    <3> HIDE DEF Is
    <3> QED
      BY <2>1, <2>2
  <2> HIDE DEF Is
  <2> QED
    BY <2>3
<1>3. ASSUME NEW n \in Nat, n \in S
      PROVE  n + 1 \in S
  <2> SUFFICES ASSUME n + 1 <= Len(children)
               PROVE  \E f \in [0 .. n + 1 -> Seq(Servers)] : Is(f, n + 1)
    <3> HIDE DEF Is
    <3> QED
      OBVIOUS
  <2>1. PICK f \in [0 .. n -> Seq(Servers)] : Is(f, n)
    <3> HIDE DEF Is
    <3> QED
      BY <1>1, <1>3
  <2>2. PICK last \in Seq(Servers) :
          last = IF TimedOut(children[n + 1]) THEN Append(f[n], children[n + 1]) ELSE f[n]
    <3>1. f[n] \in Seq(Servers) /\ children[n + 1] \in Servers
      BY <1>1
    <3> QED
      BY <3>1, AppendValue
  <2> DEFINE g == [i \in 0 .. n + 1 |-> IF i = n + 1 THEN last ELSE f[i]]
  <2>3. g \in [0 .. n + 1 -> Seq(Servers)]
    BY <1>1
  <2>4. ASSUME NEW i \in 0 .. n + 1
        PROVE  g[i] = IF i = 0 THEN <<>>
                      ELSE IF TimedOut(children[i]) THEN Append(g[i - 1], children[i]) ELSE g[i - 1]
    <3>1. CASE i = n + 1
      <4>1. g[i] = last /\ g[i - 1] = f[n] /\ i # 0
        BY <3>1
      <4> HIDE DEF g
      <4> QED
        BY <2>2, <3>1, <4>1
    <3>2. CASE i # n + 1
      <4>1. i \in 0 .. n /\ g[i] = f[i] /\ (i # 0 => g[i - 1] = f[i - 1])
        BY <3>2
      <4> HIDE DEF g
      <4> QED
        BY <2>1, <4>1
    <3> QED
      BY <3>1, <3>2
  <2>5. Is(g, n + 1)
    <3> HIDE DEF g
    <3> QED
      BY <2>4
  <2> HIDE DEF g, Is
  <2> QED
    BY <2>3, <2>5
<1>4. Nat \subseteq S
  <2> HIDE DEF S
  <2> QED
    BY <1>2, <1>3, NatSetInduction
<1>5. PICK f \in [0 .. Len(children) -> Seq(Servers)] : Is(f, Len(children))
  <2> HIDE DEF Is
  <2> QED
    BY <1>1, <1>4
<1> QED
  BY <1>5

\* the scan collects servers
LEMMA FailedServersType ==
  ASSUME children \in Seq(Servers)
  PROVE  FailedServers \in Seq(Servers)
<1>1. PICK f : f = [i \in 0 .. Len(children) |->
                      IF i = 0 THEN <<>>
                      ELSE IF TimedOut(children[i]) THEN Append(f[i - 1], children[i]) ELSE f[i - 1]]
               /\ FailedServers = f[Len(children)]
  BY FailedExist DEF FailedServers
<1>2. Len(children) \in Nat /\ \A i \in 1 .. Len(children) : children[i] \in Servers
  OBVIOUS
<1>3. f[0] = <<>>
  BY <1>1, <1>2
<1>4. \A i \in 1 .. Len(children) :
        f[i] = IF TimedOut(children[i]) THEN Append(f[i - 1], children[i]) ELSE f[i - 1]
  <2> SUFFICES ASSUME NEW i \in 1 .. Len(children)
               PROVE  f[i] = IF TimedOut(children[i]) THEN Append(f[i - 1], children[i]) ELSE f[i - 1]
    OBVIOUS
  <2>1. i \in 0 .. Len(children) /\ i # 0
    BY <1>2
  <2> QED
    BY <1>1, <2>1, Zenon
<1> DEFINE S == {n \in Nat : n <= Len(children) => f[n] \in Seq(Servers)}
<1>5. 0 \in S
  <2>1. f[0] \in Seq(Servers)
    BY <1>3, EmptyValue
  <2> QED
    BY <2>1
<1>6. ASSUME NEW n \in Nat, n \in S
      PROVE  n + 1 \in S
  <2> SUFFICES ASSUME n + 1 <= Len(children)
               PROVE  f[n + 1] \in Seq(Servers)
    OBVIOUS
  <2>1. f[n] \in Seq(Servers) /\ n + 1 \in 1 .. Len(children) /\ children[n + 1] \in Servers
    BY <1>2, <1>6
  <2>2. Append(f[n], children[n + 1]) \in Seq(Servers)
    BY <2>1, AppendValue
  <2>3. f[n + 1] = IF TimedOut(children[n + 1]) THEN Append(f[n], children[n + 1]) ELSE f[n]
    BY <1>4, <2>1
  <2> QED
    BY <2>1, <2>2, <2>3
<1>7. Nat \subseteq S
  <2> HIDE DEF S
  <2> QED
    BY <1>5, <1>6, NatSetInduction
<1>8. Len(children) \in S
  BY <1>2, <1>7
<1> QED
  BY <1>1, <1>8

\* a server that has a number keeps one
StillNumbered == \A t \in Servers : first[t] # None => first'[t] # None

LEMMA RemoveListed ==
  ASSUME Listed, NEW s, RemoveServer(s)
  PROVE  /\ Listed' /\ StillNumbered
         /\ Live' = Live \ {s}
         /\ \A t \in Live' : first[t] # None
         /\ \A t \in Live' \ Behind(children, s) : first'[t] = first[t]
<1>1. children \in Seq(Servers) /\ IsInjective(children) /\ s \in Range(children)
  BY DEF Listed, RemoveServer, Live
<1>2. PICK rest \in Seq(Servers) : rest = Without(children, s)
  BY <1>1, WithoutValue
<1>3. /\ IsInjective(rest) /\ Range(rest) = Range(children) \ {s}
      /\ \A t \in Range(children) \ ({s} \cup Behind(children, s)) :
           FirstIn(rest, t) = FirstIn(children, t)
  BY <1>1, <1>2, WithoutValue
<1>4. children' = rest
  BY <1>2 DEF RemoveServer
<1>5. Live' = Range(rest) /\ Live = Range(children)
  BY <1>4 DEF Live
<1>6. first' = [t \in Servers |-> IF t \in Range(rest) THEN FirstIn(rest, t) ELSE first[t]]
  BY <1>4 DEF RemoveServer
<1>7. \A t \in Range(rest) : FirstIn(rest, t) \in WorkerIDs /\ t \in Servers
  BY <1>3, NumbersFit DEF Range
<1>8. \A t \in Servers : first[t] \in WorkerIDs \cup {None}
  BY DEF Listed
<1>9. \A t \in Range(rest) : first'[t] = FirstIn(rest, t)
  BY <1>6, <1>7
<1>10. first' \in [Servers -> WorkerIDs \cup {None}]
  BY <1>6, <1>7, <1>8
<1>11. Listed'
  BY <1>3, <1>4, <1>5, <1>9, <1>10 DEF Listed
<1>12. StillNumbered
  BY <1>6, <1>7, ValueOfWorkerIDs DEF StillNumbered
<1>13. \A t \in Live : first[t] = FirstIn(children, t) /\ first[t] \in WorkerIDs
  BY <1>1, <1>5, NumbersFit DEF Listed
<1>14. \A t \in Live' : first[t] # None
  BY <1>3, <1>5, <1>13, ValueOfWorkerIDs
<1>15. ASSUME NEW t \in Live', t \notin Behind(children, s)
       PROVE  first'[t] = first[t]
  BY <1>3, <1>5, <1>9, <1>13, <1>15
<1> QED
  BY <1>3, <1>5, <1>11, <1>12, <1>14, <1>15

LEMMA AddListed ==
  ASSUME Listed, NEW s \in Servers, s \notin Live,
         children' = Append(children, s), first' = [first EXCEPT ![s] = Total(children)]
  PROVE  /\ Listed' /\ StillNumbered
         /\ Live' = Live \cup {s}
         /\ first'[s] \in WorkerIDs
         /\ \A t \in Live : first'[t] = first[t]
         /\ Total(children') = Total(children) + Workers[s]
<1>1. children \in Seq(Servers) /\ IsInjective(children) /\ s \notin Range(children)
  BY DEF Listed, Live
<1>2. PICK long \in Seq(Servers) : long = Append(children, s)
  BY <1>1, TotalOfAppend
<1>3. /\ IsInjective(long) /\ Range(long) = Range(children) \cup {s}
      /\ FirstIn(long, s) = Total(children)
      /\ Total(long) = Total(children) + Workers[s]
      /\ \A t \in Range(children) : FirstIn(long, t) = FirstIn(children, t)
  BY <1>1, <1>2, TotalOfAppend
<1>4. Live' = Range(long) /\ Live = Range(children) /\ children' = long
  BY <1>2 DEF Live
<1>5. Total(children) \in WorkerIDs
  BY <1>3, NumbersFit
<1>6. first \in [Servers -> WorkerIDs \cup {None}]
  BY DEF Listed
<1>7. /\ first' \in [Servers -> WorkerIDs \cup {None}] /\ first'[s] = Total(children)
      /\ \A t \in Servers : t # s => first'[t] = first[t]
  BY <1>5, <1>6
<1>8. \A t \in Live : t \in Servers /\ t # s /\ first[t] = FirstIn(children, t)
  BY <1>1, <1>4 DEF Listed, Range
<1>9. \A t \in Live' : first'[t] = FirstIn(long, t)
  BY <1>3, <1>4, <1>7, <1>8
<1>10. Listed'
  BY <1>3, <1>4, <1>7, <1>9 DEF Listed
<1>11. StillNumbered
  BY <1>5, <1>7, ValueOfWorkerIDs DEF StillNumbered
<1> QED
  BY <1>3, <1>4, <1>5, <1>7, <1>8, <1>10, <1>11

\* the goroutines are not disturbed as long as every server keeps a number
LEMMA JobsStayOK ==
  ASSUME NEW js, \A j \in js : JobOK(j), StillNumbered
  PROVE  \A j \in js : JobOK(j)'
<1> SUFFICES ASSUME NEW j \in js
             PROVE  JobOK(j)'
  OBVIOUS
<1>1. JobOK(j)
  OBVIOUS
<1>2. j \in JobType
  BY <1>1 DEF JobOK
<1>3. j.nodes \subseteq Servers
  BY <1>2 DEF JobType
<1>4. \A s \in j.nodes : first'[s] # None
  BY <1>1, <1>3 DEF JobOK, StillNumbered
<1> QED
  BY <1>1, <1>4 DEF JobOK

LEMMA NewJobOK ==
  ASSUME NEW id \in Nat, NEW type \in {"new", "update"}, NEW nodes \in SUBSET Servers, nodes # {},
         \A s \in nodes : first'[s] # None, type = "new" => \E s \in Servers : nodes = {s}
  PROVE  \A j : j = Job(id, type, nodes) => JobOK(j)'
<1> SUFFICES ASSUME NEW j, j = Job(id, type, nodes)
             PROVE  JobOK(j)'
  OBVIOUS
<1>1. 0 \in 0 .. MaxTotal
  BY ValueOfWorkerIDs
<1>2. j = [id |-> id, type |-> type, nodes |-> nodes, pc |-> "start", count |-> 0, rest |-> nodes]
  BY DEF Job
<1>3. j \in JobType
  BY <1>1, <1>2 DEF JobType
<1>4. j.nodes = nodes /\ j.type = type /\ j.pc = "start"
  BY <1>2
<1> QED
  BY <1>3, <1>4 DEF JobOK

LEMMA InitTyped ==
  ASSUME Init
  PROVE  Typed
<1>1. children \in Seq(Servers) /\ IsInjective(children)
  BY StartsAssumption DEF Init
<1>2. /\ MaxTotal \in Nat /\ Total(children) \in 0 .. MaxTotal
      /\ \A s \in Range(children) : FirstIn(children, s) \in WorkerIDs
  BY <1>1, NumbersFit
<1>3. first = [s \in Servers |-> IF s \in Live THEN FirstIn(children, s) ELSE None]
  BY DEF Init
<1>4. first \in [Servers -> WorkerIDs \cup {None}]
  BY <1>2, <1>3 DEF Live
<1>5. \A s \in Live : s \in Servers /\ first[s] = FirstIn(children, s)
  BY <1>1, <1>3 DEF Live, Range
<1>6. Listed
  BY <1>1, <1>4, <1>5 DEF Listed
<1>7. fwd \in [WorkerIDs -> Servers \cup {None}]
  <2>1. fwd = [w \in WorkerIDs |-> IF w < num THEN CHOOSE s \in Live : w \in WidsOf(s) ELSE None]
    BY DEF Init
  <2>2. ASSUME NEW w \in WorkerIDs, w < num
        PROVE  (CHOOSE s \in Live : w \in WidsOf(s)) \in Servers
    <3>1. w \in Nat /\ w < Total(children)
      BY <2>2, ValueOfWorkerIDs DEF Init
    <3>2. PICK s \in Range(children) : FirstIn(children, s) <= w /\ w < FirstIn(children, s) + Workers[s]
      BY <1>1, <3>1, NoGap
    <3>3. FirstIn(children, s) \in Nat /\ Workers[s] \in Nat
      BY <1>1, FirstInValue
    <3>4. s \in Live /\ w \in WidsOf(s)
      BY <1>5, <3>1, <3>2, <3>3 DEF WidsOf, Live
    <3> QED
      BY <1>5, <3>4
  <2> QED
    BY <2>1, <2>2
<1>8. idleList \in [WorkerIDs -> Nat \cup {None}]
  <2>1. \A w \in WorkerIDs : DstID(LeafID, w) \in Nat
    BY ValueOfWorkerIDs, NumbersAssumption DEF DstID
  <2> QED
    BY <2>1 DEF Init
<1>9. TablesOK
  <2>1. told = [s \in Servers |-> None] /\ joined = first
    BY DEF Init
  <2>2. told \in [Servers -> WorkerIDs \cup {None}] /\ joined \in [Servers -> WorkerIDs \cup {None}]
    BY <1>4, <2>1
  <2> QED
    BY <1>2, <1>7, <1>8, <2>2 DEF TablesOK, Init
<1>10. HealthOK
  <2>1. hm = [pc |-> "scan", failed |-> <<>>, moved |-> {}]
    BY DEF Init
  <2>2. <<>> \in Seq(Servers)
    BY EmptyValue
  <2>3. /\ hm \in [pc : {"scan", "remove", "cut"}, failed : Seq(Servers), moved : SUBSET Servers]
        /\ hm.moved = {} /\ hm.pc = "scan"
    BY <2>1, <2>2
  <2> QED
    BY <2>3 DEF HealthOK, Init
<1>11. \A j \in jobs : JobOK(j)
  BY DEF Init
<1> QED
  BY <1>6, <1>9, <1>10, <1>11, NumbersAssumption DEF Typed, Init

LEMMA CallTyped ==
  ASSUME Typed, Call
  PROVE  calls \in Nat /\ calls' \in 0 .. MaxCalls /\ up' \in BOOLEAN
BY NumbersAssumption DEF Typed, Call

LEMMA AddServerTyped ==
  ASSUME Typed, NEW s \in Servers, AddServer(s)
  PROVE  Typed'
<1>1. /\ Listed /\ TablesOK /\ HealthOK /\ \A j \in jobs : JobOK(j)
      /\ Call /\ s \notin Live
      /\ children' = Append(children, s) /\ first' = [first EXCEPT ![s] = Total(children)]
      /\ index' = index /\ hm' = hm /\ failing' = failing
  BY DEF Typed, AddServer
<1>2. Listed' /\ StillNumbered /\ first'[s] \in WorkerIDs
  BY <1>1, AddListed
<1>3. calls \in Nat /\ calls' \in 0 .. MaxCalls /\ up' \in BOOLEAN
  BY <1>1, CallTyped
<1>4. first \in [Servers -> WorkerIDs \cup {None}] /\ first'[s] = Total(children)
  BY <1>1 DEF Listed
<1>5. told' = [told EXCEPT ![s] = None] /\ joined' = [joined EXCEPT ![s] = Total(children)]
  BY DEF AddServer
<1>6. TablesOK'
  BY <1>1, <1>2, <1>4, <1>5 DEF TablesOK, Call, tableVars
<1>7. HealthOK'
  <2>1. \A t \in hm.moved : t \in Servers /\ first[t] # None
    BY <1>1 DEF HealthOK
  <2>2. \A t \in hm.moved : first'[t] # None
    BY <1>2, <2>1 DEF StillNumbered
  <2> QED
    BY <1>1, <2>2 DEF HealthOK, AddServer
<1>8. \A j \in jobs : JobOK(j)'
  BY <1>1, <1>2, JobsStayOK
<1>9. PICK job : job = Job(calls, "new", {s})
  OBVIOUS
<1>10. JobOK(job)'
  <2>1. \A t \in {s} : first'[t] # None
    BY <1>2, ValueOfWorkerIDs
  <2> QED
    BY <1>3, <1>9, <2>1, NewJobOK
<1>11. jobs' = jobs \cup {job}
  BY <1>9 DEF AddServer
<1> QED
  BY <1>1, <1>2, <1>3, <1>6, <1>7, <1>8, <1>10, <1>11 DEF Typed

LEMMA FailServerTyped ==
  ASSUME Typed, NEW s \in Servers, FailServer(s)
  PROVE  Typed'
<1>1. /\ Listed /\ TablesOK /\ HealthOK /\ \A j \in jobs : JobOK(j)
      /\ Call /\ UNCHANGED <<topoVars, healthVars, jobs, told>>
      /\ failing' = failing \cup {[id |-> calls, server |-> s]}
  BY DEF Typed, FailServer
<1>2. calls \in 0 .. MaxCalls /\ calls' \in 0 .. MaxCalls /\ up' \in BOOLEAN
  BY <1>1, CallTyped DEF Typed
<1>3. failing' \subseteq [id : 0 .. MaxCalls, server : Servers]
  BY <1>1, <1>2 DEF HealthOK
<1>4. HealthOK'
  BY <1>1, <1>3 DEF HealthOK, healthVars, topoVars
<1>5. Listed' /\ TablesOK'
  BY <1>1 DEF Listed, Live, TablesOK, Call, tableVars, topoVars
<1>6. \A j \in jobs : JobOK(j)'
  BY <1>1 DEF JobOK, topoVars
<1> QED
  BY <1>1, <1>2, <1>4, <1>5, <1>6 DEF Typed, topoVars

\* the panic of a server that is removed twice
LEMMA RemoveAgainTyped ==
  ASSUME Typed, NEW s, RemoveAgain(s), UNCHANGED <<healthVars, tableVars, told, calls>>,
         failing' \subseteq failing
  PROVE  Typed'
<1>1. /\ UNCHANGED <<topoVars, healthVars, jobs, tableVars, told, calls>>
      /\ up' \in BOOLEAN
  BY DEF RemoveAgain, Panic
<1>2. Listed' /\ TablesOK' /\ HealthOK'
  BY <1>1 DEF Typed, Listed, Live, TablesOK, HealthOK, healthVars, tableVars, topoVars
<1>3. \A j \in jobs : JobOK(j)'
  BY <1>1 DEF Typed, JobOK, topoVars
<1> QED
  BY <1>1, <1>2, <1>3 DEF Typed, topoVars

LEMMA FinishFailTyped ==
  ASSUME Typed, NEW f \in failing, FinishFail(f)
  PROVE  Typed'
<1>1. /\ Listed /\ TablesOK /\ HealthOK /\ \A j \in jobs : JobOK(j)
      /\ UNCHANGED <<healthVars, tableVars, told, calls>> /\ failing' \subseteq failing
  BY DEF Typed, FinishFail
<1>2. f.id \in Nat
  BY <1>1 DEF HealthOK
<1>3. PICK s : s = f.server
  OBVIOUS
<1>4. CASE RemoveServer(s)
  <2>1. /\ Listed' /\ StillNumbered /\ Live' = Live \ {s} /\ (\A t \in Live' : first[t] # None)
        /\ index' = index /\ joined' = joined /\ up' = up
    BY <1>1, <1>4, RemoveListed DEF RemoveServer
  <2>2. TablesOK'
    BY <1>1, <2>1 DEF TablesOK, tableVars
  <2>3. HealthOK'
    <3>1. \A t \in hm.moved : t \in Servers /\ first[t] # None
      BY <1>1 DEF HealthOK
    <3>2. \A t \in hm.moved : first'[t] # None
      BY <2>1, <3>1 DEF StillNumbered
    <3> QED
      BY <1>1, <3>2 DEF HealthOK, healthVars
  <2>4. \A j \in jobs : JobOK(j)'
    BY <1>1, <2>1, JobsStayOK
  <2>5. PICK behind \in SUBSET Servers : behind = Behind(children, s) /\ behind \subseteq Live'
    <3>1. Behind(children, s) \subseteq Range(children) \ {s} /\ Range(children) \subseteq Servers
      BY <1>1, BehindValue DEF Listed, Range
    <3> QED
      BY <2>1, <3>1 DEF Live
  <2>6. \A t \in behind : first'[t] # None
    BY <2>1, <2>5 DEF StillNumbered
  <2>7. PICK job : job = Job(f.id, "update", behind)
    OBVIOUS
  <2>8. behind # {} => JobOK(job)'
    BY <1>2, <2>6, <2>7, NewJobOK
  <2>9. jobs' = IF behind = {} THEN jobs ELSE jobs \cup {job}
    BY <1>3, <1>4, <2>5, <2>7 DEF FinishFail, RemoveServer, RemoveAgain
  <2>10. calls' = calls
    BY <1>1
  <2> QED
    BY <2>1, <2>2, <2>3, <2>4, <2>8, <2>9, <2>10 DEF Typed
<1>5. CASE RemoveAgain(s)
  BY <1>1, <1>5, RemoveAgainTyped
<1> QED
  BY <1>3, <1>4, <1>5 DEF FinishFail

LEMMA ScanTyped ==
  ASSUME Typed, Scan
  PROVE  Typed'
<1>1. FailedServers \in Seq(Servers)
  BY FailedServersType DEF Typed, Listed
<1>2. /\ hm' = [hm EXCEPT !.pc = "remove", !.failed = FailedServers]
      /\ seen' = seen \ Range(FailedServers)
      /\ UNCHANGED <<topoVars, fresh, crashed, failing, jobs, tableVars, told, up, calls>>
  BY DEF Scan
<1>3. HealthOK
  BY DEF Typed
<1>4. /\ hm' \in [pc : {"scan", "remove", "cut"}, failed : Seq(Servers), moved : SUBSET Servers]
      /\ hm'.moved = hm.moved /\ hm'.pc = "remove"
  BY <1>1, <1>2, <1>3 DEF HealthOK
<1>5. HealthOK'
  BY <1>2, <1>3, <1>4 DEF HealthOK, topoVars
<1>6. \A j \in jobs : JobOK(j)'
  BY <1>2 DEF Typed, JobOK, topoVars
<1>7. Listed' /\ TablesOK'
  BY <1>2 DEF Typed, Listed, Live, TablesOK, tableVars, topoVars
<1> QED
  BY <1>2, <1>5, <1>6, <1>7 DEF Typed, topoVars

LEMMA LookUpFailedTyped ==
  ASSUME Typed, LookUpFailed
  PROVE  Typed'
<1>1. /\ Listed /\ TablesOK /\ HealthOK /\ hm.failed # <<>>
      /\ UNCHANGED <<topoVars, seen, fresh, crashed, failing, jobs, tableVars, told, up, calls>>
  BY DEF Typed, LookUpFailed
<1>2. PICK tail \in Seq(Servers) : tail = Tail(hm.failed)
  <2>1. hm.failed \in Seq(Servers)
    BY <1>1 DEF HealthOK
  <2> QED
    BY <1>1, <2>1, TailValue
<1>3. PICK s : s = Head(hm.failed)
  OBVIOUS
<1>4. hm' = IF s \in Live THEN [hm EXCEPT !.pc = "cut"]
            ELSE [hm EXCEPT !.failed = tail, !.moved = @ \ {s}]
  BY <1>2, <1>3 DEF LookUpFailed
<1>5. /\ hm' \in [pc : {"scan", "remove", "cut"}, failed : Seq(Servers), moved : SUBSET Servers]
      /\ hm'.moved \subseteq hm.moved
      /\ hm'.pc = "cut" => hm'.failed # <<>>
  <2>1. hm.pc = "remove"
    BY DEF LookUpFailed
  <2> QED
    BY <1>1, <1>4, <2>1 DEF HealthOK
<1>6. HealthOK'
  BY <1>1, <1>5 DEF HealthOK, topoVars
<1>7. \A j \in jobs : JobOK(j)'
  BY <1>1 DEF Typed, JobOK, topoVars
<1>8. Listed' /\ TablesOK'
  BY <1>1 DEF Listed, Live, TablesOK, tableVars, topoVars
<1> QED
  BY <1>1, <1>6, <1>7, <1>8 DEF Typed, topoVars

LEMMA RemoveFailedTyped ==
  ASSUME Typed, RemoveFailed
  PROVE  Typed'
<1>1. /\ Listed /\ TablesOK /\ HealthOK /\ (\A j \in jobs : JobOK(j))
      /\ hm.failed # <<>>
      /\ UNCHANGED <<seen, fresh, crashed, failing, tableVars, told, calls>>
  BY DEF Typed, HealthOK, RemoveFailed
<1>2. PICK s \in Servers, tail \in Seq(Servers) : s = Head(hm.failed) /\ tail = Tail(hm.failed)
  <2>1. hm.failed \in Seq(Servers)
    BY <1>1 DEF HealthOK
  <2> QED
    BY <1>1, <2>1, TailValue
<1>3. CASE RemoveServer(s)
  <2>1. /\ Listed' /\ StillNumbered /\ Live' = Live \ {s} /\ (\A t \in Live' : first[t] # None)
        /\ index' = index /\ joined' = joined /\ up' = up /\ jobs' = jobs
    BY <1>1, <1>2, <1>3, RemoveListed DEF RemoveFailed, RemoveServer, RemoveAgain
  <2>2. Behind(children, s) \subseteq Live' /\ Live' \subseteq Servers
    <3>1. Behind(children, s) \subseteq Range(children) \ {s} /\ Range(children) \subseteq Servers
      BY <1>1, BehindValue DEF Listed, Range
    <3> QED
      BY <2>1, <3>1 DEF Live
  <2>3. PICK moved \in SUBSET Servers :
          moved = Moved(s) /\ \A t \in moved : t \in hm.moved \/ t \in Live'
    <3>1. hm.moved \subseteq Servers
      BY <1>1 DEF HealthOK
    <3>2. Moved(s) = (hm.moved \ {s}) \cup Behind(children, s)
      BY DEF Moved
    <3> QED
      BY <2>2, <3>1, <3>2
  <2>4. \A t \in moved : first'[t] # None
    <3>1. \A t \in hm.moved : first[t] # None
      BY <1>1 DEF HealthOK
    <3> QED
      BY <2>1, <2>3, <3>1 DEF StillNumbered
  <2>5. hm' = [pc |-> "remove", failed |-> tail, moved |-> moved]
    BY <1>2, <1>3, <2>3 DEF RemoveFailed, RemoveServer, RemoveAgain
  <2>6. /\ hm' \in [pc : {"scan", "remove", "cut"}, failed : Seq(Servers), moved : SUBSET Servers]
        /\ hm'.moved = moved /\ hm'.pc = "remove"
    BY <2>5
  <2>7. HealthOK'
    BY <1>1, <2>4, <2>6 DEF HealthOK
  <2>8. \A j \in jobs : JobOK(j)'
    BY <1>1, <2>1, JobsStayOK
  <2>9. TablesOK'
    BY <1>1, <2>1 DEF TablesOK, tableVars
  <2> QED
    BY <1>1, <2>1, <2>7, <2>8, <2>9 DEF Typed
<1>4. CASE RemoveAgain(s)
  <2>1. hm' = hm
    BY <1>2, <1>4 DEF RemoveFailed, RemoveServer, RemoveAgain
  <2> QED
    BY <1>1, <1>4, <2>1, RemoveAgainTyped DEF healthVars
<1> QED
  BY <1>2, <1>3, <1>4 DEF RemoveFailed

LEMMA ReportTyped ==
  ASSUME Typed, Report
  PROVE  Typed'
<1>1. /\ Listed /\ TablesOK /\ HealthOK /\ \A j \in jobs : JobOK(j)
      /\ UNCHANGED <<topoVars, seen, fresh, crashed, failing, tableVars, told, up, calls>>
      /\ hm' = [pc |-> "scan", failed |-> <<>>, moved |-> {}]
  BY DEF Typed, Report
<1>2. /\ hm' \in [pc : {"scan", "remove", "cut"}, failed : Seq(Servers), moved : SUBSET Servers]
      /\ hm'.moved = {} /\ hm'.pc = "scan"
  <2>1. <<>> \in Seq(Servers)
    BY EmptyValue
  <2> QED
    BY <1>1, <2>1
<1>3. HealthOK'
  BY <1>1, <1>2 DEF HealthOK
<1>4. StillNumbered
  BY <1>1 DEF StillNumbered, topoVars
<1>5. \A j \in jobs : JobOK(j)'
  BY <1>1, <1>4, JobsStayOK
<1>6. PICK moved \in SUBSET Servers : moved = hm.moved /\ \A t \in moved : first'[t] # None
  BY <1>1 DEF HealthOK, topoVars
<1>7. calls \in Nat
  BY DEF Typed
<1>8. PICK job : job = Job(calls, "update", moved)
  OBVIOUS
<1>9. moved # {} => JobOK(job)'
  BY <1>6, <1>7, <1>8, NewJobOK
<1>10. jobs' = IF moved = {} THEN jobs ELSE jobs \cup {job}
  BY <1>6, <1>8 DEF Report
<1>11. Listed' /\ TablesOK'
  BY <1>1 DEF Listed, Live, TablesOK, tableVars, topoVars
<1> QED
  BY <1>1, <1>3, <1>5, <1>9, <1>10, <1>11 DEF Typed, topoVars

(* The steps of a goroutine: the goroutine stays of its type, or ends.     *)
LEMMA StepTyped ==
  ASSUME Typed, NEW j \in jobs, Step(j)
  PROVE  Typed'
<1>1. /\ Listed /\ TablesOK /\ HealthOK /\ \A k \in jobs : JobOK(k)
      /\ UNCHANGED <<topoVars, healthVars, failing, calls>>
      /\ JobOK(j) /\ joined' = joined
  BY DEF Typed, Step, topoVars
<1>2. /\ j \in JobType /\ j.nodes # {} /\ \A s \in j.nodes : s \in Servers /\ first[s] \in WorkerIDs
      /\ j.type = "new" => \E s \in Servers : j.nodes = {s}
      /\ j.pc = "idle" => j.type = "new"
      /\ j.pc = "packets" => j.type = "update"
  BY <1>1 DEF JobOK, JobType, Listed
<1>3. StillNumbered
  BY <1>1 DEF StillNumbered, topoVars
<1>4. \A k \in jobs : JobOK(k)'
  BY <1>1, <1>3, JobsStayOK
<1>5. children \in Seq(Servers) /\ Total(children) \in 0 .. MaxTotal
  BY <1>1, NumbersFit DEF Listed
<1>6. ASSUME NEW k \in JobType, k.type = j.type, k.nodes = j.nodes,
             k.pc = "idle" => k.type = "new", k.pc = "packets" => k.type = "update"
      PROVE  JobOK(k)'
  BY <1>4, <1>6 DEF JobOK
<1>7. \A s \in Servers : first[s] \in WorkerIDs \cup {None}
  BY <1>1 DEF Listed
<1>8. /\ CountWorkers(j) \/ NilServer(j) \/ WriteNum(j) \/ WritePorts(j) \/ AddIdle(j) \/ SendPacket(j)
      /\ up
  BY DEF Step
<1>9. TablesOK' /\ up' \in BOOLEAN /\ \A k \in jobs' : JobOK(k)'
  <2>1. CASE CountWorkers(j)
    <3>1. PICK k : k = [j EXCEPT !.pc = "num", !.count = Total(children),
                                 !.rest = IF j.type = "new" THEN j.nodes \cap Live ELSE j.nodes]
      OBVIOUS
    <3>2. k \in JobType /\ k.type = j.type /\ k.nodes = j.nodes /\ k.pc = "num"
      BY <1>2, <1>5, <3>1 DEF JobType
    <3>3. JobOK(k)'
      BY <1>6, <3>2
    <3>4. jobs' = (jobs \ {j}) \cup {k} /\ UNCHANGED <<tableVars, told, up>>
      BY <2>1, <3>1 DEF CountWorkers, Goto
    <3> QED
      BY <1>1, <1>4, <1>8, <3>3, <3>4 DEF TablesOK, tableVars
  <2>2. CASE NilServer(j)
    BY <1>1, <1>4, <2>2 DEF NilServer, Panic, TablesOK, tableVars
  <2>3. CASE WriteNum(j)
    <3>1. PICK k : k = [j EXCEPT !.pc = "ports"]
      OBVIOUS
    <3>2. k \in JobType /\ k.type = j.type /\ k.nodes = j.nodes /\ k.pc = "ports"
      BY <1>2, <3>1 DEF JobType
    <3>3. JobOK(k)'
      BY <1>6, <3>2
    <3>4. /\ jobs' = (jobs \ {j}) \cup {k} /\ num' = j.count
          /\ UNCHANGED <<fwd, idleList, idleCount, told, up>>
      BY <2>3, <3>1 DEF WriteNum, Goto
    <3>5. j.count \in 0 .. MaxTotal
      BY <1>2 DEF JobType
    <3> QED
      BY <1>1, <1>4, <1>8, <3>3, <3>4, <3>5 DEF TablesOK
  <2>4. CASE WritePorts(j)
    <3>1. PICK s \in j.rest :
            /\ fwd' = [w \in WorkerIDs |-> IF w \in WidsOf(s) THEN s ELSE fwd[w]]
            /\ Goto(j, IF j.rest = {s}
                       THEN [j EXCEPT !.pc = IF j.type = "new" THEN "idle" ELSE "packets", !.rest = j.nodes]
                       ELSE [j EXCEPT !.rest = @ \ {s}])
      BY <2>4 DEF WritePorts
    <3>2. PICK k : k = IF j.rest = {s}
                       THEN [j EXCEPT !.pc = IF j.type = "new" THEN "idle" ELSE "packets", !.rest = j.nodes]
                       ELSE [j EXCEPT !.rest = @ \ {s}]
      OBVIOUS
    <3>3. s \in Servers /\ j.type \in {"new", "update"}
      BY <1>2 DEF JobType
    <3>4. j.pc = "ports"
      BY <2>4 DEF WritePorts
    <3>5. /\ k \in JobType /\ k.type = j.type /\ k.nodes = j.nodes
          /\ k.pc = "idle" => k.type = "new"
          /\ k.pc = "packets" => k.type = "update"
      <4>1. CASE j.rest = {s} /\ j.type = "new"
        <5>1. k = [j EXCEPT !.pc = "idle", !.rest = j.nodes]
          BY <3>2, <4>1
        <5> QED
          BY <1>2, <4>1, <5>1 DEF JobType
      <4>2. CASE j.rest = {s} /\ j.type = "update"
        <5>1. k = [j EXCEPT !.pc = "packets", !.rest = j.nodes]
          BY <3>2, <4>2
        <5> QED
          BY <1>2, <4>2, <5>1 DEF JobType
      <4>3. CASE j.rest # {s}
        <5>1. k = [j EXCEPT !.rest = j.rest \ {s}]
          BY <3>2, <4>3
        <5> QED
          BY <1>2, <3>4, <5>1 DEF JobType
      <4> QED
        BY <3>3, <4>1, <4>2, <4>3
    <3>6. JobOK(k)'
      BY <1>6, <3>5
    <3>7. jobs' = (jobs \ {j}) \cup {k}
      BY <3>1, <3>2 DEF Goto
    <3>8. fwd' \in [WorkerIDs -> Servers \cup {None}]
      <4>1. fwd \in [WorkerIDs -> Servers \cup {None}]
        BY <1>1 DEF TablesOK
      <4> QED
        BY <3>1, <3>3, <4>1
    <3>9. UNCHANGED <<num, idleList, idleCount, told, up>>
      BY <2>4 DEF WritePorts
    <3> QED
      BY <1>1, <1>4, <1>8, <3>6, <3>7, <3>8, <3>9 DEF TablesOK
  <2>5. CASE AddIdle(j)
    <3>1. PICK s \in Servers : j.nodes = {s}
      BY <1>2, <2>5 DEF AddIdle
    <3>2. idleList' = [w \in WorkerIDs |->
                         IF w \in WidsOf(s) THEN idleCount + w - first[s] ELSE idleList[w]]
      <4>1. (CHOOSE t \in j.nodes : TRUE) = s
        BY <3>1
      <4>2. \A w : (\E t \in j.nodes : w \in WidsOf(t)) <=> w \in WidsOf(s)
        BY <3>1
      <4> QED
        BY <2>5, <4>1, <4>2 DEF AddIdle
    <3>3. first[s] \in WorkerIDs /\ WorkerIDs \subseteq Nat /\ idleCount \in Nat
      BY <1>1, <1>2, <3>1, ValueOfWorkerIDs DEF TablesOK
    <3>4. \A w \in WorkerIDs : w \in WidsOf(s) => idleCount + w - first[s] \in Nat
      <4> SUFFICES ASSUME NEW w \in WorkerIDs, w \in WidsOf(s)
                   PROVE  idleCount + w - first[s] \in Nat
        OBVIOUS
      <4>1. PICK f \in Nat, n \in Nat : f = first[s] /\ n = Workers[s]
        BY <3>3, WorkersAssumption
      <4>2. w \in Nat /\ f <= w
        BY <3>3, <4>1 DEF WidsOf
      <4>3. idleCount + w - f \in Nat
        BY <3>3, <4>2
      <4> QED
        BY <4>1, <4>3
    <3>5. idleList' \in [WorkerIDs -> Nat \cup {None}]
      <4>1. idleList \in [WorkerIDs -> Nat \cup {None}]
        BY <1>1 DEF TablesOK
      <4> QED
        BY <3>2, <3>4, <4>1
    <3>6. jobs' = jobs \ {j} /\ UNCHANGED <<num, fwd, idleCount, told, up>>
      BY <2>5 DEF AddIdle, End
    <3> QED
      BY <1>1, <1>4, <1>8, <3>5, <3>6 DEF TablesOK
  <2>6. CASE SendPacket(j)
    <3>1. PICK s \in j.rest :
            /\ told' = [t \in Servers |->
                 IF index = LeafID /\ fwd[first[s]] = t THEN first[s] ELSE told[t]]
            /\ IF j.rest = {s} THEN End(j) ELSE Goto(j, [j EXCEPT !.rest = @ \ {s}])
      BY <2>6 DEF SendPacket
    <3>2. first[s] \in WorkerIDs \cup {None}
      BY <1>2, <1>7 DEF JobType
    <3>3. told' \in [Servers -> WorkerIDs \cup {None}]
      <4>1. told \in [Servers -> WorkerIDs \cup {None}]
        BY <1>1 DEF TablesOK
      <4> QED
        BY <3>1, <3>2, <4>1
    <3>4. PICK k : k = [j EXCEPT !.rest = j.rest \ {s}]
      OBVIOUS
    <3>5. k \in JobType /\ k.type = j.type /\ k.nodes = j.nodes /\ k.pc = j.pc
      BY <1>2, <3>4 DEF JobType
    <3>6. JobOK(k)'
      BY <1>2, <1>6, <3>5
    <3>7. \A i \in jobs' : i \in jobs \/ i = k
      BY <3>1, <3>4 DEF End, Goto
    <3>8. UNCHANGED <<tableVars, up>>
      BY <2>6 DEF SendPacket
    <3> QED
      BY <1>1, <1>4, <1>8, <3>3, <3>6, <3>7, <3>8 DEF TablesOK, tableVars
  <2> QED
    BY <1>8, <2>1, <2>2, <2>3, <2>4, <2>5, <2>6
<1>10. Listed' /\ HealthOK'
  BY <1>1 DEF Listed, Live, HealthOK, topoVars, healthVars
<1> QED
  BY <1>1, <1>9, <1>10 DEF Typed, topoVars

LEMMA NextTyped ==
  ASSUME Typed, [Next]_vars
  PROVE  Typed'
<1>1. CASE UNCHANGED vars
  <2>1. UNCHANGED <<topoVars, healthVars, failing, tableVars, jobs, told, up, calls>>
    BY <1>1 DEF vars, topoVars, healthVars, tableVars
  <2>2. Listed' /\ TablesOK' /\ HealthOK'
    BY <2>1 DEF Typed, Listed, Live, TablesOK, HealthOK, topoVars, healthVars, tableVars
  <2>3. \A j \in jobs : JobOK(j)'
    BY <2>1 DEF Typed, JobOK, topoVars
  <2> QED
    BY <2>1, <2>2, <2>3 DEF Typed, topoVars
<1>2. ASSUME NEW i \in Indexes, ChangeIndex(i)
      PROVE  Typed'
  <2>1. /\ UNCHANGED <<children, first, joined, healthVars, failing, tableVars, jobs, told, up>>
        /\ index' = i
    BY <1>2 DEF ChangeIndex, Call
  <2>2. Listed' /\ TablesOK' /\ HealthOK'
    BY <2>1 DEF Typed, Listed, Live, TablesOK, HealthOK, healthVars, tableVars
  <2>3. \A j \in jobs : JobOK(j)'
    BY <2>1 DEF Typed, JobOK
  <2>4. calls' \in 0 .. MaxCalls /\ up' \in BOOLEAN
    BY <1>2, CallTyped DEF ChangeIndex
  <2> QED
    BY <2>1, <2>2, <2>3, <2>4 DEF Typed
<1>3. ASSUME NEW s \in Servers, Crash(s) \/ OnNodePingRecv(s) \/ TimePasses(s)
      PROVE  Typed'
  <2>1. /\ UNCHANGED <<topoVars, tableVars, hm, failing, jobs, told, up>>
        /\ calls' \in 0 .. MaxCalls
    BY <1>3, NumbersAssumption DEF Typed, Crash, OnNodePingRecv, TimePasses
  <2>2. Listed' /\ TablesOK'
    BY <2>1 DEF Typed, Listed, Live, TablesOK, topoVars, tableVars
  <2>3. HealthOK'
    BY <1>3, <2>1 DEF Typed, HealthOK, topoVars, Crash, OnNodePingRecv, TimePasses
  <2>4. \A j \in jobs : JobOK(j)'
    BY <2>1 DEF Typed, JobOK, topoVars
  <2> QED
    BY <2>1, <2>2, <2>3, <2>4 DEF Typed, topoVars
<1> QED
  BY <1>1, <1>2, <1>3, AddServerTyped, FailServerTyped, FinishFailTyped, ScanTyped, LookUpFailedTyped,
     RemoveFailedTyped, ReportTyped, StepTyped DEF Next, Handlers, Health, Jobs

(* At whatever time servers are added, fail, crash or go silent, and       *)
(* however the goroutines of the bus and the health manager are            *)
(* interleaved with that, the tables of the data plane stay within the     *)
(* numbers of workers the servers of the leaf can have, and what a server  *)
(* is told is a worker ID.                                                 *)
THEOREM LeafBusType == Spec => []TypeOK
<1>1. Spec => []Typed
  <2>1. Init => Typed
    BY InitTyped
  <2>2. Typed /\ [Next]_vars => Typed'
    BY NextTyped
  <2> QED
    BY <2>1, <2>2, PTL DEF Spec
<1>2. Typed => TypeOK
  BY TypedIsType
<1> QED
  BY <1>1, <1>2, PTL

-----------------------------------------------------------------------------
(* One change at a time.                                                   *)

\* worker IDs of servers that are there
LEMMA WidsValue ==
  ASSUME Listed
  PROVE  /\ \A t \in Live : /\ first[t] \in WidsOf(t)
                            /\ \A w \in WidsOf(t) : w \in WorkerIDs /\ w < Total(children)
         /\ \A s, t \in Live : s # t => WidsOf(s) \cap WidsOf(t) = {}
         /\ \A w \in 0 .. Total(children) - 1 : \E t \in Live : w \in WidsOf(t)
         /\ Total(children) \in Nat
<1>1. children \in Seq(Servers) /\ IsInjective(children) /\ Live = Range(children)
  BY DEF Listed, Live
<1>2. Total(children) \in 0 .. MaxTotal /\ MaxTotal \in Nat
  BY <1>1, NumbersFit
<1>3. ASSUME NEW t \in Live
      PROVE  /\ first[t] = FirstIn(children, t)
             /\ first[t] \in Nat /\ Workers[t] \in Nat \ {0, 1}
             /\ first[t] + Workers[t] <= Total(children)
  BY <1>1, FirstInValue DEF Listed
<1>4. ASSUME NEW t \in Live
      PROVE  /\ first[t] \in WidsOf(t)
             /\ \A w \in WidsOf(t) : w \in WorkerIDs /\ w < Total(children)
  BY <1>2, <1>3 DEF WidsOf, WorkerIDs
<1>5. ASSUME NEW s \in Live, NEW t \in Live, s # t
      PROVE  WidsOf(s) \cap WidsOf(t) = {}
  <2>1. first[s] + Workers[s] <= first[t] \/ first[t] + Workers[t] <= first[s]
    BY <1>1, <1>3, <1>5, FirstInOrder
  <2> QED
    BY <1>3, <2>1 DEF WidsOf
<1>6. ASSUME NEW w \in 0 .. Total(children) - 1
      PROVE  \E t \in Live : w \in WidsOf(t)
  <2>1. w \in Nat /\ w < Total(children)
    BY <1>2
  <2>2. PICK t \in Live : FirstIn(children, t) <= w /\ w < FirstIn(children, t) + Workers[t]
    BY <1>1, <2>1, NoGap
  <2> QED
    BY <1>3, <2>1, <2>2 DEF WidsOf
<1> QED
  BY <1>2, <1>4, <1>5, <1>6

LEMMA OneJob ==
  ASSUME NEW j
  PROVE  /\ UNION {ToWrite(k) : k \in {j}} = ToWrite(j) /\ UNION {ToTell(k) : k \in {j}} = ToTell(j)
         /\ UNION {ToWrite(k) : k \in {}} = {} /\ UNION {ToTell(k) : k \in {}} = {}
OBVIOUS

\* what the tables lack and servers do not know before and after a step
LEMMA NoneLacks ==
  /\ jobs = {} => Lacking = hm.moved /\ Untold = hm.moved
  /\ jobs' = {} => Lacking' = hm'.moved /\ Untold' = hm'.moved
  /\ \A j : jobs = {j} => Lacking = hm.moved \cup ToWrite(j) /\ Untold = hm.moved \cup ToTell(j)
  /\ \A j : jobs' = {j} => Lacking' = hm'.moved \cup ToWrite(j) /\ Untold' = hm'.moved \cup ToTell(j)
<1>1. jobs = {} => Lacking = hm.moved /\ Untold = hm.moved
  BY DEF Lacking, Untold
<1>2. jobs' = {} => Lacking' = hm'.moved /\ Untold' = hm'.moved
  BY DEF Lacking, Untold
<1>3. ASSUME NEW j, jobs = {j}
      PROVE  Lacking = hm.moved \cup ToWrite(j) /\ Untold = hm.moved \cup ToTell(j)
  BY <1>3, OneJob DEF Lacking, Untold
<1>4. ASSUME NEW j, jobs' = {j}
      PROVE  Lacking' = hm'.moved \cup ToWrite(j) /\ Untold' = hm'.moved \cup ToTell(j)
  BY <1>4, OneJob DEF Lacking, Untold
<1> QED
  BY <1>1, <1>2, <1>3, <1>4

\* a step that only takes servers away or finds more to write keeps the tables
LEMMA TablesStay ==
  ASSUME Tables, \A j \in jobs : j.pc # "ports", num' = num, fwd' = fwd,
         \A t \in Live' \ Lacking' : t \in Live \ Lacking /\ first'[t] = first[t]
  PROVE  Tables'
<1>1. ASSUME NEW t \in Live', t \notin Lacking'
      PROVE  Reached(t)'
  <2>1. Reached(t) /\ first'[t] = first[t]
    BY <1>1 DEF Tables
  <2> QED
    BY <2>1 DEF Reached, WidsOf
<1>2. Exact'
  <2> SUFFICES ASSUME NEW w \in 0 .. num' - 1, fwd'[w] \in Live' \ Lacking'
               PROVE  w \in WidsOf(fwd[w])'
    BY DEF Exact
  <2>1. PICK t : t = fwd[w]
    OBVIOUS
  <2>2. t \in Live \ Lacking /\ first'[t] = first[t] /\ w \in 0 .. num - 1
    BY <2>1
  <2>3. w \in WidsOf(t)
    BY <2>1, <2>2 DEF Tables, Exact
  <2> QED
    BY <2>1, <2>2, <2>3 DEF WidsOf
<1> QED
  BY <1>1, <1>2 DEF Tables

LEMMA ToldStays ==
  ASSUME Told,
         \A t \in Live' \ Untold' :
           \/ /\ t \in Live \ Untold /\ first'[t] = first[t]
              /\ told'[t] = told[t] /\ joined'[t] = joined[t]
           \/ Taken(t)' = first'[t]
  PROVE  Told'
<1> SUFFICES ASSUME NEW t \in Live', t \notin Untold'
             PROVE  Taken(t)' = first'[t]
  BY DEF Told
<1> QED
  BY DEF Told, Taken

Paces == Typed /\ InTurn /\ Tables

\* steps that leave the servers, the goroutines and the tables alone
LEMMA OthersPace ==
  ASSUME Paces, UNCHANGED <<children, first, joined, hm, jobs, num, fwd, told>>,
         failing' \subseteq failing
  PROVE  InTurn' /\ Tables' /\ (Told => Told')
<1>1. Live' = Live /\ Lacking' = Lacking /\ Untold' = Untold
  BY DEF Live, Lacking, Untold
<1>2. InTurn'
  BY <1>1 DEF Paces, InTurn, JobInTurn
<1>3. \A t \in Live : Reached(t)' <=> Reached(t)
  BY DEF Reached, WidsOf
<1>4. Exact' <=> Exact
  BY <1>1 DEF Exact, WidsOf
<1>5. Tables'
  BY <1>1, <1>3, <1>4 DEF Paces, Tables
<1>6. Told => Told'
  BY <1>1 DEF Told, Taken
<1> QED
  BY <1>2, <1>5, <1>6

LEMMA AddServerPaces ==
  ASSUME Paced, Paces, NEW s \in Servers, AddServer(s)
  PROVE  InTurn' /\ Tables' /\ (Told => Told')
<1>1. Typed /\ Listed /\ InTurn /\ Tables
  BY DEF Paces, Typed
<1>2. /\ jobs = {} /\ failing = {} /\ hm.pc = "scan" /\ s \notin Live /\ hm' = hm /\ failing' = failing
      /\ children' = Append(children, s) /\ first' = [first EXCEPT ![s] = Total(children)]
      /\ num' = num /\ fwd' = fwd
  BY DEF AddServer, Call, Calm, tableVars
<1>3. hm.failed = <<>> /\ hm.moved = {}
  BY <1>1, <1>2 DEF InTurn
<1>4. Live' = Live \cup {s} /\ \A t \in Live : first'[t] = first[t]
  BY <1>1, <1>2, AddListed
<1>5. PICK job : job = Job(calls, "new", {s})
  OBVIOUS
<1>6. jobs' = {job}
  BY <1>2, <1>5 DEF AddServer
<1>7. job.nodes = {s} /\ job.rest = {s} /\ job.pc = "start" /\ job.type = "new"
  BY <1>5 DEF Job
<1>8. Lacking' = {s} /\ Untold' = {} /\ Lacking = {} /\ Untold = {}
  BY <1>2, <1>3, <1>6, <1>7, NoneLacks DEF ToWrite, ToTell
<1>9. JobInTurn(job)'
  BY <1>4, <1>7 DEF JobInTurn
<1>10. InTurn'
  BY <1>2, <1>3, <1>6, <1>9 DEF InTurn
<1>11. Tables'
  BY <1>1, <1>2, <1>4, <1>8, TablesStay
<1>12. ASSUME Told
       PROVE  Told'
  <2>1. /\ s \in Servers /\ first \in [Servers -> WorkerIDs \cup {None}]
        /\ told \in [Servers -> WorkerIDs \cup {None}] /\ joined \in [Servers -> WorkerIDs \cup {None}]
    BY <1>1 DEF Typed, Listed, TablesOK
  <2>2. told' = [told EXCEPT ![s] = None] /\ joined' = [joined EXCEPT ![s] = Total(children)]
    BY DEF AddServer
  <2>3. /\ told'[s] = None /\ joined'[s] = first'[s]
        /\ \A t : t # s => told'[t] = told[t] /\ joined'[t] = joined[t]
    BY <1>2, <2>1, <2>2
  <2>4. Taken(s)' = first'[s]
    BY <2>3 DEF Taken
  <2> QED
    BY <1>4, <1>8, <1>12, <2>3, <2>4, ToldStays
<1> QED
  BY <1>10, <1>11, <1>12

LEMMA FailServerPaces ==
  ASSUME Paced, Paces, NEW s \in Servers, FailServer(s)
  PROVE  InTurn' /\ Tables' /\ (Told => Told')
<1>1. InTurn /\ Tables
  BY DEF Paces
<1>2. /\ jobs = {} /\ failing = {} /\ hm.pc = "scan" /\ jobs' = jobs
      /\ UNCHANGED <<topoVars, hm, told, num, fwd>>
      /\ failing' = failing \cup {[id |-> calls, server |-> s]}
  BY DEF FailServer, Call, Calm, tableVars, healthVars
<1>3. \A f, g \in failing' : f = g
  BY <1>2
<1>4. Live' = Live /\ Lacking' = Lacking /\ Untold' = Untold
  BY <1>2, NoneLacks DEF Live, topoVars
<1>5. InTurn'
  BY <1>1, <1>2, <1>3, <1>4 DEF InTurn
<1>6. first' = first /\ joined' = joined
  BY <1>2 DEF topoVars
<1>7. Tables'
  BY <1>1, <1>2, <1>4, <1>6, TablesStay
<1>8. Told => Told'
  BY <1>2, <1>4, <1>6, ToldStays
<1> QED
  BY <1>5, <1>7, <1>8

LEMMA FinishFailPaces ==
  ASSUME Paced, Paces, NEW f \in failing, FinishFail(f)
  PROVE  InTurn' /\ Tables' /\ (Told => Told')
<1>1. Typed /\ Listed /\ InTurn /\ Tables
  BY DEF Paces, Typed
<1>2. /\ hm' = hm /\ told' = told /\ num' = num /\ fwd' = fwd /\ failing' = failing \ {f}
  BY DEF FinishFail, tableVars, healthVars
<1>3. /\ jobs = {} /\ hm.pc = "scan" /\ hm.failed = <<>> /\ hm.moved = {}
      /\ failing' = {}
  BY <1>1, <1>2 DEF InTurn, Typed, HealthOK
<1>4. PICK s : s = f.server
  OBVIOUS
<1>5. CASE RemoveServer(s)
  <2>1. /\ Live' = Live \ {s} /\ joined' = joined
        /\ \A t \in Live' \ Behind(children, s) : first'[t] = first[t]
    BY <1>1, <1>5, RemoveListed DEF RemoveServer
  <2>2. PICK behind : behind = Behind(children, s)
    OBVIOUS
  <2>3. behind \subseteq Live'
    <3>1. behind \subseteq Range(children) \ {s}
      BY <1>1, <2>2, BehindValue DEF Listed
    <3> QED
      BY <2>1, <3>1 DEF Live
  <2>4. PICK job : job = Job(f.id, "update", behind)
    OBVIOUS
  <2>5. jobs' = IF behind = {} THEN {} ELSE {job}
    BY <1>3, <1>4, <1>5, <2>2, <2>4 DEF FinishFail, RemoveServer, RemoveAgain
  <2>6. job.nodes = behind /\ job.rest = behind /\ job.pc = "start" /\ job.type = "update"
    BY <2>4 DEF Job
  <2>7. ToWrite(job) = behind /\ ToTell(job) = behind
    BY <2>6 DEF ToWrite, ToTell
  <2>8. Lacking' = behind /\ Untold' = behind /\ Lacking = {} /\ Untold = {}
    <3>1. CASE behind = {}
      BY <1>2, <1>3, <2>5, <3>1, NoneLacks
    <3>2. CASE behind # {}
      BY <1>2, <1>3, <2>5, <2>7, <3>2, NoneLacks
    <3> QED
      BY <3>1, <3>2
  <2>9. JobInTurn(job)'
    BY <2>3, <2>6 DEF JobInTurn
  <2>10. InTurn'
    BY <1>2, <1>3, <2>5, <2>9 DEF InTurn
  <2>11. \A t \in Live' \ behind : t \in Live /\ first'[t] = first[t]
    BY <2>1, <2>2
  <2>12. Tables'
    BY <1>1, <1>2, <1>3, <2>8, <2>11, TablesStay
  <2>13. Told => Told'
    BY <1>2, <2>1, <2>8, <2>11, ToldStays
  <2> QED
    BY <2>10, <2>12, <2>13
<1>6. CASE RemoveAgain(s)
  <2>1. UNCHANGED <<children, first, joined, hm, jobs, num, fwd, told>>
    BY <1>2, <1>6 DEF RemoveAgain, Panic, topoVars
  <2> QED
    BY <1>2, <2>1, OthersPace
<1> QED
  BY <1>4, <1>5, <1>6 DEF FinishFail

LEMMA LookUpFailedPaces ==
  ASSUME Paced, Paces, LookUpFailed
  PROVE  InTurn' /\ Tables' /\ (Told => Told')
<1>1. InTurn /\ Tables /\ HealthOK
  BY DEF Paces, Typed
<1>2. /\ hm.pc = "remove" /\ UNCHANGED <<topoVars, jobs, failing, told>>
      /\ num' = num /\ fwd' = fwd
  BY DEF LookUpFailed, tableVars
<1>3. jobs = {} /\ failing = {} /\ hm.moved \subseteq Live
  BY <1>1, <1>2 DEF InTurn
<1>4. PICK s : s = Head(hm.failed)
  OBVIOUS
<1>5. hm' = IF s \in Live THEN [hm EXCEPT !.pc = "cut"]
            ELSE [hm EXCEPT !.failed = Tail(@), !.moved = @ \ {s}]
  BY <1>4 DEF LookUpFailed
<1>6. hm'.pc \in {"cut", "remove"} /\ hm'.moved = IF s \in Live THEN hm.moved ELSE hm.moved \ {s}
  BY <1>1, <1>2, <1>5 DEF HealthOK
<1>7. hm'.moved = hm.moved /\ hm'.pc # "scan"
  BY <1>3, <1>6
<1>8. Live' = Live /\ first' = first /\ joined' = joined
  BY <1>2 DEF topoVars, Live
<1>9. InTurn'
  BY <1>2, <1>3, <1>7, <1>8 DEF InTurn
<1>10. Lacking' = Lacking /\ Untold' = Untold
  BY <1>2, <1>3, <1>7, NoneLacks
<1>11. Tables'
  BY <1>1, <1>2, <1>3, <1>8, <1>10, TablesStay
<1>12. Told => Told'
  BY <1>2, <1>8, <1>10, ToldStays
<1> QED
  BY <1>9, <1>11, <1>12

LEMMA RemoveFailedPaces ==
  ASSUME Paced, Paces, RemoveFailed
  PROVE  InTurn' /\ Tables' /\ (Told => Told')
<1>1. Typed /\ Listed /\ InTurn /\ Tables /\ HealthOK
  BY DEF Paces, Typed
<1>2. PICK s : s = Head(hm.failed)
  OBVIOUS
<1>3. /\ hm.pc = "cut" /\ jobs' = jobs /\ failing' = failing
      /\ num' = num /\ fwd' = fwd /\ told' = told
  BY DEF RemoveFailed, RemoveAgain, Panic, tableVars
<1>4. jobs = {} /\ failing = {} /\ hm.moved \subseteq Live
  BY <1>1, <1>3 DEF InTurn
<1>5. CASE RemoveServer(s)
  <2>1. /\ Live' = Live \ {s} /\ joined' = joined
        /\ \A t \in Live' \ Behind(children, s) : first'[t] = first[t]
    BY <1>1, <1>5, RemoveListed DEF RemoveServer
  <2>2. PICK behind : behind = Behind(children, s)
    OBVIOUS
  <2>3. behind \subseteq Live'
    <3>1. behind \subseteq Range(children) \ {s}
      BY <1>1, <2>2, BehindValue DEF Listed
    <3> QED
      BY <2>1, <3>1 DEF Live
  <2>4. hm' = [pc |-> "remove", failed |-> Tail(hm.failed), moved |-> (hm.moved \ {s}) \cup behind]
    BY <1>2, <1>5, <2>2 DEF RemoveFailed, RemoveServer, RemoveAgain, Moved
  <2>5. hm'.pc = "remove" /\ hm'.moved = (hm.moved \ {s}) \cup behind
    BY <2>4
  <2>6. InTurn'
    BY <1>3, <1>4, <2>1, <2>3, <2>5 DEF InTurn
  <2>7. /\ Lacking = hm.moved /\ Untold = hm.moved
        /\ Lacking' = hm'.moved /\ Untold' = hm'.moved
    BY <1>3, <1>4, NoneLacks
  <2>8. \A t \in Live' \ hm'.moved : t \in Live \ hm.moved /\ first'[t] = first[t]
    BY <2>1, <2>2, <2>5
  <2>9. Tables'
    BY <1>1, <1>3, <1>4, <2>7, <2>8, TablesStay
  <2>10. Told => Told'
    BY <1>3, <2>1, <2>7, <2>8, ToldStays
  <2> QED
    BY <2>6, <2>9, <2>10
<1>6. CASE RemoveAgain(s)
  <2>1. UNCHANGED <<children, first, joined, hm, jobs, num, fwd, told>>
    BY <1>2, <1>3, <1>6 DEF RemoveFailed, RemoveServer, RemoveAgain, topoVars
  <2> QED
    BY <1>3, <1>4, <2>1, OthersPace
<1> QED
  BY <1>2, <1>5, <1>6 DEF RemoveFailed

LEMMA ReportPaces ==
  ASSUME Paced, Paces, Report
  PROVE  InTurn' /\ Tables' /\ (Told => Told')
<1>1. Typed /\ Listed /\ InTurn /\ Tables
  BY DEF Paces, Typed
<1>2. /\ hm.pc = "remove" /\ UNCHANGED <<topoVars, tableVars, told, failing>>
      /\ hm' = [pc |-> "scan", failed |-> <<>>, moved |-> {}]
  BY DEF Report
<1>3. jobs = {} /\ failing = {} /\ hm.moved \subseteq Live
  BY <1>1, <1>2 DEF InTurn
<1>4. PICK job : job = Job(calls, "update", hm.moved)
  OBVIOUS
<1>5. jobs' = IF hm.moved = {} THEN {} ELSE {job}
  BY <1>3, <1>4 DEF Report
<1>6. job.nodes = hm.moved /\ job.rest = hm.moved /\ job.pc = "start" /\ job.type = "update"
  BY <1>4 DEF Job
<1>7. ToWrite(job) = hm.moved /\ ToTell(job) = hm.moved
  BY <1>6 DEF ToWrite, ToTell
<1>8. hm'.pc = "scan" /\ hm'.failed = <<>> /\ hm'.moved = {}
  BY <1>2
<1>9. Lacking' = hm.moved /\ Untold' = hm.moved /\ Lacking = hm.moved /\ Untold = hm.moved
  <2>1. CASE hm.moved = {}
    BY <1>3, <1>5, <1>8, <2>1, NoneLacks
  <2>2. CASE hm.moved # {}
    BY <1>3, <1>5, <1>7, <1>8, <2>2, NoneLacks
  <2> QED
    BY <2>1, <2>2
<1>10. /\ Live' = Live /\ first' = first /\ num' = num /\ fwd' = fwd
       /\ told' = told /\ joined' = joined
  BY <1>2 DEF topoVars, tableVars, Live
<1>11. JobInTurn(job)'
  BY <1>3, <1>6, <1>10 DEF JobInTurn
<1>12. InTurn'
  BY <1>2, <1>3, <1>5, <1>8, <1>11 DEF InTurn
<1>13. Tables'
  BY <1>1, <1>3, <1>9, <1>10, TablesStay
<1>14. Told => Told'
  BY <1>9, <1>10, ToldStays
<1> QED
  BY <1>12, <1>13, <1>14

LEMMA ScanPaces ==
  ASSUME Paced, Paces, Scan
  PROVE  InTurn' /\ Tables' /\ (Told => Told')
<1>1. InTurn /\ Tables /\ HealthOK
  BY DEF Paces, Typed
<1>2. /\ jobs = {} /\ jobs' = jobs /\ failing = {} /\ failing' = failing /\ hm.pc = "scan"
      /\ hm' = [hm EXCEPT !.pc = "remove", !.failed = FailedServers]
      /\ UNCHANGED <<topoVars, tableVars, told>>
  BY DEF Scan, Calm
<1>3. hm'.pc = "remove" /\ hm'.moved = hm.moved /\ hm.moved = {}
  BY <1>1, <1>2 DEF HealthOK, InTurn
<1>4. Lacking' = Lacking /\ Untold' = Untold
  BY <1>2, <1>3, NoneLacks
<1>5. /\ Live' = Live /\ first' = first /\ num' = num /\ fwd' = fwd
      /\ told' = told /\ joined' = joined
  BY <1>2 DEF topoVars, tableVars, Live
<1>6. InTurn'
  BY <1>2, <1>3 DEF InTurn
<1>7. Tables'
  BY <1>1, <1>2, <1>4, <1>5, TablesStay
<1>8. Told => Told'
  BY <1>4, <1>5, ToldStays
<1> QED
  BY <1>6, <1>7, <1>8

\* what a goroutine may rely on
LEMMA OnlyJob ==
  ASSUME Paced, Paces, NEW j \in jobs, Step(j)
  PROVE  /\ Listed /\ j \in JobType /\ JobInTurn(j)
         /\ jobs = {j} /\ hm' = hm /\ hm.moved = {}
         /\ hm.pc = "scan" /\ hm.failed = <<>> /\ failing = {} /\ failing' = {} /\ joined' = joined
         /\ Live' = Live /\ children' = children /\ first' = first /\ index' = index
         /\ Lacking = ToWrite(j) /\ Untold = ToTell(j)
<1>1. Typed /\ Listed /\ InTurn /\ HealthOK /\ JobOK(j)
  BY DEF Paces, Typed
<1>2. UNCHANGED <<topoVars, healthVars, failing>>
  BY DEF Step
<1>3. jobs = {j} /\ failing = {} /\ hm.pc = "scan" /\ JobInTurn(j)
  BY <1>1 DEF InTurn, HealthOK
<1>4. hm.moved = {} /\ hm.failed = <<>>
  BY <1>1, <1>3 DEF InTurn
<1>5. Lacking = ToWrite(j) /\ Untold = ToTell(j)
  BY <1>3, <1>4, NoneLacks
<1> QED
  BY <1>1, <1>2, <1>3, <1>4, <1>5 DEF topoVars, healthVars, Live, JobOK

LEMMA NextJob ==
  ASSUME Paced, Paces, NEW j \in jobs, Step(j), NEW k, jobs' = {k}
  PROVE  /\ JobInTurn(k)' => InTurn'
         /\ Lacking' = ToWrite(k) /\ Untold' = ToTell(k)
<1>1. hm' = hm /\ hm.moved = {} /\ hm.pc = "scan" /\ hm.failed = <<>> /\ failing' = {}
  BY OnlyJob
<1>2. Lacking' = ToWrite(k) /\ Untold' = ToTell(k)
  BY <1>1, NoneLacks
<1> QED
  BY <1>1, <1>2 DEF InTurn

LEMMA LastJob ==
  ASSUME Paced, Paces, NEW j \in jobs, Step(j), jobs' = {}
  PROVE  InTurn' /\ Lacking' = {} /\ Untold' = {}
<1>1. hm' = hm /\ hm.moved = {} /\ hm.pc = "scan" /\ hm.failed = <<>> /\ failing' = {}
  BY OnlyJob
<1>2. Lacking' = {} /\ Untold' = {}
  BY <1>1, NoneLacks
<1> QED
  BY <1>1, <1>2 DEF InTurn

LEMMA CountWorkersPaces ==
  ASSUME Paced, Paces, NEW j \in jobs, Step(j), CountWorkers(j)
  PROVE  InTurn' /\ Tables' /\ (Told => Told')
<1>1. /\ Listed /\ j \in JobType /\ JobInTurn(j)
      /\ jobs = {j} /\ Live' = Live /\ children' = children /\ first' = first
      /\ Lacking = ToWrite(j) /\ Untold = ToTell(j)
  BY OnlyJob
<1>2. j.pc = "start" /\ num' = num /\ fwd' = fwd /\ told' = told
  BY DEF CountWorkers, tableVars
<1>3. j.nodes \subseteq Live /\ j.rest = j.nodes
  BY <1>1, <1>2 DEF JobInTurn
<1>4. PICK k : k = [j EXCEPT !.pc = "num", !.count = Total(children),
                             !.rest = IF j.type = "new" THEN j.nodes \cap Live ELSE j.nodes]
  OBVIOUS
<1>5. jobs' = {k}
  BY <1>1, <1>4 DEF CountWorkers, Goto
<1>6. /\ k.pc = "num" /\ k.count = Total(children) /\ k.rest = j.nodes /\ k.nodes = j.nodes
      /\ k.type = j.type
  BY <1>1, <1>3, <1>4 DEF JobType
<1>7. JobInTurn(k)'
  BY <1>1, <1>3, <1>6 DEF JobInTurn
<1>8. InTurn' /\ Lacking' = ToWrite(k) /\ Untold' = ToTell(k)
  BY <1>5, <1>7, NextJob
<1>9. Lacking' = Lacking /\ Untold' = Untold
  BY <1>1, <1>2, <1>3, <1>6, <1>8 DEF ToWrite, ToTell
<1>10. Tables'
  BY <1>1, <1>2, <1>9, TablesStay DEF Paces
<1>11. Told => Told'
  BY <1>1, <1>2, <1>9, ToldStays, OnlyJob
<1> QED
  BY <1>8, <1>10, <1>11

LEMMA WriteNumPaces ==
  ASSUME Paced, Paces, NEW j \in jobs, Step(j), WriteNum(j)
  PROVE  InTurn' /\ Tables' /\ (Told => Told')
<1>1. /\ Listed /\ j \in JobType /\ JobInTurn(j)
      /\ jobs = {j} /\ Live' = Live /\ children' = children /\ first' = first
      /\ Lacking = ToWrite(j) /\ Untold = ToTell(j)
  BY OnlyJob
<1>2. j.pc = "num" /\ num' = j.count /\ fwd' = fwd /\ told' = told
  BY DEF WriteNum
<1>3. j.nodes \subseteq Live /\ j.rest = j.nodes /\ j.count = Total(children)
  BY <1>1, <1>2 DEF JobInTurn
<1>4. PICK k : k = [j EXCEPT !.pc = "ports"]
  OBVIOUS
<1>5. jobs' = {k}
  BY <1>1, <1>4 DEF WriteNum, Goto
<1>6. /\ k.pc = "ports" /\ k.count = j.count /\ k.rest = j.rest /\ k.nodes = j.nodes
      /\ k.type = j.type
  BY <1>1, <1>4 DEF JobType
<1>7. JobInTurn(k)'
  BY <1>1, <1>2, <1>3, <1>6 DEF JobInTurn
<1>8. InTurn' /\ Lacking' = ToWrite(k) /\ Untold' = ToTell(k)
  BY <1>5, <1>7, NextJob
<1>9. Lacking' = Lacking /\ Untold' = Untold
  BY <1>1, <1>2, <1>3, <1>6, <1>8 DEF ToWrite, ToTell
<1>10. Tables'
  <2>1. ASSUME NEW t \in Live', t \notin Lacking'
        PROVE  Reached(t)'
    <3>1. Reached(t) /\ t \in Live
      BY <1>1, <1>9, <2>1 DEF Paces, Tables
    <3>2. \A w \in WidsOf(t) : w < num'
      BY <1>1, <1>2, <1>3, <3>1, WidsValue
    <3>3. WidsOf(t)' = WidsOf(t)
      BY <1>1 DEF WidsOf
    <3> QED
      BY <1>2, <3>1, <3>2, <3>3 DEF Reached
  <2> QED
    BY <1>5, <1>6, <2>1 DEF Tables
<1>11. Told => Told'
  BY <1>1, <1>2, <1>9, ToldStays, OnlyJob
<1> QED
  BY <1>8, <1>10, <1>11

LEMMA WritePortsPaces ==
  ASSUME Paced, Paces, NEW j \in jobs, Step(j), WritePorts(j)
  PROVE  InTurn' /\ Tables' /\ (Told => Told')
<1>1. /\ Listed /\ j \in JobType /\ JobInTurn(j)
      /\ jobs = {j} /\ Live' = Live /\ children' = children /\ first' = first
      /\ Lacking = ToWrite(j) /\ Untold = ToTell(j)
  BY OnlyJob
<1>2. j.pc = "ports" /\ num' = num /\ told' = told
  BY DEF WritePorts
<1>3. PICK s \in j.rest :
        /\ fwd' = [w \in WorkerIDs |-> IF w \in WidsOf(s) THEN s ELSE fwd[w]]
        /\ Goto(j, IF j.rest = {s}
                   THEN [j EXCEPT !.pc = IF j.type = "new" THEN "idle" ELSE "packets", !.rest = j.nodes]
                   ELSE [j EXCEPT !.rest = @ \ {s}])
  BY DEF WritePorts
<1>4. /\ j.nodes \subseteq Live /\ j.rest \subseteq j.nodes /\ s \in Live
      /\ j.count = Total(children) /\ num = Total(children)
  BY <1>1, <1>2, <1>3 DEF JobInTurn
<1>5. PICK k : k = IF j.rest = {s}
                   THEN [j EXCEPT !.pc = IF j.type = "new" THEN "idle" ELSE "packets", !.rest = j.nodes]
                   ELSE [j EXCEPT !.rest = @ \ {s}]
  OBVIOUS
<1>6. jobs' = {k}
  BY <1>1, <1>3, <1>5 DEF Goto
<1>7. /\ k.count = j.count /\ k.nodes = j.nodes /\ k.type = j.type
      /\ j.rest = {s} => k.pc = (IF j.type = "new" THEN "idle" ELSE "packets") /\ k.rest = j.nodes
      /\ j.rest # {s} => k.pc = "ports" /\ k.rest = j.rest \ {s}
  BY <1>1, <1>2, <1>5 DEF JobType
<1>8. JobInTurn(k)'
  BY <1>1, <1>2, <1>4, <1>7 DEF JobInTurn
<1>9. InTurn' /\ Lacking' = ToWrite(k) /\ Untold' = ToTell(k)
  BY <1>6, <1>8, NextJob
<1>10. Lacking = j.rest /\ Lacking' = j.rest \ {s} /\ Untold' = Untold
  <2>1. Lacking = j.rest
    BY <1>1, <1>2 DEF ToWrite
  <2>2. CASE j.rest = {s}
    BY <1>1, <1>2, <1>7, <1>9, <2>1, <2>2 DEF ToWrite, ToTell
  <2>3. CASE j.rest # {s}
    BY <1>1, <1>2, <1>7, <1>9, <2>1, <2>3 DEF ToWrite, ToTell
  <2> QED
    BY <2>1, <2>2, <2>3
<1>11. \A t \in Live : WidsOf(t)' = WidsOf(t)
  BY <1>1 DEF WidsOf
<1>12. ASSUME NEW t \in Live, t \notin Lacking'
       PROVE  Reached(t)'
  <2> SUFFICES ASSUME NEW w \in WidsOf(t)
               PROVE  w < num' /\ fwd'[w] = t
    BY <1>11 DEF Reached
  <2>1. w \in WorkerIDs /\ w < num'
    BY <1>1, <1>2, <1>4, WidsValue
  <2>2. CASE t = s
    BY <1>3, <2>1, <2>2
  <2>3. CASE t # s
    <3>1. Reached(t)
      BY <1>10, <1>12, <2>3 DEF Paces, Tables
    <3>2. w \notin WidsOf(s)
      BY <1>1, <1>4, <2>3, WidsValue
    <3> QED
      BY <1>3, <2>1, <3>1, <3>2 DEF Reached
  <2> QED
    BY <2>2, <2>3
<1>13. ASSUME Lacking' = {}
       PROVE  Exact'
  <2> SUFFICES ASSUME NEW w \in 0 .. num' - 1, fwd'[w] \in Live' \ Lacking'
               PROVE  w \in WidsOf(fwd[w])'
    BY DEF Exact
  <2>1. PICK t \in Live : w \in WidsOf(t)
    BY <1>1, <1>2, <1>4, WidsValue
  <2>2. fwd'[w] = t
    BY <1>11, <1>12, <1>13, <2>1 DEF Reached
  <2>3. w \in WidsOf(t)'
    BY <1>11, <2>1
  <2> QED
    BY <2>2, <2>3 DEF WidsOf
<1>14. Tables'
  <2>1. CASE j.rest = {s}
    BY <1>1, <1>10, <1>12, <1>13, <2>1 DEF Tables
  <2>2. CASE j.rest # {s}
    BY <1>1, <1>6, <1>7, <1>12, <2>2 DEF Tables
  <2> QED
    BY <2>1, <2>2
<1>15. Told => Told'
  BY <1>1, <1>2, <1>10, ToldStays, OnlyJob
<1> QED
  BY <1>9, <1>14, <1>15

LEMMA AddIdlePaces ==
  ASSUME Paced, Paces, NEW j \in jobs, Step(j), AddIdle(j)
  PROVE  InTurn' /\ Tables' /\ (Told => Told')
<1>1. /\ jobs = {j} /\ Live' = Live /\ first' = first
      /\ Lacking = ToWrite(j) /\ Untold = ToTell(j)
  BY OnlyJob
<1>2. j.pc = "idle" /\ num' = num /\ fwd' = fwd /\ told' = told /\ jobs' = {}
  BY <1>1 DEF AddIdle, End
<1>3. InTurn' /\ Lacking' = {} /\ Untold' = {}
  BY <1>2, LastJob
<1>4. j.type = "new"
  BY <1>2 DEF Paces, Typed, JobOK
<1>5. Lacking = {} /\ Untold = {}
  BY <1>1, <1>2, <1>4 DEF ToWrite, ToTell
<1>6. Tables'
  BY <1>1, <1>2, <1>3, <1>5, TablesStay DEF Paces
<1>7. Told => Told'
  BY <1>1, <1>2, <1>3, <1>5, ToldStays, OnlyJob
<1> QED
  BY <1>3, <1>6, <1>7

(* A packet goes through table fwd, so it reaches the server it is for, if *)
(* the leaf's index is still its ID.                                       *)
LEMMA SendPacketPaces ==
  ASSUME Paced, Paces, NEW j \in jobs, Step(j), SendPacket(j)
  PROVE  InTurn' /\ Tables' /\ (Told /\ index = LeafID => Told')
<1>1. /\ Listed /\ j \in JobType /\ JobInTurn(j)
      /\ jobs = {j} /\ Live' = Live /\ children' = children /\ first' = first
      /\ Lacking = ToWrite(j) /\ Untold = ToTell(j)
  BY OnlyJob
<1>2. j.pc = "packets" /\ num' = num /\ fwd' = fwd
  BY DEF SendPacket, tableVars
<1>3. PICK s \in j.rest :
        /\ told' = [t \in Servers |->
             IF index = LeafID /\ fwd[first[s]] = t THEN first[s] ELSE told[t]]
        /\ IF j.rest = {s} THEN End(j) ELSE Goto(j, [j EXCEPT !.rest = @ \ {s}])
  BY DEF SendPacket
<1>4. /\ j.nodes \subseteq Live /\ j.rest \subseteq j.nodes /\ s \in Live
      /\ j.count = Total(children) /\ num = Total(children)
  BY <1>1, <1>2, <1>3 DEF JobInTurn
<1>5. j.type = "update"
  BY <1>2 DEF Paces, Typed, JobOK
<1>6. Lacking = {} /\ Untold = j.rest
  BY <1>1, <1>2, <1>5 DEF ToWrite, ToTell
<1>7. InTurn' /\ Lacking' = {} /\ Untold' = j.rest \ {s}
  <2>1. CASE j.rest = {s}
    <3>1. jobs' = {}
      BY <1>1, <1>3, <2>1 DEF End
    <3> QED
      BY <2>1, <3>1, LastJob
  <2>2. CASE j.rest # {s}
    <3>1. PICK k : k = [j EXCEPT !.rest = @ \ {s}]
      OBVIOUS
    <3>2. jobs' = {k}
      BY <1>1, <1>3, <2>2, <3>1 DEF Goto
    <3>3. /\ k.pc = "packets" /\ k.count = j.count /\ k.nodes = j.nodes /\ k.type = "update"
          /\ k.rest = j.rest \ {s}
      BY <1>1, <1>2, <1>5, <3>1 DEF JobType
    <3>4. JobInTurn(k)'
      BY <1>1, <1>2, <1>4, <3>3 DEF JobInTurn
    <3>5. InTurn' /\ Lacking' = ToWrite(k) /\ Untold' = ToTell(k)
      BY <3>2, <3>4, NextJob
    <3> QED
      BY <3>3, <3>5 DEF ToWrite, ToTell
  <2> QED
    BY <2>1, <2>2
<1>8. Tables'
  BY <1>1, <1>2, <1>6, <1>7, TablesStay DEF Paces
<1>9. ASSUME Told, index = LeafID
      PROVE  Told'
  <2>1. Reached(s) /\ first[s] \in WidsOf(s)
    BY <1>1, <1>4, <1>6, WidsValue DEF Paces, Tables
  <2>2. fwd[first[s]] = s
    BY <2>1 DEF Reached
  <2>3. \A t \in Servers : told'[t] = IF t = s THEN first[s] ELSE told[t]
    BY <1>3, <1>9, <2>2
  <2>4. Live \subseteq Servers
    BY <1>1 DEF Listed, Live, Range
  <2>5. first[s] # None /\ joined' = joined
    BY <1>1, <1>4, WidsValue, ValueOfWorkerIDs, OnlyJob
  <2>6. ASSUME NEW t \in Live', t \notin Untold'
        PROVE  \/ /\ t \in Live \ Untold /\ first'[t] = first[t]
                  /\ told'[t] = told[t] /\ joined'[t] = joined[t]
               \/ Taken(t)' = first'[t]
    <3>1. told'[t] = IF t = s THEN first[s] ELSE told[t]
      BY <1>1, <2>3, <2>4, <2>6
    <3>2. CASE t = s
      BY <1>1, <2>5, <3>1, <3>2 DEF Taken
    <3>3. CASE t # s
      BY <1>1, <1>6, <1>7, <2>6, <2>5, <3>1, <3>3
    <3> QED
      BY <3>2, <3>3
  <2> QED
    BY <1>9, <2>6, ToldStays
<1> QED
  BY <1>7, <1>8, <1>9

LEMMA InitPaces ==
  ASSUME Init
  PROVE  InTurn /\ Tables /\ Told
<1>1. Listed
  BY InitTyped DEF Typed
<1>2. /\ hm = [pc |-> "scan", failed |-> <<>>, moved |-> {}] /\ jobs = {}
      /\ num = Total(children) /\ failing = {}
      /\ told = [s \in Servers |-> None] /\ joined = first
      /\ fwd = [w \in WorkerIDs |-> IF w < num THEN CHOOSE s \in Live : w \in WidsOf(s) ELSE None]
  BY DEF Init
<1>3. hm.pc = "scan" /\ hm.failed = <<>> /\ hm.moved = {}
  BY <1>2
<1>4. InTurn
  BY <1>2, <1>3 DEF InTurn
<1>5. Lacking = {} /\ Untold = {}
  BY <1>2, <1>3, NoneLacks
<1>6. ASSUME NEW t \in Live, NEW w \in WidsOf(t)
      PROVE  w < num /\ fwd[w] = t
  <2>1. w \in WorkerIDs /\ w < num
    BY <1>1, <1>2, WidsValue
  <2>2. \A s \in Live : w \in WidsOf(s) => s = t
    BY <1>1, <1>6, WidsValue
  <2>3. (CHOOSE s \in Live : w \in WidsOf(s)) = t
    BY <1>6, <2>2
  <2> QED
    BY <1>2, <2>1, <2>3
<1>7. Exact
  <2> SUFFICES ASSUME NEW w \in 0 .. num - 1
               PROVE  w \in WidsOf(fwd[w])
    BY DEF Exact
  <2>1. PICK t \in Live : w \in WidsOf(t)
    BY <1>1, <1>2, WidsValue
  <2> QED
    BY <1>6, <2>1
<1>8. Tables
  BY <1>6, <1>7 DEF Tables, Reached
<1>9. Told
  <2>1. Live \subseteq Servers
    BY <1>1 DEF Listed, Live, Range
  <2> QED
    BY <1>2, <2>1 DEF Told, Taken
<1> QED
  BY <1>4, <1>8, <1>9

LEMMA StepPaces ==
  ASSUME Paced, Paces, NEW j \in jobs, Step(j)
  PROVE  InTurn' /\ Tables' /\ (Told /\ index = LeafID => Told')
<1>1. CASE NilServer(j)
  <2>1. UNCHANGED <<children, first, joined, hm, jobs, failing, num, fwd, told>>
    BY <1>1 DEF NilServer, Panic, Step, tableVars, topoVars, healthVars
  <2> QED
    BY <2>1, OthersPace
<1> QED
  BY <1>1, CountWorkersPaces, WriteNumPaces, WritePortsPaces, AddIdlePaces, SendPacketPaces DEF Step

LEMMA NextPaces ==
  ASSUME Paced, Paces, [Next]_vars
  PROVE  Paces' /\ (Told /\ index = LeafID => Told')
<1>1. Typed'
  BY NextTyped DEF Paces
<1>2. InTurn' /\ Tables' /\ (Told /\ index = LeafID => Told')
  <2>1. CASE UNCHANGED vars
    BY <2>1, OthersPace DEF vars, topoVars, healthVars, tableVars
  <2>2. ASSUME NEW i \in Indexes, ChangeIndex(i)
        PROVE  InTurn' /\ Tables' /\ (Told => Told')
    <3>1. UNCHANGED <<children, first, joined, hm, jobs, failing, num, fwd, told>>
      BY <2>2 DEF ChangeIndex, Call, healthVars, tableVars
    <3> QED
      BY <3>1, OthersPace
  <2>3. ASSUME NEW s \in Servers, Crash(s) \/ OnNodePingRecv(s) \/ TimePasses(s)
        PROVE  InTurn' /\ Tables' /\ (Told => Told')
    <3>1. UNCHANGED <<children, first, joined, hm, jobs, failing, num, fwd, told>>
      BY <2>3 DEF Crash, OnNodePingRecv, TimePasses, topoVars, tableVars
    <3> QED
      BY <3>1, OthersPace
  <2> QED
    BY <2>1, <2>2, <2>3, AddServerPaces, FailServerPaces, FinishFailPaces, ScanPaces,
       LookUpFailedPaces, RemoveFailedPaces, ReportPaces, StepPaces DEF Next, Handlers, Health, Jobs
<1> QED
  BY <1>1, <1>2 DEF Paces

LEMMA PacesImpliesReached ==
  ASSUME Paced, Paces
  PROVE  WorkersAreReached
<1> SUFFICES ASSUME Quiet
             PROVE  /\ \A s \in Live : \A w \in WidsOf(s) : w < num /\ fwd[w] = s
                    /\ \A w \in Total(children) .. num - 1 : fwd[w] \notin Live
  BY DEF WorkersAreReached
<1>1. Listed /\ num \in Nat /\ InTurn /\ Tables
  BY ValueOfWorkerIDs DEF Paces, Typed, TablesOK
<1>2. jobs = {} /\ hm.moved = {}
  BY <1>1 DEF Quiet, Calm, InTurn
<1>3. Lacking = {}
  BY <1>2, NoneLacks
<1>4. \A s \in Live : Reached(s)
  BY <1>1, <1>3 DEF Tables
<1>5. Exact
  BY <1>1, <1>2 DEF Tables
<1>6. ASSUME NEW w \in Total(children) .. num - 1, fwd[w] \in Live
      PROVE  FALSE
  <2>1. Total(children) \in Nat
    BY <1>1, WidsValue
  <2>2. w \in 0 .. num - 1 /\ ~ (w < Total(children))
    BY <1>1, <2>1
  <2>3. w \in WidsOf(fwd[w])
    BY <1>3, <1>5, <1>6, <2>2 DEF Exact
  <2> QED
    BY <1>1, <1>6, <2>2, <2>3, WidsValue
<1> QED
  BY <1>4, <1>6 DEF Reached

(* As long as a change of the servers waits for the goroutines of the one  *)
(* before, whatever servers come, fail by a call or go silent, several at  *)
(* once too: when the goroutines of the bus have ended, the data plane     *)
(* chooses among all workers of the leaf, and reaches each through the     *)
(* server that runs it.                                                    *)
THEOREM LeafReachesItsWorkers ==
  ASSUME Paced
  PROVE  Spec => []WorkersAreReached
<1>1. Init => Paces
  BY InitTyped, InitPaces DEF Paces
<1>2. Paces /\ [Next]_vars => Paces'
  BY NextPaces
<1>3. Paces => WorkersAreReached
  BY PacesImpliesReached
<1> QED
  BY <1>1, <1>2, <1>3, PTL DEF Spec

(* Under the same condition, and as long as the spine leaves the leaf the  *)
(* index that is its ID, a packet has told every server that was moved the *)
(* worker IDs it has once the goroutines have ended, however often it was  *)
(* moved: the packet that tells it is sent to its new worker ID, after     *)
(* table fwd leads there.                                                  *)
THEOREM MovedServersAreAlwaysTold ==
  ASSUME Paced, Indexes \subseteq {LeafID}
  PROVE  Spec => []MovedServersAreTold
<1> DEFINE Inv == Paces /\ Told /\ index = LeafID
<1>1. Init => Inv
  BY InitTyped, InitPaces DEF Paces, Init
<1>2. Inv /\ [Next]_vars => Inv'
  <2> SUFFICES ASSUME Inv, [Next]_vars
               PROVE  Inv'
    OBVIOUS
  <2>1. Paces' /\ Told'
    BY NextPaces
  <2>2. index' \in Indexes \cup {LeafID}
    BY <2>1 DEF Paces, Typed
  <2> QED
    BY <2>1, <2>2
<1>3. Inv => MovedServersAreTold
  <2> SUFFICES ASSUME Inv, Quiet
               PROVE  \A s \in Live : told[s] = first[s] \/ (told[s] = None /\ joined[s] = first[s])
    BY DEF MovedServersAreTold
  <2>1. jobs = {} /\ hm.moved = {}
    BY DEF Quiet, Calm, Paces, InTurn
  <2>2. Untold = {}
    BY <2>1, NoneLacks
  <2> QED
    BY <2>2 DEF Told, Taken
<1> HIDE DEF Inv
<1> QED
  BY <1>1, <1>2, <1>3, PTL DEF Spec

=============================================================================
