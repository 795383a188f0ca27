--------------------------- MODULE TopologyProofs ---------------------------
(***************************************************************************)
(* Theorems about Topology, for every set of IDs, every word size and      *)
(* every set of configurations.                                            *)
(***************************************************************************)
EXTENDS Topology, SequenceLemmas

-----------------------------------------------------------------------------
(* Unsigned words.                                                         *)

LEMMA ModSmall ==
  ASSUME NEW x \in Word
  PROVE  x % WordSize = x
BY WordAssumption DEF Word

LEMMA ModInWord ==
  ASSUME NEW x \in Int
  PROVE  x % WordSize \in Word
BY WordAssumption DEF Word

LEMMA ModMinusOne == (-1) % WordSize = WordSize - 1
BY WordAssumption

LEMMA ModWordSize == WordSize % WordSize = 0
BY WordAssumption

LEMMA ModAddWord ==
  ASSUME NEW n \in Word
  PROVE  (n + WordSize) % WordSize = n
BY WordAssumption DEF Word

LEMMA ModSubWord ==
  ASSUME NEW n \in Word
  PROVE  (n - WordSize) % WordSize = n
BY WordAssumption DEF Word

LEMMA IncrValue ==
  ASSUME NEW w \in Word
  PROVE  Incr(w) = IF w = WordSize - 1 THEN 0 ELSE w + 1
BY ModSmall, ModWordSize, WordAssumption DEF Incr, Word

LEMMA DecrValue ==
  ASSUME NEW w \in Word
  PROVE  Decr(w) = IF w = 0 THEN WordSize - 1 ELSE w - 1
BY ModSmall, ModMinusOne, WordAssumption DEF Decr, Word

(* Counting the workers of a range of b - a of them that starts at a.      *)
LEMMA CountOfRange ==
  ASSUME NEW a \in Nat, NEW b \in Nat, a <= b, b <= MaxWorkers
  PROVE  /\ a \in Word /\ Decr(b) \in Word
         /\ Incr(Decr(b)) = b
         /\ \A srv : srv.first = a /\ srv.last = Decr(b) => WorkerCount(srv) = b - a
<1>1. a \in Word /\ b \in Word /\ b < WordSize
  BY WordAssumption DEF Word
<1>2. Decr(b) = IF b = 0 THEN WordSize - 1 ELSE b - 1
  BY <1>1, DecrValue
<1>3. Decr(b) \in Word
  BY <1>1, <1>2, WordAssumption DEF Word
<1>4. Incr(Decr(b)) = b
  BY <1>1, <1>2, <1>3, IncrValue, WordAssumption DEF Word
<1>5. ASSUME NEW srv, srv.first = a, srv.last = Decr(b)
      PROVE  WorkerCount(srv) = b - a
  <2>1. CASE b = 0
    <3>1. srv.last - srv.first + 1 = WordSize
      BY <1>2, <1>5, <2>1, WordAssumption
    <3> QED
      BY <2>1, <3>1, ModWordSize DEF WorkerCount
  <2>2. CASE b # 0
    <3>1. srv.last - srv.first + 1 = b - a
      BY <1>2, <1>5, <2>2
    <3>2. b - a \in Word
      BY <1>1, WordAssumption DEF Word
    <3> QED
      BY <3>1, <3>2, ModSmall DEF WorkerCount
  <2> QED
    BY <2>1, <2>2
<1> QED
  BY <1>1, <1>3, <1>4, <1>5

LEMMA WorkerCountInWord ==
  ASSUME NEW srv \in ServerNode
  PROVE  WorkerCount(srv) \in Word
<1>1. srv.last - srv.first + 1 \in Int
  BY WordAssumption DEF ServerNode, Word
<1> QED
  BY <1>1, ModInWord DEF WorkerCount

-----------------------------------------------------------------------------
(* The numbering loops.                                                    *)

LEMMA OffsetsExist ==
  ASSUME NEW counts \in Seq(Nat)
  PROVE  \E f : f = [i \in 0 .. Len(counts) |->
                       IF i = 0 THEN 0 ELSE (f[i - 1] + counts[i]) % WordSize]
<1> DEFINE IsOff(f, n) == \A i \in 0 .. n :
                            f[i] = IF i = 0 THEN 0 ELSE (f[i - 1] + counts[i]) % WordSize
           S == {n \in Nat : n <= Len(counts) => \E f \in [0 .. n -> Word] : IsOff(f, n)}
<1>1. Len(counts) \in Nat /\ \A i \in 1 .. Len(counts) : counts[i] \in Nat
  OBVIOUS
<1>2. 0 \in S
  <2>1. [i \in 0 .. 0 |-> 0] \in [0 .. 0 -> Word]
    BY WordAssumption DEF Word
  <2>2. IsOff([i \in 0 .. 0 |-> 0], 0)
    OBVIOUS
  <2>3. \E f \in [0 .. 0 -> Word] : IsOff(f, 0)
    <3> HIDE DEF IsOff
    <3> QED
      BY <2>1, <2>2
  <2> HIDE DEF IsOff
  <2> QED
    BY <2>3
<1>3. ASSUME NEW n \in Nat, n \in S
      PROVE  n + 1 \in S
  <2> SUFFICES ASSUME n + 1 <= Len(counts)
               PROVE  \E f \in [0 .. n + 1 -> Word] : IsOff(f, n + 1)
    <3> HIDE DEF IsOff
    <3> QED
      OBVIOUS
  <2>1. PICK f \in [0 .. n -> Word] : IsOff(f, n)
    <3> HIDE DEF IsOff
    <3> QED
      BY <1>1, <1>3
  <2> DEFINE g == [i \in 0 .. n + 1 |->
                     IF i = n + 1 THEN (f[n] + counts[i]) % WordSize ELSE f[i]]
  <2>2. g \in [0 .. n + 1 -> Word]
    <3>1. f[n] \in Word /\ n + 1 \in 1 .. Len(counts)
      BY <1>1
    <3>2. f[n] + counts[n + 1] \in Int
      BY <1>1, <3>1, WordAssumption DEF Word
    <3>3. (f[n] + counts[n + 1]) % WordSize \in Word
      BY <3>2, ModInWord
    <3> QED
      BY <3>3
  <2>3. IsOff(g, n + 1)
    BY <1>1, <2>1
  <2> HIDE DEF g, IsOff
  <2> QED
    BY <2>2, <2>3
<1>4. Nat \subseteq S
  <2> HIDE DEF S
  <2> QED
    BY <1>2, <1>3, NatSetInduction
<1>5. PICK f \in [0 .. Len(counts) -> Word] : IsOff(f, Len(counts))
  <2> HIDE DEF IsOff
  <2> QED
    BY <1>1, <1>4
<1> QED
  BY <1>5

(* What the loop computes: workerID is 0 before the first server and grows *)
(* by the count of each.                                                   *)
LEMMA OffsetsValue ==
  ASSUME NEW counts \in Seq(Nat)
  PROVE  /\ Offsets(counts)[0] = 0
         /\ \A i \in 1 .. Len(counts) :
              Offsets(counts)[i] = (Offsets(counts)[i - 1] + counts[i]) % WordSize
         /\ \A i \in 0 .. Len(counts) : Offsets(counts)[i] \in Word
<1> DEFINE off == Offsets(counts)
<1>1. off = [i \in 0 .. Len(counts) |->
               IF i = 0 THEN 0 ELSE (off[i - 1] + counts[i]) % WordSize]
  BY OffsetsExist DEF Offsets
<1>2. Len(counts) \in Nat /\ \A i \in 1 .. Len(counts) : counts[i] \in Nat
  OBVIOUS
<1> HIDE DEF off
<1>3. off[0] = 0
  BY <1>1, <1>2
<1>4. \A i \in 1 .. Len(counts) : off[i] = (off[i - 1] + counts[i]) % WordSize
  BY <1>1, <1>2
<1> DEFINE S == {n \in Nat : n <= Len(counts) => off[n] \in Word}
<1>5. 0 \in S
  BY <1>3, WordAssumption DEF Word
<1>6. ASSUME NEW n \in Nat, n \in S
      PROVE  n + 1 \in S
  <2> SUFFICES ASSUME n + 1 <= Len(counts)
               PROVE  off[n + 1] \in Word
    OBVIOUS
  <2>1. off[n] \in Word /\ n + 1 \in 1 .. Len(counts)
    BY <1>2, <1>6
  <2>2. off[n + 1] = (off[n] + counts[n + 1]) % WordSize
    BY <1>4, <2>1
  <2>3. off[n] + counts[n + 1] \in Int
    BY <1>2, <2>1, WordAssumption DEF Word
  <2> QED
    BY <2>2, <2>3, ModInWord
<1>7. Nat \subseteq S
  <2> HIDE DEF S
  <2> QED
    BY <1>5, <1>6, NatSetInduction
<1>8. \A i \in 0 .. Len(counts) : off[i] \in Word
  BY <1>2, <1>7
<1> QED
  BY <1>3, <1>4, <1>8 DEF off

CountsOf(nodes) == [i \in 1 .. Len(nodes) |-> WorkerCount(nodes[i])]

(* The loops number any list of servers into a chain, as long as the       *)
(* counts add up to no more than the bound and none of them is 1.          *)
LEMMA NumberedIsChained ==
  ASSUME NEW ids \in Seq(Servers), NEW counts \in Seq(Nat), Len(counts) = Len(ids),
         \A i \in 1 .. Len(counts) : /\ counts[i] # 1
                                     /\ Offsets(counts)[i - 1] + counts[i] <= MaxWorkers
  PROVE  LET nodes == Numbered(ids, counts)
         IN  /\ nodes \in Seq(ServerNode)
             /\ Len(nodes) = Len(ids)
             /\ \A i \in 1 .. Len(nodes) : /\ nodes[i].id = ids[i]
                                           /\ nodes[i].last = Decr(Offsets(counts)[i])
                                           /\ WorkerCount(nodes[i]) = counts[i]
             /\ Chained(nodes)
             /\ Offsets(counts)[Len(counts)] # 1
             /\ Offsets(counts)[Len(counts)] \in 0 .. MaxWorkers
<1> DEFINE nodes == Numbered(ids, counts)
           off == Offsets(counts)
           n == Len(counts)
<1>1. n \in Nat /\ n = Len(ids) /\ \A i \in 1 .. n : counts[i] \in Nat /\ ids[i] \in Servers
  OBVIOUS
<1>2. /\ off[0] = 0
      /\ \A i \in 1 .. n : off[i] = (off[i - 1] + counts[i]) % WordSize
      /\ \A i \in 0 .. n : off[i] \in Word
  BY OffsetsValue
<1>3. nodes = [i \in 1 .. n |-> [id |-> ids[i], first |-> off[i - 1], last |-> Decr(off[i])]]
  BY DEF Numbered
<1>4. \A i \in 1 .. n : counts[i] # 1 /\ off[i - 1] + counts[i] <= MaxWorkers
  OBVIOUS
<1> HIDE DEF nodes, off, n
<1>5. ASSUME NEW i \in 1 .. n
      PROVE  off[i - 1] \in Nat /\ off[i] = off[i - 1] + counts[i] /\ off[i] <= MaxWorkers
  <2>1. off[i - 1] \in Word /\ counts[i] \in Nat
    BY <1>1, <1>2
  <2>2. off[i - 1] + counts[i] \in Word
    BY <1>4, <2>1, WordAssumption DEF Word
  <2>3. off[i] = off[i - 1] + counts[i]
    BY <1>2, <2>2, ModSmall
  <2> QED
    BY <1>4, <2>1, <2>3, WordAssumption DEF Word
<1> DEFINE S == {m \in Nat : m <= n => off[m] # 1}
<1>6. 0 \in S
  BY <1>2
<1>7. ASSUME NEW m \in Nat, m \in S
      PROVE  m + 1 \in S
  <2> SUFFICES ASSUME m + 1 <= n
               PROVE  off[m + 1] # 1
    OBVIOUS
  <2>1. m + 1 \in 1 .. n /\ off[m] # 1
    BY <1>1, <1>7
  <2>2. off[m] \in Nat /\ off[m + 1] = off[m] + counts[m + 1]
    BY <1>5, <2>1
  <2>3. counts[m + 1] # 1 /\ counts[m + 1] \in Nat
    BY <1>1, <1>4, <2>1
  <2> QED
    BY <2>1, <2>2, <2>3
<1>8. Nat \subseteq S
  <2> HIDE DEF S
  <2> QED
    BY <1>6, <1>7, NatSetInduction
<1>9. off[n] # 1 /\ off[n] \in 0 .. MaxWorkers
  <2>1. off[n] # 1
    BY <1>1, <1>8
  <2>2. CASE n = 0
    BY <1>2, <2>1, <2>2, WordAssumption
  <2>3. CASE n # 0
    <3>1. n \in 1 .. n
      BY <1>1, <2>3
    <3> QED
      BY <1>1, <1>5, <2>1, <3>1
  <2> QED
    BY <2>2, <2>3
<1>10. ASSUME NEW i \in 1 .. n
       PROVE  /\ nodes[i] \in ServerNode
              /\ nodes[i].id = ids[i]
              /\ nodes[i].first = off[i - 1]
              /\ nodes[i].last = Decr(off[i])
              /\ Incr(nodes[i].last) = off[i]
              /\ WorkerCount(nodes[i]) = counts[i]
  <2>1. nodes[i] = [id |-> ids[i], first |-> off[i - 1], last |-> Decr(off[i])]
    BY <1>3
  <2>2. /\ off[i - 1] \in Nat /\ off[i] \in Nat /\ off[i - 1] <= off[i]
        /\ off[i] <= MaxWorkers /\ off[i] - off[i - 1] = counts[i]
    BY <1>1, <1>5
  <2>3. nodes[i].first = off[i - 1] /\ nodes[i].last = Decr(off[i])
    BY <2>1
  <2>4. /\ off[i - 1] \in Word /\ Decr(off[i]) \in Word /\ Incr(Decr(off[i])) = off[i]
        /\ \A srv : srv.first = off[i - 1] /\ srv.last = Decr(off[i])
              => WorkerCount(srv) = off[i] - off[i - 1]
    BY <2>2, CountOfRange
  <2>5. /\ off[i - 1] \in Word /\ Decr(off[i]) \in Word /\ Incr(Decr(off[i])) = off[i]
        /\ WorkerCount(nodes[i]) = off[i] - off[i - 1]
    BY <2>3, <2>4, Zenon
  <2> QED
    BY <1>1, <2>1, <2>2, <2>5 DEF ServerNode
<1>11. nodes \in Seq(ServerNode) /\ Len(nodes) = n
  BY <1>1, <1>3, <1>10
<1>12. ASSUME NEW i \in 1 .. Len(nodes)
       PROVE  ChainedAt(nodes, i)
  <2>1. i \in 1 .. n /\ i \in Nat
    BY <1>1, <1>11
  <2>2. nodes[i].first = IF i = 1 THEN 0 ELSE Incr(nodes[i - 1].last)
    <3>1. CASE i = 1
      BY <1>2, <1>10, <2>1, <3>1
    <3>2. CASE i # 1
      <4>1. i - 1 \in 1 .. n
        BY <1>1, <2>1, <3>2
      <4> QED
        BY <1>10, <2>1, <3>2, <4>1
    <3> QED
      BY <3>1, <3>2
  <2> QED
    BY <1>1, <1>4, <1>5, <1>10, <2>1, <2>2 DEF ChainedAt
<1> QED
  BY <1>1, <1>9, <1>10, <1>11, <1>12 DEF Chained, nodes, off, n

-----------------------------------------------------------------------------
(* Each operation keeps the inductive invariant.                           *)

LEMMA AddLeafKeepsIInv ==
  ASSUME IInv, NEW l \in Leaves, NEW sp \in Spines, NEW e \in Endpoints,
         AddLeafToSpine(l, sp, e)
  PROVE  IInv'
<1> DEFINE old == leavesOf[sp]
           n == Len(old)
           node == [id |-> l, index |-> n % WordSize, endpoint |-> e]
<1>1. old \in Seq(LeafNode) /\ n \in Nat /\ n < MaxLeaves
  BY DEF IInv, TypeOK, AddLeafToSpine
<1>2. n % WordSize = n /\ n \in Word
  <2>1. n \in Word
    BY <1>1, WordAssumption DEF Word
  <2> QED
    BY <2>1, ModSmall
<1>3. node \in LeafNode /\ node.index = n /\ node.id = l /\ node.endpoint = e
  BY <1>2 DEF LeafNode
<1>4. /\ leavesOf' = [leavesOf EXCEPT ![sp] = Append(old, node)]
      /\ spineOf' = [spineOf EXCEPT ![l] = sp]
      /\ leafLast' = [leafLast EXCEPT ![l] = 0]
      /\ updated' = {} /\ serversOf' = serversOf /\ leafOf' = leafOf
      /\ spineOf[l] = None
      /\ \A i \in 1 .. n : old[i].endpoint # e
  BY DEF AddLeafToSpine, EndpointFree
<1> HIDE DEF node
<1>5. /\ leavesOf'[sp] \in Seq(LeafNode)
      /\ Len(leavesOf'[sp]) = n + 1
      /\ \A i \in 1 .. n : leavesOf'[sp][i] = old[i]
      /\ leavesOf'[sp][n + 1] = node
  <2>1. leavesOf'[sp] = Append(old, node)
    BY <1>4 DEF IInv, TypeOK
  <2> QED
    BY <1>1, <1>3, <2>1
<1>6. \A p \in Spines : p # sp => leavesOf'[p] = leavesOf[p]
  BY <1>4 DEF IInv, TypeOK
<1>7. TypeOK'
  <2>1. leavesOf' \in [Spines -> Seq(LeafNode)]
    <3>1. Append(old, node) \in Seq(LeafNode)
      BY <1>1, <1>3
    <3> QED
      BY <1>4, <3>1 DEF IInv, TypeOK
  <2>2. 0 \in Word
    BY WordAssumption DEF Word
  <2> QED
    BY <1>4, <2>1, <2>2 DEF IInv, TypeOK
<1>8. \A i \in 1 .. n : old[i].id # l
  <2>1. spineOf[l] # sp
    BY <1>4, NoneIsNoNode
  <2> QED
    BY <2>1 DEF IInv, MapsMatchTree
<1>9. MapsMatchTree'
  <2>1. ASSUME NEW m \in Leaves, NEW p \in Spines
        PROVE  spineOf'[m] = p <=> \E i \in 1 .. Len(leavesOf'[p]) : leavesOf'[p][i].id = m
    <3>1. spineOf[m] = p <=> \E i \in 1 .. Len(leavesOf[p]) : leavesOf[p][i].id = m
      BY DEF IInv, MapsMatchTree
    <3>2. spineOf'[m] = IF m = l THEN sp ELSE spineOf[m]
      BY <1>4 DEF IInv, TypeOK
    <3>3. CASE p = sp
      <4>1. CASE m = l
        BY <1>1, <1>3, <1>5, <3>2, <3>3, <4>1
      <4>2. CASE m # l
        <5>1. /\ Len(leavesOf'[p]) = n + 1 /\ leavesOf'[p][n + 1].id # m
              /\ \A i \in 1 .. n : leavesOf'[p][i] = leavesOf[p][i]
          BY <1>3, <1>5, <3>3, <4>2
        <5>2. (\E i \in 1 .. n + 1 : leavesOf'[p][i].id = m)
                <=> \E i \in 1 .. n : leavesOf[p][i].id = m
          BY SMTT(30), <1>1, <5>1
        <5> QED
          BY <3>1, <3>2, <3>3, <4>2, <5>1, <5>2
      <4> QED
        BY <4>1, <4>2
    <3>4. CASE p # sp
      BY <1>4, <1>6, <3>1, <3>2, <3>4, NoneIsNoNode
    <3> QED
      BY <3>3, <3>4
  <2>2. ASSUME NEW p \in Spines, NEW i \in 1 .. Len(leavesOf'[p]), NEW j \in 1 .. Len(leavesOf'[p]),
               leavesOf'[p][i].id = leavesOf'[p][j].id
        PROVE  i = j
    <3>1. CASE p = sp
      <4>1. \A a, b \in 1 .. n : old[a].id = old[b].id => a = b
        BY DEF IInv, MapsMatchTree
      <4>2. i \in 1 .. n + 1 /\ j \in 1 .. n + 1
        BY <1>5, <3>1
      <4>3. \A a \in 1 .. n : leavesOf'[sp][a].id = old[a].id /\ leavesOf'[sp][a].id # l
        BY <1>5, <1>8
      <4>4. leavesOf'[sp][n + 1].id = l
        BY <1>3, <1>5
      <4>5. leavesOf'[sp][i].id = leavesOf'[sp][j].id
        BY <2>2, <3>1
      <4>6. CASE i \in 1 .. n /\ j \in 1 .. n
        BY <4>1, <4>3, <4>5, <4>6
      <4>7. CASE i \notin 1 .. n
        <5>1. i = n + 1
          BY <1>1, <4>2, <4>7
        <5> QED
          BY <1>1, <4>2, <4>3, <4>4, <4>5, <5>1
      <4>8. CASE j \notin 1 .. n
        <5>1. j = n + 1
          BY <1>1, <4>2, <4>8
        <5> QED
          BY <1>1, <4>2, <4>3, <4>4, <4>5, <5>1
      <4> QED
        BY <4>6, <4>7, <4>8
    <3>2. CASE p # sp
      BY <1>6, <2>2, <3>2 DEF IInv, MapsMatchTree
    <3> QED
      BY <3>1, <3>2
  <2>3. \A m \in Leaves : spineOf'[m] = None => serversOf'[m] = <<>>
    BY <1>4, NoneIsNoNode DEF IInv, TypeOK, MapsMatchTree
  <2> QED
    BY <1>4, <2>1, <2>2, <2>3 DEF IInv, MapsMatchTree
<1>10. IndexIsPosition'
  <2>1. \A p \in Spines : \A i \in 1 .. Len(leavesOf[p]) : leavesOf[p][i].index = i - 1
    BY DEF IInv, IndexIsPosition
  <2>2. ASSUME NEW i \in 1 .. Len(leavesOf'[sp])
        PROVE  leavesOf'[sp][i].index = i - 1
    <3>1. CASE i \in 1 .. n
      BY <1>5, <2>1, <3>1
    <3>2. CASE i \notin 1 .. n
      <4>1. i = n + 1
        BY <1>1, <1>5, <3>2
      <4> QED
        BY <1>1, <1>3, <1>5, <4>1
    <3> QED
      BY <3>1, <3>2
  <2> QED
    BY <1>6, <2>1, <2>2 DEF IndexIsPosition
<1>11. EndpointsUniquePerSpine'
  BY <1>1, <1>3, <1>4, <1>5, <1>6 DEF IInv, EndpointsUniquePerSpine
<1>12. LeafLastIsEnd'
  <2>1. serversOf[l] = <<>>
    BY <1>4 DEF IInv, MapsMatchTree
  <2> QED
    BY <1>4, <2>1 DEF IInv, TypeOK, LeafLastIsEnd
<1>13. /\ \A m \in Leaves : Chained(serversOf'[m])
       /\ \A p \in Spines : Len(leavesOf'[p]) <= MaxLeaves
  BY <1>1, <1>4, <1>5, <1>6, WordAssumption DEF IInv
<1> QED
  BY <1>7, <1>9, <1>10, <1>11, <1>12, <1>13 DEF IInv, Chained, ChainedAt

LEMMA AddServerKeepsIInv ==
  ASSUME IInv, NEW s \in Servers, NEW l \in Leaves, NEW c \in Counts, c # 1,
         AddServerToLeaf(s, l, c)
  PROVE  IInv'
<1> DEFINE old == serversOf[l]
           n == Len(old)
           start == NextWorkerID(l)
           node == [id |-> s, first |-> start, last |-> Decr(start + c)]
<1>1. /\ old \in Seq(ServerNode) /\ n \in Nat
      /\ \A i \in 1 .. n : old[i] \in ServerNode
      /\ leafLast[l] \in Word
  BY DEF IInv, TypeOK
<1>2. /\ serversOf' = [serversOf EXCEPT ![l] = Append(old, node)]
      /\ leafLast' = [leafLast EXCEPT ![l] = Decr(start + c)]
      /\ leafOf' = [leafOf EXCEPT ![s] = l]
      /\ updated' = {} /\ leavesOf' = leavesOf /\ spineOf' = spineOf
      /\ spineOf[l] # None /\ leafOf[s] = None
      /\ start + c <= MaxWorkers
  BY DEF AddServerToLeaf
<1>3. c \in Nat
  BY WordAssumption
<1>4. \A i \in 1 .. n : ChainedAt(old, i)
  BY DEF IInv, Chained
(* The next server starts where the last one ends. *)
<1>5. start = IF n = 0 THEN 0 ELSE Incr(old[n].last)
  <2>1. IF n = 0 \/ old[n].last = WordSize - 1
        THEN leafLast[l] \in {0, WordSize - 1}
        ELSE leafLast[l] = old[n].last /\ leafLast[l] # 0
    BY DEF IInv, LeafLastIsEnd
  <2>2. leafLast[l] \in Nat /\ Incr(leafLast[l]) = IF leafLast[l] = WordSize - 1 THEN 0 ELSE leafLast[l] + 1
    BY <1>1, IncrValue, WordAssumption DEF Word
  <2>3. Incr(WordSize - 1) = 0
    BY IncrValue, WordAssumption DEF Word
  <2>4. CASE n = 0
    BY <2>1, <2>2, <2>3, <2>4 DEF NextWorkerID
  <2>5. CASE n # 0 /\ old[n].last = WordSize - 1
    BY <2>1, <2>2, <2>3, <2>5 DEF NextWorkerID
  <2>6. CASE n # 0 /\ old[n].last # WordSize - 1
    BY <2>1, <2>2, <2>6 DEF NextWorkerID
  <2> QED
    BY <2>4, <2>5, <2>6
<1>6. start \in Nat /\ (n # 0 => start # 1)
  <2>1. CASE n = 0
    BY <1>5, <2>1
  <2>2. CASE n # 0
    <3>1. n \in 1 .. n /\ old[n].last \in Word
      BY <1>1, <2>2 DEF ServerNode
    <3>2. Incr(old[n].last) = IF old[n].last = WordSize - 1 THEN 0 ELSE old[n].last + 1
      BY <3>1, IncrValue
    <3>3. old[n].last # 0
      BY <2>2, WordAssumption DEF IInv, LeafLastIsEnd
    <3> QED
      BY <1>5, <2>2, <3>1, <3>2, <3>3, WordAssumption DEF Word
  <2> QED
    BY <2>1, <2>2
<1>7. /\ start \in Word /\ node.last \in Word
      /\ Incr(node.last) = start + c
      /\ WorkerCount(node) = c
  <2>1. PICK end \in Nat : end = start + c
    BY <1>3, <1>6
  <2>2. start <= end /\ end <= MaxWorkers /\ end - start = c
    BY <1>2, <1>3, <1>6, <2>1
  <2>3. node.first = start /\ node.last = Decr(end)
    BY <2>1
  <2> HIDE DEF start, node
  <2>4. /\ start \in Word /\ Decr(end) \in Word /\ Incr(Decr(end)) = end
        /\ \A srv : srv.first = start /\ srv.last = Decr(end) => WorkerCount(srv) = end - start
    BY <1>6, <2>2, CountOfRange
  <2> QED
    BY <2>1, <2>2, <2>3, <2>4, Zenon
<1>8. node \in ServerNode /\ node.id = s /\ node.first = start
  BY <1>7 DEF ServerNode
<1>9. leafLast' = [leafLast EXCEPT ![l] = node.last]
  BY <1>2
<1> HIDE DEF node, start
<1>10. /\ serversOf'[l] \in Seq(ServerNode)
       /\ Len(serversOf'[l]) = n + 1
       /\ \A i \in 1 .. n : serversOf'[l][i] = old[i]
       /\ serversOf'[l][n + 1] = node
  <2>1. serversOf'[l] = Append(old, node)
    BY <1>2 DEF IInv, TypeOK
  <2> QED
    BY <1>1, <1>8, <2>1
<1>11. \A m \in Leaves : m # l => serversOf'[m] = serversOf[m]
  BY <1>2 DEF IInv, TypeOK
<1>12. TypeOK'
  <2>1. serversOf' \in [Leaves -> Seq(ServerNode)]
    <3>1. Append(old, node) \in Seq(ServerNode)
      BY <1>1, <1>8
    <3> QED
      BY <1>2, <3>1 DEF IInv, TypeOK
  <2>2. leafLast' \in [Leaves -> Word] /\ leafOf' \in [Servers -> Leaves \cup {None}]
    BY <1>2, <1>7, <1>9 DEF IInv, TypeOK
  <2> QED
    BY <1>2, <2>1, <2>2 DEF IInv, TypeOK
<1>13. \A i \in 1 .. n : old[i].id # s
  <2>1. leafOf[s] # l
    BY <1>2, NoneIsNoNode
  <2> QED
    BY <2>1 DEF IInv, MapsMatchTree
<1>14. MapsMatchTree'
  <2>1. ASSUME NEW t \in Servers, NEW m \in Leaves
        PROVE  leafOf'[t] = m <=> \E i \in 1 .. Len(serversOf'[m]) : serversOf'[m][i].id = t
    <3>1. leafOf[t] = m <=> \E i \in 1 .. Len(serversOf[m]) : serversOf[m][i].id = t
      BY DEF IInv, MapsMatchTree
    <3>2. leafOf'[t] = IF t = s THEN l ELSE leafOf[t]
      BY <1>2 DEF IInv, TypeOK
    <3>3. CASE m = l
      <4>1. CASE t = s
        BY <1>1, <1>8, <1>10, <3>2, <3>3, <4>1
      <4>2. CASE t # s
        <5>1. /\ Len(serversOf'[m]) = n + 1 /\ serversOf'[m][n + 1].id # t
              /\ \A i \in 1 .. n : serversOf'[m][i] = serversOf[m][i]
          BY <1>8, <1>10, <3>3, <4>2
        <5>2. (\E i \in 1 .. n + 1 : serversOf'[m][i].id = t)
                <=> \E i \in 1 .. n : serversOf[m][i].id = t
          BY SMTT(30), <1>1, <5>1
        <5> QED
          BY <3>1, <3>2, <3>3, <4>2, <5>1, <5>2
      <4> QED
        BY <4>1, <4>2
    <3>4. CASE m # l
      BY <1>2, <1>11, <3>1, <3>2, <3>4, NoneIsNoNode
    <3> QED
      BY <3>3, <3>4
  <2>2. ASSUME NEW m \in Leaves, NEW i \in 1 .. Len(serversOf'[m]), NEW j \in 1 .. Len(serversOf'[m]),
               serversOf'[m][i].id = serversOf'[m][j].id
        PROVE  i = j
    <3>1. CASE m = l
      <4>1. \A a, b \in 1 .. n : old[a].id = old[b].id => a = b
        BY DEF IInv, MapsMatchTree
      <4>2. i \in 1 .. n + 1 /\ j \in 1 .. n + 1
        BY <1>10, <3>1
      <4>3. /\ i = n + 1 => serversOf'[m][i].id = s
            /\ j = n + 1 => serversOf'[m][j].id = s
            /\ i \in 1 .. n => serversOf'[m][i].id = old[i].id /\ old[i].id # s
            /\ j \in 1 .. n => serversOf'[m][j].id = old[j].id /\ old[j].id # s
        BY <1>8, <1>10, <1>13, <3>1
      <4>4. CASE i \in 1 .. n /\ j \in 1 .. n
        BY <2>2, <4>1, <4>3, <4>4
      <4>5. CASE i = n + 1 \/ j = n + 1
        BY <1>1, <2>2, <4>2, <4>3, <4>5
      <4> QED
        BY <1>1, <4>2, <4>4, <4>5
    <3>2. CASE m # l
      BY <1>11, <2>2, <3>2 DEF IInv, MapsMatchTree
    <3> QED
      BY <3>1, <3>2
  <2>3. \A m \in Leaves : spineOf'[m] = None => serversOf'[m] = <<>>
    BY <1>2, <1>11 DEF IInv, MapsMatchTree
  <2> QED
    BY <1>2, <2>1, <2>2, <2>3 DEF IInv, MapsMatchTree
<1>15. LeafLastIsEnd'
  <2>1. ASSUME NEW m \in Leaves, m # l
        PROVE  leafLast'[m] = leafLast[m] /\ serversOf'[m] = serversOf[m]
    BY <1>9, <1>11, <2>1 DEF IInv, TypeOK
  <2>2. leafLast'[l] = node.last /\ serversOf'[l][n + 1] = node /\ Len(serversOf'[l]) = n + 1
    BY <1>9, <1>10 DEF IInv, TypeOK
  <2>3. node.last # 0 \/ node.last = WordSize - 1
    <3>1. Incr(node.last) # 1
      BY <1>3, <1>5, <1>6, <1>7
    <3> QED
      BY <1>7, <3>1, IncrValue, WordAssumption DEF Word
  <2> QED
    BY <1>1, <2>1, <2>2, <2>3 DEF IInv, LeafLastIsEnd
<1>16. \A m \in Leaves : Chained(serversOf'[m])
  <2>1. ASSUME NEW i \in 1 .. n + 1
        PROVE  ChainedAt(serversOf'[l], i)
    <3>1. CASE i \in 1 .. n
      <4>1. ChainedAt(old, i)
        BY <1>4, <3>1
      <4>2. i # 1 => i - 1 \in 1 .. n
        BY <1>1, <3>1
      <4> QED
        BY <1>10, <3>1, <4>1, <4>2 DEF ChainedAt
    <3>2. CASE i = n + 1
      <4>1. node.first = IF i = 1 THEN 0 ELSE Incr(serversOf'[l][i - 1].last)
        BY <1>1, <1>5, <1>8, <1>10, <3>2
      <4> QED
        BY <1>2, <1>7, <1>8, <1>10, <3>2, <4>1 DEF ChainedAt
    <3> QED
      BY <1>1, <3>1, <3>2
  <2>2. Chained(serversOf'[l])
    BY <1>10, <2>1 DEF Chained
  <2> QED
    BY <1>11, <2>2 DEF IInv
<1>17. /\ IndexIsPosition' /\ EndpointsUniquePerSpine'
       /\ \A sp \in Spines : Len(leavesOf'[sp]) <= MaxLeaves
  BY <1>2 DEF IInv, IndexIsPosition, EndpointsUniquePerSpine
<1> QED
  BY <1>12, <1>14, <1>15, <1>16, <1>17 DEF IInv, Chained, ChainedAt

LEMMA RemoveLeafKeepsIInv ==
  ASSUME IInv, NEW l \in Leaves, RemoveLeaf(l)
  PROVE  IInv'
<1> DEFINE sp == spineOf[l]
           old == leavesOf[sp]
           n == Len(old)
<1>1. sp \in Spines /\ old \in Seq(LeafNode) /\ n \in Nat /\ n <= MaxLeaves
  BY DEF IInv, TypeOK, RemoveLeaf
<1>2. \A i \in 1 .. n : old[i] \in LeafNode /\ old[i].index = i - 1
  BY <1>1 DEF IInv, IndexIsPosition
<1>3. PICK k \in 1 .. n :
        /\ old[k].id = l
        /\ leavesOf' = [leavesOf EXCEPT ![sp] =
             [i \in 1 .. n - 1 |-> IF i < k THEN old[i]
                                   ELSE [old[i + 1] EXCEPT !.index = Decr(@)]]]
        /\ updated' = {old[i].id : i \in k + 1 .. n}
  BY DEF RemoveLeaf, LeavesWithout, Behind
<1>4. /\ serversOf' = [serversOf EXCEPT ![l] = <<>>]
      /\ leafLast' = [leafLast EXCEPT ![l] = 0]
      /\ leafOf' = [s \in Servers |-> IF leafOf[s] = l THEN None ELSE leafOf[s]]
      /\ spineOf' = [spineOf EXCEPT ![l] = None]
  BY DEF RemoveLeaf, LeafOfWithout
<1> DEFINE new == leavesOf'[sp]
<1>5. new = [i \in 1 .. n - 1 |-> IF i < k THEN old[i]
                                  ELSE [old[i + 1] EXCEPT !.index = Decr(@)]]
  BY <1>1, <1>3 DEF IInv, TypeOK
<1>6. \A p \in Spines : p # sp => leavesOf'[p] = leavesOf[p]
  BY <1>3 DEF IInv, TypeOK
<1>7. \A a, b \in 1 .. n : old[a].id = old[b].id \/ old[a].endpoint = old[b].endpoint => a = b
  BY <1>1 DEF IInv, MapsMatchTree, EndpointsUniquePerSpine
<1> HIDE DEF old, new, n, sp
<1>8. ASSUME NEW i \in 1 .. n - 1
      PROVE  LET o == IF i < k THEN old[i] ELSE old[i + 1]
             IN  /\ new[i] \in LeafNode
                 /\ new[i].id = o.id /\ new[i].endpoint = o.endpoint
                 /\ new[i].index = i - 1
  <2>1. CASE i < k
    <3>1. new[i] = old[i] /\ i \in 1 .. n
      BY <1>1, <1>5, <2>1
    <3> QED
      BY <1>2, <2>1, <3>1
  <2>2. CASE ~ (i < k)
    <3>1. new[i] = [old[i + 1] EXCEPT !.index = Decr(@)] /\ i + 1 \in 1 .. n /\ i >= 1
      BY <1>1, <1>5, <2>2
    <3>2. old[i + 1] \in LeafNode /\ old[i + 1].index = i
      BY <1>1, <1>2, <3>1
    <3>3. i \in Word /\ i - 1 \in Word
      BY <3>1, <3>2, WordAssumption DEF LeafNode, Word
    <3>4. Decr(i) = i - 1
      BY <3>1, <3>3, DecrValue
    <3> QED
      BY <2>2, <3>1, <3>2, <3>3, <3>4 DEF LeafNode
  <2> QED
    BY <2>1, <2>2
<1>9. new \in Seq(LeafNode) /\ Len(new) = n - 1
  <2>1. n - 1 \in Nat
    BY <1>1
  <2>2. DOMAIN new = 1 .. n - 1 /\ new = [i \in 1 .. n - 1 |-> new[i]]
    BY <1>5
  <2> QED
    BY <1>8, <2>1, <2>2
<1>10. \A i \in 1 .. n - 1 : \E a \in 1 .. n :
          /\ a = IF i < k THEN i ELSE i + 1
          /\ new[i].id = old[a].id /\ new[i].endpoint = old[a].endpoint
  <2>1. ASSUME NEW i \in 1 .. n - 1
        PROVE  \E a \in 1 .. n :
                 /\ a = IF i < k THEN i ELSE i + 1
                 /\ new[i].id = old[a].id /\ new[i].endpoint = old[a].endpoint
    <3>1. i \in 1 .. n /\ i + 1 \in 1 .. n
      BY <1>1
    <3>2. CASE i < k
      BY <1>8, <3>1, <3>2
    <3>3. CASE ~ (i < k)
      BY <1>8, <3>1, <3>3
    <3> QED
      BY <3>2, <3>3
  <2> QED
    BY <2>1
<1>11. ASSUME NEW i \in 1 .. n - 1, NEW j \in 1 .. n - 1,
             new[i].id = new[j].id \/ new[i].endpoint = new[j].endpoint
       PROVE  i = j
  <2>1. PICK a \in 1 .. n : /\ a = IF i < k THEN i ELSE i + 1
                            /\ new[i].id = old[a].id /\ new[i].endpoint = old[a].endpoint
    BY <1>10
  <2>2. PICK b \in 1 .. n : /\ b = IF j < k THEN j ELSE j + 1
                            /\ new[j].id = old[b].id /\ new[j].endpoint = old[b].endpoint
    BY <1>10
  <2>3. a = b
    BY <1>7, <1>11, <2>1, <2>2
  <2> QED
    BY <1>1, <2>1, <2>2, <2>3
<1>12. TypeOK'
  <2>1. leavesOf' \in [Spines -> Seq(LeafNode)]
    BY <1>1, <1>3, <1>6, <1>9 DEF IInv, TypeOK, new
  <2>2. updated' \subseteq Leaves \cup Servers
    <3>1. \A i \in k + 1 .. n : old[i].id \in Leaves
      BY <1>1, <1>2 DEF LeafNode
    <3> QED
      BY <1>3, <3>1
  <2>3. <<>> \in Seq(ServerNode) /\ 0 \in Word
    BY WordAssumption DEF Word
  <2> QED
    BY <1>4, <2>1, <2>2, <2>3 DEF IInv, TypeOK
<1>13. MapsMatchTree'
  <2>1. ASSUME NEW m \in Leaves, NEW p \in Spines
        PROVE  spineOf'[m] = p <=> \E i \in 1 .. Len(leavesOf'[p]) : leavesOf'[p][i].id = m
    <3>1. spineOf[m] = p <=> \E i \in 1 .. Len(leavesOf[p]) : leavesOf[p][i].id = m
      BY DEF IInv, MapsMatchTree
    <3>2. spineOf'[m] = IF m = l THEN None ELSE spineOf[m]
      BY <1>4 DEF IInv, TypeOK
    <3>3. CASE p = sp
      <4>1. CASE m = l
        <5>1. ASSUME NEW i \in 1 .. n - 1
              PROVE  new[i].id # l
          <6>1. CASE i < k
            BY <1>1, <1>3, <1>7, <1>8, <6>1
          <6>2. CASE ~ (i < k)
            <7>1. new[i].id = old[i + 1].id /\ i + 1 \in 1 .. n /\ i + 1 # k
              BY <1>1, <1>8, <6>2
            <7> QED
              BY <1>3, <1>7, <7>1
          <6> QED
            BY <6>1, <6>2
        <5> QED
          BY <1>1, <1>9, <3>2, <3>3, <4>1, <5>1, NoneIsNoNode DEF new
      <4>2. CASE m # l
        <5>1. ASSUME NEW i \in 1 .. n - 1, new[i].id = m
              PROVE  \E j \in 1 .. n : old[j].id = m
          BY <1>1, <1>8, <5>1
        <5>2. ASSUME NEW j \in 1 .. n, old[j].id = m
              PROVE  \E i \in 1 .. n - 1 : new[i].id = m
          <6>1. j # k
            BY <1>3, <4>2, <5>2
          <6>2. CASE j < k
            <7>1. j \in 1 .. n - 1
              BY <1>1, <6>2
            <7> QED
              BY <1>8, <5>2, <6>2, <7>1
          <6>3. CASE j > k
            <7>1. j - 1 \in 1 .. n - 1 /\ ~ (j - 1 < k)
              BY <1>1, <6>3
            <7>2. new[j - 1].id = old[(j - 1) + 1].id
              BY <1>8, <7>1
            <7> QED
              BY <5>2, <7>1, <7>2
          <6> QED
            BY <6>1, <6>2, <6>3
        <5> QED
          BY <1>9, <3>1, <3>2, <3>3, <4>2, <5>1, <5>2 DEF new, old, n
      <4> QED
        BY <4>1, <4>2
    <3>4. CASE p # sp
      BY <1>6, <3>1, <3>2, <3>4, NoneIsNoNode DEF sp
    <3> QED
      BY <3>3, <3>4
  <2>2. ASSUME NEW p \in Spines, NEW i \in 1 .. Len(leavesOf'[p]), NEW j \in 1 .. Len(leavesOf'[p]),
               leavesOf'[p][i].id = leavesOf'[p][j].id
        PROVE  i = j
    <3>1. CASE p = sp
      <4>1. i \in 1 .. n - 1 /\ j \in 1 .. n - 1 /\ new[i].id = new[j].id
        BY <1>9, <2>2, <3>1 DEF new
      <4> QED
        BY <1>11, <4>1
    <3>2. CASE p # sp
      BY <1>6, <2>2, <3>2 DEF IInv, MapsMatchTree
    <3> QED
      BY <3>1, <3>2
  <2>3. ASSUME NEW s \in Servers, NEW m \in Leaves
        PROVE  leafOf'[s] = m <=> \E i \in 1 .. Len(serversOf'[m]) : serversOf'[m][i].id = s
    <3>1. leafOf[s] = m <=> \E i \in 1 .. Len(serversOf[m]) : serversOf[m][i].id = s
      BY DEF IInv, MapsMatchTree
    <3>2. leafOf'[s] = IF leafOf[s] = l THEN None ELSE leafOf[s]
      BY <1>4
    <3>3. serversOf'[m] = IF m = l THEN <<>> ELSE serversOf[m]
      BY <1>4 DEF IInv, TypeOK
    <3> QED
      BY <3>1, <3>2, <3>3, NoneIsNoNode
  <2>4. \A m \in Leaves : \A i, j \in 1 .. Len(serversOf'[m]) :
          serversOf'[m][i].id = serversOf'[m][j].id => i = j
    BY <1>4 DEF IInv, TypeOK, MapsMatchTree
  <2>5. \A m \in Leaves : spineOf'[m] = None => serversOf'[m] = <<>>
    BY <1>4 DEF IInv, TypeOK, MapsMatchTree
  <2> QED
    BY <2>1, <2>2, <2>3, <2>4, <2>5 DEF MapsMatchTree
<1>14. IndexIsPosition'
  BY ZenonT(30), <1>6, <1>8, <1>9 DEF IInv, IndexIsPosition, new
<1>15. EndpointsUniquePerSpine'
  <2> SUFFICES ASSUME NEW p \in Spines, NEW i \in 1 .. Len(leavesOf'[p]), NEW j \in 1 .. Len(leavesOf'[p]),
                      leavesOf'[p][i].endpoint = leavesOf'[p][j].endpoint
               PROVE  i = j
    BY DEF EndpointsUniquePerSpine
  <2>1. CASE p = sp
    <3>1. i \in 1 .. n - 1 /\ j \in 1 .. n - 1 /\ new[i].endpoint = new[j].endpoint
      BY <1>9, <2>1 DEF new
    <3> QED
      BY <1>11, <3>1
  <2>2. CASE p # sp
    BY <1>6, <2>2 DEF IInv, EndpointsUniquePerSpine
  <2> QED
    BY <2>1, <2>2
<1>16. LeafLastIsEnd'
  BY <1>4 DEF IInv, TypeOK, LeafLastIsEnd
<1>17. \A m \in Leaves : Chained(serversOf'[m])
  <2>1. Chained(<<>>)
    BY DEF Chained
  <2> QED
    BY <1>4, <2>1 DEF IInv, TypeOK
<1>18. \A p \in Spines : Len(leavesOf'[p]) <= MaxLeaves
  BY <1>1, <1>6, <1>9, WordAssumption DEF IInv, new
<1> QED
  BY <1>12, <1>13, <1>14, <1>15, <1>16, <1>17, <1>18 DEF IInv, Chained, ChainedAt

LEMMA NodeRange ==
  ASSUME NEW nodes \in Seq(ServerNode), Chained(nodes), NEW i \in 1 .. Len(nodes)
  PROVE  /\ nodes[i] \in ServerNode
         /\ nodes[i].first \in Nat /\ WorkerCount(nodes[i]) \in Nat
         /\ nodes[i].first = IF i = 1 THEN 0 ELSE Incr(nodes[i - 1].last)
         /\ nodes[i].first + WorkerCount(nodes[i]) = Incr(nodes[i].last)
         /\ Incr(nodes[i].last) \in Nat /\ Incr(nodes[i].last) <= MaxWorkers
         /\ WorkerCount(nodes[i]) # 1
<1>1. nodes[i] \in ServerNode /\ ChainedAt(nodes, i)
  BY DEF Chained
<1>2. WorkerCount(nodes[i]) \in Word /\ nodes[i].first \in Word /\ nodes[i].last \in Word
  BY <1>1, WorkerCountInWord DEF ServerNode
<1>3. Incr(nodes[i].last) \in Nat
  BY <1>2, IncrValue, WordAssumption DEF Word
<1> QED
  BY <1>1, <1>2, <1>3, WordAssumption DEF ChainedAt, Word

(* Without child k the numbering loop stays below where the chain was.     *)
LEMMA RestFits ==
  ASSUME NEW nodes \in Seq(ServerNode), Chained(nodes), NEW k \in 1 .. Len(nodes)
  PROVE  LET rest   == RemoveAt(nodes, k)
             counts == CountsOf(rest)
         IN  /\ counts \in Seq(Nat) /\ Len(counts) = Len(rest)
             /\ IdsOf(rest) \in Seq(Servers) /\ Len(IdsOf(rest)) = Len(rest)
             /\ \A i \in 1 .. Len(counts) : /\ counts[i] # 1
                                            /\ Offsets(counts)[i - 1] + counts[i] <= MaxWorkers
<1> DEFINE rest   == RemoveAt(nodes, k)
           counts == CountsOf(rest)
           off    == Offsets(counts)
           n      == Len(nodes)
           at(i)  == IF i < k THEN i ELSE i + 1
           end(i) == IF i = 0 THEN 0 ELSE Incr(nodes[i].last)
<1>1. /\ rest \in Seq(ServerNode) /\ Len(rest) = n - 1 /\ n \in Nat
      /\ \A i \in 1 .. n - 1 : rest[i] = nodes[at(i)] /\ at(i) \in 1 .. n
  BY RemoveAtValue
<1>2. ASSUME NEW i \in 1 .. n
      PROVE  /\ nodes[i].first \in Nat /\ WorkerCount(nodes[i]) \in Nat
             /\ nodes[i].first = end(i - 1)
             /\ nodes[i].first + WorkerCount(nodes[i]) = end(i)
             /\ end(i) \in Nat /\ end(i) <= MaxWorkers
             /\ WorkerCount(nodes[i]) # 1
             /\ nodes[i].id \in Servers
  <2>1. i # 0 /\ (i - 1 = 0 <=> i = 1)
    OBVIOUS
  <2>2. /\ nodes[i] \in ServerNode
        /\ nodes[i].first \in Nat /\ WorkerCount(nodes[i]) \in Nat
        /\ nodes[i].first = IF i = 1 THEN 0 ELSE Incr(nodes[i - 1].last)
        /\ nodes[i].first + WorkerCount(nodes[i]) = Incr(nodes[i].last)
        /\ Incr(nodes[i].last) \in Nat /\ Incr(nodes[i].last) <= MaxWorkers
        /\ WorkerCount(nodes[i]) # 1
    BY NodeRange
  <2>3. nodes[i].id \in Servers
    BY <2>2 DEF ServerNode
  <2> QED
    BY <2>1, <2>2, <2>3
<1>3. k \in 1 .. n
  OBVIOUS
<1> HIDE DEF rest, n, end
<1>4. /\ counts \in Seq(Nat) /\ Len(counts) = n - 1
      /\ \A i \in 1 .. n - 1 : counts[i] = WorkerCount(nodes[at(i)]) /\ counts[i] # 1
  <2>1. \A i \in 1 .. n - 1 : /\ WorkerCount(rest[i]) = WorkerCount(nodes[at(i)])
                              /\ WorkerCount(rest[i]) \in Nat /\ WorkerCount(rest[i]) # 1
    <3> HIDE DEF at
    <3> QED
      BY <1>1, <1>2
  <2>2. counts = [i \in 1 .. n - 1 |-> WorkerCount(rest[i])] /\ n - 1 \in Nat
    BY <1>1, <1>3 DEF CountsOf
  <2> HIDE DEF counts, at
  <2>3. counts \in [1 .. n - 1 -> Nat] /\ \A i \in 1 .. n - 1 : counts[i] = WorkerCount(rest[i])
    BY <2>1, <2>2
  <2>4. counts \in Seq(Nat) /\ Len(counts) = n - 1
    BY <2>2, <2>3
  <2> QED
    BY <2>1, <2>3, <2>4
<1>5. IdsOf(rest) \in Seq(Servers) /\ Len(IdsOf(rest)) = n - 1
  <2>1. \A i \in 1 .. n - 1 : rest[i].id \in Servers
    <3> HIDE DEF at
    <3> QED
      BY <1>1, <1>2
  <2>2. IdsOf(rest) = [i \in 1 .. n - 1 |-> rest[i].id] /\ n - 1 \in Nat
    BY <1>1, <1>3 DEF IdsOf
  <2> QED
    BY <2>1, <2>2
<1> HIDE DEF counts
<1>6. /\ off[0] = 0
      /\ \A i \in 1 .. n - 1 : off[i] = (off[i - 1] + counts[i]) % WordSize
      /\ \A i \in 0 .. n - 1 : off[i] \in Word
  <2>1. /\ off[0] = 0
        /\ \A i \in 1 .. Len(counts) : off[i] = (off[i - 1] + counts[i]) % WordSize
        /\ \A i \in 0 .. Len(counts) : off[i] \in Word
    BY <1>4, OffsetsValue
  <2> QED
    BY <1>4, <2>1
<1> HIDE DEF off
(* One round of the loop: the server numbered next started no earlier. *)
<1>7. ASSUME NEW m \in Nat, m + 1 <= n - 1, off[m] <= end(IF m < k THEN m ELSE m + 1)
      PROVE  off[m] + counts[m + 1] <= end(at(m + 1)) /\ end(at(m + 1)) <= MaxWorkers
  <2>1. /\ m + 1 \in 1 .. n - 1 /\ at(m + 1) \in 1 .. n
        /\ off[m] \in Nat
    BY SMTT(30), <1>1, <1>6, <1>7, WordAssumption DEF Word
  <2>2. end(IF m < k THEN m ELSE m + 1) <= nodes[at(m + 1)].first
    <3>1. CASE m + 1 < k
      <4>1. m < k /\ at(m + 1) = m + 1 /\ (m + 1) - 1 = m /\ m + 1 \in 1 .. n
        BY <2>1, <3>1
      <4> QED
        BY <1>2, <4>1
    <3>2. CASE m + 1 = k
      <4>1. m < k /\ at(m + 1) = k + 1 /\ k + 1 \in 1 .. n /\ (k + 1) - 1 = k /\ k - 1 = m
        BY <1>1, <1>3, <2>1, <3>2
      <4>2. nodes[k].first = end(m) /\ nodes[k + 1].first = end(k)
        BY <1>2, <1>3, <4>1
      <4>3. nodes[k].first <= end(k)
        BY <1>2, <1>3
      <4> QED
        BY <4>1, <4>2, <4>3
    <3>3. CASE m + 1 > k
      <4>1. ~ (m < k) /\ at(m + 1) = m + 2 /\ m + 2 \in 1 .. n /\ (m + 2) - 1 = m + 1
        BY <1>1, <2>1, <3>3
      <4>2. nodes[m + 2].first = end(m + 1) /\ nodes[m + 2].first \in Nat
        BY <1>2, <4>1
      <4> QED
        BY <4>1, <4>2
    <3> QED
      BY <3>1, <3>2, <3>3
  <2>3. counts[m + 1] = WorkerCount(nodes[at(m + 1)])
    BY <1>4, <2>1
  <2>4. /\ nodes[at(m + 1)].first \in Nat /\ WorkerCount(nodes[at(m + 1)]) \in Nat
        /\ nodes[at(m + 1)].first + WorkerCount(nodes[at(m + 1)]) = end(at(m + 1))
        /\ end(at(m + 1)) <= MaxWorkers
    BY <1>2, <2>1
  <2>5. end(IF m < k THEN m ELSE m + 1) \in Nat
    <3>1. m + 1 \in 1 .. n /\ (m \in 1 .. n \/ m = 0)
      BY <1>1, <2>1
    <3>2. end(0) = 0
      BY DEF end
    <3> QED
      BY <1>2, <3>1, <3>2
  <2> QED
    BY <1>7, <2>1, <2>2, <2>3, <2>4, <2>5
<1> DEFINE S == {m \in Nat : m <= n - 1 => off[m] <= end(IF m < k THEN m ELSE m + 1)}
<1>8. 0 \in S
  BY <1>6 DEF end
<1>9. ASSUME NEW m \in Nat, m \in S
      PROVE  m + 1 \in S
  <2> SUFFICES ASSUME m + 1 <= n - 1
               PROVE  off[m + 1] <= end(IF m + 1 < k THEN m + 1 ELSE (m + 1) + 1)
    OBVIOUS
  <2>1. off[m] <= end(IF m < k THEN m ELSE m + 1)
    BY <1>1, <1>9
  <2>2. off[m] + counts[m + 1] <= end(at(m + 1)) /\ end(at(m + 1)) <= MaxWorkers
    BY <1>7, <2>1
  <2>3. m + 1 \in 1 .. n - 1 /\ off[m] \in Nat /\ at(m + 1) \in 1 .. n
    BY <1>1, <1>6, WordAssumption DEF Word
  <2>4. counts[m + 1] \in Nat /\ end(at(m + 1)) \in Nat
    BY <1>2, <1>4, <2>3
  <2>5. off[m + 1] = (off[m] + counts[m + 1]) % WordSize
    BY <1>6, <2>3
  <2>6. off[m] + counts[m + 1] \in Word
    BY <2>2, <2>3, <2>4, WordAssumption DEF Word
  <2>7. off[m + 1] = off[m] + counts[m + 1]
    BY <2>5, <2>6, ModSmall
  <2> QED
    BY <2>2, <2>7
<1>10. Nat \subseteq S
  <2> HIDE DEF S
  <2> QED
    BY <1>8, <1>9, NatSetInduction
<1>11. ASSUME NEW i \in 1 .. n - 1
       PROVE  off[i - 1] + counts[i] <= MaxWorkers
  <2>1. i - 1 \in Nat /\ (i - 1) + 1 = i /\ i <= n - 1
    BY <1>1
  <2>2. off[i - 1] <= end(IF i - 1 < k THEN i - 1 ELSE (i - 1) + 1)
    BY <1>1, <1>10, <2>1
  <2>3. off[i - 1] + counts[i] <= end(at(i)) /\ end(at(i)) <= MaxWorkers
    BY <1>7, <2>1, <2>2
  <2>4. off[i - 1] \in Nat /\ counts[i] \in Nat /\ end(at(i)) \in Nat
    <3>1. i - 1 \in 0 .. n - 1 /\ at(i) \in 1 .. n /\ i \in 1 .. n - 1
      BY <1>1
    <3>2. off[i - 1] \in Word
      BY <1>6, <3>1
    <3>3. counts[i] \in Nat
      BY <1>4, <3>1
    <3> QED
      BY <1>2, <3>1, <3>2, <3>3, WordAssumption DEF Word
  <2> QED
    BY <2>3, <2>4, WordAssumption
<1> QED
  BY <1>1, <1>4, <1>5, <1>11 DEF counts, off, rest, n

LEMMA RemoveServerKeepsIInv ==
  ASSUME IInv, NEW s \in Servers, RemoveServer(s)
  PROVE  IInv'
<1> DEFINE l == leafOf[s]
           old == serversOf[l]
           n == Len(old)
<1>1. l \in Leaves /\ old \in Seq(ServerNode) /\ n \in Nat /\ Chained(old)
  BY DEF IInv, TypeOK, RemoveServer
<1>2. PICK k \in 1 .. n :
        LET rest  == RemoveAt(old, k)
            total == WorkersTotal(rest)
        IN  /\ old[k].id = s
            /\ serversOf' = [serversOf EXCEPT ![l] = Renumbered(rest)]
            /\ leafLast' = [leafLast EXCEPT ![l] = IF total = 0 THEN 0 ELSE Decr(total)]
            /\ updated' = {old[i].id : i \in k + 1 .. n}
  BY DEF RemoveServer, Without, Behind
<1>3. /\ leafOf' = [leafOf EXCEPT ![s] = None]
      /\ leavesOf' = leavesOf /\ spineOf' = spineOf
  BY DEF RemoveServer
<1> DEFINE rest == RemoveAt(old, k)
           ids == IdsOf(rest)
           counts == CountsOf(rest)
           total == Offsets(counts)[Len(counts)]
           new == Numbered(ids, counts)
<1>4. /\ rest \in Seq(ServerNode) /\ Len(rest) = n - 1
      /\ \A i \in 1 .. n - 1 : rest[i] = IF i < k THEN old[i] ELSE old[i + 1]
  BY <1>1, RemoveAtValue
<1>5. /\ counts \in Seq(Nat) /\ Len(counts) = Len(rest)
      /\ ids \in Seq(Servers) /\ Len(ids) = Len(rest)
      /\ \A i \in 1 .. Len(counts) : /\ counts[i] # 1
                                     /\ Offsets(counts)[i - 1] + counts[i] <= MaxWorkers
  BY <1>1, RestFits
<1>6. /\ new \in Seq(ServerNode) /\ Len(new) = Len(ids)
      /\ \A i \in 1 .. Len(new) : /\ new[i].id = ids[i]
                                  /\ new[i].last = Decr(Offsets(counts)[i])
                                  /\ WorkerCount(new[i]) = counts[i]
      /\ Chained(new)
      /\ total # 1 /\ total \in 0 .. MaxWorkers
  <2> HIDE DEF ids, counts
  <2> QED
    BY <1>5, NumberedIsChained
<1>7. Renumbered(rest) = new /\ WorkersTotal(rest) = total
  BY <1>5 DEF Renumbered, WorkersTotal, CountsOf
<1>8. /\ serversOf' = [serversOf EXCEPT ![l] = new]
      /\ leafLast' = [leafLast EXCEPT ![l] = IF total = 0 THEN 0 ELSE Decr(total)]
      /\ updated' = {old[i].id : i \in k + 1 .. n}
      /\ old[k].id = s
  BY <1>2, <1>7
<1>9. /\ n - 1 \in Nat /\ Len(new) = n - 1
      /\ \A i \in 1 .. n - 1 : new[i].id = IF i < k THEN old[i].id ELSE old[i + 1].id
  <2>1. \A i \in 1 .. n - 1 : ids[i] = rest[i].id
    BY <1>4 DEF IdsOf
  <2>2. Len(new) = n - 1 /\ n - 1 \in Nat
    BY <1>1, <1>4, <1>5, <1>6
  <2> HIDE DEF new, ids, rest
  <2> QED
    BY <1>4, <1>6, <2>1, <2>2
<1>10. Decr(total) \in Word /\ total \in Word
       /\ Decr(total) = IF total = 0 THEN WordSize - 1 ELSE total - 1
  <2> HIDE DEF total
  <2>1. total \in Word
    BY <1>6, WordAssumption DEF Word
  <2>2. Decr(total) = IF total = 0 THEN WordSize - 1 ELSE total - 1
    BY <2>1, DecrValue
  <2> QED
    BY <2>1, <2>2, WordAssumption DEF Word
<1>11. n - 1 # 0 => new[n - 1].last = Decr(total)
  <2>1. Len(counts) = n - 1 /\ Len(new) = n - 1 /\ n - 1 \in Nat
    BY <1>4, <1>5, <1>9
  <2>2. \A i \in 1 .. Len(new) : new[i].last = Decr(Offsets(counts)[i])
    BY <1>6
  <2> HIDE DEF new, counts, n
  <2>3. n - 1 # 0 => n - 1 \in 1 .. Len(new)
    BY <1>1, <2>1
  <2> QED
    BY <2>1, <2>2, <2>3
<1>12. n - 1 = 0 => total = 0
  <2> SUFFICES ASSUME n - 1 = 0
               PROVE  Offsets(counts)[0] = 0
    BY <1>4, <1>5
  <2> HIDE DEF counts
  <2> QED
    BY <1>5, OffsetsValue
<1>13. \A i \in 1 .. n : old[i].id \in Servers
  <2>1. \A i \in 1 .. n : old[i] \in ServerNode
    BY <1>1
  <2> HIDE DEF n, old
  <2> QED
    BY <2>1 DEF ServerNode
<1> HIDE DEF rest, ids, counts, total, new, old, n, l
<1>14. serversOf'[l] = new /\ \A m \in Leaves : m # l => serversOf'[m] = serversOf[m]
  BY <1>1, <1>8 DEF IInv, TypeOK
<1>15. TypeOK'
  <2>1. serversOf' \in [Leaves -> Seq(ServerNode)]
    BY <1>1, <1>6, <1>8 DEF IInv, TypeOK
  <2>2. updated' \subseteq Leaves \cup Servers
    <3>1. \A i \in k + 1 .. n : old[i].id \in Servers
      BY <1>1, <1>13
    <3> QED
      BY <1>8, <3>1
  <2>3. leafLast' \in [Leaves -> Word]
    <3>1. (IF total = 0 THEN 0 ELSE Decr(total)) \in Word
      BY <1>10
    <3> QED
      BY <1>1, <1>8, <3>1 DEF IInv, TypeOK
  <2> QED
    BY <1>3, <2>1, <2>2, <2>3 DEF IInv, TypeOK
<1>16. \A a, b \in 1 .. n : old[a].id = old[b].id => a = b
  BY <1>1 DEF IInv, MapsMatchTree, old, n
<1>17. MapsMatchTree'
  <2>1. ASSUME NEW t \in Servers, NEW m \in Leaves
        PROVE  leafOf'[t] = m <=> \E i \in 1 .. Len(serversOf'[m]) : serversOf'[m][i].id = t
    <3>1. leafOf[t] = m <=> \E i \in 1 .. Len(serversOf[m]) : serversOf[m][i].id = t
      BY DEF IInv, MapsMatchTree
    <3>2. leafOf'[t] = IF t = s THEN None ELSE leafOf[t]
      BY <1>3 DEF IInv, TypeOK
    <3>3. CASE m = l
      <4>1. CASE t = s
        <5>1. ASSUME NEW i \in 1 .. n - 1
              PROVE  new[i].id # s
          <6>1. CASE i < k
            <7>1. new[i].id = old[i].id /\ i \in 1 .. n /\ i # k
              BY <1>1, <1>9, <6>1
            <7> QED
              BY <1>8, <1>16, <7>1
          <6>2. CASE ~ (i < k)
            <7>1. new[i].id = old[i + 1].id /\ i + 1 \in 1 .. n /\ i + 1 # k
              BY <1>1, <1>9, <6>2
            <7> QED
              BY <1>8, <1>16, <7>1
          <6> QED
            BY <6>1, <6>2
        <5> QED
          BY <1>1, <1>9, <1>14, <3>2, <3>3, <4>1, <5>1, NoneIsNoNode
      <4>2. CASE t # s
        <5>1. ASSUME NEW i \in 1 .. n - 1, new[i].id = t
              PROVE  \E j \in 1 .. n : old[j].id = t
          BY <1>1, <1>9, <5>1
        <5>2. ASSUME NEW j \in 1 .. n, old[j].id = t
              PROVE  \E i \in 1 .. n - 1 : new[i].id = t
          <6>1. j # k
            BY <1>8, <4>2, <5>2
          <6>2. CASE j < k
            <7>1. j \in 1 .. n - 1
              BY <1>1, <6>2
            <7> QED
              BY <1>9, <5>2, <6>2, <7>1
          <6>3. CASE j > k
            <7>1. j - 1 \in 1 .. n - 1 /\ ~ (j - 1 < k)
              BY <1>1, <6>3
            <7>2. new[j - 1].id = old[(j - 1) + 1].id
              BY <1>9, <7>1
            <7> QED
              BY <5>2, <7>1, <7>2
          <6> QED
            BY <6>1, <6>2, <6>3
        <5> QED
          BY <1>9, <1>14, <3>1, <3>2, <3>3, <4>2, <5>1, <5>2 DEF old, n
      <4> QED
        BY <4>1, <4>2
    <3>4. CASE m # l
      BY <1>14, <3>1, <3>2, <3>4, NoneIsNoNode DEF l
    <3> QED
      BY <3>3, <3>4
  <2>2. ASSUME NEW m \in Leaves, NEW i \in 1 .. Len(serversOf'[m]), NEW j \in 1 .. Len(serversOf'[m]),
               serversOf'[m][i].id = serversOf'[m][j].id
        PROVE  i = j
    <3>1. CASE m = l
      <4>1. i \in 1 .. n - 1 /\ j \in 1 .. n - 1 /\ new[i].id = new[j].id
        BY <1>9, <1>14, <2>2, <3>1
      <4> QED
        BY <1>1, <1>9, <1>16, <4>1
    <3>2. CASE m # l
      BY <1>14, <2>2, <3>2 DEF IInv, MapsMatchTree
    <3> QED
      BY <3>1, <3>2
  <2>3. \A m \in Leaves : spineOf'[m] = None => serversOf'[m] = <<>>
    <3>1. spineOf[l] # None
      <4>1. old # <<>>
        BY <1>1 DEF n
      <4> QED
        BY <1>1, <4>1 DEF IInv, MapsMatchTree, old
    <3> QED
      BY <1>3, <1>14, <3>1 DEF IInv, MapsMatchTree
  <2> QED
    BY <1>3, <2>1, <2>2, <2>3 DEF IInv, MapsMatchTree
<1>18. LeafLastIsEnd'
  <2>1. ASSUME NEW m \in Leaves, m # l
        PROVE  leafLast'[m] = leafLast[m] /\ serversOf'[m] = serversOf[m]
    BY <1>8, <1>14, <2>1 DEF IInv, TypeOK
  <2>2. leafLast'[l] = IF total = 0 THEN 0 ELSE Decr(total)
    BY <1>1, <1>8 DEF IInv, TypeOK
  <2>3. IF n - 1 = 0 \/ new[n - 1].last = WordSize - 1
        THEN leafLast'[l] \in {0, WordSize - 1}
        ELSE leafLast'[l] = new[n - 1].last /\ leafLast'[l] # 0
    BY <1>6, <1>10, <1>11, <1>12, <2>2, WordAssumption
  <2> QED
    BY <1>9, <1>14, <2>1, <2>3 DEF IInv, LeafLastIsEnd
<1>19. \A m \in Leaves : Chained(serversOf'[m])
  BY <1>6, <1>14 DEF IInv
<1>20. /\ IndexIsPosition' /\ EndpointsUniquePerSpine'
       /\ \A sp \in Spines : Len(leavesOf'[sp]) <= MaxLeaves
  BY <1>3 DEF IInv, IndexIsPosition, EndpointsUniquePerSpine
<1> QED
  BY <1>15, <1>17, <1>18, <1>19, <1>20 DEF IInv, Chained, ChainedAt

-----------------------------------------------------------------------------
(* A loaded configuration satisfies the inductive invariant.               *)

LEMMA ParentInValue ==
  ASSUME NEW children, UniqueIds(children), None \notin DOMAIN children, NEW id
  PROVE  /\ ParentIn(children, id) \in DOMAIN children \cup {None}
         /\ \A p \in DOMAIN children :
              ParentIn(children, id) = p
                <=> \E i \in 1 .. Len(children[p]) : children[p][i].id = id
<1> DEFINE Holds(p) == \E i \in 1 .. Len(children[p]) : children[p][i].id = id
<1>1. ASSUME NEW p
      PROVE  id \in Range(IdsOf(children[p])) <=> Holds(p)
  BY DEF Range, IdsOf
<1>2. ParentIn(children, id) = IF \E p \in DOMAIN children : Holds(p)
                               THEN CHOOSE p \in DOMAIN children : Holds(p)
                               ELSE None
  <2> HIDE DEF Holds
  <2> QED
    BY <1>1, Zenon DEF ParentIn
<1>3. \A p, q \in DOMAIN children : Holds(p) /\ Holds(q) => p = q
  BY DEF UniqueIds
<1> HIDE DEF Holds
<1>4. CASE \E p \in DOMAIN children : Holds(p)
  <2>1. ParentIn(children, id) \in DOMAIN children /\ Holds(ParentIn(children, id))
    BY <1>2, <1>4, Zenon
  <2>2. \A p \in DOMAIN children : ParentIn(children, id) = p <=> Holds(p)
    BY <1>3, <2>1
  <2> QED
    BY <2>1, <2>2 DEF Holds
<1>5. CASE ~ \E p \in DOMAIN children : Holds(p)
  <2>1. ParentIn(children, id) = None
    BY <1>2, <1>5, Zenon
  <2>2. \A p \in DOMAIN children : ParentIn(children, id) = p <=> Holds(p)
    BY <1>5, <2>1
  <2> QED
    BY <2>1, <2>2 DEF Holds
<1> QED
  BY <1>4, <1>5

(* The loading loop numbers the servers of a configured leaf into a chain, *)
(* and the leaf's LastWorkerID is where it ends.                           *)
LEMMA LoadedServers ==
  ASSUME 1 \notin Counts, NEW conf, ConfOK(conf), NEW l \in Leaves
  PROVE  LET nodes == LoadServers(conf.servers[l])
             n     == Len(conf.servers[l])
         IN  /\ nodes \in Seq(ServerNode) /\ Len(nodes) = n /\ n \in Nat
             /\ Chained(nodes)
             /\ \A i \in 1 .. n : nodes[i].id = conf.servers[l][i].id
             /\ LoadLeafLast(conf.servers[l]) \in Word \ {0}
             /\ IF n = 0 THEN LoadLeafLast(conf.servers[l]) = WordSize - 1
                         ELSE LoadLeafLast(conf.servers[l]) = nodes[n].last
<1> DEFINE list == conf.servers[l]
           n == Len(list)
           ids == IdsOf(list)
           counts == [i \in 1 .. n |-> list[i].workers]
           off == Offsets(counts)
           nodes == Numbered(ids, counts)
<1>1. list \in Seq(ServerConf) /\ n \in Nat
  BY DEF ConfOK, Conf
<1>2. /\ \A i \in 1 .. n : list[i].workers \in Counts /\ list[i].id \in Servers
      /\ \A i \in 1 .. n : off[i - 1] + list[i].workers <= MaxWorkers
  <2>1. \A i \in 1 .. n : list[i] \in ServerConf
    BY <1>1
  <2>2. \A i \in 1 .. n : off[i - 1] + list[i].workers <= MaxWorkers
    BY DEF ConfOK, ConfCounts
  <2> HIDE DEF list, n, off
  <2> QED
    BY <2>1, <2>2 DEF ServerConf
<1>3. LoadServers(list) = nodes /\ LoadLeafLast(list) = Decr(off[n])
  BY DEF LoadServers, LoadLeafLast
<1>4. ids = [i \in 1 .. n |-> list[i].id]
  BY DEF IdsOf
<1> HIDE DEF list, n, ids
<1>5. ids \in Seq(Servers) /\ Len(ids) = n
  BY <1>1, <1>2, <1>4
<1>6. counts \in Seq(Nat) /\ Len(counts) = n
  <2>1. \A i \in 1 .. n : list[i].workers \in Nat
    <3>1. Counts \subseteq Nat
      BY WordAssumption
    <3> HIDE DEF off
    <3> QED
      BY <1>2, <3>1
  <2> QED
    BY <1>1, <2>1
<1>7. \A i \in 1 .. n : counts[i] = list[i].workers /\ counts[i] # 1
  BY <1>2
<1> HIDE DEF counts
<1>8. \A i \in 1 .. Len(counts) : counts[i] # 1 /\ off[i - 1] + counts[i] <= MaxWorkers
  BY <1>2, <1>6, <1>7
<1>9. /\ nodes \in Seq(ServerNode) /\ Len(nodes) = Len(ids)
      /\ \A i \in 1 .. Len(nodes) : /\ nodes[i].id = ids[i]
                                    /\ nodes[i].last = Decr(off[i])
                                    /\ WorkerCount(nodes[i]) = counts[i]
      /\ Chained(nodes)
      /\ off[Len(counts)] # 1 /\ off[Len(counts)] \in 0 .. MaxWorkers
  BY <1>5, <1>6, <1>8, NumberedIsChained
<1>10. off[0] = 0
  BY <1>6, OffsetsValue
<1> HIDE DEF off, nodes
<1>11. off[n] \in Word /\ Decr(off[n]) = IF off[n] = 0 THEN WordSize - 1 ELSE off[n] - 1
  <2>1. off[n] \in Word
    BY <1>6, <1>9, WordAssumption DEF Word
  <2> QED
    BY <2>1, DecrValue
<1>12. Decr(off[n]) \in Word \ {0}
  BY <1>6, <1>9, <1>11, WordAssumption DEF Word
<1>13. IF n = 0 THEN Decr(off[n]) = WordSize - 1 ELSE Decr(off[n]) = nodes[n].last
  <2>1. CASE n = 0
    BY <1>10, <1>11, <2>1
  <2>2. CASE n # 0
    <3>1. n \in 1 .. Len(nodes)
      BY <1>1, <1>5, <1>9, <2>2
    <3> QED
      BY <1>9, <2>2, <3>1
  <2> QED
    BY <2>1, <2>2
<1>14. \A i \in 1 .. n : nodes[i].id = list[i].id
  BY <1>4, <1>5, <1>9
<1> QED
  BY <1>1, <1>3, <1>5, <1>9, <1>12, <1>13, <1>14 DEF list, n

LEMMA InitEstablishesIInv ==
  ASSUME 1 \notin Counts, Init
  PROVE  IInv
<1>1. PICK conf \in Confs : InitFrom(conf)
  BY DEF Init
<1>2. ConfOK(conf)
  BY ConfsAssumption
<1>3. /\ conf.leaves \in [Spines -> Seq(LeafNode)]
      /\ conf.servers \in [Leaves -> Seq(ServerConf)]
      /\ UniqueIds(conf.leaves) /\ UniqueIds(conf.servers)
  BY <1>2 DEF ConfOK, Conf, LeafConf, LeafNode
<1> DEFINE nodes(l) == LoadServers(conf.servers[l])
           last(l)  == LoadLeafLast(conf.servers[l])
           len(l)   == Len(conf.servers[l])
<1>4. ASSUME NEW l \in Leaves
      PROVE  /\ nodes(l) \in Seq(ServerNode) /\ Len(nodes(l)) = len(l) /\ len(l) \in Nat
             /\ Chained(nodes(l))
             /\ \A i \in 1 .. len(l) : nodes(l)[i].id = conf.servers[l][i].id
             /\ last(l) \in Word \ {0}
             /\ IF len(l) = 0 THEN last(l) = WordSize - 1 ELSE last(l) = nodes(l)[len(l)].last
  BY <1>2, LoadedServers
<1>5. /\ leavesOf = conf.leaves
      /\ serversOf = [l \in Leaves |-> nodes(l)]
      /\ spineOf = [l \in Leaves |-> ParentIn(conf.leaves, l)]
      /\ leafLast = [l \in Leaves |-> IF spineOf[l] = None THEN 0 ELSE last(l)]
      /\ leafOf = [s \in Servers |-> ParentIn(conf.servers, s)]
      /\ updated = {}
  BY <1>1 DEF InitFrom
<1> HIDE DEF nodes, last
<1>6. ASSUME NEW l \in Leaves
      PROVE  /\ spineOf[l] \in Spines \cup {None}
             /\ \A sp \in Spines :
                  spineOf[l] = sp <=> \E i \in 1 .. Len(leavesOf[sp]) : leavesOf[sp][i].id = l
  <2>1. DOMAIN conf.leaves = Spines /\ None \notin DOMAIN conf.leaves
    BY <1>3, NoneIsNoNode
  <2>2. spineOf[l] = ParentIn(conf.leaves, l)
    BY <1>5
  <2>3. /\ ParentIn(conf.leaves, l) \in DOMAIN conf.leaves \cup {None}
        /\ \A sp \in DOMAIN conf.leaves :
             ParentIn(conf.leaves, l) = sp
               <=> \E i \in 1 .. Len(conf.leaves[sp]) : conf.leaves[sp][i].id = l
    BY <1>3, <2>1, ParentInValue
  <2> QED
    BY <1>5, <2>1, <2>2, <2>3, Zenon
<1>7. ASSUME NEW s \in Servers
      PROVE  /\ leafOf[s] \in Leaves \cup {None}
             /\ \A l \in Leaves :
                  leafOf[s] = l <=> \E i \in 1 .. len(l) : conf.servers[l][i].id = s
  <2>1. DOMAIN conf.servers = Leaves /\ None \notin DOMAIN conf.servers
    BY <1>3, NoneIsNoNode
  <2>2. leafOf[s] = ParentIn(conf.servers, s)
    BY <1>5
  <2> QED
    BY <1>3, <2>1, <2>2, ParentInValue
<1>8. TypeOK
  <2>1. 0 \in Word
    BY WordAssumption DEF Word
  <2>2. serversOf \in [Leaves -> Seq(ServerNode)]
    BY <1>4, <1>5
  <2>3. leafLast \in [Leaves -> Word]
    BY <1>4, <1>5, <2>1
  <2>4. spineOf \in [Leaves -> Spines \cup {None}] /\ leafOf \in [Servers -> Leaves \cup {None}]
    BY <1>5, <1>6, <1>7
  <2> QED
    BY <1>3, <1>5, <2>2, <2>3, <2>4 DEF TypeOK
<1>9. ASSUME NEW l \in Leaves
      PROVE  /\ serversOf[l] = nodes(l) /\ Len(serversOf[l]) = len(l)
             /\ \A i \in 1 .. len(l) : serversOf[l][i].id = conf.servers[l][i].id
             /\ leafLast[l] = IF spineOf[l] = None THEN 0 ELSE last(l)
  BY <1>4, <1>5
<1>10. ASSUME NEW l \in Leaves, spineOf[l] = None
       PROVE  conf.servers[l] = <<>>
  <2>1. ~ \E sp \in Spines : \E i \in 1 .. Len(conf.leaves[sp]) : conf.leaves[sp][i].id = l
    BY <1>5, <1>6, <1>10, NoneIsNoNode
  <2> QED
    BY <1>2, <2>1 DEF ConfOK
<1>11. MapsMatchTree
  <2>1. \A s \in Servers, l \in Leaves :
          leafOf[s] = l <=> \E i \in 1 .. Len(serversOf[l]) : serversOf[l][i].id = s
    BY <1>7, <1>9
  <2>2. \A sp \in Spines : \A i, j \in 1 .. Len(leavesOf[sp]) :
          leavesOf[sp][i].id = leavesOf[sp][j].id => i = j
    BY <1>3, <1>5 DEF UniqueIds
  <2>3. \A l \in Leaves : \A i, j \in 1 .. len(l) :
          conf.servers[l][i].id = conf.servers[l][j].id => i = j
    BY <1>3 DEF UniqueIds
  <2>4. \A l \in Leaves : \A i, j \in 1 .. Len(serversOf[l]) :
          serversOf[l][i].id = serversOf[l][j].id => i = j
    BY <1>9, <2>3
  <2>5. \A l \in Leaves : spineOf[l] = None => serversOf[l] = <<>>
    <3> SUFFICES ASSUME NEW l \in Leaves, spineOf[l] = None
                 PROVE  serversOf[l] = <<>>
      OBVIOUS
    <3>1. len(l) = 0
      BY <1>10
    <3>2. serversOf[l] \in Seq(ServerNode) /\ Len(serversOf[l]) = 0
      BY <1>4, <1>9, <3>1
    <3> QED
      BY <3>2
  <2> QED
    BY <1>6, <2>1, <2>2, <2>4, <2>5 DEF MapsMatchTree
<1>12. /\ IndexIsPosition /\ EndpointsUniquePerSpine
       /\ \A sp \in Spines : Len(leavesOf[sp]) <= MaxLeaves
  BY <1>2, <1>5 DEF ConfOK, IndexIsPosition, EndpointsUniquePerSpine
<1>13. \A l \in Leaves : Chained(serversOf[l])
  BY <1>4, <1>9
<1>14. LeafLastIsEnd
  <2> SUFFICES ASSUME NEW l \in Leaves
               PROVE  IF len(l) = 0 \/ serversOf[l][len(l)].last = WordSize - 1
                      THEN leafLast[l] \in {0, WordSize - 1}
                      ELSE leafLast[l] = serversOf[l][len(l)].last /\ leafLast[l] # 0
    BY <1>9 DEF LeafLastIsEnd
  <2>1. CASE spineOf[l] = None
    BY <1>9, <1>10, <2>1
  <2>2. CASE spineOf[l] # None
    BY <1>4, <1>9, <2>2
  <2> QED
    BY <2>1, <2>2
<1> QED
  BY <1>8, <1>11, <1>12, <1>13, <1>14 DEF IInv

-----------------------------------------------------------------------------
(* What a chain of servers means for the leaf's data plane.                *)

EndOf(srv) == Incr(srv.last)

LEMMA ChainRange ==
  ASSUME NEW nodes \in Seq(ServerNode), Chained(nodes), NEW i \in 1 .. Len(nodes)
  PROVE  /\ nodes[i].first \in Nat /\ EndOf(nodes[i]) \in Nat
         /\ nodes[i].first <= EndOf(nodes[i])
         /\ WorkersOf(nodes[i]) = nodes[i].first .. EndOf(nodes[i]) - 1
         /\ nodes[i].first = IF i = 1 THEN 0 ELSE EndOf(nodes[i - 1])
<1>1. /\ nodes[i].first \in Nat /\ WorkerCount(nodes[i]) \in Nat
      /\ nodes[i].first = IF i = 1 THEN 0 ELSE EndOf(nodes[i - 1])
      /\ nodes[i].first + WorkerCount(nodes[i]) = EndOf(nodes[i])
      /\ EndOf(nodes[i]) \in Nat
  BY NodeRange DEF EndOf
<1>2. WorkersOf(nodes[i]) = nodes[i].first .. EndOf(nodes[i]) - 1
  BY <1>1 DEF WorkersOf
<1> QED
  BY <1>1, <1>2

(* A server starts no earlier than any server before it ends.              *)
LEMMA ChainIsOrdered ==
  ASSUME NEW nodes \in Seq(ServerNode), Chained(nodes),
         NEW i \in 1 .. Len(nodes), NEW j \in 1 .. Len(nodes), i < j
  PROVE  EndOf(nodes[i]) <= nodes[j].first
<1> DEFINE n == Len(nodes)
           S == {m \in Nat : i + 1 + m <= n => EndOf(nodes[i]) <= nodes[i + 1 + m].first}
<1>1. n \in Nat /\ i \in 1 .. n /\ j \in 1 .. n
  OBVIOUS
<1>2. ASSUME NEW p \in 1 .. n
      PROVE  /\ nodes[p].first \in Nat /\ EndOf(nodes[p]) \in Nat
             /\ nodes[p].first <= EndOf(nodes[p])
             /\ nodes[p].first = IF p = 1 THEN 0 ELSE EndOf(nodes[p - 1])
  BY ChainRange
<1> HIDE DEF n
<1>3. 0 \in S
  <2> SUFFICES ASSUME i + 1 <= n
               PROVE  EndOf(nodes[i]) <= nodes[i + 1].first
    BY <1>1
  <2>1. i + 1 \in 1 .. n /\ (i + 1) - 1 = i /\ i + 1 # 1
    BY <1>1
  <2>2. nodes[i + 1].first = EndOf(nodes[(i + 1) - 1])
    BY <1>2, <2>1
  <2> QED
    BY <1>1, <1>2, <2>1, <2>2
<1>4. ASSUME NEW m \in Nat, m \in S
      PROVE  m + 1 \in S
  <2> SUFFICES ASSUME i + 1 + (m + 1) <= n
               PROVE  EndOf(nodes[i]) <= nodes[i + 1 + (m + 1)].first
    OBVIOUS
  <2> DEFINE p == i + 1 + m
  <2>1. p \in 1 .. n /\ p + 1 \in 1 .. n /\ p + 1 # 1 /\ (p + 1) - 1 = p /\ i + 1 + (m + 1) = p + 1
    BY <1>1
  <2>2. EndOf(nodes[i]) <= nodes[p].first
    BY <1>1, <1>4, <2>1
  <2> HIDE DEF p
  <2>3. nodes[p + 1].first = EndOf(nodes[(p + 1) - 1])
    BY <1>2, <2>1
  <2>4. nodes[p].first <= EndOf(nodes[p]) /\ nodes[p].first \in Nat /\ EndOf(nodes[p]) \in Nat
    BY <1>2, <2>1
  <2>5. EndOf(nodes[i]) \in Nat
    BY <1>1, <1>2
  <2> QED
    BY SMTT(30), <2>1, <2>2, <2>3, <2>4, <2>5
<1>5. Nat \subseteq S
  <2> HIDE DEF S
  <2> QED
    BY <1>3, <1>4, NatSetInduction
<1>6. PICK m \in Nat : i + 1 + m = j
  <2>1. j - i - 1 \in Nat /\ i + 1 + (j - i - 1) = j
    BY <1>1
  <2> QED
    BY <2>1
<1>7. m \in S /\ i + 1 + m <= n
  BY <1>1, <1>5, <1>6
<1> QED
  BY <1>6, <1>7

(* Every worker ID below the end of a chain is owned by a server of it.    *)
LEMMA ChainCovers ==
  ASSUME NEW nodes \in Seq(ServerNode), Chained(nodes), nodes # <<>>,
         NEW w \in Nat, w < EndOf(nodes[Len(nodes)])
  PROVE  \E i \in 1 .. Len(nodes) : w \in WorkersOf(nodes[i])
<1> DEFINE n == Len(nodes)
           S == {m \in Nat : m + 1 <= n /\ w < EndOf(nodes[m + 1])
                               => \E i \in 1 .. n : w \in WorkersOf(nodes[i])}
<1>1. n \in Nat /\ n # 0
  OBVIOUS
<1>2. ASSUME NEW p \in 1 .. n
      PROVE  /\ nodes[p].first \in Nat /\ EndOf(nodes[p]) \in Nat
             /\ WorkersOf(nodes[p]) = nodes[p].first .. EndOf(nodes[p]) - 1
             /\ nodes[p].first = IF p = 1 THEN 0 ELSE EndOf(nodes[p - 1])
  BY ChainRange
<1> HIDE DEF n
<1>3. 0 \in S
  <2> SUFFICES ASSUME 1 <= n, w < EndOf(nodes[1])
               PROVE  \E i \in 1 .. n : w \in WorkersOf(nodes[i])
    OBVIOUS
  <2>1. 1 \in 1 .. n
    BY <1>1
  <2>2. w \in WorkersOf(nodes[1])
    BY <1>2, <2>1
  <2> QED
    BY <2>1, <2>2
<1>4. ASSUME NEW m \in Nat, m \in S
      PROVE  m + 1 \in S
  <2> SUFFICES ASSUME (m + 1) + 1 <= n, w < EndOf(nodes[(m + 1) + 1])
               PROVE  \E i \in 1 .. n : w \in WorkersOf(nodes[i])
    OBVIOUS
  <2>1. /\ m + 1 \in 1 .. n /\ (m + 1) + 1 \in 1 .. n
        /\ (m + 1) + 1 # 1 /\ ((m + 1) + 1) - 1 = m + 1
    BY <1>1
  <2>2. nodes[(m + 1) + 1].first = EndOf(nodes[m + 1])
    BY <1>2, <2>1
  <2>3. CASE w < EndOf(nodes[m + 1])
    BY <1>1, <1>4, <2>1, <2>3
  <2>4. CASE ~ (w < EndOf(nodes[m + 1]))
    <3>1. EndOf(nodes[m + 1]) \in Nat /\ EndOf(nodes[(m + 1) + 1]) \in Nat
      BY <1>2, <2>1
    <3>2. WorkersOf(nodes[(m + 1) + 1])
            = nodes[(m + 1) + 1].first .. EndOf(nodes[(m + 1) + 1]) - 1
      BY <1>2, <2>1
    <3>3. w \in WorkersOf(nodes[(m + 1) + 1])
      BY <2>2, <2>4, <3>1, <3>2
    <3> QED
      BY <2>1, <3>3
  <2> QED
    BY <2>3, <2>4
<1>5. Nat \subseteq S
  <2> HIDE DEF S
  <2> QED
    BY <1>3, <1>4, NatSetInduction
<1>6. n - 1 \in Nat /\ (n - 1) + 1 = n
  BY <1>1
<1> QED
  BY <1>1, <1>5, <1>6 DEF n

-----------------------------------------------------------------------------
(* The theorems.                                                           *)

LEMMA NextKeepsIInv ==
  ASSUME 1 \notin Counts, IInv, [Next]_vars
  PROVE  IInv'
<1>1. ASSUME NEW l \in Leaves, NEW sp \in Spines, NEW e \in Endpoints, AddLeafToSpine(l, sp, e)
      PROVE  IInv'
  BY <1>1, AddLeafKeepsIInv
<1>2. ASSUME NEW s \in Servers, NEW l \in Leaves, NEW c \in Counts, AddServerToLeaf(s, l, c)
      PROVE  IInv'
  BY <1>2, AddServerKeepsIInv
<1>3. ASSUME NEW s \in Servers, RemoveServer(s)
      PROVE  IInv'
  BY <1>3, RemoveServerKeepsIInv
<1>4. ASSUME NEW l \in Leaves, RemoveLeaf(l)
      PROVE  IInv'
  BY <1>4, RemoveLeafKeepsIInv
<1>5. CASE UNCHANGED vars
  <2>1. TypeOK'
    BY <1>5 DEF vars, IInv, TypeOK
  <2>2. MapsMatchTree'
    BY <1>5 DEF vars, IInv, MapsMatchTree
  <2>3. IndexIsPosition' /\ EndpointsUniquePerSpine' /\ LeafLastIsEnd'
    BY <1>5 DEF vars, IInv, IndexIsPosition, EndpointsUniquePerSpine, LeafLastIsEnd
  <2>4. /\ (\A l \in Leaves : Chained(serversOf[l]))'
        /\ (\A sp \in Spines : Len(leavesOf[sp]) <= MaxLeaves)'
    BY <1>5 DEF vars, IInv, Chained, ChainedAt
  <2> QED
    BY <2>1, <2>2, <2>3, <2>4 DEF IInv
<1> QED
  BY <1>1, <1>2, <1>3, <1>4, <1>5 DEF Next

(* Every state a controller's tree can reach satisfies the inductive       *)
(* invariant, if no request and no configuration gives a server exactly    *)
(* one worker (with one, AddServerToLeaf numbers the next server from 0).  *)
THEOREM InductiveInvariant ==
  ASSUME 1 \notin Counts
  PROVE  Spec => []IInv
<1>1. Init => IInv
  BY InitEstablishesIInv
<1>2. IInv /\ [Next]_vars => IInv'
  BY NextKeepsIInv
<1> QED
  BY <1>1, <1>2, PTL DEF Spec

(* Type correctness, whatever is added and removed.                        *)
THEOREM TypeCorrect ==
  ASSUME 1 \notin Counts
  PROVE  Spec => []TypeOK
<1>1. IInv => TypeOK
  BY DEF IInv
<1> QED
  BY <1>1, InductiveInvariant, PTL

(* The node maps and the lists of children always agree, and no server     *)
(* hangs below a leaf that was removed.                                    *)
THEOREM MapsAlwaysMatchTree ==
  ASSUME 1 \notin Counts
  PROVE  Spec => []MapsMatchTree
<1>1. IInv => MapsMatchTree
  BY DEF IInv
<1> QED
  BY <1>1, InductiveInvariant, PTL

(* A leaf's Index is always its position below its spine.                  *)
THEOREM IndexIsAlwaysPosition ==
  ASSUME 1 \notin Counts
  PROVE  Spec => []IndexIsPosition
<1>1. IInv => IndexIsPosition
  BY DEF IInv
<1> QED
  BY <1>1, InductiveInvariant, PTL

(* No two leaves of a spine ever have the same RPC endpoint.               *)
THEOREM EndpointsAlwaysUnique ==
  ASSUME 1 \notin Counts
  PROVE  Spec => []EndpointsUniquePerSpine
<1>1. IInv => EndpointsUniquePerSpine
  BY DEF IInv
<1> QED
  BY <1>1, InductiveInvariant, PTL

(* The worker IDs of a leaf's servers always follow each other from 0.     *)
THEOREM WorkerIDsAlwaysContiguous ==
  ASSUME 1 \notin Counts
  PROVE  Spec => []WorkerIDsContiguous
<1>1. IInv => WorkerIDsContiguous
  BY DEF IInv, Chained, ChainedAt, WorkerIDsContiguous
<1> QED
  BY <1>1, InductiveInvariant, PTL

(* The worker IDs a leaf's data plane schedules on are always owned by     *)
(* exactly one of its servers.                                             *)
THEOREM WorkersAlwaysPartitionLeaf ==
  ASSUME 1 \notin Counts
  PROVE  Spec => []WorkersPartitionLeaf
<1>1. IInv => WorkersPartitionLeaf
  <2> SUFFICES ASSUME IInv, NEW l \in Leaves
               PROVE  LET nodes == serversOf[l]
                      IN  /\ \A i, j \in 1 .. Len(nodes) :
                               i # j => WorkersOf(nodes[i]) \cap WorkersOf(nodes[j]) = {}
                          /\ leafLast[l] \notin {0, WordSize - 1} =>
                               \A w \in 0 .. leafLast[l] :
                                 \E i \in 1 .. Len(nodes) : w \in WorkersOf(nodes[i])
    BY DEF WorkersPartitionLeaf
  <2> DEFINE nodes == serversOf[l]
             n == Len(nodes)
  <2>1. nodes \in Seq(ServerNode) /\ n \in Nat /\ Chained(nodes) /\ leafLast[l] \in Word
    BY DEF IInv, TypeOK
  <2>2. IF n = 0 \/ nodes[n].last = WordSize - 1
        THEN leafLast[l] \in {0, WordSize - 1}
        ELSE leafLast[l] = nodes[n].last /\ leafLast[l] # 0
    BY DEF IInv, LeafLastIsEnd
  <2> HIDE DEF nodes
  <2>3. ASSUME NEW i \in 1 .. n, NEW j \in 1 .. n, i < j
        PROVE  WorkersOf(nodes[i]) \cap WorkersOf(nodes[j]) = {}
    <3>1. EndOf(nodes[i]) <= nodes[j].first
      BY <2>1, <2>3, ChainIsOrdered
    <3>2. /\ nodes[i].first \in Nat /\ EndOf(nodes[i]) \in Nat
          /\ WorkersOf(nodes[i]) = nodes[i].first .. EndOf(nodes[i]) - 1
          /\ nodes[j].first \in Nat /\ EndOf(nodes[j]) \in Nat
          /\ WorkersOf(nodes[j]) = nodes[j].first .. EndOf(nodes[j]) - 1
      BY <2>1, ChainRange
    <3> QED
      BY <3>1, <3>2
  <2>4. \A i, j \in 1 .. n : i # j => WorkersOf(nodes[i]) \cap WorkersOf(nodes[j]) = {}
    <3> SUFFICES ASSUME NEW i \in 1 .. n, NEW j \in 1 .. n, i # j
                 PROVE  WorkersOf(nodes[i]) \cap WorkersOf(nodes[j]) = {}
      OBVIOUS
    <3>1. i < j \/ j < i
      BY <2>1
    <3> QED
      BY <2>3, <3>1
  <2>5. ASSUME leafLast[l] \notin {0, WordSize - 1}, NEW w \in 0 .. leafLast[l]
        PROVE  \E i \in 1 .. n : w \in WorkersOf(nodes[i])
    <3>1. n # 0 /\ leafLast[l] = nodes[n].last
      BY <2>2, <2>5
    <3>2. EndOf(nodes[n]) = leafLast[l] + 1
      BY <2>1, <2>5, <3>1, IncrValue DEF EndOf
    <3>3. w \in Nat /\ w < EndOf(nodes[n]) /\ nodes # <<>>
      BY <2>1, <3>1, <3>2, WordAssumption DEF Word
    <3> QED
      BY <2>1, <3>3, ChainCovers
  <2> QED
    BY <2>4, <2>5 DEF nodes
<1> QED
  BY <1>1, InductiveInvariant, PTL

(* LastWorkerID of a leaf, from which the next server is numbered, is      *)
(* always where its last server ends.                                      *)
THEOREM LeafLastIsAlwaysEnd ==
  ASSUME 1 \notin Counts
  PROVE  Spec => []LeafLastIsEnd
<1>1. IInv => LeafLastIsEnd
  BY DEF IInv
<1> QED
  BY <1>1, InductiveInvariant, PTL

-----------------------------------------------------------------------------
(* What the operations do to the nodes that stay.                          *)

(* The numbering loop over a chain arrives where each of its servers ends. *)
LEMMA ChainFits ==
  ASSUME NEW nodes \in Seq(ServerNode), Chained(nodes)
  PROVE  LET counts == CountsOf(nodes)
         IN  /\ counts \in Seq(Nat) /\ Len(counts) = Len(nodes)
             /\ IdsOf(nodes) \in Seq(Servers) /\ Len(IdsOf(nodes)) = Len(nodes)
             /\ \A i \in 1 .. Len(counts) : /\ counts[i] # 1
                                            /\ Offsets(counts)[i - 1] + counts[i] <= MaxWorkers
<1> DEFINE counts == CountsOf(nodes)
           off == Offsets(counts)
           n == Len(nodes)
<1>1. n \in Nat
  OBVIOUS
<1>2. ASSUME NEW i \in 1 .. n
      PROVE  /\ nodes[i].first \in Nat /\ WorkerCount(nodes[i]) \in Nat
             /\ nodes[i].first = IF i = 1 THEN 0 ELSE EndOf(nodes[i - 1])
             /\ nodes[i].first + WorkerCount(nodes[i]) = EndOf(nodes[i])
             /\ EndOf(nodes[i]) \in Nat /\ EndOf(nodes[i]) <= MaxWorkers
             /\ WorkerCount(nodes[i]) # 1 /\ nodes[i].id \in Servers
  BY NodeRange DEF EndOf, ServerNode
<1>3. IdsOf(nodes) \in Seq(Servers) /\ Len(IdsOf(nodes)) = n
  BY <1>1, <1>2 DEF IdsOf
<1>4. counts = [i \in 1 .. n |-> WorkerCount(nodes[i])]
  BY DEF CountsOf
<1> HIDE DEF counts, n
<1>5. /\ counts \in Seq(Nat) /\ Len(counts) = n
      /\ \A i \in 1 .. n : counts[i] = WorkerCount(nodes[i]) /\ counts[i] \in Nat
  BY <1>1, <1>2, <1>4
<1>6. /\ off[0] = 0
      /\ \A i \in 1 .. n : off[i] = (off[i - 1] + counts[i]) % WordSize
  BY <1>5, OffsetsValue
<1> HIDE DEF off
<1> DEFINE S == {m \in Nat : m + 1 <= n => off[m] = nodes[m + 1].first}
<1>7. 0 \in S
  <2> SUFFICES ASSUME 1 <= n PROVE off[0] = nodes[1].first
    OBVIOUS
  <2>1. 1 \in 1 .. n
    BY <1>1
  <2> QED
    BY <1>2, <1>6, <2>1
<1>8. ASSUME NEW m \in Nat, m \in S
      PROVE  m + 1 \in S
  <2> SUFFICES ASSUME (m + 1) + 1 <= n
               PROVE  off[m + 1] = nodes[(m + 1) + 1].first
    OBVIOUS
  <2>1. /\ m + 1 \in 1 .. n /\ (m + 1) + 1 \in 1 .. n /\ (m + 1) + 1 # 1
        /\ ((m + 1) + 1) - 1 = m + 1 /\ (m + 1) - 1 = m /\ off[m] = nodes[m + 1].first
    BY <1>1, <1>8
  <2>2. off[m + 1] = (nodes[m + 1].first + WorkerCount(nodes[m + 1])) % WordSize
    BY <1>5, <1>6, <2>1
  <2>3. off[m + 1] = EndOf(nodes[m + 1]) % WordSize /\ EndOf(nodes[m + 1]) \in Word
    BY <1>2, <2>1, <2>2, WordAssumption DEF Word
  <2>4. off[m + 1] = EndOf(nodes[m + 1])
    BY <2>3, ModSmall
  <2> QED
    BY <1>2, <2>1, <2>4
<1>9. Nat \subseteq S
  <2> HIDE DEF S
  <2> QED
    BY <1>7, <1>8, NatSetInduction
<1>10. ASSUME NEW i \in 1 .. n
       PROVE  counts[i] # 1 /\ off[i - 1] + counts[i] <= MaxWorkers
  <2>1. i - 1 \in Nat /\ (i - 1) + 1 = i /\ i <= n
    BY <1>1
  <2>2. off[i - 1] = nodes[i].first
    BY <1>9, <2>1
  <2> QED
    BY <1>2, <1>5, <2>2
<1> QED
  BY <1>3, <1>5, <1>10 DEF counts, off, n

(* A chain is determined by its IDs and counts, server by server.          *)
LEMMA ChainIsDetermined ==
  ASSUME NEW a \in Seq(ServerNode), NEW b \in Seq(ServerNode), Chained(a), Chained(b),
         NEW m \in Nat, m <= Len(a), m <= Len(b),
         \A i \in 1 .. m : a[i].id = b[i].id /\ WorkerCount(a[i]) = WorkerCount(b[i])
  PROVE  \A i \in 1 .. m : a[i] = b[i]
<1> DEFINE S == {j \in Nat : j <= m => \A i \in 1 .. j : a[i] = b[i]}
<1>1. Len(a) \in Nat /\ Len(b) \in Nat
  OBVIOUS
<1>2. ASSUME NEW nodes \in Seq(ServerNode), Chained(nodes), NEW i \in 1 .. Len(nodes)
      PROVE  /\ nodes[i] = [id |-> nodes[i].id, first |-> nodes[i].first, last |-> nodes[i].last]
             /\ nodes[i].last \in Word
             /\ nodes[i].first \in Nat /\ WorkerCount(nodes[i]) \in Nat
             /\ nodes[i].first = IF i = 1 THEN 0 ELSE EndOf(nodes[i - 1])
             /\ nodes[i].first + WorkerCount(nodes[i]) = EndOf(nodes[i])
  BY <1>2, NodeRange DEF EndOf, ServerNode
<1>3. 0 \in S
  OBVIOUS
<1>4. ASSUME NEW j \in Nat, j \in S
      PROVE  j + 1 \in S
  <2> SUFFICES ASSUME j + 1 <= m
               PROVE  a[j + 1] = b[j + 1]
    BY <1>4
  <2>1. /\ j + 1 \in 1 .. Len(a) /\ j + 1 \in 1 .. Len(b) /\ j + 1 \in 1 .. m
        /\ (j + 1) - 1 = j /\ (j + 1 = 1 \/ j \in 1 .. j)
    BY <1>1
  <2>2. j # 0 => a[j] = b[j]
    BY <1>4, <2>1
  <2> DEFINE k == j + 1
  <2>3. ASSUME NEW nodes \in Seq(ServerNode), Chained(nodes), k \in 1 .. Len(nodes)
        PROVE  /\ nodes[k] = [id |-> nodes[k].id, first |-> nodes[k].first, last |-> nodes[k].last]
               /\ nodes[k].last \in Word
               /\ nodes[k].first \in Nat /\ WorkerCount(nodes[k]) \in Nat
               /\ nodes[k].first = IF j = 0 THEN 0 ELSE EndOf(nodes[j])
               /\ nodes[k].first + WorkerCount(nodes[k]) = EndOf(nodes[k])
    <3>1. k - 1 = j /\ (k = 1 <=> j = 0)
      OBVIOUS
    <3> HIDE DEF k
    <3> QED
      BY <1>2, <2>3, <3>1
  <2>4. k \in 1 .. Len(a) /\ k \in 1 .. Len(b) /\ k \in 1 .. m
    BY <2>1
  <2> HIDE DEF k
  <2>5. a[k].first = b[k].first
    BY <2>2, <2>3, <2>4
  <2>6. a[k].id = b[k].id /\ WorkerCount(a[k]) = WorkerCount(b[k])
    BY <2>4
  <2>7. EndOf(a[k]) = EndOf(b[k])
    BY <2>3, <2>4, <2>5, <2>6
  <2>8. a[k].last = b[k].last
    <3>1. a[k].last \in Word /\ b[k].last \in Word
      BY <2>3, <2>4
    <3>2. /\ EndOf(a[k]) = IF a[k].last = WordSize - 1 THEN 0 ELSE a[k].last + 1
          /\ EndOf(b[k]) = IF b[k].last = WordSize - 1 THEN 0 ELSE b[k].last + 1
      BY <3>1, IncrValue DEF EndOf
    <3>3. \A x, y \in Word : (IF x = WordSize - 1 THEN 0 ELSE x + 1) = (IF y = WordSize - 1 THEN 0 ELSE y + 1)
                               => x = y
      BY WordAssumption DEF Word
    <3> QED
      BY <2>7, <3>1, <3>2, <3>3, Zenon
  <2>9. /\ a[k] = [id |-> a[k].id, first |-> a[k].first, last |-> a[k].last]
        /\ b[k] = [id |-> b[k].id, first |-> b[k].first, last |-> b[k].last]
    BY <2>3, <2>4
  <2>10. a[k] = b[k]
    BY <2>5, <2>6, <2>8, <2>9
  <2> QED
    BY <2>10 DEF k
<1>5. Nat \subseteq S
  <2> HIDE DEF S
  <2> QED
    BY <1>3, <1>4, NatSetInduction
<1> QED
  BY <1>5

(* What is encoded for a server, its number of workers, is what it has.    *)
LEMMA EncodedCountValue ==
  ASSUME NEW srv \in ServerNode, WorkerCount(srv) # 1,
         srv.first + WorkerCount(srv) = EndOf(srv)
  PROVE  EncodedCount(srv) = WorkerCount(srv)
<1>1. /\ srv.first \in Word /\ srv.last \in Word /\ WorkerCount(srv) \in Word
      /\ EndOf(srv) = IF srv.last = WordSize - 1 THEN 0 ELSE srv.last + 1
  BY IncrValue, WorkerCountInWord DEF EndOf, ServerNode
<1>2. ~ (srv.last > srv.first) => WorkerCount(srv) = 0
  BY <1>1, WordAssumption DEF Word
<1> QED
  BY <1>2 DEF EncodedCount

(* The count of a server numbered from x up to where c more workers end.   *)
LEMMA CountBetween ==
  ASSUME NEW x \in Word, NEW c \in Word, NEW y, y = (x + c) % WordSize
  PROVE  (Decr(y) - x + 1) % WordSize = c
<1>1. /\ WordSize \in Nat /\ WordSize > 0
      /\ x \in Nat /\ x < WordSize /\ c \in Nat /\ c < WordSize
  BY WordAssumption DEF Word
<1>2. CASE x + c < WordSize
  <2>1. y = x + c /\ y \in Word
    BY <1>1, <1>2, ModSmall DEF Word
  <2>2. Decr(y) = IF y = 0 THEN WordSize - 1 ELSE y - 1
    BY <2>1, DecrValue
  <2>3. CASE y = 0
    <3>1. Decr(y) - x + 1 = WordSize /\ c = 0
      BY <1>1, <2>1, <2>2, <2>3
    <3> QED
      BY <3>1, ModWordSize
  <2>4. CASE y # 0
    <3>1. Decr(y) - x + 1 = c
      BY <1>1, <2>1, <2>2, <2>4
    <3> QED
      BY <1>1, <3>1, ModSmall
  <2> QED
    BY <2>3, <2>4
<1>3. CASE x + c >= WordSize
  <2>1. x + c - WordSize \in Word
    BY <1>1, <1>3 DEF Word
  <2>2. y = x + c - WordSize
    <3>1. (x + c - WordSize) + WordSize = x + c
      BY <1>1
    <3> QED
      BY <2>1, <3>1, ModAddWord
  <2>3. Decr(y) = IF y = 0 THEN WordSize - 1 ELSE y - 1
    BY <2>1, <2>2, DecrValue
  <2>4. CASE y = 0
    <3>1. Decr(y) - x + 1 = c
      BY <1>1, <2>2, <2>3, <2>4
    <3> QED
      BY <1>1, <3>1, ModSmall
  <2>5. CASE y # 0
    <3>1. Decr(y) - x + 1 = c - WordSize
      BY <1>1, <2>2, <2>3, <2>5
    <3> QED
      BY <1>1, <3>1, ModSubWord
  <2> QED
    BY <2>4, <2>5
<1> QED
  BY <1>1, <1>2, <1>3

(* A controller that fetches the topology gives each server the workers it *)
(* has where it was fetched from, and none to a server that has one there: *)
(* EncodeToTopoInfo sends no workers for it, as its first and last worker  *)
(* ID are the same.  The one assumption is that the worker IDs of a server *)
(* do not wrap around.                                                     *)
THEOREM ReloadedWorkers ==
  ASSUME NEW nodes \in Seq(ServerNode), NEW i \in 1 .. Len(nodes),
         nodes[i].first + WorkerCount(nodes[i]) = Incr(nodes[i].last)
  PROVE  WorkerCount(LoadServers(EncodeServers(nodes))[i])
           = IF WorkerCount(nodes[i]) = 1 THEN 0 ELSE WorkerCount(nodes[i])
<1> DEFINE n == Len(nodes)
           confs == EncodeServers(nodes)
           counts == [j \in 1 .. n |-> confs[j].workers]
           off == Offsets(counts)
           new == Numbered(IdsOf(confs), counts)
           x == off[i - 1]
           y == off[i]
           c == EncodedCount(nodes[i])
<1>1. n \in Nat /\ i \in 1 .. n /\ \A j \in 1 .. n : nodes[j] \in ServerNode
  OBVIOUS
<1>2. \A j \in 1 .. n : EncodedCount(nodes[j]) \in Word
  BY <1>1, WorkerCountInWord, WordAssumption DEF EncodedCount, Word
<1>3. /\ Len(confs) = n /\ \A j \in 1 .. n : confs[j].workers = EncodedCount(nodes[j])
  BY <1>1 DEF EncodeServers
<1>4. Len(IdsOf(confs)) = n
  BY <1>1, <1>3 DEF IdsOf
<1>5. LoadServers(confs) = new
  BY <1>3 DEF LoadServers
<1> HIDE DEF confs, n
<1>6. counts \in Seq(Nat) /\ Len(counts) = n /\ counts[i] = c
  <2>1. counts \in [1 .. n -> Nat]
    BY <1>2, <1>3 DEF Word
  <2> QED
    BY <1>1, <1>3, <2>1
<1>7. new[i].first = x /\ new[i].last = Decr(y)
  BY <1>1, <1>4 DEF Numbered
<1> HIDE DEF counts
<1>8. x \in Word /\ y \in Word /\ y = (x + c) % WordSize
  <2>1. i \in 1 .. Len(counts) /\ i - 1 \in 0 .. Len(counts) /\ i \in 0 .. Len(counts)
    BY <1>1, <1>6
  <2>2. /\ Offsets(counts)[i] = (Offsets(counts)[i - 1] + counts[i]) % WordSize
        /\ Offsets(counts)[i - 1] \in Word /\ Offsets(counts)[i] \in Word
    BY <1>6, <2>1, OffsetsValue
  <2> QED
    BY <1>6, <2>2
<1> HIDE DEF off, new
<1>9. c \in Word
  BY <1>1, <1>2
<1>10. WorkerCount(new[i]) = c
  <2> HIDE DEF x, y, c
  <2>1. WorkerCount(new[i]) = (Decr(y) - x + 1) % WordSize
    BY <1>7 DEF WorkerCount
  <2> QED
    BY <1>8, <1>9, <2>1, CountBetween
<1>11. c = IF WorkerCount(nodes[i]) = 1 THEN 0 ELSE WorkerCount(nodes[i])
  <2>1. CASE WorkerCount(nodes[i]) # 1
    BY <1>1, <2>1, EncodedCountValue DEF EndOf
  <2>2. CASE WorkerCount(nodes[i]) = 1
    <3>1. /\ nodes[i].first \in Word /\ nodes[i].last \in Word
          /\ nodes[i].first + 1 = IF nodes[i].last = WordSize - 1 THEN 0 ELSE nodes[i].last + 1
      BY <1>1, <2>2, IncrValue DEF ServerNode
    <3>2. nodes[i].last = nodes[i].first
      BY <3>1, WordAssumption DEF Word
    <3>3. ~ (nodes[i].last > nodes[i].first)
      BY <3>1, <3>2, WordAssumption DEF Word
    <3> QED
      BY <2>2, <3>3 DEF EncodedCount
  <2> QED
    BY <2>1, <2>2
<1> QED
  BY <1>5, <1>10, <1>11 DEF confs

(* A controller that fetches a chain and loads it has the same chain.      *)
LEMMA ReloadedChain ==
  ASSUME NEW nodes \in Seq(ServerNode), Chained(nodes)
  PROVE  LoadServers(EncodeServers(nodes)) = nodes
<1> DEFINE n == Len(nodes)
           confs == EncodeServers(nodes)
           ids == IdsOf(nodes)
           counts == CountsOf(nodes)
           new == Numbered(ids, counts)
<1>1. n \in Nat /\ \A i \in 1 .. n : nodes[i] \in ServerNode /\ EncodedCount(nodes[i]) = WorkerCount(nodes[i])
  BY SMTT(30), NodeRange, EncodedCountValue DEF EndOf
<1>2. confs = [i \in 1 .. n |-> [id |-> nodes[i].id, workers |-> WorkerCount(nodes[i])]]
  BY <1>1 DEF EncodeServers
<1>3. Len(confs) = n /\ \A i \in 1 .. n : confs[i].id = nodes[i].id /\ confs[i].workers = WorkerCount(nodes[i])
  BY <1>1, <1>2
<1> HIDE DEF confs, n
<1>4. IdsOf(confs) = ids
  BY <1>3 DEF IdsOf, n
<1>5. [i \in 1 .. Len(confs) |-> confs[i].workers] = counts
  BY <1>3 DEF CountsOf, n
<1>6. LoadServers(confs) = new
  BY <1>4, <1>5 DEF LoadServers
<1>7. /\ counts \in Seq(Nat) /\ Len(counts) = n
      /\ ids \in Seq(Servers) /\ Len(ids) = n
      /\ \A i \in 1 .. Len(counts) : counts[i] # 1 /\ Offsets(counts)[i - 1] + counts[i] <= MaxWorkers
  BY ChainFits DEF n
<1>8. /\ new \in Seq(ServerNode) /\ Len(new) = n /\ Chained(new)
      /\ \A i \in 1 .. n : new[i].id = ids[i] /\ WorkerCount(new[i]) = counts[i]
  <2> HIDE DEF ids, counts
  <2> QED
    BY <1>7, NumberedIsChained
<1>9. \A i \in 1 .. n : new[i].id = nodes[i].id /\ WorkerCount(new[i]) = WorkerCount(nodes[i])
  BY <1>8 DEF IdsOf, CountsOf, n
<1> HIDE DEF new
<1>10. \A i \in 1 .. n : new[i] = nodes[i]
  BY SMTT(30), <1>1, <1>8, <1>9, ChainIsDetermined DEF n
<1>11. new = nodes
  BY <1>1, <1>8, <1>10 DEF n
<1> QED
  BY <1>6, <1>11 DEF confs

(* Whatever is added and removed, a controller that fetches the topology   *)
(* ends with the worker IDs of the controller it fetched from.             *)
THEOREM ReloadAlwaysKeepsWorkers ==
  ASSUME 1 \notin Counts
  PROVE  Spec => []ReloadKeepsWorkers
<1>1. IInv => ReloadKeepsWorkers
  BY ReloadedChain DEF IInv, TypeOK, ReloadKeepsWorkers
<1> QED
  BY <1>1, InductiveInvariant, PTL

(* RemoveServer takes one server out of its list and leaves the ones before*)
(* it as they are; the ones behind it, which it returns, move up with the  *)
(* workers they have.                                                      *)
LEMMA RemoveServerStep ==
  ASSUME IInv, NEW s \in Servers, RemoveServer(s)
  PROVE  LET l == leafOf[s]  old == serversOf[l]  new == serversOf'[l]
         IN  /\ l \in Leaves
             /\ leafOf' = [leafOf EXCEPT ![s] = None]
             /\ leavesOf' = leavesOf /\ spineOf' = spineOf
             /\ \A m \in Leaves : m # l => serversOf'[m] = serversOf[m]
             /\ \E k \in 1 .. Len(old) :
                  /\ old[k].id = s
                  /\ Len(new) = Len(old) - 1
                  /\ \A i \in 1 .. Len(old) - 1 :
                       /\ i < k => new[i] = old[i]
                       /\ new[i].id = old[IF i < k THEN i ELSE i + 1].id
                       /\ WorkerCount(new[i]) = WorkerCount(old[IF i < k THEN i ELSE i + 1])
                  /\ \A i \in k + 1 .. Len(old) : old[i].id \in updated'
<1> DEFINE l == leafOf[s]
           old == serversOf[l]
           n == Len(old)
<1>1. l \in Leaves /\ old \in Seq(ServerNode) /\ n \in Nat /\ Chained(old)
  BY DEF IInv, TypeOK, RemoveServer
<1>2. PICK k \in 1 .. n :
        LET rest == RemoveAt(old, k)
        IN  /\ old[k].id = s
            /\ serversOf' = [serversOf EXCEPT ![l] = Renumbered(rest)]
            /\ updated' = {old[i].id : i \in k + 1 .. n}
  BY DEF RemoveServer, Without, Behind
<1> DEFINE rest == RemoveAt(old, k)
           ids == IdsOf(rest)
           counts == CountsOf(rest)
           new == Numbered(ids, counts)
<1>3. /\ rest \in Seq(ServerNode) /\ Len(rest) = n - 1
      /\ \A i \in 1 .. n - 1 : rest[i] = IF i < k THEN old[i] ELSE old[i + 1]
  BY <1>1, RemoveAtValue
<1>4. /\ counts \in Seq(Nat) /\ Len(counts) = Len(rest)
      /\ ids \in Seq(Servers) /\ Len(ids) = Len(rest)
      /\ \A i \in 1 .. Len(counts) : /\ counts[i] # 1
                                     /\ Offsets(counts)[i - 1] + counts[i] <= MaxWorkers
  BY <1>1, RestFits
<1>5. /\ new \in Seq(ServerNode) /\ Len(new) = Len(ids) /\ Chained(new)
      /\ \A i \in 1 .. Len(new) : new[i].id = ids[i] /\ WorkerCount(new[i]) = counts[i]
  <2> HIDE DEF ids, counts
  <2> QED
    BY <1>4, NumberedIsChained
<1>6. serversOf'[l] = new /\ \A m \in Leaves : m # l => serversOf'[m] = serversOf[m]
  <2>1. Renumbered(rest) = new
    BY DEF Renumbered, CountsOf
  <2> HIDE DEF new, rest
  <2> QED
    BY <1>1, <1>2, <2>1 DEF IInv, TypeOK, rest
<1>7. Len(new) = n - 1 /\ n - 1 \in Nat /\ k \in 1 .. n
  BY <1>1, <1>3, <1>4, <1>5
<1>8. \A i \in 1 .. n - 1 : ids[i] = rest[i].id /\ counts[i] = WorkerCount(rest[i])
  BY <1>3 DEF IdsOf, CountsOf
<1> HIDE DEF rest, ids, counts, new, old, n, l
<1>9. ASSUME NEW i \in 1 .. n - 1
      PROVE  /\ new[i].id = old[IF i < k THEN i ELSE i + 1].id
             /\ WorkerCount(new[i]) = WorkerCount(old[IF i < k THEN i ELSE i + 1])
  BY <1>3, <1>5, <1>7, <1>8
<1>10. ASSUME NEW i \in 1 .. n - 1, i < k
       PROVE  new[i] = old[i]
  <2>1. /\ k - 1 \in Nat /\ k - 1 <= Len(new) /\ k - 1 <= Len(old) /\ i \in 1 .. k - 1
    BY <1>1, <1>7, <1>10 DEF n
  <2>2. \A j \in 1 .. k - 1 : new[j].id = old[j].id /\ WorkerCount(new[j]) = WorkerCount(old[j])
    <3> TAKE j \in 1 .. k - 1
    <3>1. j \in 1 .. n - 1 /\ j < k
      BY <1>1, <1>7
    <3> QED
      BY <1>9, <3>1
  <2> QED
    BY <1>1, <1>5, <2>1, <2>2, ChainIsDetermined
<1>11. leafOf' = [leafOf EXCEPT ![s] = None] /\ leavesOf' = leavesOf /\ spineOf' = spineOf
  BY DEF RemoveServer
<1>12. \A i \in k + 1 .. n : old[i].id \in updated'
  BY <1>2 DEF old, n
<1>13. old[k].id = s
  BY <1>2 DEF old
<1>14. /\ \A m \in Leaves : m # l => serversOf'[m] = serversOf[m]
       /\ Len(serversOf'[l]) = n - 1
       /\ \A i \in 1 .. n - 1 :
            /\ i < k => serversOf'[l][i] = old[i]
            /\ serversOf'[l][i].id = old[IF i < k THEN i ELSE i + 1].id
            /\ WorkerCount(serversOf'[l][i]) = WorkerCount(old[IF i < k THEN i ELSE i + 1])
  BY <1>6, <1>7, <1>9, <1>10
<1> QED
  BY <1>1, <1>7, <1>11, <1>12, <1>13, <1>14 DEF l, old, n

(* A server that stays in its list keeps its workers and its place.        *)
LEMMA StepKeepsWorkers ==
  ASSUME IInv, Next, NEW l \in Leaves,
         NEW i \in 1 .. Len(serversOf[l]), NEW j \in 1 .. Len(serversOf[l]), i <= j,
         leafOf'[serversOf[l][i].id] = l, leafOf'[serversOf[l][j].id] = l
  PROVE  \E p, q \in 1 .. Len(serversOf'[l]) :
           /\ p <= q
           /\ serversOf'[l][p].id = serversOf[l][i].id
           /\ serversOf'[l][q].id = serversOf[l][j].id
           /\ WorkerCount(serversOf'[l][p]) = WorkerCount(serversOf[l][i])
<1>1. serversOf[l] \in Seq(ServerNode) /\ Len(serversOf[l]) \in Nat /\ l # None
  BY NoneIsNoNode DEF IInv, TypeOK
<1>2. CASE serversOf'[l] = serversOf[l]
  BY <1>2
<1>3. ASSUME NEW m \in Leaves, NEW sp \in Spines, NEW e \in Endpoints, AddLeafToSpine(m, sp, e)
      PROVE  serversOf'[l] = serversOf[l]
  BY <1>3 DEF AddLeafToSpine
<1>4. ASSUME NEW s \in Servers, NEW m \in Leaves, NEW c \in Counts, AddServerToLeaf(s, m, c),
             serversOf'[l] # serversOf[l]
      PROVE  \E node : serversOf'[l] = Append(serversOf[l], node)
  BY <1>4 DEF AddServerToLeaf, IInv, TypeOK
<1>5. CASE \E node : serversOf'[l] = Append(serversOf[l], node)
  <2>1. /\ i \in 1 .. Len(serversOf'[l]) /\ j \in 1 .. Len(serversOf'[l])
        /\ serversOf'[l][i] = serversOf[l][i] /\ serversOf'[l][j] = serversOf[l][j]
    BY <1>1, <1>5
  <2> QED
    BY <2>1
<1>6. ASSUME NEW s \in Servers, RemoveServer(s), serversOf'[l] # serversOf[l]
      PROVE  \E p, q \in 1 .. Len(serversOf'[l]) :
               /\ p <= q
               /\ serversOf'[l][p].id = serversOf[l][i].id
               /\ serversOf'[l][q].id = serversOf[l][j].id
               /\ WorkerCount(serversOf'[l][p]) = WorkerCount(serversOf[l][i])
  <2> DEFINE old == serversOf[l]
             new == serversOf'[l]
             n == Len(old)
  <2>1. l = leafOf[s] /\ leafOf'[s] = None
    BY <1>6, RemoveServerStep DEF IInv, TypeOK
  <2>2. PICK k \in 1 .. n :
          /\ old[k].id = s
          /\ Len(new) = n - 1
          /\ \A x \in 1 .. n - 1 :
               /\ new[x].id = old[IF x < k THEN x ELSE x + 1].id
               /\ WorkerCount(new[x]) = WorkerCount(old[IF x < k THEN x ELSE x + 1])
    BY <1>6, <2>1, RemoveServerStep
  <2>3. i \in 1 .. n /\ j \in 1 .. n /\ i <= j /\ i # k /\ j # k /\ n \in Nat
    BY <1>1, <2>1, <2>2
  <2> DEFINE p == IF i < k THEN i ELSE i - 1
             q == IF j < k THEN j ELSE j - 1
  <2>4. /\ p \in 1 .. n - 1 /\ q \in 1 .. n - 1 /\ p <= q
        /\ (IF p < k THEN p ELSE p + 1) = i /\ (IF q < k THEN q ELSE q + 1) = j
    BY <2>2, <2>3
  <2> HIDE DEF p, q, old, new, n
  <2>5. new[p].id = old[i].id /\ new[q].id = old[j].id /\ WorkerCount(new[p]) = WorkerCount(old[i])
    BY <2>2, <2>4
  <2> QED
    BY <2>2, <2>4, <2>5 DEF old, new, n
<1>7. ASSUME NEW m \in Leaves, RemoveLeaf(m)
      PROVE  serversOf'[l] = serversOf[l]
  <2>1. serversOf[l][i].id \in Servers /\ leafOf[serversOf[l][i].id] = l
    <3>1. serversOf[l][i] \in ServerNode
      BY <1>1
    <3> QED
      BY <3>1 DEF ServerNode, IInv, MapsMatchTree
  <2>2. m # l
    BY <1>1, <1>7, <2>1 DEF RemoveLeaf, LeafOfWithout
  <2> QED
    BY <1>7, <2>2 DEF RemoveLeaf, IInv, TypeOK
<1> QED
  BY <1>2, <1>3, <1>4, <1>5, <1>6, <1>7 DEF Next

(* No call renumbers a server that stays to another number of workers or   *)
(* moves it in front of one that was before it.                            *)
THEOREM SurvivorsAlwaysKeepWorkers ==
  ASSUME 1 \notin Counts
  PROVE  Spec => SurvivorsKeepWorkers
<1>1. IInv /\ [Next]_vars =>
        [\A l \in Leaves : \A i, j \in 1 .. Len(serversOf[l]) :
           /\ i <= j
           /\ leafOf'[serversOf[l][i].id] = l
           /\ leafOf'[serversOf[l][j].id] = l
           => \E p, q \in 1 .. Len(serversOf'[l]) :
                /\ p <= q
                /\ serversOf'[l][p].id = serversOf[l][i].id
                /\ serversOf'[l][q].id = serversOf[l][j].id
                /\ WorkerCount(serversOf'[l][p]) = WorkerCount(serversOf[l][i])]_vars
  BY StepKeepsWorkers
<1> QED
  BY <1>1, InductiveInvariant, PTL DEF Spec, SurvivorsKeepWorkers

\* the nodes of an ID in lists of children
NodesIn(P, lists, id) == {x \in UNION {Range(lists[q]) : q \in P} : x.id = id}

(* The node of an ID that is in one list, once.                            *)
LEMMA NodesValue ==
  ASSUME NEW P, NEW T, NEW lists \in [P -> Seq(T)], NEW id,
         NEW p \in P, NEW i \in 1 .. Len(lists[p]), lists[p][i].id = id,
         \A q \in P : \A j \in 1 .. Len(lists[q]) : lists[q][j].id = id => q = p /\ j = i
  PROVE  NodesIn(P, lists, id) = {lists[p][i]}
<1>1. \A q \in P : Range(lists[q]) = {lists[q][j] : j \in 1 .. Len(lists[q])}
  BY DEF Range
<1>2. lists[p][i] \in UNION {Range(lists[q]) : q \in P}
  BY <1>1
<1>3. ASSUME NEW x \in UNION {Range(lists[q]) : q \in P}, x.id = id
      PROVE  x = lists[p][i]
  <2>1. PICK q \in P : x \in Range(lists[q])
    OBVIOUS
  <2>2. PICK j \in 1 .. Len(lists[q]) : x = lists[q][j]
    BY <1>1, <2>1
  <2> QED
    BY <1>3, <2>2
<1> QED
  BY <1>2, <1>3 DEF NodesIn

(* A server that no removal reports is in its list as it was.              *)
LEMMA UnreportedServerStays ==
  ASSUME IInv, Next, NEW s \in Servers, leafOf[s] # None, leafOf'[s] # None, s \notin updated'
  PROVE  \E l \in Leaves : \E i \in 1 .. Len(serversOf[l]), j \in 1 .. Len(serversOf'[l]) :
           serversOf[l][i].id = s /\ serversOf'[l][j] = serversOf[l][i]
<1> DEFINE l == leafOf[s]
           old == serversOf[l]
           new == serversOf'[l]
<1>1. l \in Leaves /\ old \in Seq(ServerNode) /\ Len(old) \in Nat
  BY DEF IInv, TypeOK
<1>2. PICK i \in 1 .. Len(old) : old[i].id = s
  BY <1>1 DEF IInv, MapsMatchTree
<1>3. SUFFICES \E j \in 1 .. Len(new) : new[j] = old[i]
  BY <1>1, <1>2
<1>4. CASE new = old
  BY <1>2, <1>4
<1>5. CASE \E node : new = Append(old, node)
  <2>1. i \in 1 .. Len(new) /\ new[i] = old[i]
    BY <1>1, <1>5
  <2> QED
    BY <2>1
<1>6. ASSUME NEW m \in Leaves, NEW sp \in Spines, NEW e \in Endpoints, AddLeafToSpine(m, sp, e)
      PROVE  new = old
  BY <1>6 DEF AddLeafToSpine
<1>7. ASSUME NEW t \in Servers, NEW m \in Leaves, NEW c \in Counts, AddServerToLeaf(t, m, c), new # old
      PROVE  \E node : new = Append(old, node)
  BY <1>1, <1>7 DEF AddServerToLeaf, IInv, TypeOK
<1>8. ASSUME NEW t \in Servers, RemoveServer(t), new # old
      PROVE  \E j \in 1 .. Len(new) : new[j] = old[i]
  <2>1. l = leafOf[t] /\ leafOf'[t] = None /\ t # s
    BY <1>1, <1>8, RemoveServerStep DEF IInv, TypeOK
  <2>2. PICK k \in 1 .. Len(old) :
          /\ old[k].id = t
          /\ Len(new) = Len(old) - 1
          /\ \A x \in 1 .. Len(old) - 1 : x < k => new[x] = old[x]
          /\ \A x \in k + 1 .. Len(old) : old[x].id \in updated'
    BY SMTT(30), <1>8, <2>1, RemoveServerStep
  <2>3. i # k /\ i \notin k + 1 .. Len(old)
    BY <1>2, <2>1, <2>2
  <2>4. i \in 1 .. Len(old) - 1 /\ i < k
    BY <1>1, <2>3
  <2> QED
    BY <2>2, <2>4
<1>9. ASSUME NEW m \in Leaves, RemoveLeaf(m)
      PROVE  new = old
  <2>1. m # l
    BY <1>9 DEF RemoveLeaf, LeafOfWithout
  <2> QED
    BY <1>1, <1>9, <2>1 DEF RemoveLeaf, IInv, TypeOK
<1> QED
  BY <1>4, <1>5, <1>6, <1>7, <1>8, <1>9 DEF Next

(* A leaf that no removal reports is in its list as it was.                *)
LEMMA UnreportedLeafStays ==
  ASSUME IInv, Next, NEW l \in Leaves, spineOf[l] # None, spineOf'[l] # None, l \notin updated'
  PROVE  \E sp \in Spines : \E i \in 1 .. Len(leavesOf[sp]), j \in 1 .. Len(leavesOf'[sp]) :
           leavesOf[sp][i].id = l /\ leavesOf'[sp][j] = leavesOf[sp][i]
<1> DEFINE sp == spineOf[l]
           old == leavesOf[sp]
           new == leavesOf'[sp]
<1>1. sp \in Spines /\ old \in Seq(LeafNode) /\ Len(old) \in Nat
  BY DEF IInv, TypeOK
<1>2. PICK i \in 1 .. Len(old) : old[i].id = l
  BY <1>1 DEF IInv, MapsMatchTree
<1>3. SUFFICES \E j \in 1 .. Len(new) : new[j] = old[i]
  BY <1>1, <1>2
<1>4. CASE new = old
  BY <1>2, <1>4
<1>5. CASE \E node : new = Append(old, node)
  <2>1. i \in 1 .. Len(new) /\ new[i] = old[i]
    BY <1>1, <1>5
  <2> QED
    BY <2>1
<1>6. ASSUME NEW m \in Leaves, NEW p \in Spines, NEW e \in Endpoints, AddLeafToSpine(m, p, e), new # old
      PROVE  \E node : new = Append(old, node)
  BY <1>1, <1>6 DEF AddLeafToSpine, IInv, TypeOK
<1>7. ASSUME NEW t \in Servers, NEW m \in Leaves, NEW c \in Counts, AddServerToLeaf(t, m, c)
      PROVE  new = old
  BY <1>7 DEF AddServerToLeaf
<1>8. ASSUME NEW t \in Servers, RemoveServer(t)
      PROVE  new = old
  BY <1>8 DEF RemoveServer
<1>9. ASSUME NEW m \in Leaves, RemoveLeaf(m), new # old
      PROVE  \E j \in 1 .. Len(new) : new[j] = old[i]
  <2>1. sp = spineOf[m] /\ m # l
    BY <1>1, <1>9 DEF RemoveLeaf, IInv, TypeOK
  <2>2. PICK k \in 1 .. Len(old) :
          /\ old[k].id = m
          /\ new = LeavesWithout(old, k)
          /\ updated' = Behind(old, k)
    BY <1>1, <1>9, <2>1 DEF RemoveLeaf, IInv, TypeOK
  <2>3. i # k /\ i \notin k + 1 .. Len(old)
    BY <1>2, <2>1, <2>2 DEF Behind
  <2>4. i \in 1 .. Len(old) - 1 /\ i < k
    BY <1>1, <2>3
  <2>5. Len(new) = Len(old) - 1 /\ new[i] = old[i]
    BY <1>1, <2>2, <2>4 DEF LeavesWithout
  <2> QED
    BY <2>4, <2>5
<1> QED
  BY <1>4, <1>5, <1>6, <1>7, <1>8, <1>9 DEF Next

(* The callers of RemoveServer and RemoveLeaf, which pass on the returned  *)
(* nodes only, miss no server or leaf whose worker IDs or index changed.   *)
THEOREM MovedNodesAreAlwaysReported ==
  ASSUME 1 \notin Counts
  PROVE  Spec => MovedNodesAreReported
<1>1. ASSUME IInv, IInv', Next, NEW s \in Servers,
             leafOf[s] # None, leafOf'[s] # None, ServerNodes(s)' # ServerNodes(s)
      PROVE  s \in updated'
  <2> SUFFICES ASSUME s \notin updated' PROVE FALSE
    OBVIOUS
  <2>1. PICK l \in Leaves : \E i \in 1 .. Len(serversOf[l]), j \in 1 .. Len(serversOf'[l]) :
           serversOf[l][i].id = s /\ serversOf'[l][j] = serversOf[l][i]
    BY <1>1, UnreportedServerStays
  <2>2. PICK i \in 1 .. Len(serversOf[l]), j \in 1 .. Len(serversOf'[l]) :
           serversOf[l][i].id = s /\ serversOf'[l][j] = serversOf[l][i]
    BY <2>1
  <2>3. NodesIn(Leaves, serversOf, s) = {serversOf[l][i]}
    <3>1. serversOf \in [Leaves -> Seq(ServerNode)] /\ serversOf[l][i].id = s
      BY <1>1, <2>2 DEF IInv, TypeOK
    <3>2. ASSUME NEW q \in Leaves, NEW x \in 1 .. Len(serversOf[q]), serversOf[q][x].id = s
          PROVE  q = l /\ x = i
      <4>1. leafOf[s] = q /\ leafOf[s] = l
        BY <1>1, <3>1, <3>2 DEF IInv, MapsMatchTree
      <4> QED
        BY <1>1, <3>1, <3>2, <4>1 DEF IInv, MapsMatchTree
    <3> QED
      BY <3>1, <3>2, NodesValue
  <2>4. NodesIn(Leaves, serversOf', s) = {serversOf'[l][j]}
    <3>1. serversOf' \in [Leaves -> Seq(ServerNode)] /\ serversOf'[l][j].id = s
      BY <1>1, <2>2 DEF IInv, TypeOK
    <3>2. ASSUME NEW q \in Leaves, NEW x \in 1 .. Len(serversOf'[q]), serversOf'[q][x].id = s
          PROVE  q = l /\ x = j
      <4>1. leafOf'[s] = q /\ leafOf'[s] = l
        BY <1>1, <3>1, <3>2 DEF IInv, MapsMatchTree
      <4> QED
        BY <1>1, <3>1, <3>2, <4>1 DEF IInv, MapsMatchTree
    <3> QED
      BY <3>1, <3>2, NodesValue
  <2> QED
    BY <1>1, <2>2, <2>3, <2>4 DEF ServerNodes, NodesIn
<1>2. ASSUME IInv, IInv', Next, NEW l \in Leaves,
             spineOf[l] # None, spineOf'[l] # None, LeafNodes(l)' # LeafNodes(l)
      PROVE  l \in updated'
  <2> SUFFICES ASSUME l \notin updated' PROVE FALSE
    OBVIOUS
  <2>1. PICK sp \in Spines : \E i \in 1 .. Len(leavesOf[sp]), j \in 1 .. Len(leavesOf'[sp]) :
           leavesOf[sp][i].id = l /\ leavesOf'[sp][j] = leavesOf[sp][i]
    BY <1>2, UnreportedLeafStays
  <2>2. PICK i \in 1 .. Len(leavesOf[sp]), j \in 1 .. Len(leavesOf'[sp]) :
           leavesOf[sp][i].id = l /\ leavesOf'[sp][j] = leavesOf[sp][i]
    BY <2>1
  <2>3. NodesIn(Spines, leavesOf, l) = {leavesOf[sp][i]}
    <3>1. leavesOf \in [Spines -> Seq(LeafNode)] /\ leavesOf[sp][i].id = l
      BY <1>2, <2>2 DEF IInv, TypeOK
    <3>2. ASSUME NEW q \in Spines, NEW x \in 1 .. Len(leavesOf[q]), leavesOf[q][x].id = l
          PROVE  q = sp /\ x = i
      <4>1. spineOf[l] = q /\ spineOf[l] = sp
        BY <1>2, <3>1, <3>2 DEF IInv, MapsMatchTree
      <4> QED
        BY <1>2, <3>1, <3>2, <4>1 DEF IInv, MapsMatchTree
    <3> QED
      BY <3>1, <3>2, NodesValue
  <2>4. NodesIn(Spines, leavesOf', l) = {leavesOf'[sp][j]}
    <3>1. leavesOf' \in [Spines -> Seq(LeafNode)] /\ leavesOf'[sp][j].id = l
      BY <1>2, <2>2 DEF IInv, TypeOK
    <3>2. ASSUME NEW q \in Spines, NEW x \in 1 .. Len(leavesOf'[q]), leavesOf'[q][x].id = l
          PROVE  q = sp /\ x = j
      <4>1. spineOf'[l] = q /\ spineOf'[l] = sp
        BY <1>2, <3>1, <3>2 DEF IInv, MapsMatchTree
      <4> QED
        BY <1>2, <3>1, <3>2, <4>1 DEF IInv, MapsMatchTree
    <3> QED
      BY <3>1, <3>2, NodesValue
  <2> QED
    BY <1>2, <2>2, <2>3, <2>4 DEF LeafNodes, NodesIn
<1>3. IInv /\ IInv' /\ [Next]_vars =>
        [/\ \A s \in Servers : leafOf[s] # None /\ leafOf'[s] # None /\ ServerNodes(s)' # ServerNodes(s)
              => s \in updated'
         /\ \A l \in Leaves : spineOf[l] # None /\ spineOf'[l] # None /\ LeafNodes(l)' # LeafNodes(l)
              => l \in updated']_vars
  BY <1>1, <1>2
<1> QED
  BY <1>3, InductiveInvariant, PTL DEF Spec, MovedNodesAreReported
=============================================================================
