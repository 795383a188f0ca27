--------------------------- MODULE SequenceLemmas ---------------------------
(***************************************************************************)
(* Facts about naturals and sequences that the proofs of several modules   *)
(* use.                                                                    *)
(***************************************************************************)
EXTENDS Integers, SequencesExt, TLAPS, WellFoundedInduction, SequenceTheorems,
        FiniteSetTheorems

-----------------------------------------------------------------------------
(* Induction on the naturals, stated with a set instead of a predicate.    *)

LessNat == OpToRel(<, Nat)

LEMMA LessNatDef == LessNat = {p \in Nat \X Nat : p[1] < p[2]}
BY DEF LessNat, OpToRel

LEMMA NatSetInduction ==
  ASSUME NEW S, 0 \in S, \A n \in Nat : n \in S => n + 1 \in S
  PROVE  Nat \subseteq S
<1> DEFINE T == Nat \ S
<1>1. SUFFICES ASSUME T # {} PROVE FALSE
  OBVIOUS
<1>2. IsWellFoundedOn(LessNat, Nat)
  BY NatLessThanWellFounded DEF LessNat
<1>3. PICK x \in T : \A y \in T : ~ (<<y, x>> \in LessNat)
  <2>1. T \subseteq Nat
    OBVIOUS
  <2> HIDE DEF T
  <2> QED
    BY <1>1, <1>2, <2>1, WFMin
<1>4. x # 0 /\ x - 1 \in Nat
  BY <1>3
<1>5. <<x - 1, x>> \in LessNat
  BY <1>3, <1>4, LessNatDef
<1>6. x - 1 \in S
  BY <1>3, <1>4, <1>5
<1> QED
  BY <1>3, <1>4, <1>6

(* The first place in a sequence that something is found at.               *)
LEMMA MinValue ==
  ASSUME NEW I, I \subseteq Nat, I # {}
  PROVE  Min(I) \in I /\ \A i \in I : Min(I) <= i
<1>1. IsWellFoundedOn(LessNat, Nat)
  BY NatLessThanWellFounded DEF LessNat
<1>2. PICK x \in I : \A y \in I : ~ (<<y, x>> \in LessNat)
  BY <1>1, WFMin
<1>3. ASSUME NEW y \in I
      PROVE  x <= y
  <2>1. x \in Nat /\ y \in Nat /\ ~ (<<y, x>> \in LessNat)
    BY <1>2
  <2>2. y < x => <<y, x>> \in LessNat
    BY <2>1, LessNatDef
  <2> QED
    BY <2>1, <2>2
<1> QED
  BY <1>3 DEF Min

LEMMA MaxValue ==
  ASSUME NEW n \in Nat, NEW I, I \subseteq 0 .. n, I # {}
  PROVE  Max(I) \in I
<1>1. PICK J : J = {n - i : i \in I}
  OBVIOUS
<1>2. J \subseteq Nat /\ J # {}
  <2>1. J # {}
    BY <1>1
  <2>2. ASSUME NEW i \in I
        PROVE  n - i \in Nat
    <3>1. i \in 0 .. n
      OBVIOUS
    <3> QED
      BY <3>1
  <2> QED
    BY <1>1, <2>1, <2>2
<1>3. Min(J) \in J /\ \A j \in J : Min(J) <= j
  BY <1>2, MinValue
<1>4. PICK k \in I : Min(J) = n - k
  BY <1>1, <1>3
<1>5. ASSUME NEW i \in I
      PROVE  k >= i
  <2>1. n - k <= n - i
    BY <1>1, <1>3, <1>4
  <2> QED
    BY <2>1
<1> QED
  BY <1>5 DEF Max

(* Where an element of a sequence is first; 0 where it is not in it.       *)
FirstPlace(seq, x) == SelectInSeq(seq, LAMBDA y : y = x)

LEMMA FirstPlaceValue ==
  ASSUME NEW T, NEW seq \in Seq(T), NEW x
  PROVE  /\ FirstPlace(seq, x) \in 0 .. Len(seq)
         /\ FirstPlace(seq, x) = 0 <=> \A i \in 1 .. Len(seq) : seq[i] # x
         /\ FirstPlace(seq, x) # 0 => seq[FirstPlace(seq, x)] = x
         /\ \A i \in 1 .. Len(seq) : i < FirstPlace(seq, x) => seq[i] # x
<1> DEFINE I == {i \in 1 .. Len(seq) : seq[i] = x}
<1>1. FirstPlace(seq, x) = IF I # {} THEN Min(I) ELSE 0
  BY DEF FirstPlace, SelectInSeq
<1>2. I \subseteq Nat /\ Len(seq) \in Nat
  OBVIOUS
<1>3. I # {} => Min(I) \in I /\ \A i \in I : Min(I) <= i
  <2> HIDE DEF I
  <2> QED
    BY <1>2, MinValue
<1>4. CASE I = {}
  <2>1. FirstPlace(seq, x) = 0
    BY <1>1, <1>4
  <2> QED
    BY <1>2, <1>4, <2>1
<1>5. CASE I # {}
  <2>1. FirstPlace(seq, x) \in I /\ \A i \in I : FirstPlace(seq, x) <= i
    BY <1>1, <1>3, <1>5
  <2> QED
    BY <1>2, <2>1
<1> QED
  BY <1>4, <1>5

(* Where it is last.                                                       *)
LastPlace(seq, x) == SelectLastInSeq(seq, LAMBDA y : y = x)

LEMMA LastPlaceValue ==
  ASSUME NEW T, NEW seq \in Seq(T), NEW x
  PROVE  /\ LastPlace(seq, x) \in 0 .. Len(seq)
         /\ LastPlace(seq, x) = 0 <=> \A i \in 1 .. Len(seq) : seq[i] # x
         /\ LastPlace(seq, x) # 0 => seq[LastPlace(seq, x)] = x
<1> DEFINE I == {i \in 1 .. Len(seq) : seq[i] = x}
<1>1. LastPlace(seq, x) = IF I # {} THEN Max(I) ELSE 0
  BY DEF LastPlace, SelectLastInSeq
<1>2. I \subseteq 0 .. Len(seq) /\ Len(seq) \in Nat
  OBVIOUS
<1>3. I # {} => Max(I) \in I
  <2> HIDE DEF I
  <2> QED
    BY <1>2, MaxValue
<1>4. CASE I = {}
  <2>1. LastPlace(seq, x) = 0
    BY <1>1, <1>4
  <2> QED
    BY <1>2, <1>4, <2>1
<1>5. CASE I # {}
  <2>1. LastPlace(seq, x) \in I
    BY <1>1, <1>3, <1>5
  <2> QED
    BY <1>2, <2>1
<1> QED
  BY <1>4, <1>5

-----------------------------------------------------------------------------
(* Removing one element.                                                   *)

LEMMA RemoveAtValue ==
  ASSUME NEW T, NEW seq \in Seq(T), NEW k \in 1 .. Len(seq)
  PROVE  /\ RemoveAt(seq, k) \in Seq(T)
         /\ Len(RemoveAt(seq, k)) = Len(seq) - 1
         /\ \A i \in 1 .. Len(seq) - 1 :
              RemoveAt(seq, k)[i] = IF i < k THEN seq[i] ELSE seq[i + 1]
<1> DEFINE a == SubSeq(seq, 1, k - 1)
           b == SubSeq(seq, k + 1, Len(seq))
<1>1. Len(seq) \in Nat /\ \A i \in 1 .. Len(seq) : seq[i] \in T
  OBVIOUS
<1>2. a \in Seq(T) /\ Len(a) = k - 1 /\ \A i \in 1 .. k - 1 : a[i] = seq[i]
  BY <1>1
<1>3. /\ b \in Seq(T) /\ Len(b) = Len(seq) - k
      /\ \A i \in 1 .. Len(seq) - k : b[i] = seq[i + k]
  BY <1>1
<1> HIDE DEF a, b
<1>4. /\ a \o b \in Seq(T) /\ Len(a \o b) = Len(seq) - 1
      /\ \A i \in 1 .. Len(seq) - 1 :
           (a \o b)[i] = IF i <= Len(a) THEN a[i] ELSE b[i - Len(a)]
  <2>1. Len(a) + Len(b) = Len(seq) - 1
    BY <1>1, <1>2, <1>3
  <2>2. /\ a \o b \in Seq(T) /\ Len(a \o b) = Len(a) + Len(b)
        /\ \A i \in 1 .. Len(a) + Len(b) :
             (a \o b)[i] = IF i <= Len(a) THEN a[i] ELSE b[i - Len(a)]
    BY <1>2, <1>3, ConcatProperties
  <2> QED
    BY <2>1, <2>2, Zenon
<1>5. ASSUME NEW i \in 1 .. Len(seq) - 1
      PROVE  (a \o b)[i] = IF i < k THEN seq[i] ELSE seq[i + 1]
  <2>1. (a \o b)[i] = IF i <= k - 1 THEN a[i] ELSE b[i - (k - 1)]
    BY <1>2, <1>4
  <2>2. CASE i < k
    <3>1. i <= k - 1 /\ i \in 1 .. k - 1
      BY <1>1, <2>2
    <3> QED
      BY <1>2, <2>1, <2>2, <3>1
  <2>3. CASE ~ (i < k)
    <3>1. ~ (i <= k - 1) /\ i - (k - 1) \in 1 .. Len(seq) - k /\ (i - (k - 1)) + k = i + 1
      BY <1>1, <2>3
    <3> QED
      BY <1>3, <2>1, <2>3, <3>1
  <2> QED
    BY <2>2, <2>3
<1> QED
  BY <1>4, <1>5 DEF RemoveAt, a, b

-----------------------------------------------------------------------------
(* The elements of a sequence.                                             *)

LEMMA RangeValue ==
  ASSUME NEW T, NEW seq \in Seq(T), NEW x
  PROVE  x \in Range(seq) <=> \E i \in 1 .. Len(seq) : seq[i] = x
<1>1. DOMAIN seq = 1 .. Len(seq)
  OBVIOUS
<1> QED
  BY <1>1, Zenon DEF Range

LEMMA AppendValue ==
  ASSUME NEW T, NEW seq \in Seq(T), NEW x \in T
  PROVE  /\ Append(seq, x) \in Seq(T)
         /\ Len(Append(seq, x)) = Len(seq) + 1 /\ Len(seq) \in Nat
         /\ \A i \in 1 .. Len(seq) : Append(seq, x)[i] = seq[i]
         /\ Append(seq, x)[Len(seq) + 1] = x
         /\ \A y : y \in Range(Append(seq, x)) <=> y \in Range(seq) \/ y = x
<1>1. /\ Append(seq, x) \in Seq(T)
      /\ Len(Append(seq, x)) = Len(seq) + 1 /\ Len(seq) \in Nat
      /\ \A i \in 1 .. Len(seq) : Append(seq, x)[i] = seq[i]
      /\ Append(seq, x)[Len(seq) + 1] = x
  BY AppendProperties
<1>2. ASSUME NEW y
      PROVE  y \in Range(Append(seq, x)) <=> y \in Range(seq) \/ y = x
  <2>1. y \in Range(Append(seq, x)) <=> \E i \in 1 .. Len(Append(seq, x)) : Append(seq, x)[i] = y
    BY <1>1, RangeValue
  <2>2. y \in Range(seq) <=> \E i \in 1 .. Len(seq) : seq[i] = y
    BY RangeValue
  <2>3. 1 .. Len(Append(seq, x)) = 1 .. Len(seq) \cup {Len(seq) + 1}
    BY <1>1
  <2> QED
    BY <1>1, <2>1, <2>2, <2>3
<1> QED
  BY <1>1, <1>2

LEMMA TailValue ==
  ASSUME NEW T, NEW seq \in Seq(T), seq # <<>>
  PROVE  /\ Head(seq) \in T /\ Head(seq) = seq[1]
         /\ Tail(seq) \in Seq(T) /\ Len(seq) \in Nat \ {0}
         /\ Len(Tail(seq)) = Len(seq) - 1
         /\ \A i \in 1 .. Len(seq) - 1 : Tail(seq)[i] = seq[i + 1]
         /\ \A y : y \in Range(seq) <=> y = Head(seq) \/ y \in Range(Tail(seq))
<1>1. /\ Head(seq) \in T /\ Tail(seq) \in Seq(T) /\ Len(seq) \in Nat \ {0}
      /\ Len(Tail(seq)) = Len(seq) - 1
      /\ \A i \in 1 .. Len(Tail(seq)) : Tail(seq)[i] = seq[i + 1]
  BY HeadTailProperties, EmptySeq
<1>2. Head(seq) = seq[1]
  OBVIOUS
<1>3. ASSUME NEW y
      PROVE  y \in Range(seq) <=> y = Head(seq) \/ y \in Range(Tail(seq))
  <2>1. y \in Range(seq) <=> \E i \in 1 .. Len(seq) : seq[i] = y
    BY RangeValue
  <2>2. y \in Range(Tail(seq)) <=> \E i \in 1 .. Len(seq) - 1 : Tail(seq)[i] = y
    BY <1>1, RangeValue
  <2>3. \A i \in 1 .. Len(seq) : i = 1 \/ (i - 1 \in 1 .. Len(seq) - 1 /\ (i - 1) + 1 = i)
    BY <1>1
  <2>4. \A i \in 1 .. Len(seq) - 1 : i + 1 \in 1 .. Len(seq)
    BY <1>1
  <2>5. 1 \in 1 .. Len(seq)
    BY <1>1
  <2> QED
    BY <1>1, <1>2, <2>1, <2>2, <2>3, <2>4, <2>5
<1> QED
  BY <1>1, <1>2, <1>3

-----------------------------------------------------------------------------
(* Sequences without duplicates, and the order of their elements.          *)

LEMMA InjectiveValue ==
  ASSUME NEW T, NEW seq \in Seq(T)
  PROVE  IsInjective(seq) <=> \A i, j \in 1 .. Len(seq) : seq[i] = seq[j] => i = j
<1>1. DOMAIN seq = 1 .. Len(seq)
  OBVIOUS
<1> QED
  BY <1>1, Zenon DEF IsInjective

\* x comes before y
Before(seq, x, y) == \E i, j \in 1 .. Len(seq) : i < j /\ seq[i] = x /\ seq[j] = y

LEMMA BeforeIsOrder ==
  ASSUME NEW T, NEW seq \in Seq(T), IsInjective(seq), NEW x, NEW y
  PROVE  /\ Before(seq, x, y) => x \in Range(seq) /\ y \in Range(seq) /\ x # y
         /\ ~(Before(seq, x, y) /\ Before(seq, y, x))
         /\ x \in Range(seq) /\ y \in Range(seq) /\ x # y => Before(seq, x, y) \/ Before(seq, y, x)
<1>1. /\ x \in Range(seq) <=> \E i \in 1 .. Len(seq) : seq[i] = x
      /\ y \in Range(seq) <=> \E i \in 1 .. Len(seq) : seq[i] = y
  BY RangeValue
<1>2. \A i, j \in 1 .. Len(seq) : seq[i] = seq[j] => i = j
  BY InjectiveValue
<1>3. Len(seq) \in Nat
  OBVIOUS
<1>4. \A i, j \in 1 .. Len(seq) : i < j \/ j < i \/ i = j
  BY <1>3
<1>5. \A i, j \in 1 .. Len(seq) : i < j => ~(j < i) /\ i # j
  BY <1>3
<1> QED
  BY <1>1, <1>2, <1>4, <1>5, Zenon DEF Before

LEMMA TailOfInjective ==
  ASSUME NEW T, NEW seq \in Seq(T), seq # <<>>, IsInjective(seq)
  PROVE  /\ IsInjective(Tail(seq)) /\ Head(seq) \notin Range(Tail(seq))
         /\ \A x, y : Before(Tail(seq), x, y) <=> Before(seq, x, y) /\ x # Head(seq)
         /\ \A y : Before(seq, Head(seq), y) <=> y \in Range(Tail(seq))
         /\ \A x : ~Before(seq, x, Head(seq))
<1> DEFINE n == Len(seq)
           t == Tail(seq)
<1>1. /\ Head(seq) = seq[1] /\ t \in Seq(T) /\ n \in Nat \ {0} /\ Len(t) = n - 1
      /\ \A i \in 1 .. n - 1 : t[i] = seq[i + 1]
  BY TailValue
<1>2. \A i, j \in 1 .. n : seq[i] = seq[j] => i = j
  BY InjectiveValue
<1> HIDE DEF t
<1>3. /\ \A i \in 1 .. n - 1 : i + 1 \in 1 .. n /\ i + 1 # 1
      /\ \A i \in 1 .. n : i # 1 => i - 1 \in 1 .. n - 1 /\ (i - 1) + 1 = i
      /\ 1 \in 1 .. n
  BY <1>1
<1>4. IsInjective(t)
  <2>1. ASSUME NEW i \in 1 .. n - 1, NEW j \in 1 .. n - 1, t[i] = t[j]
        PROVE  i = j
    <3>1. i + 1 = j + 1
      BY <1>1, <1>2, <1>3, <2>1
    <3> QED
      BY <1>1, <3>1
  <2> QED
    BY <1>1, <2>1, InjectiveValue
<1>5. ASSUME NEW y
      PROVE  y \in Range(t) <=> \E i \in 1 .. n - 1 : t[i] = y
  BY <1>1, RangeValue
<1>6. Head(seq) \notin Range(t)
  BY <1>1, <1>2, <1>3, <1>5
<1>7. ASSUME NEW x, NEW y
      PROVE  Before(t, x, y) <=> Before(seq, x, y) /\ x # Head(seq)
  <2>1. ASSUME NEW i \in 1 .. n - 1, NEW j \in 1 .. n - 1, i < j, t[i] = x, t[j] = y
        PROVE  Before(seq, x, y) /\ x # Head(seq)
    <3>1. i + 1 < j + 1 /\ seq[i + 1] = x /\ seq[j + 1] = y /\ i + 1 \in 1 .. n /\ j + 1 \in 1 .. n
      BY <1>1, <1>3, <2>1
    <3>2. x # seq[1]
      BY <1>2, <1>3, <3>1
    <3> QED
      BY <1>1, <3>1, <3>2 DEF Before
  <2>2. ASSUME NEW i \in 1 .. n, NEW j \in 1 .. n, i < j, seq[i] = x, seq[j] = y, x # Head(seq)
        PROVE  Before(t, x, y)
    <3>1. i # 1 /\ j # 1 /\ i - 1 < j - 1
      BY <1>1, <2>2
    <3>2. i - 1 \in 1 .. n - 1 /\ j - 1 \in 1 .. n - 1 /\ t[i - 1] = x /\ t[j - 1] = y
      BY <1>1, <1>3, <2>2, <3>1
    <3> QED
      BY <1>1, <3>1, <3>2 DEF Before
  <2> QED
    BY <1>1, <2>1, <2>2 DEF Before
<1>8. ASSUME NEW y
      PROVE  Before(seq, Head(seq), y) <=> y \in Range(t)
  <2>1. ASSUME NEW i \in 1 .. n - 1, t[i] = y
        PROVE  Before(seq, Head(seq), y)
    <3>1. 1 < i + 1 /\ seq[i + 1] = y
      BY <1>1, <2>1
    <3> QED
      BY <1>1, <1>3, <3>1 DEF Before
  <2>2. ASSUME NEW i \in 1 .. n, NEW j \in 1 .. n, i < j, seq[j] = y
        PROVE  \E k \in 1 .. n - 1 : t[k] = y
    <3>1. j # 1
      BY <1>1, <2>2
    <3>2. j - 1 \in 1 .. n - 1 /\ t[j - 1] = y
      BY <1>1, <1>3, <2>2, <3>1
    <3> QED
      BY <3>2
  <2> QED
    BY <1>5, <2>1, <2>2 DEF Before
<1>9. ASSUME NEW x
      PROVE  ~Before(seq, x, Head(seq))
  <2>1. ASSUME NEW i \in 1 .. n, NEW j \in 1 .. n, i < j, seq[j] = Head(seq)
        PROVE  FALSE
    <3>1. j = 1
      BY <1>1, <1>2, <1>3, <2>1
    <3> QED
      BY <1>1, <2>1, <3>1
  <2> QED
    BY <2>1 DEF Before
<1> QED
  BY <1>4, <1>6, <1>7, <1>8, <1>9 DEF t

LEMMA AppendToInjective ==
  ASSUME NEW T, NEW seq \in Seq(T), NEW x \in T, IsInjective(seq), x \notin Range(seq)
  PROVE  /\ IsInjective(Append(seq, x))
         /\ \A y, z : Before(Append(seq, x), y, z) <=> Before(seq, y, z) \/ (y \in Range(seq) /\ z = x)
<1> DEFINE n == Len(seq)
           a == Append(seq, x)
<1>1. /\ a \in Seq(T) /\ Len(a) = n + 1 /\ n \in Nat
      /\ \A i \in 1 .. n : a[i] = seq[i]
      /\ a[n + 1] = x
  BY AppendValue
<1> HIDE DEF a
<1>2. \A i, j \in 1 .. n : seq[i] = seq[j] => i = j
  BY InjectiveValue
<1>3. ASSUME NEW y
      PROVE  y \in Range(seq) <=> \E i \in 1 .. n : seq[i] = y
  BY RangeValue
<1>4. \A i \in 1 .. n : seq[i] # x
  BY <1>3
<1>5. \A i \in 1 .. n + 1 : i \in 1 .. n \/ i = n + 1
  BY <1>1
<1>6. IsInjective(a)
  <2>1. ASSUME NEW i \in 1 .. n + 1, NEW j \in 1 .. n + 1, a[i] = a[j]
        PROVE  i = j
    BY <1>1, <1>2, <1>4, <1>5, <2>1
  <2> QED
    BY <1>1, <2>1, InjectiveValue
<1>7. ASSUME NEW y, NEW z
      PROVE  Before(a, y, z) <=> Before(seq, y, z) \/ (y \in Range(seq) /\ z = x)
  <2>1. ASSUME NEW i \in 1 .. n + 1, NEW j \in 1 .. n + 1, i < j, a[i] = y, a[j] = z
        PROVE  Before(seq, y, z) \/ (y \in Range(seq) /\ z = x)
    <3>1. i \in 1 .. n /\ seq[i] = y
      BY <1>1, <2>1
    <3>2. CASE j = n + 1
      BY <1>1, <1>3, <2>1, <3>1, <3>2
    <3>3. CASE j \in 1 .. n
      BY <1>1, <2>1, <3>1, <3>3 DEF Before
    <3> QED
      BY <1>5, <3>2, <3>3
  <2>2. ASSUME NEW i \in 1 .. n, NEW j \in 1 .. n, i < j, seq[i] = y, seq[j] = z
        PROVE  Before(a, y, z)
    <3>1. i \in 1 .. n + 1 /\ j \in 1 .. n + 1 /\ a[i] = y /\ a[j] = z
      BY <1>1, <2>2
    <3> QED
      BY <1>1, <2>2, <3>1 DEF Before
  <2>3. ASSUME NEW i \in 1 .. n, seq[i] = y, z = x
        PROVE  Before(a, y, z)
    <3>1. i \in 1 .. n + 1 /\ n + 1 \in 1 .. n + 1 /\ i < n + 1 /\ a[i] = y
      BY <1>1, <2>3
    <3> QED
      BY <1>1, <2>3, <3>1 DEF Before
  <2> QED
    BY <1>1, <1>3, <2>1, <2>2, <2>3 DEF Before
<1> QED
  BY <1>6, <1>7 DEF a

LEMMA RemoveFromInjective ==
  ASSUME NEW T, NEW seq \in Seq(T), IsInjective(seq), NEW k \in 1 .. Len(seq)
  PROVE  /\ IsInjective(RemoveAt(seq, k))
         /\ \A y : y \in Range(RemoveAt(seq, k)) <=> y \in Range(seq) /\ y # seq[k]
         /\ \A x, y : Before(RemoveAt(seq, k), x, y) <=> Before(seq, x, y) /\ x # seq[k] /\ y # seq[k]
<1> DEFINE n == Len(seq)
           r == RemoveAt(seq, k)
<1>1. /\ r \in Seq(T) /\ Len(r) = n - 1 /\ n \in Nat
      /\ \A i \in 1 .. n - 1 : r[i] = IF i < k THEN seq[i] ELSE seq[i + 1]
  BY RemoveAtValue
<1> HIDE DEF r
<1>2. \A i, j \in 1 .. n : seq[i] = seq[j] => i = j
  BY InjectiveValue
\* where an element of the shorter sequence was, and where the others went
<1>3. ASSUME NEW i \in 1 .. n - 1
      PROVE  \E a \in 1 .. n : a # k /\ r[i] = seq[a] /\ a = IF i < k THEN i ELSE i + 1
  <2>1. CASE i < k
    BY <1>1, <2>1
  <2>2. CASE ~(i < k)
    BY <1>1, <2>2
  <2> QED
    BY <2>1, <2>2
<1>4. ASSUME NEW a \in 1 .. n, a # k
      PROVE  \E i \in 1 .. n - 1 : r[i] = seq[a] /\ a = IF i < k THEN i ELSE i + 1
  <2>1. CASE a < k
    <3>1. a \in 1 .. n - 1 /\ r[a] = seq[a]
      BY <1>1, <2>1
    <3> QED
      BY <2>1, <3>1
  <2>2. CASE a > k
    <3>1. a - 1 \in 1 .. n - 1 /\ ~(a - 1 < k) /\ (a - 1) + 1 = a
      BY <1>1, <2>2
    <3>2. r[a - 1] = seq[a]
      BY <1>1, <3>1
    <3> QED
      BY <3>1, <3>2
  <2> QED
    BY <1>1, <1>4, <2>1, <2>2
<1>5. ASSUME NEW i \in 1 .. n - 1, NEW j \in 1 .. n - 1,
             NEW a \in Int, NEW b \in Int,
             a = IF i < k THEN i ELSE i + 1, b = IF j < k THEN j ELSE j + 1
      PROVE  (i < j <=> a < b) /\ (a = b => i = j)
  BY <1>1, <1>5
<1>6. IsInjective(r)
  <2>1. ASSUME NEW i \in 1 .. n - 1, NEW j \in 1 .. n - 1, r[i] = r[j]
        PROVE  i = j
    <3>1. PICK a \in 1 .. n : a # k /\ r[i] = seq[a] /\ a = IF i < k THEN i ELSE i + 1
      BY <1>3
    <3>2. PICK b \in 1 .. n : b # k /\ r[j] = seq[b] /\ b = IF j < k THEN j ELSE j + 1
      BY <1>3
    <3>3. a = b
      BY <1>2, <2>1, <3>1, <3>2
    <3> QED
      BY <1>5, <3>1, <3>2, <3>3
  <2> QED
    BY <1>1, <2>1, InjectiveValue
<1>7. ASSUME NEW y
      PROVE  y \in Range(r) <=> y \in Range(seq) /\ y # seq[k]
  <2>1. /\ y \in Range(r) <=> \E i \in 1 .. n - 1 : r[i] = y
        /\ y \in Range(seq) <=> \E i \in 1 .. n : seq[i] = y
    BY <1>1, RangeValue
  <2>2. ASSUME NEW i \in 1 .. n - 1, r[i] = y
        PROVE  \E a \in 1 .. n : seq[a] = y /\ y # seq[k]
    BY <1>2, <1>3, <2>2
  <2>3. ASSUME NEW a \in 1 .. n, seq[a] = y, y # seq[k]
        PROVE  \E i \in 1 .. n - 1 : r[i] = y
    <3>1. a # k
      BY <2>3
    <3> QED
      BY <1>4, <2>3, <3>1
  <2> QED
    BY <2>1, <2>2, <2>3
<1>8. ASSUME NEW x, NEW y
      PROVE  Before(r, x, y) <=> Before(seq, x, y) /\ x # seq[k] /\ y # seq[k]
  <2>1. ASSUME NEW i \in 1 .. n - 1, NEW j \in 1 .. n - 1, i < j, r[i] = x, r[j] = y
        PROVE  Before(seq, x, y) /\ x # seq[k] /\ y # seq[k]
    <3>1. PICK a \in 1 .. n : a # k /\ r[i] = seq[a] /\ a = IF i < k THEN i ELSE i + 1
      BY <1>3
    <3>2. PICK b \in 1 .. n : b # k /\ r[j] = seq[b] /\ b = IF j < k THEN j ELSE j + 1
      BY <1>3
    <3>3. a < b
      BY <1>5, <2>1, <3>1, <3>2
    <3>4. x # seq[k] /\ y # seq[k]
      BY <1>2, <2>1, <3>1, <3>2
    <3> QED
      BY <2>1, <3>1, <3>2, <3>3, <3>4 DEF Before
  <2>2. ASSUME NEW a \in 1 .. n, NEW b \in 1 .. n, a < b, seq[a] = x, seq[b] = y,
               x # seq[k], y # seq[k]
        PROVE  Before(r, x, y)
    <3>1. a # k /\ b # k
      BY <2>2
    <3>2. PICK i \in 1 .. n - 1 : r[i] = seq[a] /\ a = IF i < k THEN i ELSE i + 1
      BY <1>4, <3>1
    <3>3. PICK j \in 1 .. n - 1 : r[j] = seq[b] /\ b = IF j < k THEN j ELSE j + 1
      BY <1>4, <3>1
    <3>4. i < j
      BY <1>5, <2>2, <3>2, <3>3
    <3> QED
      BY <1>1, <2>2, <3>2, <3>3, <3>4 DEF Before
  <2> QED
    BY <1>1, <2>1, <2>2 DEF Before
<1> QED
  BY <1>6, <1>7, <1>8 DEF r

(* Elements that are all found in a stretch of another sequence need one   *)
(* as long.                                                                *)
LEMMA StretchFits ==
  ASSUME NEW T, NEW p \in Seq(T), NEW q \in Seq(T),
         NEW i \in 0 .. Len(p), NEW k \in 0 .. Len(q),
         \A a, b \in 1 .. i : p[a] = p[b] => a = b,
         \A a \in 1 .. i : \E b \in 1 .. k : q[b] = p[a]
  PROVE  i <= k
<1> DEFINE f == [a \in 1 .. i |-> CHOOSE b \in 1 .. k : q[b] = p[a]]
<1>1. \A a \in 1 .. i : f[a] \in 1 .. k /\ q[f[a]] = p[a]
  OBVIOUS
<1>2. f \in [1 .. i -> 1 .. k] /\ DOMAIN f = 1 .. i
  BY <1>1
<1> HIDE DEF f
<1>3. \A a, b \in 1 .. i : f[a] = f[b] => a = b
  BY <1>1
<1>4. f \in Injection(1 .. i, 1 .. k)
  BY <1>2, <1>3 DEF Injection, IsInjective
<1>5. ASSUME NEW n \in Nat
      PROVE  IsFiniteSet(1 .. n) /\ Cardinality(1 .. n) = n
  <2>1. 1 \in Int /\ n \in Int
    OBVIOUS
  <2>2. IsFiniteSet(1 .. n) /\ Cardinality(1 .. n) = IF 1 > n THEN 0 ELSE n - 1 + 1
    BY <2>1, FS_Interval
  <2> QED
    BY <2>2
<1>6. i \in Nat /\ k \in Nat
  OBVIOUS
<1>7. Cardinality(1 .. i) <= Cardinality(1 .. k)
  BY <1>4, <1>5, <1>6, FS_Injection
<1> QED
  BY <1>5, <1>6, <1>7

LEMMA PlaceInInjective ==
  ASSUME NEW T, NEW seq \in Seq(T), IsInjective(seq), NEW i \in 1 .. Len(seq)
  PROVE  FirstPlace(seq, seq[i]) = i
<1>1. /\ FirstPlace(seq, seq[i]) \in 0 .. Len(seq)
      /\ FirstPlace(seq, seq[i]) # 0 => seq[FirstPlace(seq, seq[i])] = seq[i]
      /\ FirstPlace(seq, seq[i]) = 0 <=> \A j \in 1 .. Len(seq) : seq[j] # seq[i]
  BY FirstPlaceValue
<1>2. \A a, b \in 1 .. Len(seq) : seq[a] = seq[b] => a = b
  BY InjectiveValue
<1> QED
  BY <1>1, <1>2

(* What has the same elements before it has the same place.                *)
LEMMA PlaceNotBehind ==
  ASSUME NEW T, NEW p \in Seq(T), NEW q \in Seq(T), IsInjective(p), IsInjective(q),
         NEW x, NEW i \in 1 .. Len(p), NEW k \in 1 .. Len(q), p[i] = x, q[k] = x,
         \A y : Before(p, y, x) => Before(q, y, x)
  PROVE  i <= k
<1>1. PICK m \in 0 .. Len(p), n \in 0 .. Len(q) : m = i - 1 /\ n = k - 1
  OBVIOUS
<1>2. /\ \A a \in 1 .. m : a \in 1 .. Len(p) /\ a < i
      /\ \A b \in 1 .. Len(q) : b < k => b \in 1 .. n
  BY <1>1
<1>3. /\ \A a, b \in 1 .. Len(p) : p[a] = p[b] => a = b
      /\ \A a, b \in 1 .. Len(q) : q[a] = q[b] => a = b
  BY InjectiveValue
<1>4. ASSUME NEW a \in 1 .. m
      PROVE  \E b \in 1 .. n : q[b] = p[a]
  <2>1. Before(p, p[a], x)
    BY <1>2 DEF Before
  <2>2. Before(q, p[a], x)
    BY <2>1
  <2>3. PICK b, c \in 1 .. Len(q) : b < c /\ q[b] = p[a] /\ q[c] = x
    BY <2>2 DEF Before
  <2>4. c = k
    BY <1>3, <2>3
  <2> QED
    BY <1>2, <2>3, <2>4
<1>5. \A a, b \in 1 .. m : p[a] = p[b] => a = b
  BY <1>2, <1>3
<1>6. m <= n
  BY <1>4, <1>5, StretchFits
<1> QED
  BY <1>1, <1>6

LEMMA SamePlace ==
  ASSUME NEW T, NEW p \in Seq(T), NEW q \in Seq(T), IsInjective(p), IsInjective(q),
         NEW x \in Range(p), x \in Range(q), \A y : Before(p, y, x) <=> Before(q, y, x)
  PROVE  FirstPlace(p, x) = FirstPlace(q, x)
<1>1. PICK i \in 1 .. Len(p) : p[i] = x
  BY RangeValue
<1>2. PICK k \in 1 .. Len(q) : q[k] = x
  BY RangeValue
<1>3. FirstPlace(p, x) = i
  BY <1>1, PlaceInInjective
<1>4. FirstPlace(q, x) = k
  BY <1>2, PlaceInInjective
<1>5. i <= k
  BY <1>1, <1>2, PlaceNotBehind
<1>6. k <= i
  BY <1>1, <1>2, PlaceNotBehind
<1> QED
  BY <1>3, <1>4, <1>5, <1>6

LEMMA SameLength ==
  ASSUME NEW T, NEW p \in Seq(T), NEW q \in Seq(T), IsInjective(p), IsInjective(q),
         Range(p) = Range(q)
  PROVE  Len(p) = Len(q)
<1>1. /\ Len(p) \in Nat /\ Len(q) \in Nat
      /\ Len(p) \in 0 .. Len(p) /\ Len(q) \in 0 .. Len(q)
  OBVIOUS
<1>2. /\ \A a, b \in 1 .. Len(p) : p[a] = p[b] => a = b
      /\ \A a, b \in 1 .. Len(q) : q[a] = q[b] => a = b
  BY InjectiveValue
<1>3. /\ \A a \in 1 .. Len(p) : \E b \in 1 .. Len(q) : q[b] = p[a]
      /\ \A a \in 1 .. Len(q) : \E b \in 1 .. Len(p) : p[b] = q[a]
  BY RangeValue
<1>4. Len(p) <= Len(q)
  BY <1>1, <1>2, <1>3, StretchFits
<1>5. Len(q) <= Len(p)
  BY <1>1, <1>2, <1>3, StretchFits
<1> QED
  BY <1>1, <1>4, <1>5

LEMMA EmptyValue ==
  ASSUME NEW T
  PROVE  /\ <<>> \in Seq(T) /\ Len(<<>>) = 0 /\ Range(<<>>) = {} /\ IsInjective(<<>>)
         /\ \A x, y : ~Before(<<>>, x, y)
<1>1. PICK e \in Seq(T) : e = <<>> /\ Len(e) = 0
  BY EmptySeq
<1>2. 1 .. Len(e) = {}
  BY <1>1
<1>3. Range(e) = {}
  BY <1>2, RangeValue
<1>4. IsInjective(e)
  BY <1>2, InjectiveValue
<1>5. \A x, y : ~Before(e, x, y)
  BY <1>2 DEF Before
<1> QED
  BY <1>1, <1>3, <1>4, <1>5

(* Every element of a finite set, once each.                               *)
LEMMA SetToSeqValue ==
  ASSUME NEW S, IsFiniteSet(S)
  PROVE  /\ SetToSeq(S) \in Seq(S)
         /\ IsInjective(SetToSeq(S))
         /\ Range(SetToSeq(S)) = S
<1> DEFINE n == Cardinality(S)
           g == SetToSeq(S)
<1>1. n \in Nat /\ ExistsBijection(1 .. n, S)
  BY FS_CardinalityType
<1>2. \E f \in [1 .. n -> S] : IsInjective(f)
  BY <1>1 DEF ExistsBijection, Bijection, Injection
<1>3. g \in [1 .. n -> S] /\ IsInjective(g)
  BY <1>2 DEF SetToSeq
<1>4. g \in Injection(1 .. n, S)
  BY <1>3 DEF Injection
<1>5. Cardinality(1 .. n) = n
  BY <1>1, FS_Interval
<1> HIDE DEF n, g
<1>6. g \in Surjection(1 .. n, S)
  BY <1>4, <1>5, FS_Injection DEF n
<1>7. \A s \in S : \E i \in 1 .. n : g[i] = s
  BY <1>6 DEF Surjection
<1>8. g \in Seq(S)
  BY <1>1, <1>3
<1>9. Range(g) = S
  BY <1>3, <1>7 DEF Range
<1> QED
  BY <1>3, <1>8, <1>9 DEF g
=============================================================================
