--------------------------- MODULE SelectionProofs ---------------------------
(***************************************************************************)
(* Lemmas about the selection of rows: the positions 1, 2, ... of what was *)
(* selected are those of the table that were asked for, in their order.    *)
(***************************************************************************)
EXTENDS Selection, SequencesExt, FiniteSetTheorems, SequenceTheorems,
        WellFoundedInduction, TLAPS

LEMMA Least ==
    ASSUME NEW T, T \subseteq Nat, T # {}
    PROVE  \E i \in T : \A j \in T : i <= j
<1>1. \E i \in T : \A j \in T : ~(j < i)
  <2> PICK less : less = OpToRel(<, Nat)
    OBVIOUS
  <2>1. IsWellFoundedOn(less, Nat)
    BY NatLessThanWellFounded
  <2>2. \E i \in T : \A j \in T : <<j, i>> \notin less
    BY <2>1, WFMin
  <2>3. \A i, j \in Nat : j < i => <<j, i>> \in less
    BY DEF OpToRel
  <2> QED
    BY <2>2, <2>3
<1> QED
  BY <1>1

\* Every number up to how many they are has its position.
LEMMA NthExists ==
    ASSUME NEW len \in Nat, NEW I, I \subseteq 1 .. len, NEW n \in 1 .. Cardinality(I)
    PROVE  \E i \in I : Cardinality(Upto(I, i)) = n
<1> DEFINE upto(k) == Upto(I, k)
<1>0. \A j \in I : j \in Nat /\ 1 <= j /\ j <= len
  OBVIOUS
<1>1. IsFiniteSet(I) /\ Cardinality(I) \in Nat
  <2>1. IsFiniteSet(1 .. len)
    BY FS_Interval
  <2> QED
    BY <2>1, FS_Subset, FS_CardinalityType
<1>2. \A k : upto(k) \subseteq I /\ IsFiniteSet(upto(k)) /\ Cardinality(upto(k)) \in Nat
  <2>1. \A k : upto(k) \subseteq I
    BY DEF Upto
  <2> QED
    BY <1>1, <2>1, FS_Subset, FS_CardinalityType
<1> DEFINE enough == {k \in 0 .. len : Cardinality(upto(k)) >= n}
<1>3. len \in enough
  <2>1. upto(len) = I
    BY <1>0 DEF Upto
  <2> QED
    BY <1>1, <2>1
<1>4. PICK m \in enough : \A k \in enough : m <= k
  <2>1. enough \subseteq Nat
    OBVIOUS
  <2> QED
    BY <1>3, <2>1, Least
<1>5. m > 0
  <2> SUFFICES ASSUME m = 0 PROVE FALSE
    BY <1>4
  <2>1. upto(0) = {}
    <3>1. \A j \in I : ~(j <= 0)
      BY ONLY <1>0
    <3> QED
      BY ONLY <3>1 DEF Upto
  <2>2. Cardinality(upto(0)) = 0
    BY <2>1, FS_EmptySet
  <2> QED
    BY <1>4, <2>2
<1>6. m - 1 \in 0 .. len /\ ~(Cardinality(upto(m - 1)) >= n)
  <2>1. m \in Nat /\ m <= len
    BY <1>4
  <2>2. m - 1 \in 0 .. len /\ ~(m <= m - 1)
    BY <1>5, <2>1
  <2> QED
    BY <1>4, <2>2
<1>7. upto(m) = upto(m - 1) \cup ({m} \cap I)
  <2>1. m \in Nat
    BY <1>4
  <2>2. \A j \in Nat : j <= m <=> j <= m - 1 \/ j = m
    BY <2>1
  <2> QED
    BY ONLY <1>0, <2>1, <2>2 DEF Upto
<1>8. m \in I /\ Cardinality(upto(m)) <= Cardinality(upto(m - 1)) + 1
  <2>1. CASE m \notin I
    <3>1. upto(m) = upto(m - 1)
      BY <1>7, <2>1
    <3> QED
      BY <1>4, <1>6, <3>1
  <2>2. CASE m \in I
    <3>1. upto(m) = upto(m - 1) \cup {m} /\ m \notin upto(m - 1)
      BY <1>4, <1>7, <2>2 DEF Upto
    <3> DEFINE less == upto(m - 1)
    <3>2. IsFiniteSet(less)
      BY <1>2
    <3>3. Cardinality(less \cup {m}) = Cardinality(less) + 1
      <4> HIDE DEF less
      <4>1. m \notin less
        BY <3>1 DEF less
      <4> QED
        BY <3>2, <4>1, FS_AddElement
    <3> QED
      BY <1>2, <2>2, <3>1, <3>3
  <2> QED
    BY <2>1, <2>2
<1>9. Cardinality(upto(m)) = n
  <2>1. \A a, b \in Nat : a >= n /\ ~(b >= n) /\ a <= b + 1 => a = n
    BY <1>1
  <2>2. Cardinality(upto(m)) >= n
    BY <1>4
  <2> QED
    BY ONLY <1>2, <1>6, <1>8, <2>1, <2>2
<1> QED
  BY <1>8, <1>9

LEMMA NthPosition ==
    ASSUME NEW len \in Nat, NEW I, I \subseteq 1 .. len
    PROVE  /\ Cardinality(I) \in Nat
           /\ \A n \in 1 .. Cardinality(I) :
                 Nth(I, n) \in I /\ Cardinality(Upto(I, Nth(I, n))) = n
           /\ \A m, n \in 1 .. Cardinality(I) : m < n => Nth(I, m) < Nth(I, n)
<1>1. IsFiniteSet(I) /\ Cardinality(I) \in Nat
  <2>1. IsFiniteSet(1 .. len)
    BY FS_Interval
  <2> QED
    BY <2>1, FS_Subset, FS_CardinalityType
<1>2. \A n \in 1 .. Cardinality(I) :
          Nth(I, n) \in I /\ Cardinality(Upto(I, Nth(I, n))) = n
  <2> SUFFICES ASSUME NEW n \in 1 .. Cardinality(I)
               PROVE  Nth(I, n) \in I /\ Cardinality(Upto(I, Nth(I, n))) = n
    OBVIOUS
  <2>1. \E i \in I : Cardinality(Upto(I, i)) = n
    BY NthExists
  <2> QED
    BY <2>1, Zenon DEF Nth
<1>3. ASSUME NEW m \in 1 .. Cardinality(I), NEW n \in 1 .. Cardinality(I), m < n
      PROVE  Nth(I, m) < Nth(I, n)
  <2>0. Nth(I, m) \in Nat /\ Nth(I, n) \in Nat
    <3>1. Nth(I, m) \in I /\ Nth(I, n) \in I
      BY <1>2
    <3>2. \A j \in I : j \in Nat
      OBVIOUS
    <3> QED
      BY ONLY <3>1, <3>2
  <2> SUFFICES ASSUME Nth(I, n) <= Nth(I, m) PROVE FALSE
    BY <2>0
  <2> DEFINE A == Upto(I, Nth(I, n))
             B == Upto(I, Nth(I, m))
  <2>1. A \subseteq B /\ B \subseteq I
    <3>1. \A j \in I : j \in Nat
      OBVIOUS
    <3> QED
      BY ONLY <2>0, <3>1, Nth(I, n) <= Nth(I, m) DEF Upto
  <2>2. Cardinality(A) = n /\ Cardinality(B) = m
    BY <1>2
  <2> HIDE DEF A, B
  <2>3. IsFiniteSet(B) /\ Cardinality(A) <= Cardinality(B)
    BY <1>1, <2>1, FS_Subset
  <2> QED
    BY <1>1, <1>3, <2>2, <2>3
<1> QED
  BY <1>1, <1>2, <1>3

\* t is some of s, in the same order.
PartOf(t, s) ==
    /\ \A n \in DOMAIN t : \E i \in DOMAIN s : t[n] = s[i]
    /\ \A m, n \in DOMAIN t :
          m < n => \E i, j \in DOMAIN s : i < j /\ t[m] = s[i] /\ t[n] = s[j]

LEMMA RowsAtPart ==
    ASSUME NEW S, NEW s \in Seq(S), NEW I, I \subseteq DOMAIN s
    PROVE  /\ RowsAt(s, I) \in Seq(S) /\ PartOf(RowsAt(s, I), s)
           /\ \A n \in DOMAIN RowsAt(s, I) : \E i \in I : RowsAt(s, I)[n] = s[i]
<1> DEFINE t == RowsAt(s, I)
<1>1. Len(s) \in Nat /\ DOMAIN s = 1 .. Len(s) /\ \A i \in 1 .. Len(s) : s[i] \in S
  BY LenProperties, ElementOfSeq
<1>2. /\ Cardinality(I) \in Nat
      /\ \A n \in 1 .. Cardinality(I) : Nth(I, n) \in I
      /\ \A m, n \in 1 .. Cardinality(I) : m < n => Nth(I, m) < Nth(I, n)
  BY <1>1, NthPosition
<1>3. t = [n \in 1 .. Cardinality(I) |-> s[Nth(I, n)]]
  BY DEF RowsAt
<1>4. t \in [1 .. Cardinality(I) -> S]
  BY <1>1, <1>2, <1>3
<1>5. t \in Seq(S)
  BY <1>2, <1>4, SeqDef
<1> HIDE DEF t
<1>6. DOMAIN t = 1 .. Cardinality(I)
      /\ \A n \in 1 .. Cardinality(I) : t[n] = s[Nth(I, n)] /\ Nth(I, n) \in DOMAIN s
  BY <1>2, <1>3
<1>7. PartOf(t, s) /\ \A n \in DOMAIN t : \E i \in I : t[n] = s[i]
  BY <1>2, <1>6 DEF PartOf
<1> QED
  BY <1>5, <1>7 DEF t

LEMMA PartOfPart ==
    ASSUME NEW r, NEW s, NEW t, PartOf(r, s), PartOf(s, t)
    PROVE  PartOf(r, t)
BY DEF PartOf

-----------------------------------------------------------------------------
(***************************************************************************)
(* The same rows backwards.  The place of a row there is how many of the   *)
(* positions are no less than its own.                                     *)
(***************************************************************************)
AtLeast(positions, i) == {j \in positions : j >= i}

LEMMA UptoAtLeast ==
    ASSUME NEW len \in Nat, NEW I, I \subseteq 1 .. len, NEW i \in I
    PROVE  /\ Cardinality(AtLeast(I, i)) = Cardinality(I) + 1 - Cardinality(Upto(I, i))
           /\ Cardinality(AtLeast(I, i)) \in 1 .. Cardinality(I)
           /\ Cardinality(Upto(I, i)) \in 1 .. Cardinality(I)
<1> DEFINE A == AtLeast(I, i)
           B == Upto(I, i)
<1>1. IsFiniteSet(I) /\ \A j \in I : j \in Nat
  <2>1. IsFiniteSet(1 .. len)
    BY FS_Interval
  <2>2. IsFiniteSet(I)
    BY <2>1, FS_Subset
  <2> QED
    BY <2>2
<1>2. A \cup B = I /\ A \cap B = {i} /\ A \subseteq I /\ B \subseteq I /\ i \in A /\ i \in B
  <2>1. i \in I /\ i \in Nat /\ \A j \in Nat : (j >= i \/ j <= i) /\ (j >= i /\ j <= i <=> j = i)
    BY <1>1
  <2> QED
    BY ONLY <1>1, <2>1 DEF AtLeast, Upto
<1> HIDE DEF A, B
<1>3. IsFiniteSet(A) /\ IsFiniteSet(B) /\ Cardinality({i}) = 1
  BY <1>1, <1>2, FS_Subset, FS_Singleton
<1>4. Cardinality(I) = Cardinality(A) + Cardinality(B) - 1
  BY <1>2, <1>3, FS_Union
<1>5. /\ Cardinality(I) \in Nat /\ Cardinality(A) \in Nat /\ Cardinality(B) \in Nat
      /\ Cardinality(A) <= Cardinality(I) /\ Cardinality(B) <= Cardinality(I)
  BY <1>1, <1>2, <1>3, FS_CardinalityType, FS_Subset
<1>6. Cardinality(A) # 0 /\ Cardinality(B) # 0
  BY <1>2, <1>3, FS_EmptySet
<1> QED
  BY <1>4, <1>5, <1>6 DEF A, B

LEMMA UptoOnce ==
    ASSUME NEW len \in Nat, NEW I, I \subseteq 1 .. len, NEW i \in I, NEW j \in I, i < j
    PROVE  Cardinality(Upto(I, i)) < Cardinality(Upto(I, j))
<1> DEFINE A == Upto(I, i)
           B == Upto(I, j)
<1>1. IsFiniteSet(I) /\ \A k \in I : k \in Nat
  <2>1. IsFiniteSet(1 .. len)
    BY FS_Interval
  <2>2. IsFiniteSet(I)
    BY <2>1, FS_Subset
  <2> QED
    BY <2>2
<1>2. A \subseteq B /\ j \in B /\ j \notin A /\ B \subseteq I
  <2>1. /\ i \in I /\ j \in I /\ i \in Nat /\ j \in Nat
        /\ ~(j <= i) /\ j <= j /\ \A k \in Nat : k <= i => k <= j
    BY <1>1
  <2> QED
    BY ONLY <1>1, <2>1, Zenon DEF Upto
<1> HIDE DEF A, B
<1>3. IsFiniteSet(B) /\ IsFiniteSet(A)
  BY <1>1, <1>2, FS_Subset
<1>4. Cardinality(A) <= Cardinality(B) /\ Cardinality(A) # Cardinality(B)
  BY <1>2, <1>3, FS_Subset
<1> QED
  BY <1>3, <1>4, FS_CardinalityType DEF A, B

LEMMA Backwards ==
    ASSUME NEW S, NEW s \in Seq(S), NEW I, I \subseteq DOMAIN s
    PROVE  /\ Reverse(RowsAt(s, I)) \in Seq(S)
           /\ Len(Reverse(RowsAt(s, I))) = Cardinality(I)
           /\ \A n \in 1 .. Cardinality(I) :
                 \E i \in I : /\ Reverse(RowsAt(s, I))[n] = s[i]
                             /\ Cardinality(AtLeast(I, i)) = n
           /\ \A i \in I :
                 /\ Cardinality(AtLeast(I, i)) \in 1 .. Cardinality(I)
                 /\ Reverse(RowsAt(s, I))[Cardinality(AtLeast(I, i))] = s[i]
<1> DEFINE size == Cardinality(I)
           rows == RowsAt(s, I)
           back == Reverse(rows)
<1>1. Len(s) \in Nat /\ I \subseteq 1 .. Len(s)
  BY LenProperties
<1>2. /\ size \in Nat
      /\ \A n \in 1 .. size : Nth(I, n) \in I /\ Cardinality(Upto(I, Nth(I, n))) = n
  BY <1>1, NthPosition
<1>3. rows \in Seq(S)
  BY RowsAtPart
<1>4. rows = [n \in 1 .. size |-> s[Nth(I, n)]]
  BY DEF RowsAt
<1>5. Len(rows) = size
  BY <1>2, <1>3, <1>4, LenProperties
<1> HIDE DEF rows
<1>6. back = [n \in 1 .. size |-> rows[(size - n) + 1]]
  BY <1>5 DEF Reverse
<1> HIDE DEF size, back
<1>7. \A n \in 1 .. size : (size - n) + 1 \in 1 .. size
  BY <1>2
<1>8. /\ back \in [1 .. size -> S]
      /\ \A n \in 1 .. size : back[n] = s[Nth(I, (size - n) + 1)]
  <2>1. \A n \in 1 .. size : rows[n] \in S /\ rows[n] = s[Nth(I, n)]
    BY <1>3, <1>4, <1>5, ElementOfSeq
  <2> QED
    BY <1>6, <1>7, <2>1
<1>9. back \in Seq(S) /\ Len(back) = size
  BY <1>2, <1>8, SeqDef, LenProperties
<1>10. ASSUME NEW n \in 1 .. size
       PROVE  \E i \in I : back[n] = s[i] /\ Cardinality(AtLeast(I, i)) = n
  <2> DEFINE i == Nth(I, (size - n) + 1)
  <2>1. i \in I /\ Cardinality(Upto(I, i)) = (size - n) + 1 /\ back[n] = s[i]
    BY <1>2, <1>7, <1>8
  <2> HIDE DEF i
  <2>2. Cardinality(AtLeast(I, i)) = size + 1 - Cardinality(Upto(I, i))
    BY <1>1, <2>1, UptoAtLeast DEF size
  <2>3. Cardinality(AtLeast(I, i)) = n
    BY <1>2, <2>1, <2>2
  <2> QED
    BY <2>1, <2>3
<1>11. ASSUME NEW i \in I
       PROVE  /\ Cardinality(AtLeast(I, i)) \in 1 .. size
              /\ back[Cardinality(AtLeast(I, i))] = s[i]
  <2> DEFINE u == Cardinality(Upto(I, i))
             n == Cardinality(AtLeast(I, i))
             k == Nth(I, u)
  <2>1. n = size + 1 - u /\ n \in 1 .. size /\ u \in 1 .. size
    BY <1>1, UptoAtLeast DEF size
  <2>2. k \in I /\ Cardinality(Upto(I, k)) = u
    BY <1>2, <2>1
  <2>3. k = i
    <3>1. k \in Nat /\ i \in Nat
      BY <1>1, <2>2
    <3>2. ~(k < i) /\ ~(i < k)
      BY <1>1, <1>2, <2>1, <2>2, UptoOnce, SMTT(20)
    <3> QED
      BY ONLY <3>1, <3>2
  <2> HIDE DEF u, n, k
  <2>4. (size - n) + 1 = u
    BY <1>2, <2>1
  <2>5. back[n] = s[Nth(I, u)]
    BY <1>8, <2>1, <2>4
  <2> QED
    BY <2>1, <2>3, <2>5 DEF k, n
<1> QED
  BY <1>9, <1>10, <1>11 DEF size, back, rows

LEMMA NewestPart ==
    ASSUME NEW S, NEW s \in Seq(S), NEW n \in Nat
    PROVE  Newest(s, n) \in Seq(S) /\ PartOf(Newest(s, n), s)
<1>1. Len(s) \in Nat /\ DOMAIN s = 1 .. Len(s) /\ \A i \in 1 .. Len(s) : s[i] \in S
  BY LenProperties, ElementOfSeq
<1>2. CASE Len(s) <= n
  <2>1. Newest(s, n) = s
    BY <1>2 DEF Newest
  <2> QED
    BY <2>1 DEF PartOf
<1>3. CASE ~(Len(s) <= n)
  <2> DEFINE first == Len(s) - n + 1
             t == SubSeq(s, first, Len(s))
  <2>1. first \in Int /\ first \in 2 .. Len(s) + 1 /\ Len(s) \in Int
    BY <1>1, <1>3
  <2>2. \A i \in first .. Len(s) : s[i] \in S
    BY <1>1, <2>1
  <2> HIDE DEF first
  <2>3. /\ t \in Seq(S) /\ Len(t) = IF first <= Len(s) THEN Len(s) - first + 1 ELSE 0
        /\ \A i \in 1 .. Len(s) - first + 1 : t[i] = s[first + i - 1]
    BY <2>1, <2>2, SubSeqProperties
  <2>4. DOMAIN t = 1 .. Len(t)
    BY <2>3, LenProperties
  <2> HIDE DEF t
  <2>5. \A i \in DOMAIN t : t[i] = s[first + i - 1] /\ first + i - 1 \in DOMAIN s
    BY <1>1, <2>1, <2>3, <2>4
  <2>6. \A i, j \in DOMAIN t : i < j => first + i - 1 < first + j - 1
    BY <1>1, <2>1, <2>3, <2>4
  <2>7. PartOf(t, s)
    BY <2>5, <2>6 DEF PartOf
  <2>8. Newest(s, n) = t
    BY <1>3 DEF Newest, t, first
  <2> QED
    BY <2>3, <2>7, <2>8
<1> QED
  BY <1>2, <1>3

-----------------------------------------------------------------------------
(***************************************************************************)
(* Rows of two tables that correspond, and one row more.                   *)
(***************************************************************************)
\* Of some positions the one with so many up to it is the one of that number.
LEMMA NthOf ==
    ASSUME NEW len \in Nat, NEW I, I \subseteq 1 .. len, NEW i \in I
    PROVE  Cardinality(Upto(I, i)) \in 1 .. Cardinality(I) /\ Nth(I, Cardinality(Upto(I, i))) = i
<1>1. /\ Cardinality(I) \in Nat /\ Cardinality(Upto(I, i)) \in 1 .. Cardinality(I)
      /\ \A n \in 1 .. Cardinality(I) :
            Nth(I, n) \in I /\ Cardinality(Upto(I, Nth(I, n))) = n
  BY NthPosition, UptoAtLeast
<1> DEFINE n == Cardinality(Upto(I, i))
           j == Nth(I, n)
<1>2. n \in 1 .. Cardinality(I) /\ j \in I /\ Cardinality(Upto(I, j)) = n
  BY <1>1
<1>3. i \in Nat /\ j \in Nat /\ n \in Nat
  <2>1. \A k \in I : k \in Nat
    OBVIOUS
  <2> HIDE DEF n, j
  <2> QED
    BY <1>1, <1>2, <2>1
<1>4. ~(i < j) /\ ~(j < i)
  <2>1. \A k, l \in I : k < l => Cardinality(Upto(I, k)) < Cardinality(Upto(I, l))
    BY UptoOnce
  <2>2. ~(n < n)
    BY <1>3
  <2> QED
    BY ONLY <1>2, <2>1, <2>2 DEF n
<1> QED
  BY <1>2, <1>3, <1>4

\* Rows that correspond one by one, in the same order.
Matches(I, J, s, t, f) ==
    /\ f \in [I -> J]
    /\ \A j \in J : \E i \in I : f[i] = j
    /\ \A h, i \in I : h < i => f[h] < f[i]
    /\ \A i \in I : s[i] = t[f[i]]

\* They are then the same rows.
LEMMA RowsMatch ==
    ASSUME NEW S, NEW s \in Seq(S), NEW I, I \subseteq DOMAIN s,
           NEW T, NEW t \in Seq(T), NEW J, J \subseteq DOMAIN t,
           NEW f, Matches(I, J, s, t, f)
    PROVE  RowsAt(s, I) = RowsAt(t, J)
<1> USE DEF Matches
<1>0. PICK lenI \in Nat, lenJ \in Nat : I \subseteq 1 .. lenI /\ J \subseteq 1 .. lenJ
  BY LenProperties
<1>1. /\ \A i \in I : i \in Nat
      /\ \A j \in J : j \in Nat
      /\ IsFiniteSet(I) /\ IsFiniteSet(J)
  <2>1. IsFiniteSet(1 .. lenI) /\ IsFiniteSet(1 .. lenJ)
    BY FS_Interval
  <2>2. IsFiniteSet(I) /\ IsFiniteSet(J)
    BY <1>0, <2>1, FS_Subset
  <2>3. (\A i \in I : i \in Nat) /\ (\A j \in J : j \in Nat)
    BY <1>0
  <2> QED
    BY <2>2, <2>3
<1>2. \A h, i \in I : h <= i <=> f[h] <= f[i]
  <2>1. \A h, i \in I : f[h] \in Nat /\ f[i] \in Nat /\ h \in Nat /\ i \in Nat
    BY <1>1
  <2> QED
    BY <2>1
<1>3. ASSUME NEW i \in I
      PROVE  Cardinality(Upto(I, i)) = Cardinality(Upto(J, f[i]))
  <2> DEFINE A == Upto(I, i)
             B == Upto(J, f[i])
             g == [h \in A |-> f[h]]
  <2>1. A \subseteq I /\ B \subseteq J
    BY DEF Upto
  <2>2. g \in [A -> B]
    BY <1>2, <2>1 DEF Upto
  <2>3. \A h, k \in A : h # k => g[h] # g[k]
    <3>1. \A h, k \in I : h # k => f[h] # f[k]
      <4>1. \A h, k \in I : h # k => h < k \/ k < h
        BY <1>1
      <4>2. \A h \in I : f[h] \in Nat
        BY <1>1
      <4>3. \A h, k \in I : h < k => f[h] # f[k]
        BY <4>2
      <4> QED
        BY ONLY <4>1, <4>3
    <3> QED
      BY <2>1, <3>1
  <2>4. \A j \in B : \E h \in A : g[h] = j
    BY <1>2, <2>1 DEF Upto
  <2>5. g \in Bijection(A, B)
    BY <2>2, <2>3, <2>4 DEF Bijection, Injection, Surjection, IsInjective
  <2>6. IsFiniteSet(A)
    BY <1>1, <2>1, FS_Subset
  <2> HIDE DEF A, B, g
  <2>7. Cardinality(A) = Cardinality(B)
    BY <2>5, <2>6, FS_Bijection DEF ExistsBijection
  <2> QED
    BY <2>7 DEF A, B
<1>4. Cardinality(I) = Cardinality(J)
  <2>1. f \in Bijection(I, J)
    <3>1. \A h, k \in I : h # k => f[h] # f[k]
      BY <1>1, <1>2
    <3> QED
      BY <3>1 DEF Bijection, Injection, Surjection, IsInjective
  <2> QED
    BY <1>1, <2>1, FS_Bijection DEF ExistsBijection
<1>5. ASSUME NEW n \in 1 .. Cardinality(I)
      PROVE  s[Nth(I, n)] = t[Nth(J, n)]
  <2>1. Nth(I, n) \in I /\ Cardinality(Upto(I, Nth(I, n))) = n
    BY <1>0, NthPosition
  <2>2. f[Nth(I, n)] \in J /\ Cardinality(Upto(J, f[Nth(I, n)])) = n
    BY <1>3, <2>1
  <2>3. \A j \in J : Nth(J, Cardinality(Upto(J, j))) = j
    BY <1>0, NthOf
  <2>4. Nth(J, n) = f[Nth(I, n)]
    BY ONLY <2>2, <2>3
  <2> QED
    BY <2>1, <2>4
<1> QED
  BY <1>4, <1>5 DEF RowsAt

\* Some rows and one more behind them.
LEMMA RowsMore ==
    ASSUME NEW S, NEW s \in Seq(S), NEW I, NEW m \in DOMAIN s,
           I \subseteq DOMAIN s, \A i \in I : i < m
    PROVE  RowsAt(s, I \cup {m}) = Append(RowsAt(s, I), s[m])
<1> DEFINE more == I \cup {m}
           c == Cardinality(I)
<1>1. Len(s) \in Nat /\ DOMAIN s = 1 .. Len(s) /\ \A i \in 1 .. Len(s) : s[i] \in S
  BY LenProperties, ElementOfSeq
<1>2. m \notin I /\ more \subseteq 1 .. Len(s)
  BY <1>1
<1>3. IsFiniteSet(I) /\ c \in Nat /\ Cardinality(more) = c + 1
  <2>1. IsFiniteSet(1 .. Len(s))
    BY <1>1, FS_Interval
  <2>2. IsFiniteSet(I)
    BY <1>1, <2>1, FS_Subset
  <2> QED
    BY <1>2, <2>2, FS_AddElement, FS_CardinalityType
<1>4. Upto(more, m) = more
  <2>1. \A i \in more : i <= m
    BY <1>1, <1>2
  <2> QED
    BY <2>1 DEF Upto
<1>5. Nth(more, c + 1) = m
  <2>1. \A i \in more : Nth(more, Cardinality(Upto(more, i))) = i
    BY <1>1, <1>2, NthOf
  <2>2. m \in more
    OBVIOUS
  <2> HIDE DEF more, c
  <2> QED
    BY ONLY <1>3, <1>4, <2>1, <2>2
<1>6. ASSUME NEW n \in 1 .. c
      PROVE  Nth(more, n) = Nth(I, n) /\ Nth(I, n) \in I
  <2>1. Nth(I, n) \in I /\ Cardinality(Upto(I, Nth(I, n))) = n
    BY <1>1, NthPosition
  <2>2. Upto(more, Nth(I, n)) = Upto(I, Nth(I, n))
    <3>1. ~(m <= Nth(I, n))
      <4>1. Nth(I, n) \in Nat /\ m \in Nat /\ Nth(I, n) < m
        BY <1>1, <2>1
      <4> QED
        BY ONLY <4>1
    <3> QED
      BY <3>1 DEF Upto
  <2>3. \A i \in more : Nth(more, Cardinality(Upto(more, i))) = i
    BY <1>1, <1>2, NthOf
  <2>4. Nth(I, n) \in more
    BY <2>1
  <2> HIDE DEF more
  <2> QED
    BY ONLY <2>1, <2>2, <2>3, <2>4
<1>7. RowsAt(s, I) \in Seq(S) /\ Len(RowsAt(s, I)) = c
      /\ \A n \in 1 .. c : RowsAt(s, I)[n] = s[Nth(I, n)]
  <2>1. RowsAt(s, I) \in Seq(S)
    BY RowsAtPart
  <2> QED
    BY <1>3, <2>1 DEF RowsAt
<1>8. RowsAt(s, more) \in Seq(S) /\ Len(RowsAt(s, more)) = c + 1
      /\ \A n \in 1 .. c + 1 : RowsAt(s, more)[n] = s[Nth(more, n)]
  <2>1. RowsAt(s, more) \in Seq(S)
    BY <1>1, <1>2, RowsAtPart
  <2>2. RowsAt(s, more) = [n \in 1 .. c + 1 |-> s[Nth(more, n)]]
    BY <1>3 DEF RowsAt
  <2> HIDE DEF more, c
  <2>3. c + 1 \in Nat
    BY <1>3
  <2> QED
    BY <2>1, <2>2, <2>3
<1> DEFINE longer == Append(RowsAt(s, I), s[m])
<1>9. /\ longer \in Seq(S) /\ Len(longer) = c + 1
      /\ \A n \in 1 .. c : longer[n] = s[Nth(I, n)]
      /\ longer[c + 1] = s[m]
  BY <1>1, <1>7, AppendProperties
<1> HIDE DEF longer, more, c
<1>10. \A n \in 1 .. c + 1 : longer[n] = RowsAt(s, more)[n]
  <2> SUFFICES ASSUME NEW n \in 1 .. c + 1
               PROVE  longer[n] = RowsAt(s, more)[n]
    OBVIOUS
  <2>1. CASE n \in 1 .. c
    <3>1. RowsAt(s, more)[n] = s[Nth(more, n)]
      BY <1>8
    <3>2. Nth(more, n) = Nth(I, n)
      BY <1>6, <2>1 DEF more, c
    <3> QED
      BY <1>9, <2>1, <3>1, <3>2
  <2>2. CASE n = c + 1
    <3>1. RowsAt(s, more)[n] = s[Nth(more, n)]
      BY <1>8
    <3> QED
      BY ONLY <1>5, <1>9, <2>2, <3>1
  <2> QED
    BY <1>3, <2>1, <2>2 DEF c
<1>11. longer = RowsAt(s, more)
  BY <1>8, <1>9, <1>10, SeqEqual
<1> QED
  BY <1>11 DEF longer, more

\* No rows are selected at no position, and only there.
LEMMA RowsOfNone ==
    ASSUME NEW S, NEW s \in Seq(S), NEW I, I \subseteq DOMAIN s
    PROVE  RowsAt(s, I) = <<>> <=> I = {}
<1>1. Len(s) \in Nat /\ DOMAIN s = 1 .. Len(s)
  BY LenProperties
<1>2. IsFiniteSet(I) /\ Cardinality(I) \in Nat
  <2>1. IsFiniteSet(1 .. Len(s))
    BY <1>1, FS_Interval
  <2> QED
    BY <1>1, <2>1, FS_Subset, FS_CardinalityType
<1>3. RowsAt(s, I) \in Seq(S) /\ Len(RowsAt(s, I)) = Cardinality(I)
  BY <1>2, RowsAtPart DEF RowsAt
<1>4. RowsAt(s, I) = <<>> <=> Len(RowsAt(s, I)) = 0
  BY <1>3, EmptySeq
<1> QED
  BY <1>2, <1>3, <1>4, FS_EmptySet
=============================================================================
