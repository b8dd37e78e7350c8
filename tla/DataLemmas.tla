----------------------------- MODULE DataLemmas ------------------------------
(***************************************************************************)
(* Lemmas about data that the proofs of several modules share: lists with  *)
(* an element taken out, induction by way of the least number of a set,    *)
(* and what the folds of the community modules compute.  A fold is shown   *)
(* to exist by adding one element at a time; a fold that adds numbers up   *)
(* is the sum SumOf of a sequence of integers.                             *)
(***************************************************************************)
EXTENDS SequencesExt, Integers, SequenceTheorems, FiniteSetTheorems, WellFoundedInduction, TLAPS

-----------------------------------------------------------------------------
(* Lists. *)

(* Removing position k shifts what follows by one and keeps the rest. *)
LEMMA RemoveAtProperties ==
    ASSUME NEW S, NEW s \in Seq(S), NEW k \in 1 .. Len(s)
    PROVE  /\ RemoveAt(s, k) \in Seq(S)
           /\ Len(RemoveAt(s, k)) = Len(s) - 1
           /\ \A i \in 1 .. Len(s) - 1 : RemoveAt(s, k)[i] = IF i < k THEN s[i] ELSE s[i + 1]
<1> DEFINE front == SubSeq(s, 1, k - 1)
           back  == SubSeq(s, k + 1, Len(s))
<1>1. /\ front \in Seq(S)
      /\ Len(front) = k - 1
      /\ \A i \in 1 .. k - 1 : front[i] = s[i]
  <2>1. \A i \in 1 .. k - 1 : s[i] \in S
    OBVIOUS
  <2>2. 1 \in Int /\ k - 1 \in Int
    OBVIOUS
  <2> QED BY <2>1, <2>2, SubSeqProperties
<1>2. /\ back \in Seq(S)
      /\ Len(back) = Len(s) - k
      /\ \A i \in 1 .. Len(s) - k : back[i] = s[k + i]
  <2>1. \A i \in k + 1 .. Len(s) : s[i] \in S
    OBVIOUS
  <2>2. k + 1 \in Int /\ Len(s) \in Int
    OBVIOUS
  <2> QED BY <2>1, <2>2, SubSeqProperties
<1>3. RemoveAt(s, k) = front \o back
  BY DEF RemoveAt
<1> HIDE DEF front, back
<1>4. /\ front \o back \in Seq(S)
      /\ Len(front \o back) = Len(front) + Len(back)
      /\ \A i \in 1 .. Len(front) + Len(back) :
            (front \o back)[i] = IF i <= Len(front) THEN front[i] ELSE back[i - Len(front)]
  BY <1>1, <1>2, ConcatProperties
<1>5. Len(front) + Len(back) = Len(s) - 1
  BY <1>1, <1>2
<1>6. ASSUME NEW i \in 1 .. Len(s) - 1
      PROVE  (front \o back)[i] = IF i < k THEN s[i] ELSE s[i + 1]
  <2>1. CASE i < k
    BY <2>1, <1>1, <1>4, <1>5
  <2>2. CASE i >= k
    <3>1. /\ i - (k - 1) \in 1 .. Len(s) - k
          /\ k + (i - (k - 1)) = i + 1
      BY <2>2
    <3>2. (front \o back)[i] = back[i - (k - 1)]
      BY <2>2, <1>1, <1>4, <1>5
    <3>3. back[i - (k - 1)] = s[i + 1]
      BY <3>1, <1>2
    <3> QED BY <3>2, <3>3, <2>2
  <2>3. i < k \/ i >= k
    OBVIOUS
  <2> QED BY <2>1, <2>2, <2>3
<1> QED BY <1>3, <1>4, <1>5, <1>6

(* No id is listed twice, and removing one position removes that id alone. *)
LEMMA RemoveAtFromInjective ==
    ASSUME NEW S, NEW s \in Seq(S), NEW k \in 1 .. Len(s), IsInjective(s)
    PROVE  /\ IsInjective(RemoveAt(s, k))
           /\ \A j \in 1 .. Len(s) - 1 : RemoveAt(s, k)[j] # s[k]
           /\ \A i \in 1 .. Len(s) : i # k =>
                \E j \in 1 .. Len(s) - 1 : RemoveAt(s, k)[j] = s[i]
<1>1. /\ RemoveAt(s, k) \in Seq(S)
      /\ Len(RemoveAt(s, k)) = Len(s) - 1
      /\ \A i \in 1 .. Len(s) - 1 : RemoveAt(s, k)[i] = IF i < k THEN s[i] ELSE s[i + 1]
  BY RemoveAtProperties
<1>2. DOMAIN RemoveAt(s, k) = 1 .. Len(s) - 1 /\ DOMAIN s = 1 .. Len(s)
  BY <1>1
<1>3. \A i, j \in 1 .. Len(s) : s[i] = s[j] => i = j
  BY <1>2 DEF IsInjective
<1>4. IsInjective(RemoveAt(s, k))
  <2>1. ASSUME NEW i \in 1 .. Len(s) - 1, NEW j \in 1 .. Len(s) - 1,
               RemoveAt(s, k)[i] = RemoveAt(s, k)[j]
        PROVE  i = j
    <3> DEFINE from(m) == IF m < k THEN m ELSE m + 1
    <3>1. /\ from(i) \in 1 .. Len(s) /\ RemoveAt(s, k)[i] = s[from(i)]
          /\ from(j) \in 1 .. Len(s) /\ RemoveAt(s, k)[j] = s[from(j)]
      BY <1>1
    <3>2. from(i) = from(j)
      BY <3>1, <2>1, <1>3
    <3> QED BY <3>2
  <2> QED BY <2>1, <1>2 DEF IsInjective
<1>5. \A j \in 1 .. Len(s) - 1 : RemoveAt(s, k)[j] # s[k]
  BY <1>1, <1>3
<1>6. ASSUME NEW i \in 1 .. Len(s), i # k
      PROVE  \E j \in 1 .. Len(s) - 1 : RemoveAt(s, k)[j] = s[i]
  <2>1. CASE i < k
    BY <2>1, <1>1
  <2>2. CASE i > k
    <3>1. i - 1 \in 1 .. Len(s) - 1 /\ RemoveAt(s, k)[i - 1] = s[i]
      BY <2>2, <1>1
    <3> QED BY <3>1
  <2> QED BY <2>1, <2>2, <1>6
<1> QED BY <1>4, <1>5, <1>6

LEMMA TailOfInjective ==
    ASSUME NEW S, NEW s \in Seq(S), s # <<>>, IsInjective(s)
    PROVE  /\ IsInjective(Tail(s))
           /\ \A j \in 1 .. Len(s) - 1 : Tail(s)[j] # Head(s)
           /\ \A i \in 1 .. Len(s) : s[i] # Head(s) =>
                \E j \in 1 .. Len(s) - 1 : Tail(s)[j] = s[i]
<1>1. /\ Tail(s) \in Seq(S)
      /\ Len(Tail(s)) = Len(s) - 1
      /\ \A i \in 1 .. Len(s) - 1 : Tail(s)[i] = s[i + 1]
      /\ Len(s) >= 1
      /\ Head(s) = s[1]
  BY HeadTailProperties
<1>2. DOMAIN Tail(s) = 1 .. Len(s) - 1 /\ DOMAIN s = 1 .. Len(s)
  BY <1>1
<1>3. \A i, j \in 1 .. Len(s) : s[i] = s[j] => i = j
  BY <1>2 DEF IsInjective
<1>4. IsInjective(Tail(s))
  BY <1>1, <1>2, <1>3 DEF IsInjective
<1>5. \A j \in 1 .. Len(s) - 1 : Tail(s)[j] # Head(s)
  BY <1>1, <1>3
<1>6. ASSUME NEW i \in 1 .. Len(s), s[i] # Head(s)
      PROVE  \E j \in 1 .. Len(s) - 1 : Tail(s)[j] = s[i]
  <2>1. i # 1
    BY <1>6, <1>1
  <2>2. i - 1 \in 1 .. Len(s) - 1 /\ Tail(s)[i - 1] = s[i]
    BY <2>1, <1>1
  <2> QED BY <2>2
<1> QED BY <1>4, <1>5, <1>6

\* Append and Tail as functions of the position.
LEMMA AppendAsFunction ==
    ASSUME NEW S, NEW v \in Seq(S), NEW x \in S
    PROVE  Append(v, x) = [k \in 1 .. Len(v) + 1 |-> IF k = Len(v) + 1 THEN x ELSE v[k]]
<1> DEFINE w == [k \in 1 .. Len(v) + 1 |-> IF k = Len(v) + 1 THEN x ELSE v[k]]
<1>1. Append(v, x) \in Seq(S) /\ Len(Append(v, x)) = Len(v) + 1 /\ Len(v) \in Nat
  OBVIOUS
<1>2. w \in Seq(S) /\ Len(w) = Len(v) + 1
  BY <1>1
<1>3. \A k \in 1 .. Len(v) + 1 : Append(v, x)[k] = w[k]
  OBVIOUS
<1> HIDE DEF w
<1>4. Append(v, x) = w
  BY <1>1, <1>2, <1>3, SeqEqual
<1> QED BY <1>4 DEF w

LEMMA NumberAppended ==
    ASSUME NEW v \in Seq(Int), NEW x \in Int
    PROVE  Append(v, x) = [k \in 1 .. Len(v) + 1 |-> IF k = Len(v) + 1 THEN x ELSE v[k]]
BY AppendAsFunction

LEMMA TailAsFunction ==
    ASSUME NEW S, NEW v \in Seq(S), v # <<>>
    PROVE  Tail(v) = [k \in 1 .. Len(v) - 1 |-> v[k + 1]]
<1> DEFINE w == [k \in 1 .. Len(v) - 1 |-> v[k + 1]]
<1>1. Tail(v) \in Seq(S) /\ Len(Tail(v)) = Len(v) - 1 /\ Len(v) \in Nat \ {0}
  BY HeadTailProperties, EmptySeq
<1>2. w \in Seq(S) /\ Len(w) = Len(v) - 1
  BY <1>1
<1>3. \A k \in 1 .. Len(v) - 1 : Tail(v)[k] = w[k]
  OBVIOUS
<1> HIDE DEF w
<1>4. Tail(v) = w
  BY <1>1, <1>2, <1>3, SeqEqual
<1> QED BY <1>4 DEF w

\* A list of two is a list of one with the second appended, and so on.
LEMMA TwoIsAppended ==
    ASSUME NEW S, NEW a \in S, NEW b \in S
    PROVE  Append(<<a>>, b) = <<a, b>> /\ <<a>> \in Seq(S)
<1>1. /\ <<a>> \in Seq(S) /\ <<a, b>> \in Seq(S) /\ Len(<<a>>) = 1 /\ Len(<<a, b>>) = 2
      /\ <<a, b>>[1] = a /\ <<a, b>>[2] = b /\ <<a>>[1] = a
  OBVIOUS
<1> DEFINE v == <<a>>
           w == <<a, b>>
<1> HIDE DEF v, w
<1>2. /\ v \in Seq(S) /\ w \in Seq(S) /\ Len(v) = 1 /\ Len(w) = 2
      /\ w[1] = a /\ w[2] = b /\ v[1] = a
  BY <1>1 DEF v, w
<1>3. /\ Append(v, b) \in Seq(S) /\ Len(Append(v, b)) = 2
      /\ Append(v, b)[1] = a /\ Append(v, b)[2] = b
  <2>1. /\ Append(v, b) \in Seq(S) /\ Len(Append(v, b)) = Len(v) + 1
        /\ \A k \in 1 .. Len(v) : Append(v, b)[k] = v[k]
        /\ Append(v, b)[Len(v) + 1] = b
    <3>1. v \in Seq(S) /\ b \in S
      BY <1>2
    <3> QED BY ONLY <3>1, AppendProperties
  <2> QED BY <1>2, <2>1
<1>4. \A k \in 1 .. 2 : Append(v, b)[k] = w[k]
  <2>1. \A k \in 1 .. 2 : k = 1 \/ k = 2
    OBVIOUS
  <2> QED BY <1>2, <1>3, <2>1
<1>5. Append(v, b) = w
  BY <1>2, <1>3, <1>4, SeqEqual
<1> QED BY <1>1, <1>5 DEF v, w

LEMMA ThreeIsAppended ==
    ASSUME NEW S, NEW a \in S, NEW b \in S, NEW c \in S
    PROVE  Append(<<a, b>>, c) = <<a, b, c>> /\ <<a, b>> \in Seq(S)
<1>1. /\ <<a, b>> \in Seq(S) /\ <<a, b, c>> \in Seq(S) /\ Len(<<a, b>>) = 2 /\ Len(<<a, b, c>>) = 3
      /\ <<a, b, c>>[1] = a /\ <<a, b, c>>[2] = b /\ <<a, b, c>>[3] = c
      /\ <<a, b>>[1] = a /\ <<a, b>>[2] = b
  OBVIOUS
<1> DEFINE v == <<a, b>>
           w == <<a, b, c>>
<1> HIDE DEF v, w
<1>2. /\ v \in Seq(S) /\ w \in Seq(S) /\ Len(v) = 2 /\ Len(w) = 3
      /\ w[1] = a /\ w[2] = b /\ w[3] = c
      /\ v[1] = a /\ v[2] = b
  BY <1>1 DEF v, w
<1>3. /\ Append(v, c) \in Seq(S) /\ Len(Append(v, c)) = 3
      /\ Append(v, c)[1] = a /\ Append(v, c)[2] = b /\ Append(v, c)[3] = c
  <2>1. /\ Append(v, c) \in Seq(S) /\ Len(Append(v, c)) = Len(v) + 1
        /\ \A k \in 1 .. Len(v) : Append(v, c)[k] = v[k]
        /\ Append(v, c)[Len(v) + 1] = c
    <3>1. v \in Seq(S) /\ c \in S
      BY <1>2
    <3> QED BY ONLY <3>1, AppendProperties
  <2> QED BY <1>2, <2>1
<1>4. \A k \in 1 .. 3 : Append(v, c)[k] = w[k]
  <2>1. \A k \in 1 .. 3 : k = 1 \/ k = 2 \/ k = 3
    OBVIOUS
  <2> QED BY <1>2, <1>3, <2>1
<1>5. Append(v, c) = w
  BY <1>2, <1>3, <1>4, SeqEqual
<1> QED BY <1>1, <1>5 DEF v, w

-----------------------------------------------------------------------------
(* Induction. *)

LEMMA LeastOfSet ==
    ASSUME NEW T \in SUBSET Nat, T # {}
    PROVE  \E x \in T : \A y \in T : x <= y
<1> DEFINE R == OpToRel(<, Nat)
<1>1. PICK x \in T : \A y \in T : ~ (<<y, x>> \in R)
  <2>1. IsWellFoundedOn(R, Nat)
    BY NatLessThanWellFounded
  <2> HIDE DEF R
  <2> QED BY <2>1, WFMin
<1>2. \A y \in T : ~ (y < x)
  <2> SUFFICES ASSUME NEW y \in T, y < x
               PROVE  FALSE
    OBVIOUS
  <2>1. <<y, x>> \in R
    BY DEF OpToRel
  <2> QED BY <1>1, <2>1
<1> QED BY <1>2

LEMMA Induction ==
    ASSUME NEW S, 0 \in S, \A n \in Nat : n \in S => n + 1 \in S
    PROVE  Nat \subseteq S
<1> SUFFICES ASSUME Nat \ S # {}
             PROVE  FALSE
  OBVIOUS
<1>1. PICK x \in Nat \ S : \A y \in Nat \ S : x <= y
  BY LeastOfSet
<1>2. x # 0 /\ x - 1 \in Nat /\ ~ (x <= x - 1)
  OBVIOUS
<1>3. x - 1 \in S
  BY <1>1, <1>2
<1>4. x - 1 + 1 \in S
  BY <1>2, <1>3
<1> QED BY <1>4

-----------------------------------------------------------------------------
(* Folds.  A fold is a function G on the subsets of S that takes the element      *)
(* pick[T] from T and combines it, by step, with the fold of what is left.       *)

Folding(G, S, base, step, pick) ==
    \A T \in SUBSET S :
        G[T] = IF T = {} THEN base ELSE step[<<pick[T], G[T \ {pick[T]}]>>]

\* The subsets of S with at most n elements.
UpTo(S, n) == {T \in SUBSET S : Cardinality(T) <= n}

FoldsUpTo(n, S, X, base, step, pick) ==
    \E G \in [UpTo(S, n) -> X] :
        \A T \in UpTo(S, n) :
            G[T] = IF T = {} THEN base ELSE step[<<pick[T], G[T \ {pick[T]}]>>]

\* A recursive definition over the subsets of a finite set defines a function.
LEMMA FoldExists ==
    ASSUME NEW S, IsFiniteSet(S), NEW X, NEW base \in X, NEW step \in [S \X X -> X],
           NEW pick, \A T \in SUBSET S : T # {} => pick[T] \in T
    PROVE  \E G \in [SUBSET S -> X] : Folding(G, S, base, step, pick)
<1> DEFINE P(n) == FoldsUpTo(n, S, X, base, step, pick)
<1>1. \A T \in SUBSET S : IsFiniteSet(T) /\ Cardinality(T) \in Nat
  BY FS_Subset, FS_CardinalityType
<1>2. P(0)
  <2>1. UpTo(S, 0) = {{}}
    BY <1>1, FS_EmptySet DEF UpTo
  <2> DEFINE G == [T \in {{}} |-> base]
  <2>2. G \in [UpTo(S, 0) -> X]
    BY <2>1
  <2> QED BY <2>1, <2>2 DEF FoldsUpTo
<1>3. ASSUME NEW n \in Nat, P(n)
      PROVE  P(n + 1)
  <2>1. PICK G \in [UpTo(S, n) -> X] :
            \A T \in UpTo(S, n) :
                G[T] = IF T = {} THEN base ELSE step[<<pick[T], G[T \ {pick[T]}]>>]
    BY <1>3 DEF FoldsUpTo
  <2>2. \A T \in UpTo(S, n + 1) :
            T # {} => pick[T] \in S /\ T \ {pick[T]} \in UpTo(S, n)
    <3> SUFFICES ASSUME NEW T \in UpTo(S, n + 1), T # {}
                 PROVE  pick[T] \in S /\ T \ {pick[T]} \in UpTo(S, n)
      OBVIOUS
    <3>1. T \in SUBSET S /\ pick[T] \in T /\ Cardinality(T) <= n + 1
      BY DEF UpTo
    <3>2. Cardinality(T \ {pick[T]}) = Cardinality(T) - 1
      BY <3>1, <1>1, FS_RemoveElement
    <3> QED BY <1>1, <3>1, <3>2 DEF UpTo
  <2> DEFINE value(T) == IF T = {} THEN base ELSE step[<<pick[T], G[T \ {pick[T]}]>>]
             H == [T \in UpTo(S, n + 1) |-> value(T)]
  <2>3. \A T \in UpTo(S, n + 1) : value(T) \in X
    BY <2>2
  <2>4. \A T \in UpTo(S, n) : T \in UpTo(S, n + 1) /\ H[T] = G[T]
    <3>1. \A T \in UpTo(S, n) : T \in UpTo(S, n + 1)
      BY <1>1 DEF UpTo
    <3> QED BY <2>1, <3>1
  <2>5. \A T \in UpTo(S, n + 1) :
            H[T] = IF T = {} THEN base ELSE step[<<pick[T], H[T \ {pick[T]}]>>]
    BY <2>2, <2>4
  <2>6. H \in [UpTo(S, n + 1) -> X]
    BY <2>3
  <2> HIDE DEF H
  <2> QED BY <2>5, <2>6 DEF FoldsUpTo
<1>4. \A n \in Nat : P(n)
  <2> DEFINE N == {n \in Nat : P(n)}
  <2>1. 0 \in N /\ \A n \in Nat : n \in N => n + 1 \in N
    BY <1>2, <1>3
  <2> HIDE DEF N
  <2>2. Nat \subseteq N
    BY <2>1, Induction
  <2> QED BY <2>2 DEF N
<1>5. Cardinality(S) \in Nat /\ UpTo(S, Cardinality(S)) = SUBSET S
  BY FS_CardinalityType, FS_Subset DEF UpTo
<1>6. PICK G \in [SUBSET S -> X] :
            \A T \in SUBSET S :
                G[T] = IF T = {} THEN base ELSE step[<<pick[T], G[T \ {pick[T]}]>>]
  <2> DEFINE c == Cardinality(S)
  <2>1. FoldsUpTo(c, S, X, base, step, pick) /\ UpTo(S, c) = SUBSET S
    BY <1>4, <1>5
  <2> HIDE DEF c
  <2>2. \E G \in [UpTo(S, c) -> X] :
            \A T \in UpTo(S, c) :
                G[T] = IF T = {} THEN base ELSE step[<<pick[T], G[T \ {pick[T]}]>>]
    BY <2>1, Zenon DEF FoldsUpTo
  <2>3. UpTo(S, c) = SUBSET S
    BY <2>1
  <2> QED BY ONLY <2>2, <2>3, Zenon
<1>7. Folding(G, S, base, step, pick)
  BY <1>6 DEF Folding
<1> QED BY <1>7

\* The elements of 1 .. n from the last to the first, which is how FoldLeft goes.
LastOf(n) == [T \in SUBSET (1 .. n) |-> Max(T)]

LEMMA MaxIsLast ==
    ASSUME NEW n \in Nat, NEW T \in SUBSET (1 .. n), T # {}
    PROVE  Max(T) \in T /\ \A y \in T : Max(T) >= y
<1>1. \E x \in T : \A y \in T : x >= y
  <2> DEFINE D == {n - y : y \in T}
  <2>1. D \in SUBSET Nat /\ D # {}
    <3>1. \A y \in T : n - y \in Nat
      OBVIOUS
    <3> QED BY <3>1
  <2>2. PICK d \in D : \A e \in D : d <= e
    <3> HIDE DEF D
    <3> QED BY <2>1, LeastOfSet
  <2>3. PICK x \in T : d = n - x
    OBVIOUS
  <2>4. \A y \in T : n - x <= n - y
    BY <2>2, <2>3
  <2> QED BY <2>4
<1> QED BY <1>1 DEF Max

LEMMA PickLast ==
    ASSUME NEW n \in Nat
    PROVE  /\ IsFiniteSet(1 .. n)
           /\ \A T \in SUBSET (1 .. n) : T # {} => LastOf(n)[T] \in T
<1>1. IsFiniteSet(1 .. n)
  BY FS_Interval
<1>2. ASSUME NEW T \in SUBSET (1 .. n), T # {}
      PROVE  LastOf(n)[T] \in T
  BY <1>2, MaxIsLast DEF LastOf
<1> QED BY <1>1, <1>2

LEMMA PrefixEndsWith ==
    ASSUME NEW n \in Nat, NEW k \in 1 .. n
    PROVE  /\ 1 .. k \in SUBSET (1 .. n)
           /\ 1 .. k # {}
           /\ Max(1 .. k) = k
           /\ (1 .. k) \ {k} = 1 .. k - 1
<1>1. 1 .. k \in SUBSET (1 .. n) /\ 1 .. k # {} /\ k \in 1 .. k
  OBVIOUS
<1>2. Max(1 .. k) \in 1 .. k /\ \A y \in 1 .. k : Max(1 .. k) >= y
  BY <1>1, MaxIsLast
<1>3. Max(1 .. k) = k
  BY <1>1, <1>2
<1>4. (1 .. k) \ {k} = 1 .. k - 1
  OBVIOUS
<1> QED BY <1>1, <1>3, <1>4

\* The fold of the first k elements is that of the first k - 1 and the k-th.
LEMMA FoldOfPrefix ==
    ASSUME NEW n \in Nat, NEW G, NEW base, NEW step,
           Folding(G, 1 .. n, base, step, LastOf(n))
    PROVE  /\ G[1 .. 0] = base
           /\ \A k \in 1 .. n : G[1 .. k] = step[<<k, G[1 .. k - 1]>>]
<1>1. 1 .. 0 = {} /\ {} \in SUBSET (1 .. n)
  OBVIOUS
<1>2. G[{}] = base
  BY <1>1 DEF Folding
<1>3. ASSUME NEW k \in 1 .. n
      PROVE  G[1 .. k] = step[<<k, G[1 .. k - 1]>>]
  <2>1. /\ 1 .. k \in SUBSET (1 .. n) /\ 1 .. k # {} /\ Max(1 .. k) = k
        /\ (1 .. k) \ {k} = 1 .. k - 1
    BY PrefixEndsWith
  <2>2. LastOf(n)[1 .. k] = k
    BY <2>1 DEF LastOf
  <2>3. G[1 .. k] = step[<<LastOf(n)[1 .. k], G[(1 .. k) \ {LastOf(n)[1 .. k]}]>>]
    BY <2>1 DEF Folding
  <2> QED BY <2>1, <2>2, <2>3
<1> QED BY <1>1, <1>2, <1>3

\* A step takes the number of an element and what was made of those before it.
IsStep(step, n, X) == step \in [(1 .. n) \X X -> X]

FoldsFromTheLeft(G, n, X, base, step) ==
    /\ G \in [SUBSET (1 .. n) -> X]
    /\ Folding(G, 1 .. n, base, step, LastOf(n))
    /\ G[1 .. 0] = base
    /\ \A k \in 1 .. n : G[1 .. k] = step[<<k, G[1 .. k - 1]>>]

\* So the fold is reached by a run through the elements.
LEMMA FoldFromTheLeft ==
    ASSUME NEW n \in Nat, NEW X, NEW base \in X, NEW step, IsStep(step, n, X)
    PROVE  \E G : FoldsFromTheLeft(G, n, X, base, step)
<1> DEFINE pick == LastOf(n)
<1>1. IsFiniteSet(1 .. n) /\ \A T \in SUBSET (1 .. n) : T # {} => pick[T] \in T
  BY PickLast
<1>4. step \in [(1 .. n) \X X -> X]
  BY DEF IsStep
<1> HIDE DEF pick
<1>2. PICK G \in [SUBSET (1 .. n) -> X] : Folding(G, 1 .. n, base, step, pick)
  BY <1>1, <1>4, FoldExists
<1> USE DEF pick
<1>3. /\ G[1 .. 0] = base
      /\ \A k \in 1 .. n : G[1 .. k] = step[<<k, G[1 .. k - 1]>>]
  BY <1>2, FoldOfPrefix
<1> QED BY <1>2, <1>3 DEF FoldsFromTheLeft

RunAlike(P, Q, n) ==
    /\ P[0] = Q[0]
    /\ \A k \in 1 .. n : P[k - 1] = Q[k - 1] => P[k] = Q[k]

\* Two runs that agree at each element are the same.
LEMMA SameRun ==
    ASSUME NEW n \in Nat, NEW P, NEW Q, RunAlike(P, Q, n)
    PROVE  \A k \in 0 .. n : P[k] = Q[k]
<1> DEFINE N == {m \in Nat : m <= n => P[m] = Q[m]}
<1>1. 0 \in N
  BY DEF RunAlike
<1>2. ASSUME NEW m \in Nat, m \in N
      PROVE  m + 1 \in N
  <2>1. m + 1 <= n => m <= n /\ m + 1 \in 1 .. n /\ m + 1 - 1 = m
    OBVIOUS
  <2> QED BY <1>2, <2>1 DEF RunAlike
<1> HIDE DEF N
<1>3. Nat \subseteq N
  BY <1>1, <1>2, Induction
<1> QED BY <1>3 DEF N

-----------------------------------------------------------------------------
(* Sums. *)

\* The sums of the first elements of v, from none to all of them.
Sums(v) == CHOOSE P \in [0 .. Len(v) -> Int] :
    P[0] = 0 /\ \A k \in 1 .. Len(v) : P[k] = P[k - 1] + v[k]
SumOf(v) == Sums(v)[Len(v)]

AreSums(P, v) ==
    /\ P \in [0 .. Len(v) -> Int]
    /\ P[0] = 0
    /\ \A k \in 1 .. Len(v) : P[k] = P[k - 1] + v[k]

LEMMA SumsExist ==
    ASSUME NEW v \in Seq(Int)
    PROVE  AreSums(Sums(v), v)
<1> DEFINE n == Len(v)
           step == [z \in (1 .. n) \X Int |-> z[2] + v[z[1]]]
<1>1. n \in Nat /\ 0 \in Int /\ IsStep(step, n, Int)
  BY DEF IsStep
<1>2. \A k \in 1 .. n, x \in Int : step[<<k, x>>] = x + v[k]
  OBVIOUS
<1> HIDE DEF step, n
<1>7. PICK G : FoldsFromTheLeft(G, n, Int, 0, step)
  BY <1>1, FoldFromTheLeft
<1>3. /\ G \in [SUBSET (1 .. n) -> Int]
      /\ G[1 .. 0] = 0
      /\ \A k \in 1 .. n : G[1 .. k] = step[<<k, G[1 .. k - 1]>>]
  BY <1>7 DEF FoldsFromTheLeft
<1> DEFINE P == [k \in 0 .. n |-> G[1 .. k]]
<1>4. /\ P \in [0 .. n -> Int]
      /\ \A k \in 0 .. n : P[k] = G[1 .. k] /\ G[1 .. k] \in Int
  <2>1. \A k \in 0 .. n : 1 .. k \in SUBSET (1 .. n)
    BY <1>1
  <2> QED BY <2>1, <1>3
<1> HIDE DEF P
<1>5. P[0] = 0
  BY <1>1, <1>3, <1>4
<1>6. \A k \in 1 .. n : P[k] = P[k - 1] + v[k]
  <2>1. \A k \in 1 .. n : k \in 0 .. n /\ k - 1 \in 0 .. n
    BY <1>1
  <2> QED BY <2>1, <1>2, <1>3, <1>4
<1> USE DEF n
<1> QED BY <1>4, <1>5, <1>6 DEF Sums, AreSums

\* There is one sum.
LEMMA SumsUnique ==
    ASSUME NEW v \in Seq(Int), NEW P, NEW n \in 0 .. Len(v),
           P[0] = 0, \A k \in 1 .. n : P[k] = P[k - 1] + v[k]
    PROVE  P[n] = Sums(v)[n]
<1> DEFINE Q == Sums(v)
<1>1. /\ n \in Nat /\ n \in 0 .. n /\ Q[0] = 0
      /\ \A k \in 1 .. n : Q[k] = Q[k - 1] + v[k]
  BY SumsExist, LenProperties DEF AreSums
<1> HIDE DEF Q
<1>2. RunAlike(P, Q, n)
  BY <1>1 DEF RunAlike
<1>3. \A k \in 0 .. n : P[k] = Q[k]
  BY <1>1, <1>2, SameRun
<1>4. P[n] = Q[n]
  BY <1>1, <1>3
<1> QED BY <1>4 DEF Q

LEMMA SumType ==
    ASSUME NEW v \in Seq(Int)
    PROVE  SumOf(v) \in Int
<1>1. Len(v) \in 0 .. Len(v)
  BY LenProperties
<1> QED BY <1>1, SumsExist DEF AreSums, SumOf

LEMMA SumEmpty == SumOf(<<>>) = 0
<1>1. <<>> \in Seq(Int) /\ Len(<<>>) = 0
  OBVIOUS
<1> QED BY <1>1, SumsExist DEF AreSums, SumOf

LEMMA SumAppend ==
    ASSUME NEW v \in Seq(Int), NEW x \in Int
    PROVE  /\ Append(v, x) \in Seq(Int)
           /\ SumOf(Append(v, x)) = SumOf(v) + x
<1> DEFINE w == Append(v, x)
<1>1. /\ w \in Seq(Int) /\ Len(v) \in Nat /\ Len(w) = Len(v) + 1
      /\ \A k \in 1 .. Len(v) : w[k] = v[k]
      /\ w[Len(v) + 1] = x
  BY AppendProperties, LenProperties
<1>2. AreSums(Sums(w), w)
  BY <1>1, SumsExist
<1> HIDE DEF w
<1>3. Sums(w)[Len(v)] = Sums(v)[Len(v)]
  <2>1. /\ Len(v) \in 0 .. Len(v) /\ Sums(w)[0] = 0
        /\ \A k \in 1 .. Len(v) : Sums(w)[k] = Sums(w)[k - 1] + v[k]
    BY <1>1, <1>2 DEF AreSums
  <2> QED BY <2>1, SumsUnique
<1>4. Sums(w)[Len(v) + 1] = Sums(w)[Len(v)] + x
  <2>1. Len(v) + 1 \in 1 .. Len(w) /\ Len(v) + 1 - 1 = Len(v)
    BY <1>1
  <2> QED BY <2>1, <1>1, <1>2 DEF AreSums
<1>5. SumOf(w) = SumOf(v) + x
  BY <1>1, <1>3, <1>4 DEF SumOf
<1> QED BY <1>1, <1>5 DEF w

\* A fold from the left of the sums of the first elements of v.
FoldsToSum(G, v) ==
    /\ G \in [SUBSET (1 .. Len(v)) -> Int]
    /\ \A T \in SUBSET (1 .. Len(v)) :
           G[T] = IF T = {} THEN 0 ELSE G[T \ {Max(T)}] + v[Max(T)]

LEMMA SumFoldExists ==
    ASSUME NEW v \in Seq(Int)
    PROVE  \E G : FoldsToSum(G, v)
<1> DEFINE n == Len(v)
           step == [z \in (1 .. n) \X Int |-> z[2] + v[z[1]]]
<1>1. n \in Nat /\ 0 \in Int /\ IsStep(step, n, Int)
  BY DEF IsStep
<1>2. \A k \in 1 .. n, x \in Int : step[<<k, x>>] = x + v[k]
  OBVIOUS
<1> HIDE DEF step, n
<1>3. PICK G : FoldsFromTheLeft(G, n, Int, 0, step)
  BY <1>1, FoldFromTheLeft
<1>4. G \in [SUBSET (1 .. n) -> Int]
  BY <1>3 DEF FoldsFromTheLeft
<1>5. ASSUME NEW T \in SUBSET (1 .. n)
      PROVE  G[T] = IF T = {} THEN 0 ELSE G[T \ {Max(T)}] + v[Max(T)]
  <2>1. G[T] = IF T = {} THEN 0 ELSE step[<<LastOf(n)[T], G[T \ {LastOf(n)[T]}]>>]
    BY <1>3 DEF FoldsFromTheLeft, Folding
  <2>2. LastOf(n)[T] = Max(T)
    BY DEF LastOf
  <2>3. T # {} => Max(T) \in 1 .. n /\ G[T \ {Max(T)}] \in Int
    BY <1>1, <1>4, MaxIsLast
  <2> QED BY <1>2, <2>1, <2>2, <2>3
<1> QED BY <1>4, <1>5 DEF FoldsToSum, n

LEMMA SumFold ==
    ASSUME NEW v \in Seq(Int), NEW F,
           \A T \in SUBSET (1 .. Len(v)) :
               F[T] = IF T = {} THEN 0 ELSE F[T \ {Max(T)}] + v[Max(T)]
    PROVE  F[1 .. Len(v)] = SumOf(v)
<1> DEFINE n == Len(v)
           P == [k \in 0 .. n |-> F[1 .. k]]
<1>1. n \in Nat /\ n \in 0 .. n /\ n \in 0 .. Len(v)
  OBVIOUS
<1>2. F[1 .. 0] = 0
  <2>1. 1 .. 0 = {} /\ {} \in SUBSET (1 .. n)
    OBVIOUS
  <2> QED BY <2>1
<1>3. ASSUME NEW k \in 1 .. n
      PROVE  F[1 .. k] = F[1 .. k - 1] + v[k]
  BY <1>1, PrefixEndsWith
<1>4. \A k \in 0 .. n : P[k] = F[1 .. k]
  OBVIOUS
<1>5. P[0] = 0 /\ \A k \in 1 .. n : P[k] = P[k - 1] + v[k]
  <2>1. 0 \in 0 .. n /\ \A k \in 1 .. n : k \in 0 .. n /\ k - 1 \in 0 .. n
    BY <1>1
  <2> HIDE DEF P
  <2> QED BY <1>2, <1>3, <1>4, <2>1
<1> HIDE DEF P
<1>6. P[n] = Sums(v)[n]
  BY <1>1, <1>5, SumsUnique
<1> QED BY <1>1, <1>4, <1>6 DEF SumOf

LEMMA TakenAway ==
    \A a, b, c \in Int : a = b + c => a - c = b
OBVIOUS

LEMMA TakenFromBoth ==
    \A a, b, c, d \in Int : a = b + c => a - d = b - d + c
OBVIOUS

\* Leaving out an element takes it from the sum.
LEMMA SumWithout ==
    ASSUME NEW v \in Seq(Int), NEW w \in Seq(Int), NEW j \in 1 .. Len(v),
           Len(w) = Len(v) - 1,
           \A i \in 1 .. Len(w) : w[i] = IF i < j THEN v[i] ELSE v[i + 1]
    PROVE  SumOf(v) = SumOf(w) + v[j]
<1> DEFINE n == Len(v)
           Q == Sums(v)
           P == [k \in 0 .. n - 1 |-> IF k < j THEN Q[k] ELSE Q[k + 1] - v[j]]
<1>1. /\ n \in Nat /\ j \in 1 .. n /\ Len(w) = n - 1 /\ n - 1 \in 0 .. Len(w)
      /\ \A k \in 1 .. n : v[k] \in Int
  OBVIOUS
<1>2. /\ \A k \in 0 .. n : Q[k] \in Int
      /\ Q[0] = 0
      /\ \A k \in 1 .. n : Q[k] = Q[k - 1] + v[k]
  BY SumsExist DEF AreSums
<1> HIDE DEF n, Q
<1>3. P[0] = 0
  BY <1>1, <1>2
<1>4. ASSUME NEW k \in 1 .. n - 1
      PROVE  P[k] = P[k - 1] + w[k]
  <2>1. /\ k \in 0 .. n - 1 /\ k - 1 \in 0 .. n - 1 /\ k \in 1 .. Len(w)
        /\ k \in 1 .. n /\ k + 1 \in 1 .. n /\ k + 1 - 1 = k /\ k - 1 + 1 = k
        /\ k - 1 \in 0 .. n /\ k \in 0 .. n /\ k + 1 \in 0 .. n /\ k \in Int /\ j \in Int
    BY <1>1
  <2>2. Q[k] = Q[k - 1] + v[k] /\ Q[k + 1] = Q[k] + v[k + 1]
    <3>1. Q[k + 1] = Q[k + 1 - 1] + v[k + 1]
      BY <2>1, <1>2
    <3> QED BY <3>1, <2>1, <1>2
  <2>8. /\ Q[k] \in Int /\ Q[k - 1] \in Int /\ Q[k + 1] \in Int
        /\ v[j] \in Int /\ v[k] \in Int /\ v[k + 1] \in Int
    BY <2>1, <1>1, <1>2
  <2>3. w[k] = IF k < j THEN v[k] ELSE v[k + 1]
    BY <2>1
  <2>4. /\ P[k] = IF k < j THEN Q[k] ELSE Q[k + 1] - v[j]
        /\ P[k - 1] = IF k - 1 < j THEN Q[k - 1] ELSE Q[k] - v[j]
    BY <2>1
  <2> HIDE DEF P
  <2>5. CASE k < j
    BY ONLY <2>1, <2>2, <2>8, <2>3, <2>4, <2>5
  <2>6. CASE k = j
    <3>1. P[k] = Q[k + 1] - v[k] /\ P[k - 1] = Q[k - 1] /\ w[k] = v[k + 1]
      BY ONLY <2>1, <2>3, <2>4, <2>6
    <3>2. Q[k] - v[k] = Q[k - 1]
      BY ONLY <2>2, <2>8, TakenAway, SMTT(30)
    <3>3. Q[k + 1] - v[k] = Q[k] - v[k] + v[k + 1]
      BY ONLY <2>2, <2>8, TakenFromBoth, SMTT(30)
    <3> QED BY ONLY <2>8, <3>1, <3>2, <3>3
  <2>7. CASE k > j
    <3>1. P[k] = Q[k + 1] - v[j] /\ P[k - 1] = Q[k] - v[j] /\ w[k] = v[k + 1]
      BY ONLY <2>1, <2>3, <2>4, <2>7
    <3>2. Q[k + 1] - v[j] = Q[k] - v[j] + v[k + 1]
      BY ONLY <2>2, <2>8, TakenFromBoth, SMTT(30)
    <3> QED BY ONLY <3>1, <3>2
  <2> QED BY <2>5, <2>6, <2>7, <1>1
<1>5. P[n - 1] = Sums(w)[n - 1]
  <2> HIDE DEF P
  <2>1. \A k \in 1 .. n - 1 : P[k] = P[k - 1] + w[k]
    BY <1>4
  <2> QED BY <1>1, <1>3, <2>1, SumsUnique
<1>6. P[n - 1] = Q[n] - v[j]
  <2>1. n - 1 \in 0 .. n - 1 /\ n - 1 + 1 = n /\ n \in 1 .. n /\ n \in 0 .. n
    BY <1>1
  <2>2. CASE n - 1 < j
    <3>1. n = j
      BY <1>1, <2>2
    <3>2. Q[n] = Q[n - 1] + v[n] /\ Q[n - 1] \in Int /\ v[n] \in Int
      BY <2>1, <1>1, <1>2
    <3> QED BY <2>1, <2>2, <3>1, <3>2
  <2>3. CASE ~ (n - 1 < j)
    BY <2>1, <2>3
  <2> QED BY <2>2, <2>3
<1>7. Q[n] \in Int /\ v[j] \in Int
  BY <1>1, <1>2
<1> QED BY <1>1, <1>5, <1>6, <1>7 DEF SumOf, n, Q

LEMMA SumTail ==
    ASSUME NEW v \in Seq(Int), v # <<>>
    PROVE  /\ Tail(v) \in Seq(Int)
           /\ SumOf(v) = SumOf(Tail(v)) + Head(v)
<1>1. /\ Tail(v) \in Seq(Int) /\ Len(Tail(v)) = Len(v) - 1 /\ 1 \in 1 .. Len(v)
      /\ \A i \in 1 .. Len(Tail(v)) : Tail(v)[i] = v[i + 1]
      /\ Head(v) = v[1]
  BY HeadTailProperties
<1>2. \A i \in 1 .. Len(Tail(v)) : ~ (i < 1)
  OBVIOUS
<1> QED BY <1>1, <1>2, SumWithout

-----------------------------------------------------------------------------
(* Sums over sets: that of any list of the elements, each listed once. *)

Lists(e, T) ==
    /\ e \in Seq(T)
    /\ IsInjective(e)
    /\ \A x \in T : \E k \in DOMAIN e : e[k] = x

Weights(e, w) == [k \in 1 .. Len(e) |-> w[e[k]]]

AddsUp(F, S, w, pick) ==
    \A T \in SUBSET S : F[T] = IF T = {} THEN 0 ELSE w[pick[T]] + F[T \ {pick[T]}]

ListedSum(n, F, S, w) ==
    \A T \in SUBSET S, e \in Seq(S) : Lists(e, T) /\ Len(e) = n => F[T] = SumOf(Weights(e, w))

LEMMA WeightsType ==
    ASSUME NEW S, NEW w \in [S -> Int], NEW e \in Seq(S)
    PROVE  /\ Weights(e, w) \in Seq(Int) /\ Len(Weights(e, w)) = Len(e)
           /\ \A k \in 1 .. Len(e) : Weights(e, w)[k] = w[e[k]]
BY DEF Weights

LEMMA ListWithout ==
    ASSUME NEW T, NEW e, Lists(e, T), NEW j \in 1 .. Len(e)
    PROVE  /\ Lists(RemoveAt(e, j), T \ {e[j]})
           /\ Len(RemoveAt(e, j)) = Len(e) - 1
<1> DEFINE d == RemoveAt(e, j)
<1>1. /\ e \in Seq(T) /\ IsInjective(e) /\ DOMAIN e = 1 .. Len(e) /\ Len(e) \in Nat
      /\ \A x \in T : \E k \in 1 .. Len(e) : e[k] = x
  BY DEF Lists
<1>2. /\ d \in Seq(T) /\ Len(d) = Len(e) - 1
      /\ IsInjective(d)
      /\ \A k \in 1 .. Len(e) - 1 : d[k] # e[j]
      /\ \A k \in 1 .. Len(e) : k # j => \E m \in 1 .. Len(e) - 1 : d[m] = e[k]
  BY <1>1, RemoveAtProperties, RemoveAtFromInjective
<1> HIDE DEF d
<1>3. DOMAIN d = 1 .. Len(e) - 1
  BY <1>1, <1>2
<1>4. d \in Seq(T \ {e[j]})
  <2>1. \A k \in 1 .. Len(d) : d[k] \in T \ {e[j]}
    BY <1>2, <1>3
  <2> QED BY <2>1, <1>2
<1>5. \A x \in T \ {e[j]} : \E k \in DOMAIN d : d[k] = x
  <2> SUFFICES ASSUME NEW x \in T \ {e[j]}
               PROVE  \E k \in 1 .. Len(e) - 1 : d[k] = x
    BY <1>3
  <2>1. PICK k \in 1 .. Len(e) : e[k] = x
    BY <1>1
  <2>2. k # j
    BY <2>1
  <2> QED BY <2>1, <2>2, <1>2
<1> QED BY <1>2, <1>4, <1>5 DEF Lists, d

LEMMA SumOfListed ==
    ASSUME NEW S, NEW w \in [S -> Int], NEW pick, NEW F,
           \A T \in SUBSET S : T # {} => pick[T] \in T,
           AddsUp(F, S, w, pick)
    PROVE  \A n \in Nat : ListedSum(n, F, S, w)
<1>1. ListedSum(0, F, S, w)
  <2> SUFFICES ASSUME NEW T \in SUBSET S, NEW e \in Seq(S), Lists(e, T), Len(e) = 0
               PROVE  F[T] = SumOf(Weights(e, w))
    BY DEF ListedSum
  <2>1. DOMAIN e = {} /\ e = <<>>
    OBVIOUS
  <2>2. T = {}
    BY <2>1 DEF Lists
  <2>3. F[T] = 0
    BY <2>2 DEF AddsUp
  <2>4. Weights(e, w) = <<>>
    BY <2>1 DEF Weights
  <2> QED BY <2>3, <2>4, SumEmpty
<1>2. ASSUME NEW n \in Nat, ListedSum(n, F, S, w)
      PROVE  ListedSum(n + 1, F, S, w)
  <2> SUFFICES ASSUME NEW T \in SUBSET S, NEW e \in Seq(S), Lists(e, T), Len(e) = n + 1
               PROVE  F[T] = SumOf(Weights(e, w))
    BY DEF ListedSum
  <2>1. DOMAIN e = 1 .. n + 1 /\ e[1] \in T
    BY DEF Lists
  <2>2. T # {} /\ pick[T] \in T
    BY <2>1
  <2>3. PICK j \in 1 .. n + 1 : e[j] = pick[T]
    BY <2>1, <2>2 DEF Lists
  <2> DEFINE d == RemoveAt(e, j)
  <2>4. Lists(d, T \ {pick[T]}) /\ Len(d) = n
    <3>1. Lists(d, T \ {e[j]}) /\ Len(d) = Len(e) - 1
      BY ListWithout
    <3> QED BY <3>1, <2>3
  <2>5. /\ d \in Seq(S) /\ Len(d) = Len(e) - 1
        /\ \A i \in 1 .. Len(e) - 1 : d[i] = IF i < j THEN e[i] ELSE e[i + 1]
    <3>1. e \in Seq(S) /\ j \in 1 .. Len(e)
      OBVIOUS
    <3> QED BY ONLY <3>1, RemoveAtProperties DEF d
  <2> HIDE DEF d
  <2>6. F[T \ {pick[T]}] = SumOf(Weights(d, w))
    BY <2>4, <2>5, <1>2 DEF ListedSum
  <2>7. SumOf(Weights(e, w)) = SumOf(Weights(d, w)) + w[pick[T]]
    <3>1. /\ Weights(e, w) \in Seq(Int) /\ Len(Weights(e, w)) = n + 1
          /\ \A k \in 1 .. n + 1 : Weights(e, w)[k] = w[e[k]]
      <4>1. w \in [S -> Int] /\ e \in Seq(S)
        OBVIOUS
      <4>2. /\ Weights(e, w) \in Seq(Int) /\ Len(Weights(e, w)) = Len(e)
            /\ \A k \in 1 .. Len(e) : Weights(e, w)[k] = w[e[k]]
        BY ONLY <4>1, WeightsType
      <4> QED BY <4>2
    <3>2. /\ Weights(d, w) \in Seq(Int) /\ Len(Weights(d, w)) = n
          /\ \A k \in 1 .. n : Weights(d, w)[k] = w[d[k]]
      <4>1. w \in [S -> Int] /\ d \in Seq(S)
        BY <2>5
      <4>2. /\ Weights(d, w) \in Seq(Int) /\ Len(Weights(d, w)) = Len(d)
            /\ \A k \in 1 .. Len(d) : Weights(d, w)[k] = w[d[k]]
        BY ONLY <4>1, WeightsType
      <4> QED BY <2>4, <4>2
    <3>3. \A i \in 1 .. n : Weights(d, w)[i] = IF i < j THEN Weights(e, w)[i] ELSE Weights(e, w)[i + 1]
      BY <2>5, <3>1, <3>2
    <3>4. SumOf(Weights(e, w)) = SumOf(Weights(d, w)) + Weights(e, w)[j]
      <4> DEFINE v == Weights(e, w)
                 u == Weights(d, w)
      <4>1. /\ v \in Seq(Int) /\ u \in Seq(Int) /\ j \in 1 .. Len(v) /\ Len(u) = Len(v) - 1
            /\ \A i \in 1 .. Len(u) : u[i] = IF i < j THEN v[i] ELSE v[i + 1]
        BY <3>1, <3>2, <3>3
      <4> HIDE DEF v, u
      <4>2. SumOf(v) = SumOf(u) + v[j]
        BY ONLY <4>1, SumWithout
      <4> QED BY <4>2 DEF v, u
    <3> QED BY <3>1, <3>4, <2>3
  <2>8. F[T] = w[pick[T]] + F[T \ {pick[T]}]
    BY <2>2 DEF AddsUp
  <2>9. w[pick[T]] \in Int /\ SumOf(Weights(d, w)) \in Int
    BY <2>2, <2>5, WeightsType, SumType
  <2> QED BY <2>6, <2>7, <2>8, <2>9
<1> DEFINE N == {n \in Nat : ListedSum(n, F, S, w)}
<1>3. 0 \in N /\ \A n \in Nat : n \in N => n + 1 \in N
  BY <1>1, <1>2
<1> HIDE DEF N
<1>4. Nat \subseteq N
  BY <1>3, Induction
<1> QED BY <1>4 DEF N

\* What MapThenSumSet picks.
AnyOf(S) == [T \in SUBSET S |-> CHOOSE x \in T : TRUE]

LEMMA SetSumExists ==
    ASSUME NEW S, IsFiniteSet(S), NEW w \in [S -> Int]
    PROVE  \E G \in [SUBSET S -> Int] : AddsUp(G, S, w, AnyOf(S))
<1> DEFINE step == [z \in S \X Int |-> w[z[1]] + z[2]]
           pick == AnyOf(S)
<1>1. step \in [S \X Int -> Int] /\ \A x \in S, y \in Int : step[<<x, y>>] = w[x] + y
  OBVIOUS
<1>2. \A T \in SUBSET S : T # {} => pick[T] \in T
  BY DEF AnyOf
<1>3. 0 \in Int
  OBVIOUS
<1> HIDE DEF step, pick
<1>4. PICK G \in [SUBSET S -> Int] : Folding(G, S, 0, step, pick)
  BY <1>1, <1>2, <1>3, FoldExists
<1>5. ASSUME NEW T \in SUBSET S
      PROVE  G[T] = IF T = {} THEN 0 ELSE w[pick[T]] + G[T \ {pick[T]}]
  <2>1. G[T] = IF T = {} THEN 0 ELSE step[<<pick[T], G[T \ {pick[T]}]>>]
    BY <1>4 DEF Folding
  <2>2. T # {} => pick[T] \in S /\ G[T \ {pick[T]}] \in Int
    BY <1>2
  <2> QED BY <1>1, <2>1, <2>2
<1> QED BY <1>5 DEF AddsUp, pick

LEMMA ListIsFinite ==
    ASSUME NEW T, NEW e, Lists(e, T)
    PROVE  IsFiniteSet(T)
<1>1. e \in [1 .. Len(e) -> T] /\ Len(e) \in Nat /\ DOMAIN e = 1 .. Len(e)
  BY DEF Lists
<1>2. e \in Surjection(1 .. Len(e), T)
  BY <1>1 DEF Lists, Surjection
<1>3. IsFiniteSet(1 .. Len(e))
  BY <1>1, FS_Interval
<1> QED BY <1>2, <1>3, FS_Surjection

-----------------------------------------------------------------------------
(* Quotients and remainders. *)

LEMMA DivMod ==
    ASSUME NEW n \in Nat \ {0}, NEW m \in Int
    PROVE  /\ m \div n \in Int /\ m % n \in 0 .. n - 1
           /\ m = n * (m \div n) + (m % n)
OBVIOUS

LEMMA MultipleGrows ==
    ASSUME NEW n \in Nat \ {0}, NEW k \in Int, k >= 1
    PROVE  n * k \in Int /\ n * k >= n
OBVIOUS

\* Of natural numbers.
LEMMA Quotient ==
    ASSUME NEW m \in Nat, NEW n \in Nat \ {0}
    PROVE  /\ m \div n \in Nat /\ m % n \in 0 .. n - 1
           /\ m - n * (m \div n) = m % n /\ n * (m \div n) \in Nat
           /\ n * (m \div n) <= m
<1> DEFINE q == m \div n
           r == m % n
<1>1. q \in Int /\ r \in 0 .. n - 1 /\ m = n * q + r
  BY DivMod
<1> HIDE DEF q, r
<1>2. n * q \in Int
  BY <1>1
<1>3. q >= 0
  <2> SUFFICES ASSUME q < 0 PROVE FALSE
    BY <1>1
  <2>1. -q >= 1 /\ -q \in Int
    BY <1>1
  <2>2. n * (-q) >= n /\ n * (-q) \in Int
    BY <2>1, MultipleGrows
  <2>3. n * q = -(n * (-q))
    BY <1>1
  <2> QED BY <1>1, <1>2, <2>2, <2>3
<1>4. n * q >= 0
  BY <1>1, <1>3
<1>5. q \in Nat /\ r \in 0 .. n - 1 /\ m - n * q = r /\ n * q \in Nat /\ n * q <= m
  BY <1>1, <1>2, <1>3, <1>4
<1> QED BY <1>5 DEF q, r

\* Multiples keep their distance.
LEMMA MultipleBetween ==
    ASSUME NEW c \in Nat, NEW i \in Nat, NEW j \in Nat, i < j
    PROVE  i * c \in Nat /\ j * c \in Nat /\ i * c + c <= j * c
<1>1. PICK d \in Nat : j = i + 1 + d
  <2>1. j - i - 1 \in Nat /\ j = i + 1 + (j - i - 1)
    OBVIOUS
  <2> QED BY <2>1
<1>2. i * c \in Nat /\ d * c \in Nat
  OBVIOUS
<1>3. (i + 1 + d) * c = i * c + c + d * c
  BY <1>1
<1> QED BY <1>1, <1>2, <1>3

\* There is one remainder.
LEMMA RemainderUnique ==
    ASSUME NEW n \in Nat \ {0}, NEW k \in Int, NEW r \in 0 .. n - 1, NEW m \in Int, m = n * k + r
    PROVE  m % n = r
<1> DEFINE q == m \div n
           s == m % n
<1>1. q \in Int /\ s \in 0 .. n - 1 /\ m = n * q + s
  BY DivMod
<1> HIDE DEF q, s
<1>3. n * k \in Int /\ n * q \in Int
  BY <1>1
<1>2. n * (k - q) = n * k - n * q
  BY <1>1
<1>4. n * (q - k) = n * q - n * k
  BY <1>1
<1>5. CASE k - q >= 1
  <2>1. n * (k - q) >= n
    BY <1>1, <1>5, MultipleGrows
  <2> QED BY <1>1, <1>2, <1>3, <2>1
<1>6. CASE q - k >= 1
  <2>1. n * (q - k) >= n
    BY <1>1, <1>6, MultipleGrows
  <2> QED BY <1>1, <1>4, <1>3, <2>1
<1>7. CASE q = k
  BY <1>1, <1>3, <1>7 DEF s
<1> QED BY <1>1, <1>5, <1>6, <1>7

\* Wrapping around at every addition is wrapping around once.
LEMMA ModAdd ==
    ASSUME NEW n \in Nat \ {0}, NEW a \in Int, NEW b \in Int
    PROVE  ((a % n) + b) % n = (a + b) % n
<1> DEFINE q == a \div n
           c == (a % n) + b
           p == c \div n
<1>1. q \in Int /\ a % n \in Int /\ a = n * q + (a % n)
  BY DivMod
<1>2. p \in Int /\ c % n \in 0 .. n - 1 /\ c = n * p + (c % n)
  BY <1>1, DivMod
<1>3. n * (q + p) = n * q + n * p /\ n * q \in Int /\ n * p \in Int
  <2> HIDE DEF q, p
  <2> QED BY <1>1, <1>2
<1>4. a + b = n * (q + p) + (c % n) /\ q + p \in Int /\ a + b \in Int
  BY <1>1, <1>2, <1>3
<1>5. (a + b) % n = c % n
  <2> DEFINE k == q + p
             r == c % n
             m == a + b
  <2>1. k \in Int /\ r \in 0 .. n - 1 /\ m \in Int /\ m = n * k + r
    BY <1>2, <1>4
  <2> HIDE DEF k, r, m
  <2>2. m % n = r
    BY <2>1, RemainderUnique
  <2> QED BY <2>2 DEF m, r
<1> QED BY <1>5

\* A fold from the left of numbers that wrap around at m.
FoldsModulo(G, v, m) ==
    /\ G \in [SUBSET (1 .. Len(v)) -> Int]
    /\ \A T \in SUBSET (1 .. Len(v)) :
           G[T] = IF T = {} THEN 0 ELSE (G[T \ {Max(T)}] + v[Max(T)]) % m

LEMMA ModuloFoldExists ==
    ASSUME NEW v \in Seq(Int), NEW m \in Nat \ {0}
    PROVE  \E G : FoldsModulo(G, v, m)
<1> DEFINE n == Len(v)
           step == [z \in (1 .. n) \X Int |-> (z[2] + v[z[1]]) % m]
<1>1. n \in Nat /\ 0 \in Int /\ IsStep(step, n, Int)
  <2>1. \A z \in (1 .. n) \X Int : (z[2] + v[z[1]]) % m \in Int
    <3> SUFFICES ASSUME NEW z \in (1 .. n) \X Int
                 PROVE  (z[2] + v[z[1]]) % m \in Int
      OBVIOUS
    <3> DEFINE y == z[2] + v[z[1]]
    <3>1. y \in Int
      OBVIOUS
    <3> HIDE DEF y
    <3>2. y % m \in Int
      BY <3>1
    <3> QED BY <3>2 DEF y
  <2>2. step \in [(1 .. n) \X Int -> Int]
    BY <2>1
  <2> HIDE DEF step
  <2> QED BY <2>2 DEF IsStep
<1>2. \A k \in 1 .. n, x \in Int : step[<<k, x>>] = (x + v[k]) % m
  OBVIOUS
<1> HIDE DEF step, n
<1>3. PICK G : FoldsFromTheLeft(G, n, Int, 0, step)
  BY <1>1, FoldFromTheLeft
<1>4. G \in [SUBSET (1 .. n) -> Int]
  BY <1>3 DEF FoldsFromTheLeft
<1>5. ASSUME NEW T \in SUBSET (1 .. n)
      PROVE  G[T] = IF T = {} THEN 0 ELSE (G[T \ {Max(T)}] + v[Max(T)]) % m
  <2>1. G[T] = IF T = {} THEN 0 ELSE step[<<LastOf(n)[T], G[T \ {LastOf(n)[T]}]>>]
    BY <1>3 DEF FoldsFromTheLeft, Folding
  <2>2. LastOf(n)[T] = Max(T)
    BY DEF LastOf
  <2>3. T # {} => Max(T) \in 1 .. n /\ G[T \ {Max(T)}] \in Int
    BY <1>1, <1>4, MaxIsLast
  <2> QED BY <1>2, <2>1, <2>2, <2>3
<1> QED BY <1>4, <1>5 DEF FoldsModulo, n

LEMMA ModuloFold ==
    ASSUME NEW v \in Seq(Int), NEW m \in Nat \ {0}, NEW F,
           \A T \in SUBSET (1 .. Len(v)) :
               F[T] = IF T = {} THEN 0 ELSE (F[T \ {Max(T)}] + v[Max(T)]) % m
    PROVE  F[1 .. Len(v)] = SumOf(v) % m
<1> DEFINE n == Len(v)
           P == [k \in 0 .. n |-> F[1 .. k]]
           Q == [k \in 0 .. n |-> Sums(v)[k] % m]
<1>1. n \in Nat /\ n \in 0 .. n /\ 0 \in 0 .. n
      /\ \A k \in 1 .. n : k \in 0 .. n /\ k - 1 \in 0 .. n /\ v[k] \in Int
  OBVIOUS
<1>2. F[1 .. 0] = 0
  <2>1. 1 .. 0 = {} /\ {} \in SUBSET (1 .. n)
    OBVIOUS
  <2> QED BY <2>1
<1>3. ASSUME NEW k \in 1 .. n
      PROVE  F[1 .. k] = (F[1 .. k - 1] + v[k]) % m
  BY <1>1, PrefixEndsWith
<1>4. AreSums(Sums(v), v)
  BY SumsExist
<1>5. \A k \in 0 .. n : P[k] = F[1 .. k] /\ Q[k] = Sums(v)[k] % m
  OBVIOUS
<1> HIDE DEF n, P, Q
<1>6. P[0] = Q[0]
  <2>1. Sums(v)[0] = 0 /\ 0 % m = 0
    <3>1. m \in Nat \ {0} /\ 0 \in Int /\ 0 \in 0 .. m - 1 /\ 0 = m * 0 + 0
      OBVIOUS
    <3> QED BY <3>1, <1>4, RemainderUnique DEF AreSums
  <2> QED BY <2>1, <1>1, <1>2, <1>5
<1>7. ASSUME NEW k \in 1 .. n, P[k - 1] = Q[k - 1]
      PROVE  P[k] = Q[k]
  <2> DEFINE a == Sums(v)[k - 1]
             b == v[k]
  <2>1. a \in Int /\ b \in Int /\ Sums(v)[k] = a + b
    BY <1>1, <1>4 DEF AreSums, n
  <2>2. P[k] = ((a % m) + b) % m
    BY <1>1, <1>3, <1>5, <1>7
  <2> HIDE DEF a, b
  <2>3. ((a % m) + b) % m = (a + b) % m
    BY <2>1, ModAdd
  <2>4. Q[k] = (a + b) % m
    BY <1>1, <1>5, <2>1
  <2> QED BY <2>2, <2>3, <2>4
<1>8. RunAlike(P, Q, n)
  BY <1>6, <1>7 DEF RunAlike
<1>9. P[n] = Q[n]
  BY <1>1, <1>8, SameRun
<1> QED BY <1>1, <1>5, <1>9 DEF SumOf, n

-----------------------------------------------------------------------------
(* Recursion along an interval. *)

\* What holds at m and passes from each number to the next holds up to n.
LEMMA IntervalInduction ==
    ASSUME NEW m \in Nat, NEW n \in Nat, NEW S,
           m \in S, \A k \in m + 1 .. n : k - 1 \in S => k \in S
    PROVE  \A k \in m .. n : k \in S
<1> DEFINE N == {d \in Nat : m + d <= n => m + d \in S}
<1>1. 0 \in N
  OBVIOUS
<1>2. ASSUME NEW d \in Nat, d \in N
      PROVE  d + 1 \in N
  <2>1. m + (d + 1) <= n => /\ m + d <= n /\ m + (d + 1) \in m + 1 .. n
                            /\ m + (d + 1) - 1 = m + d
    OBVIOUS
  <2> QED BY <1>2, <2>1
<1> HIDE DEF N
<1>3. Nat \subseteq N
  BY <1>1, <1>2, Induction
<1>4. ASSUME NEW k \in m .. n PROVE k \in S
  <2>1. k - m \in N /\ m + (k - m) = k /\ k <= n
    BY <1>3
  <2> QED BY <2>1 DEF N
<1> QED BY <1>4

\* A recursive definition along an interval defines a function.
RunsFrom(f, m, n, X, base, step) ==
    /\ f \in [m .. n -> X]
    /\ f[m] = base
    /\ \A k \in m + 1 .. n : f[k] = step[<<k, f[k - 1]>>]

LEMMA RecursionFrom ==
    ASSUME NEW m \in Nat, NEW n \in Nat, m <= n, NEW X, NEW base \in X,
           NEW step \in [(m + 1 .. n) \X X -> X]
    PROVE  \E f : RunsFrom(f, m, n, X, base, step)
<1> DEFINE l == n - m
           shifted == [z \in (1 .. l) \X X |-> step[<<m + z[1], z[2]>>]]
<1>1. l \in Nat /\ \A k \in 1 .. l : m + k \in m + 1 .. n
  OBVIOUS
<1>2. IsStep(shifted, l, X)
  BY <1>1 DEF IsStep
<1>3. \A k \in 1 .. l, x \in X : shifted[<<k, x>>] = step[<<m + k, x>>]
  OBVIOUS
<1> HIDE DEF shifted, l
<1>4. PICK G : FoldsFromTheLeft(G, l, X, base, shifted)
  BY <1>1, <1>2, FoldFromTheLeft
<1>5. /\ G \in [SUBSET (1 .. l) -> X]
      /\ G[1 .. 0] = base
      /\ \A k \in 1 .. l : G[1 .. k] = shifted[<<k, G[1 .. k - 1]>>]
  BY <1>4 DEF FoldsFromTheLeft
<1> DEFINE f == [k \in m .. n |-> G[1 .. k - m]]
<1>6. \A k \in 0 .. l : G[1 .. k] \in X
  <2>1. \A k \in 0 .. l : 1 .. k \in SUBSET (1 .. l)
    BY <1>1
  <2> QED BY <2>1, <1>5
<1>7. \A k \in m .. n : k - m \in 0 .. l /\ f[k] = G[1 .. k - m]
  BY DEF l
<1>8. f \in [m .. n -> X]
  BY <1>6, <1>7
<1>9. f[m] = base
  <2>1. m \in m .. n /\ m - m = 0
    OBVIOUS
  <2> QED BY <2>1, <1>5, <1>7
<1>10. ASSUME NEW k \in m + 1 .. n
       PROVE  f[k] = step[<<k, f[k - 1]>>]
  <2>1. /\ k \in m .. n /\ k - 1 \in m .. n /\ k - m \in 1 .. l /\ k - 1 - m = k - m - 1
        /\ m + (k - m) = k /\ k - m - 1 \in 0 .. l
    BY DEF l
  <2>2. G[1 .. k - m] = shifted[<<k - m, G[1 .. k - m - 1]>>]
    BY <1>5, <2>1
  <2>3. G[1 .. k - m - 1] \in X
    BY <1>6, <2>1
  <2>4. shifted[<<k - m, G[1 .. k - m - 1]>>] = step[<<m + (k - m), G[1 .. k - m - 1]>>]
    BY <1>3, <2>1, <2>3
  <2>5. f[k] = G[1 .. k - m] /\ f[k - 1] = G[1 .. k - m - 1]
    BY <1>7, <2>1
  <2> QED BY <2>1, <2>2, <2>4, <2>5
<1> HIDE DEF f
<1> QED BY <1>8, <1>9, <1>10 DEF RunsFrom

-----------------------------------------------------------------------------
(* Estimates of sums. *)

\* Two sums, where each number of one is at least c times that of the other.
LEMMA SumScaled ==
    ASSUME NEW v \in Seq(Int), NEW w \in Seq(Int), Len(v) = Len(w), NEW c \in Int,
           \A i \in 1 .. Len(v) : c * w[i] <= v[i]
    PROVE  c * SumOf(w) <= SumOf(v)
<1> DEFINE n == Len(v)
           P == Sums(v)
           Q == Sums(w)
           S == {k \in 0 .. n : c * Q[k] <= P[k]}
<1>1. /\ n \in Nat /\ P \in [0 .. n -> Int] /\ Q \in [0 .. n -> Int]
      /\ P[0] = 0 /\ Q[0] = 0
      /\ \A k \in 1 .. n : P[k] = P[k - 1] + v[k] /\ Q[k] = Q[k - 1] + w[k]
      /\ \A k \in 1 .. n : v[k] \in Int /\ w[k] \in Int /\ c * w[k] <= v[k]
  BY SumsExist DEF AreSums
<1> HIDE DEF n, P, Q
<1>2. 0 \in S
  BY <1>1
<1>3. ASSUME NEW k \in 0 + 1 .. n, k - 1 \in S PROVE k \in S
  <2>1. k \in 1 .. n /\ k - 1 \in 0 .. n /\ k \in 0 .. n
    BY <1>1
  <2> DEFINE p == P[k - 1]
             q == Q[k - 1]
             x == v[k]
             y == w[k]
  <2>2. /\ p \in Int /\ q \in Int /\ x \in Int /\ y \in Int
        /\ P[k] = p + x /\ Q[k] = q + y /\ c * q <= p /\ c * y <= x
    BY <1>1, <1>3, <2>1
  <2> HIDE DEF p, q, x, y
  <2>3. c * (q + y) = c * q + c * y /\ c * q \in Int /\ c * y \in Int
    BY <2>2
  <2>4. c * Q[k] <= P[k]
    BY <2>2, <2>3
  <2> QED BY <2>1, <2>4
<1>4. n \in 0 .. n /\ 0 \in Nat
  BY <1>1
<1> HIDE DEF S
<1>5. n \in S
  BY <1>1, <1>2, <1>3, <1>4, IntervalInduction
<1> QED BY <1>5 DEF S, n, P, Q, SumOf

\* The same from above.
LEMMA SumScaledAbove ==
    ASSUME NEW v \in Seq(Int), NEW w \in Seq(Int), Len(v) = Len(w), NEW c \in Int,
           \A i \in 1 .. Len(v) : v[i] <= c * w[i]
    PROVE  SumOf(v) <= c * SumOf(w)
<1> DEFINE n == Len(v)
           P == Sums(v)
           Q == Sums(w)
           S == {k \in 0 .. n : P[k] <= c * Q[k]}
<1>1. /\ n \in Nat /\ P \in [0 .. n -> Int] /\ Q \in [0 .. n -> Int]
      /\ P[0] = 0 /\ Q[0] = 0
      /\ \A k \in 1 .. n : P[k] = P[k - 1] + v[k] /\ Q[k] = Q[k - 1] + w[k]
      /\ \A k \in 1 .. n : v[k] \in Int /\ w[k] \in Int /\ v[k] <= c * w[k]
  BY SumsExist DEF AreSums
<1> HIDE DEF n, P, Q
<1>2. 0 \in S
  BY <1>1
<1>3. ASSUME NEW k \in 0 + 1 .. n, k - 1 \in S PROVE k \in S
  <2>1. k \in 1 .. n /\ k - 1 \in 0 .. n /\ k \in 0 .. n
    BY <1>1
  <2> DEFINE p == P[k - 1]
             q == Q[k - 1]
             x == v[k]
             y == w[k]
  <2>2. /\ p \in Int /\ q \in Int /\ x \in Int /\ y \in Int
        /\ P[k] = p + x /\ Q[k] = q + y /\ p <= c * q /\ x <= c * y
    BY <1>1, <1>3, <2>1
  <2> HIDE DEF p, q, x, y
  <2>3. c * (q + y) = c * q + c * y /\ c * q \in Int /\ c * y \in Int
    BY <2>2
  <2>4. P[k] <= c * Q[k]
    BY <2>2, <2>3
  <2> QED BY <2>1, <2>4
<1>4. n \in 0 .. n /\ 0 \in Nat
  BY <1>1
<1> HIDE DEF S
<1>5. n \in S
  BY <1>1, <1>2, <1>3, <1>4, IntervalInduction
<1> QED BY <1>5 DEF S, n, P, Q, SumOf

\* The sum of natural numbers is one.
LEMMA SumOfNaturals ==
    ASSUME NEW v \in Seq(Nat)
    PROVE  SumOf(v) \in Nat
<1>1. v \in Seq(Int) /\ \A i \in 1 .. Len(v) : 0 * v[i] <= v[i]
  OBVIOUS
<1>2. 0 * SumOf(v) <= SumOf(v) /\ SumOf(v) \in Int
  BY <1>1, SumScaled, SumType
<1> QED BY <1>2

\* Ones add up to their number.
LEMMA SumOfOnes ==
    ASSUME NEW n \in Nat
    PROVE  /\ [i \in 1 .. n |-> 1] \in Seq(Int) /\ Len([i \in 1 .. n |-> 1]) = n
           /\ SumOf([i \in 1 .. n |-> 1]) = n
<1> DEFINE v == [i \in 1 .. n |-> 1]
           P == [k \in 0 .. n |-> k]
<1>1. v \in Seq(Int) /\ Len(v) = n /\ \A k \in 1 .. n : v[k] = 1
  OBVIOUS
<1>2. P[0] = 0 /\ P[n] = n /\ \A k \in 1 .. n : P[k] = P[k - 1] + v[k]
  OBVIOUS
<1> HIDE DEF v, P
<1>3. n \in 0 .. Len(v)
  BY <1>1
<1>4. P[n] = Sums(v)[n]
  BY <1>1, <1>2, <1>3, SumsUnique
<1>5. SumOf(v) = n
  BY <1>1, <1>2, <1>4 DEF SumOf
<1> QED BY <1>1, <1>5 DEF v

\* The square of a sum is no more than the sum of the squares times their number.
LEMMA SquareOfSum ==
    ASSUME NEW v \in Seq(Int), NEW w \in Seq(Int), Len(v) = Len(w),
           \A i \in 1 .. Len(v) : w[i] = v[i] * v[i]
    PROVE  SumOf(v) * SumOf(v) <= Len(v) * SumOf(w)
<1> DEFINE n == Len(v)
           P == Sums(v)
           Q == Sums(w)
<1>1. /\ n \in Nat /\ P \in [0 .. n -> Int] /\ Q \in [0 .. n -> Int]
      /\ P[0] = 0 /\ Q[0] = 0
      /\ \A k \in 1 .. n : P[k] = P[k - 1] + v[k] /\ Q[k] = Q[k - 1] + w[k]
      /\ \A k \in 1 .. n : v[k] \in Int /\ w[k] = v[k] * v[k]
  BY SumsExist DEF AreSums
<1> HIDE DEF n, P, Q
<1>2. ASSUME NEW x \in Int
      PROVE  \A k \in 0 .. n : 2 * (x * P[k]) <= Q[k] + k * (x * x)
  <2> DEFINE S == {k \in 0 .. n : 2 * (x * P[k]) <= Q[k] + k * (x * x)}
  <2>1. 0 \in S
    BY <1>1
  <2>2. ASSUME NEW k \in 0 + 1 .. n, k - 1 \in S PROVE k \in S
    <3>1. k \in 1 .. n /\ k - 1 \in 0 .. n /\ k \in 0 .. n /\ k \in Int
      BY <1>1
    <3> DEFINE p == P[k - 1]
               q == Q[k - 1]
               y == v[k]
               l == k - 1
    <3>2. /\ p \in Int /\ q \in Int /\ y \in Int /\ l \in Int /\ k = l + 1
          /\ P[k] = p + y /\ Q[k] = q + y * y /\ 2 * (x * p) <= q + l * (x * x)
      BY <1>1, <2>2, <3>1
    <3> HIDE DEF p, q, y, l
    <3>3. 0 <= (x - y) * (x - y)
      BY <3>2
    <3>4. /\ (x - y) * (x - y) = x * x - 2 * (x * y) + y * y
          /\ x * (p + y) = x * p + x * y
          /\ (l + 1) * (x * x) = l * (x * x) + x * x
      BY <3>2
    <3>5. /\ x * x \in Int /\ x * y \in Int /\ y * y \in Int /\ x * p \in Int
          /\ l * (x * x) \in Int
      BY <3>2
    <3>6. 2 * (x * p + x * y) <= q + y * y + (l * (x * x) + x * x)
      BY <3>2, <3>3, <3>4, <3>5
    <3> QED BY <3>1, <3>2, <3>4, <3>6
  <2>3. 0 \in Nat
    OBVIOUS
  <2> HIDE DEF S
  <2>4. \A k \in 0 .. n : k \in S
    BY <1>1, <2>1, <2>2, <2>3, IntervalInduction
  <2> QED BY <2>4 DEF S
<1> DEFINE S == {k \in 0 .. n : P[k] * P[k] <= k * Q[k]}
<1>3. 0 \in S
  BY <1>1
<1>4. ASSUME NEW k \in 0 + 1 .. n, k - 1 \in S PROVE k \in S
  <2>1. k \in 1 .. n /\ k - 1 \in 0 .. n /\ k \in 0 .. n /\ k \in Int
    BY <1>1
  <2> DEFINE p == P[k - 1]
             q == Q[k - 1]
             x == v[k]
             l == k - 1
  <2>2. /\ p \in Int /\ q \in Int /\ x \in Int /\ l \in Int /\ k = l + 1
        /\ P[k] = p + x /\ Q[k] = q + x * x /\ p * p <= l * q
        /\ 2 * (x * p) <= q + l * (x * x)
    <3>1. /\ p \in Int /\ q \in Int /\ x \in Int /\ l \in Int /\ k = l + 1
          /\ P[k] = p + x /\ Q[k] = q + x * x /\ p * p <= l * q
      BY <1>1, <1>4, <2>1
    <3>2. 2 * (x * p) <= q + l * (x * x)
      BY <1>2, <2>1, <3>1
    <3> QED BY <3>1, <3>2
  <2> HIDE DEF p, q, x, l
  <2>3. /\ (p + x) * (p + x) = p * p + 2 * (x * p) + x * x
        /\ (l + 1) * (q + x * x) = l * q + q + l * (x * x) + x * x
    BY <2>2
  <2>4. /\ p * p \in Int /\ x * p \in Int /\ x * x \in Int /\ l * q \in Int
        /\ l * (x * x) \in Int
    BY <2>2
  <2>5. p * p + 2 * (x * p) + x * x <= l * q + q + l * (x * x) + x * x
    BY <2>2, <2>4
  <2>6. P[k] * P[k] <= k * Q[k]
    BY <2>2, <2>3, <2>5
  <2> QED BY <2>1, <2>6
<1>5. n \in 0 .. n /\ 0 \in Nat
  BY <1>1
<1> HIDE DEF S
<1>6. n \in S
  BY <1>1, <1>3, <1>4, <1>5, IntervalInduction
<1> QED BY <1>6, <1>1 DEF S, n, P, Q, SumOf
=============================================================================
