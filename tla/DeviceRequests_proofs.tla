----------------------- MODULE DeviceRequests_proofs -----------------------
(***************************************************************************)
(* Proofs about DeviceRequests, for every set of sensors, every way to cut *)
(* replies into segments, and any numbers of fields, monitoring cases,     *)
(* requests and faults.                                                    *)
(*                                                                         *)
(* First what FlattenSeq does to a sequence of segments, which takes an    *)
(* induction over its length; then that the segments of a reply are a      *)
(* partition of its bytes; then that every reply of the sensor has its own *)
(* length in its header, variable by variable.  With these the invariant   *)
(* ReplyInv says what merger, segments on their way and reply have to do   *)
(* with each other between any two steps.                                  *)
(***************************************************************************)
EXTENDS DeviceRequests, ByteOrder_proofs, FiniteSetTheorems, SequenceTheorems,
        WellFoundedInduction, TLAPS

-----------------------------------------------------------------------------
(* FlattenSeq. *)

\* f has the sequences S[1] to S[n] put together one after the other.
Accumulates(f, S, n) ==
  /\ f \in [1 .. n -> {f[i] : i \in 1 .. n}]
  /\ \A i \in 1 .. n : f[i] = IF i = 1 THEN S[i] ELSE f[i - 1] \o S[i]

LEMMA AccumulationValue ==
  ASSUME NEW f, NEW S, NEW n, Accumulates(f, S, n), NEW k \in 1 .. n
  PROVE  f[k] = IF k = 1 THEN S[k] ELSE f[k - 1] \o S[k]
BY DEF Accumulates

LEMMA AccumulationEquation ==
  ASSUME NEW S, NEW n, NEW f
  PROVE  Accumulates(f, S, n)
         <=> f = [i \in 1 .. n |-> IF i = 1 THEN S[i] ELSE f[i - 1] \o S[i]]
<1>1. ASSUME f = [i \in 1 .. n |-> IF i = 1 THEN S[i] ELSE f[i - 1] \o S[i]]
      PROVE  Accumulates(f, S, n)
  <2> DEFINE e == [i \in 1 .. n |-> IF i = 1 THEN S[i] ELSE f[i - 1] \o S[i]]
  <2>1. /\ e \in [1 .. n -> {e[i] : i \in 1 .. n}]
        /\ \A i \in 1 .. n : e[i] = IF i = 1 THEN S[i] ELSE f[i - 1] \o S[i]
    OBVIOUS
  <2>2. f = e
    BY <1>1
  <2> HIDE DEF e
  <2> QED
    BY <2>1, <2>2 DEF Accumulates
<1>2. ASSUME Accumulates(f, S, n)
      PROVE  f = [i \in 1 .. n |-> IF i = 1 THEN S[i] ELSE f[i - 1] \o S[i]]
  <2> DEFINE e == [i \in 1 .. n |-> IF i = 1 THEN S[i] ELSE f[i - 1] \o S[i]]
  <2>1. /\ f \in [1 .. n -> {f[i] : i \in 1 .. n}]
        /\ \A i \in 1 .. n : f[i] = IF i = 1 THEN S[i] ELSE f[i - 1] \o S[i]
    BY <1>2 DEF Accumulates
  <2>2. e \in [1 .. n -> {f[i] : i \in 1 .. n}] /\ \A i \in 1 .. n : f[i] = e[i]
    BY <2>1
  <2> QED
    BY <2>1, <2>2
<1> QED
  BY <1>1, <1>2

LEMMA AccumulationExists ==
  ASSUME NEW S, NEW n \in Nat
  PROVE  \E f : Accumulates(f, S, n)
<1> DEFINE T == {m \in Nat : \E f : Accumulates(f, S, m)}
<1>1. 0 \in T
  <2>1. Accumulates([i \in 1 .. 0 |-> 0], S, 0)
    BY DEF Accumulates
  <2> QED
    BY <2>1
<1>2. ASSUME NEW m \in Nat, m \in T
      PROVE  m + 1 \in T
  <2>1. PICK f : Accumulates(f, S, m)
    BY <1>2
  <2> DEFINE g == [i \in 1 .. m + 1 |->
                     IF i = m + 1 THEN IF i = 1 THEN S[i] ELSE f[m] \o S[i] ELSE f[i]]
  <2>2. \A i \in 1 .. m + 1 : g[i] = IF i = 1 THEN S[i] ELSE g[i - 1] \o S[i]
    <3> TAKE i \in 1 .. m + 1
    <3>1. CASE i = m + 1
      <4>1. i # 1 => i - 1 = m /\ m \in 1 .. m + 1 /\ m # m + 1
        BY <3>1
      <4> QED
        BY <3>1, <4>1
    <3>2. CASE i # m + 1
      <4>1. i \in 1 .. m /\ g[i] = f[i]
        BY <3>2
      <4>2. f[i] = IF i = 1 THEN S[i] ELSE f[i - 1] \o S[i]
        BY <2>1, <4>1 DEF Accumulates
      <4>3. i # 1 => i - 1 \in 1 .. m + 1 /\ i - 1 # m + 1
        BY <4>1
      <4> QED
        BY <4>1, <4>2, <4>3
    <3> QED
      BY <3>1, <3>2
  <2>3. Accumulates(g, S, m + 1)
    <3>1. g \in [1 .. m + 1 -> {g[i] : i \in 1 .. m + 1}]
      OBVIOUS
    <3> HIDE DEF g
    <3> QED
      BY <2>2, <3>1 DEF Accumulates
  <2> QED
    BY <2>3
<1> HIDE DEF T
<1>3. n \in T
  BY <1>1, <1>2, SetInduction
<1> QED
  BY <1>3 DEF T

LEMMA AccumulationIsUnique ==
  ASSUME NEW S, NEW R, NEW f, NEW g, NEW m \in Nat, NEW n \in Nat,
         Accumulates(f, S, m), Accumulates(g, R, n),
         n <= m, \A i \in 1 .. n : S[i] = R[i]
  PROVE  \A i \in 1 .. n : f[i] = g[i]
<1> DEFINE T == {j \in Nat : \A i \in 1 .. n : i = j => f[i] = g[i]}
<1>1. 0 \in T
  OBVIOUS
<1>2. ASSUME NEW j \in Nat, j \in T
      PROVE  j + 1 \in T
  <2> SUFFICES ASSUME NEW i \in 1 .. n, i = j + 1 PROVE f[i] = g[i]
    OBVIOUS
  <2>1. i \in 1 .. m /\ i \in 1 .. n
    OBVIOUS
  <2>2. f[i] = IF i = 1 THEN S[i] ELSE f[i - 1] \o S[i]
    BY <2>1, AccumulationValue
  <2>3. g[i] = IF i = 1 THEN R[i] ELSE g[i - 1] \o R[i]
    BY <2>1, AccumulationValue
  <2>4. i # 1 => f[i - 1] = g[i - 1]
    <3>1. i # 1 => i - 1 \in 1 .. n /\ i - 1 = j
      OBVIOUS
    <3> QED
      BY <1>2, <3>1
  <2>5. S[i] = R[i]
    OBVIOUS
  <2> QED
    BY <2>2, <2>3, <2>4, <2>5
<1> HIDE DEF T
<1>3. \A j \in Nat : j \in T
  BY <1>1, <1>2, SetInduction
<1> QED
  BY <1>3 DEF T

LEMMA FlattenIsAccumulation ==
  ASSUME NEW S, NEW f, NEW n \in Nat, n = Len(S), n > 0, Accumulates(f, S, n)
  PROVE  FlattenSeq(S) = f[n]
<1> DEFINE g == CHOOSE g : g = [i \in 1 .. Len(S) |-> IF i = 1 THEN S[i] ELSE g[i - 1] \o S[i]]
<1>1. FlattenSeq(S) = g[Len(S)]
  BY DEF FlattenSeq
<1>2. \A h : Accumulates(h, S, n)
            <=> h = [i \in 1 .. Len(S) |-> IF i = 1 THEN S[i] ELSE h[i - 1] \o S[i]]
  BY AccumulationEquation
<1>3. Accumulates(g, S, n)
  <2>1. PICK h : Accumulates(h, S, n)
    BY AccumulationExists
  <2> QED
    BY <1>2, <2>1
<1> HIDE DEF g
<1>4. \A i \in 1 .. n : f[i] = g[i]
  BY <1>3, AccumulationIsUnique
<1> QED
  BY <1>1, <1>4

LEMMA FlattenEmpty == FlattenSeq(<<>>) = <<>>
BY DEF FlattenSeq

LEMMA FlattenExtended ==
  ASSUME NEW S, NEW A, NEW n \in Nat, NEW m \in Nat, m = n + 1, n > 0,
         Len(S) = n, Len(A) = m, \A i \in 1 .. n : A[i] = S[i]
  PROVE  FlattenSeq(A) = FlattenSeq(S) \o A[m]
<1>1. PICK f : Accumulates(f, A, m)
  BY AccumulationExists
<1>2. PICK g : Accumulates(g, S, n)
  BY AccumulationExists
<1>3. \A i \in 1 .. n : f[i] = g[i]
  BY <1>1, <1>2, AccumulationIsUnique
<1>4. FlattenSeq(A) = f[m] /\ FlattenSeq(S) = g[n]
  BY <1>1, <1>2, FlattenIsAccumulation
<1>5. f[m] = IF m = 1 THEN A[m] ELSE f[m - 1] \o A[m]
  <2>1. PICK k \in 1 .. m : k = m
    OBVIOUS
  <2>2. f[k] = IF k = 1 THEN A[k] ELSE f[k - 1] \o A[k]
    BY <1>1, AccumulationValue
  <2> QED
    BY <2>1, <2>2
<1>6. m # 1 /\ m - 1 = n /\ n \in 1 .. n
  OBVIOUS
<1> QED
  BY <1>3, <1>4, <1>5, <1>6

LEMMA FlattenSingle ==
  ASSUME NEW A, Len(A) = 1
  PROVE  FlattenSeq(A) = A[1]
<1>1. PICK n \in Nat : n = 1 /\ n > 0 /\ n = Len(A) /\ n \in 1 .. n
  OBVIOUS
<1>2. PICK f : Accumulates(f, A, n)
  BY <1>1, AccumulationExists
<1>3. FlattenSeq(A) = f[n]
  BY <1>1, <1>2, FlattenIsAccumulation
<1>4. f[n] = A[n]
  BY <1>1, <1>2 DEF Accumulates
<1> QED
  BY <1>1, <1>3, <1>4

\* A segment more is put at the end.
LEMMA FlattenAppend ==
  ASSUME NEW V, NEW S \in Seq(Seq(V)), NEW x \in Seq(V)
  PROVE  FlattenSeq(Append(S, x)) = FlattenSeq(S) \o x
<1> DEFINE A == Append(S, x)
<1>1. PICK n \in Nat : n = Len(S)
  OBVIOUS
<1>2. PICK m \in Nat : m = n + 1
  OBVIOUS
<1>3. Len(A) = m /\ A[m] = x /\ \A i \in 1 .. n : A[i] = S[i]
  BY <1>1, <1>2
<1>4. Len(S) = 0 => S = <<>> /\ <<>> \o x = x
  OBVIOUS
<1> HIDE DEF A
<1>5. CASE n = 0
  <2>1. FlattenSeq(A) = x
    BY <1>2, <1>3, <1>5, FlattenSingle
  <2> QED
    BY <1>1, <1>4, <1>5, <2>1, FlattenEmpty DEF A
<1>6. CASE n # 0
  <2>1. FlattenSeq(A) = FlattenSeq(S) \o A[m]
    <3>1. n > 0 /\ Len(S) = n /\ Len(A) = m /\ \A i \in 1 .. n : A[i] = S[i]
      BY <1>1, <1>3, <1>6
    <3> QED
      BY <1>2, <3>1, FlattenExtended, Zenon
  <2> QED
    BY <1>3, <2>1 DEF A
<1> QED
  BY <1>5, <1>6

LEMMA Concatenations ==
  ASSUME NEW V
  PROVE  \A p, q, r \in Seq(V) : (p \o q) \o r = p \o (q \o r)
<1> TAKE p, q, r \in Seq(V)
<1> DEFINE s == (p \o q) \o r
           t == p \o (q \o r)
<1>1. /\ s \in Seq(V) /\ t \in Seq(V)
      /\ Len(s) = Len(p) + Len(q) + Len(r) /\ Len(t) = Len(p) + Len(q) + Len(r)
  OBVIOUS
<1>2. \A i \in 1 .. Len(s) : s[i] = t[i]
  OBVIOUS
<1> HIDE DEF s, t
<1>3. s = t
  BY <1>1, <1>2, SeqEqual
<1> QED
  BY <1>3 DEF s, t

LEMMA ConcatAppend ==
  ASSUME NEW V, NEW p \in Seq(V), NEW q \in Seq(V), NEW x \in V
  PROVE  p \o Append(q, x) = Append(p \o q, x) /\ p \o q \in Seq(V)
<1>1. p \o q \in Seq(V) /\ <<x>> \in Seq(V)
  OBVIOUS
<1>2. Append(q, x) = q \o <<x>> /\ Append(p \o q, x) = (p \o q) \o <<x>>
  BY <1>1, AppendIsConcat
<1>3. (p \o q) \o <<x>> = p \o (q \o <<x>>)
  BY <1>1, Concatenations
<1> QED
  BY <1>1, <1>2, <1>3

LEMMA FlattenType ==
  ASSUME NEW V, NEW S \in Seq(Seq(V))
  PROVE  FlattenSeq(S) \in Seq(V)
<1> DEFINE T == {n \in Nat : \A s \in Seq(Seq(V)) : Len(s) = n => FlattenSeq(s) \in Seq(V)}
<1>1. 0 \in T
  <2>1. \A s \in Seq(Seq(V)) : Len(s) = 0 => s = <<>>
    OBVIOUS
  <2> QED
    BY <2>1, FlattenEmpty
<1>2. ASSUME NEW n \in Nat, n \in T
      PROVE  n + 1 \in T
  <2> SUFFICES ASSUME NEW s \in Seq(Seq(V)), Len(s) = n + 1
               PROVE  FlattenSeq(s) \in Seq(V)
    OBVIOUS
  <2>0. s # <<>>
    OBVIOUS
  <2>1. PICK r \in Seq(Seq(V)), x \in Seq(V) : s = Append(r, x)
    BY <2>0, SequenceEmptyOrAppend
  <2>2. Len(r) = n
    BY <2>1
  <2>3. FlattenSeq(r) \in Seq(V)
    BY <1>2, <2>2
  <2>4. FlattenSeq(s) = FlattenSeq(r) \o x
    BY <2>1, FlattenAppend
  <2> QED
    BY <2>3, <2>4
<1> HIDE DEF T
<1>3. \A n \in Nat : n \in T
  BY <1>1, <1>2, SetInduction
<1>4. Len(S) \in T
  BY <1>3
<1> QED
  BY <1>4 DEF T

LEMMA FlattenConcat ==
  ASSUME NEW V, NEW R \in Seq(Seq(V)), NEW S \in Seq(Seq(V))
  PROVE  FlattenSeq(R \o S) = FlattenSeq(R) \o FlattenSeq(S)
<1> DEFINE Splits(s) == FlattenSeq(R \o s) = FlattenSeq(R) \o FlattenSeq(s)
           T == {n \in Nat : \A s \in Seq(Seq(V)) : Len(s) = n => Splits(s)}
<1>0. \A p, q, r \in Seq(V) : (p \o q) \o r = p \o (q \o r)
  BY Concatenations
<1>1. 0 \in T
  <2>1. \A s \in Seq(Seq(V)) : Len(s) = 0 => s = <<>>
    OBVIOUS
  <2>2. R \o <<>> = R
    OBVIOUS
  <2>3. FlattenSeq(R) \o <<>> = FlattenSeq(R)
    BY FlattenType
  <2> QED
    BY <2>1, <2>2, <2>3, FlattenEmpty
<1>2. ASSUME NEW n \in Nat, n \in T
      PROVE  n + 1 \in T
  <2> SUFFICES ASSUME NEW s \in Seq(Seq(V)), Len(s) = n + 1
               PROVE  Splits(s)
    OBVIOUS
  <2>0. s # <<>>
    OBVIOUS
  <2>1. PICK r \in Seq(Seq(V)), x \in Seq(V) : s = Append(r, x)
    BY <2>0, SequenceEmptyOrAppend
  <2>2. Len(r) = n
    BY <2>1
  <2>3. FlattenSeq(R \o r) = FlattenSeq(R) \o FlattenSeq(r)
    BY <1>2, <2>2
  <2>4. R \o s = Append(R \o r, x) /\ R \o r \in Seq(Seq(V))
    BY <2>1, ConcatAppend
  <2>5. FlattenSeq(R \o s) = FlattenSeq(R \o r) \o x
    BY <2>4, FlattenAppend
  <2>6. FlattenSeq(s) = FlattenSeq(r) \o x
    BY <2>1, FlattenAppend
  <2>7. FlattenSeq(R) \in Seq(V) /\ FlattenSeq(r) \in Seq(V) /\ x \in Seq(V)
    BY FlattenType
  <2>8. (FlattenSeq(R) \o FlattenSeq(r)) \o x = FlattenSeq(R) \o (FlattenSeq(r) \o x)
    <3>2. PICK p \in Seq(V) : p = FlattenSeq(R)
      BY <2>7
    <3>3. PICK q \in Seq(V) : q = FlattenSeq(r)
      BY <2>7
    <3>4. (p \o q) \o x = p \o (q \o x)
      BY <1>0, <2>7
    <3> QED
      BY <3>2, <3>3, <3>4
  <2> QED
    BY <2>3, <2>5, <2>6, <2>8
<1> HIDE DEF T
<1>3. \A n \in Nat : n \in T
  BY <1>1, <1>2, SetInduction
<1>4. Len(S) \in T
  BY <1>3
<1> QED
  BY <1>4 DEF T

\* Segments that are not empty have bytes.
LEMMA FlattenLength ==
  ASSUME NEW V, NEW S \in Seq(Seq(V) \ {<<>>})
  PROVE  /\ FlattenSeq(S) \in Seq(V)
         /\ S # <<>> => Len(FlattenSeq(S)) > 0
<1>1. S \in Seq(Seq(V))
  BY SeqMonotonic
<1>2. FlattenSeq(S) \in Seq(V)
  BY <1>1, FlattenType
<1>3. ASSUME S # <<>>
      PROVE  Len(FlattenSeq(S)) > 0
  <2>1. PICK r \in Seq(Seq(V) \ {<<>>}), x \in Seq(V) \ {<<>>} : S = Append(r, x)
    BY <1>3, SequenceEmptyOrAppend
  <2>2. r \in Seq(Seq(V))
    BY SeqMonotonic
  <2>3. FlattenSeq(S) = FlattenSeq(r) \o x /\ FlattenSeq(r) \in Seq(V)
    BY <2>1, <2>2, FlattenAppend, FlattenType
  <2>4. Len(FlattenSeq(r) \o x) = Len(FlattenSeq(r)) + Len(x) /\ Len(x) > 0
    BY <2>3
  <2> QED
    BY <2>3, <2>4
<1> QED
  BY <1>2, <1>3

-----------------------------------------------------------------------------
(* A reply in segments. *)

\* The ends of segments, counted from the left.
RankIn(ends, e) == Cardinality({c \in ends : c <= e})

Counted(ends, L) ==
  /\ Cardinality(ends) \in Nat /\ Cardinality(ends) > 0
  /\ RankIn(ends, 0) = 0 /\ RankIn(ends, L) = Cardinality(ends)
  /\ \A e \in ends \cup {0} : RankIn(ends, e) \in 0 .. Cardinality(ends)
  /\ \A d, e \in ends \cup {0} : d < e => RankIn(ends, d) < RankIn(ends, e)
  /\ \A i \in 0 .. Cardinality(ends) : \E e \in ends \cup {0} : RankIn(ends, e) = i

LEMMA EndsAreCounted ==
  ASSUME NEW L \in Nat, L > 0, NEW ends, ends \subseteq 1 .. L, L \in ends
  PROVE  Counted(ends, L)
<1> DEFINE Rank(e) == RankIn(ends, e)
           E       == ends \cup {0}
           K       == Cardinality(ends)
           r       == [e \in E |-> Rank(e)]
<1>0. \A c \in ends : c \in Nat /\ 1 <= c /\ c <= L
  OBVIOUS
<1>1. IsFiniteSet(ends) /\ K \in Nat
  <2>1. IsFiniteSet(1 .. L)
    BY FS_Interval
  <2>2. IsFiniteSet(ends)
    BY <2>1, FS_Subset
  <2> QED
    BY <2>2, FS_CardinalityType
<1>2. K > 0
  BY <1>1, FS_EmptySet
<1>3. ASSUME NEW e \in E
      PROVE  IsFiniteSet({c \in ends : c <= e}) /\ Rank(e) \in 0 .. K
  <2>1. {c \in ends : c <= e} \subseteq ends
    OBVIOUS
  <2>2. /\ IsFiniteSet({c \in ends : c <= e})
        /\ Cardinality({c \in ends : c <= e}) <= Cardinality(ends)
    BY <1>1, <2>1, FS_Subset
  <2>3. Cardinality({c \in ends : c <= e}) \in Nat
    BY <2>2, FS_CardinalityType
  <2> QED
    BY <1>1, <2>2, <2>3 DEF RankIn
<1>4. ASSUME NEW d \in E, NEW e \in E, d < e
      PROVE  Rank(d) < Rank(e)
  <2> DEFINE D == {c \in ends : c <= d}
             F == {c \in ends : c <= e}
  <2>1. D \subseteq F /\ e \in F /\ e \notin D
    <3>1. d \in Nat /\ e \in Nat /\ e \in ends /\ ~ (e <= d)
      BY <1>0, <1>4
    <3>2. \A c \in ends : c <= d => c <= e
      BY <1>0, <1>4, <3>1
    <3>3. e <= e
      BY <3>1
    <3> QED
      BY <3>1, <3>2, <3>3
  <2>2. IsFiniteSet(F) /\ IsFiniteSet(D) /\ Rank(d) \in Nat /\ Rank(e) \in Nat
    BY <1>1, <1>3
  <2>3. Rank(d) = Cardinality(D) /\ Rank(e) = Cardinality(F)
    BY DEF RankIn
  <2> HIDE DEF D, F, Rank
  <2>4. Cardinality(D) <= Cardinality(F) /\ (Cardinality(D) = Cardinality(F) => D = F)
    BY <2>1, <2>2, FS_Subset
  <2> QED
    BY <2>1, <2>2, <2>3, <2>4
<1>5. Rank(0) = 0
  <2>1. {c \in ends : c <= 0} = {}
    <3>1. \A c \in ends : ~ (c <= 0)
      BY <1>0
    <3> QED
      BY <3>1
  <2> QED
    BY <2>1, FS_EmptySet DEF RankIn
<1>6. Rank(L) = K
  <2>1. {c \in ends : c <= L} = ends
    BY <1>0
  <2> QED
    BY <2>1 DEF RankIn
<1>7. r \in Injection(E, 0 .. K)
  <2>1. r \in [E -> 0 .. K]
    BY <1>3
  <2>2. ASSUME NEW d \in E, NEW e \in E, r[d] = r[e]
        PROVE  d = e
    <3>1. Rank(d) = Rank(e) /\ Rank(d) \in 0 .. K
      BY <1>3, <2>2
    <3>2. d \in Nat /\ e \in Nat
      OBVIOUS
    <3> HIDE DEF Rank, K, E
    <3> QED
      BY <1>1, <1>4, <3>1, <3>2
  <2> HIDE DEF r
  <2> QED
    BY <2>1, <2>2 DEF Injection, IsInjective
<1>8. Cardinality(E) = Cardinality(0 .. K) /\ IsFiniteSet(0 .. K)
  <2>1. 0 \notin ends
    OBVIOUS
  <2>2. Cardinality(E) = K + 1
    BY <1>1, <2>1, FS_AddElement
  <2>3. Cardinality(0 .. K) = K + 1 /\ IsFiniteSet(0 .. K)
    BY <1>1, FS_Interval
  <2> QED
    BY <2>2, <2>3
<1>9. r \in Surjection(E, 0 .. K)
  <2> HIDE DEF r, E, K
  <2> QED
    BY <1>7, <1>8, FS_Injection
<1>10. ASSUME NEW i \in 0 .. K
       PROVE  \E e \in E : Rank(e) = i
  <2>1. PICK e \in E : r[e] = i
    BY <1>9 DEF Surjection
  <2> QED
    BY <2>1
<1> HIDE DEF Rank, E, K, Counted
<1>11. /\ \A e \in E : Rank(e) \in 0 .. K
       /\ \A d, e \in E : d < e => Rank(d) < Rank(e)
       /\ \A i \in 0 .. K : \E e \in E : Rank(e) = i
  BY <1>3, <1>4, <1>10
<1> QED
  BY <1>1, <1>2, <1>5, <1>6, <1>11 DEF Rank, E, K, Counted

\* The segments of a sequence that end at E[1] to E[n].
Cut(bytes, E, n) == [i \in 1 .. n |-> SubSeq(bytes, E[i - 1] + 1, E[i])]

LEMMA CutAndJoined ==
  ASSUME NEW V, NEW bytes \in Seq(V), NEW K \in Nat,
         NEW E \in [0 .. K -> 0 .. Len(bytes)], E[0] = 0, E[K] = Len(bytes),
         \A i \in 1 .. K : E[i - 1] < E[i]
  PROVE  /\ Cut(bytes, E, K) \in Seq(Seq(V) \ {<<>>})
         /\ FlattenSeq(Cut(bytes, E, K)) = bytes
<1> DEFINE T == {n \in Nat : n <= K =>
                   /\ Cut(bytes, E, n) \in Seq(Seq(V) \ {<<>>})
                   /\ FlattenSeq(Cut(bytes, E, n)) = SubSeq(bytes, 1, E[n])}
<1>1. Len(bytes) \in Nat /\ SubSeq(bytes, 1, 0) = <<>> /\ SubSeq(bytes, 1, Len(bytes)) = bytes
  BY SubSeqFull, SubSeqEmpty
<1>2. 0 \in T
  <2>1. Cut(bytes, E, 0) = <<>>
    BY DEF Cut
  <2>2. SubSeq(bytes, 1, E[0]) = <<>>
    BY <1>1
  <2>3. <<>> \in Seq(Seq(V) \ {<<>>})
    BY EmptySeq
  <2> QED
    BY <2>1, <2>2, <2>3, FlattenEmpty
<1>3. ASSUME NEW n \in Nat, n \in T
      PROVE  n + 1 \in T
  <2>1. PICK m \in Nat : m = n + 1
    OBVIOUS
  <2> SUFFICES ASSUME m <= K
               PROVE  /\ Cut(bytes, E, m) \in Seq(Seq(V) \ {<<>>})
                      /\ FlattenSeq(Cut(bytes, E, m)) = SubSeq(bytes, 1, E[m])
    BY <2>1
  <2> DEFINE x == SubSeq(bytes, E[n] + 1, E[m])
             S == Cut(bytes, E, n)
  <2>2. S \in Seq(Seq(V) \ {<<>>}) /\ FlattenSeq(S) = SubSeq(bytes, 1, E[n])
    BY <1>3, <2>1
  <2>3. /\ E[n] \in 0 .. Len(bytes) /\ E[m] \in 0 .. Len(bytes)
        /\ E[n] < E[m]
    <3>1. n \in 0 .. K /\ m \in 1 .. K /\ m \in 0 .. K /\ m - 1 = n
      BY <2>1
    <3> QED
      BY <3>1
  <2>4. x \in Seq(V) /\ Len(x) = E[m] - E[n]
    <3>1. \A i \in E[n] + 1 .. E[m] : bytes[i] \in V
      BY <1>1, <2>3
    <3> QED
      BY <1>1, <2>3, <3>1, SubSeqProperties
  <2>5. x # <<>>
    <3>1. Len(x) > 0
      BY <1>1, <2>3, <2>4
    <3> HIDE DEF x
    <3> QED
      BY <3>1
  <2>6. Cut(bytes, E, m) = Append(S, x)
    <3> DEFINE A == Append(S, x)
               C == Cut(bytes, E, m)
    <3>1. S \in [1 .. n -> Seq(V) \ {<<>>}] /\ Len(S) = n
      <4>1. Len(S) \in Nat /\ DOMAIN S = 1 .. Len(S) /\ S \in [1 .. Len(S) -> Seq(V) \ {<<>>}]
        BY <2>2, LenProperties
      <4>2. DOMAIN S = 1 .. n
        BY DEF Cut
      <4> HIDE DEF S
      <4>3. Len(S) = n
        BY <4>1, <4>2, SameInterval
      <4> QED
        BY <4>1, <4>3
    <3>2. \A i \in 1 .. n : S[i] = SubSeq(bytes, E[i - 1] + 1, E[i])
      BY DEF Cut
    <3>3. /\ DOMAIN C = 1 .. m
          /\ \A i \in 1 .. m : C[i] = SubSeq(bytes, E[i - 1] + 1, E[i])
          /\ C = [i \in 1 .. m |-> C[i]]
      BY DEF Cut
    <3> HIDE DEF S, x, C
    <3>4. /\ A \in Seq(Seq(V)) /\ Len(A) = m
          /\ \A i \in 1 .. n : A[i] = S[i]
          /\ A[m] = x
      <4>1. S \in Seq(Seq(V)) /\ x \in Seq(V)
        BY <2>2, <2>4, SeqMonotonic
      <4> QED
        BY <2>1, <3>1, <4>1, AppendProperties
    <3> HIDE DEF A
    <3>5. A \in [1 .. m -> Seq(V)]
      BY <3>4, LenProperties
    <3>6. \A i \in 1 .. m : A[i] = C[i]
      <4> TAKE i \in 1 .. m
      <4>1. CASE i = m
        <5>1. i - 1 = n
          BY <2>1, <4>1
        <5> QED
          BY <3>3, <3>4, <4>1, <5>1 DEF x
      <4>2. CASE i # m
        <5>1. i \in 1 .. n
          BY <2>1, <4>2
        <5> QED
          BY <3>2, <3>3, <3>4, <5>1
      <4> QED
        BY <4>1, <4>2
    <3>7. A = C
      BY <3>3, <3>5, <3>6
    <3> QED
      BY <3>7 DEF A, C
  <2>7. Append(S, x) \in Seq(Seq(V) \ {<<>>})
    BY <2>2, <2>4, <2>5
  <2>8. FlattenSeq(Append(S, x)) = FlattenSeq(S) \o x
    <3>1. S \in Seq(Seq(V))
      BY <2>2, SeqMonotonic
    <3> QED
      BY <2>4, <3>1, FlattenAppend
  <2>9. SubSeq(bytes, 1, E[n]) \o x = SubSeq(bytes, 1, E[m])
    <3>1. PICK a \in Nat : a = E[n]
      BY <2>3
    <3>2. PICK b \in Nat : b = E[m]
      BY <2>3
    <3>3. a \in 1 - 1 .. Len(bytes) /\ b \in a .. Len(bytes) /\ 1 \in 1 .. Len(bytes) + 1
      BY <1>1, <2>3, <3>1, <3>2
    <3>4. SubSeq(bytes, 1, a) \o SubSeq(bytes, a + 1, b) = SubSeq(bytes, 1, b)
      BY <3>3, ConcatAdjacentSubSeq
    <3> QED
      BY <3>1, <3>2, <3>4
  <2> HIDE DEF S, x
  <2> QED
    BY <2>2, <2>6, <2>7, <2>8, <2>9
<1> HIDE DEF T
<1>4. K \in T
  BY <1>2, <1>3, SetInduction
<1>5. SubSeq(bytes, 1, E[K]) = bytes
  BY <1>1
<1> QED
  BY <1>4, <1>5 DEF T

LEMMA SegmentsOfReply ==
  ASSUME NEW V, NEW bytes \in Seq(V), Len(bytes) >= 8,
         NEW cuts, cuts \subseteq 8 .. Len(bytes) - 1
  PROVE  LET S == Segments(bytes, cuts)
         IN /\ S \in Seq(Seq(V) \ {<<>>})
            /\ FlattenSeq(S) = bytes
            /\ IsFiniteSet(cuts) /\ Len(S) = Cardinality(cuts) + 1
            /\ \E e \in 8 .. Len(bytes) : S[1] = SubSeq(bytes, 1, e)
<1> DEFINE L == Len(bytes)
           ends == cuts \cup {L}
           Rank(e) == RankIn(ends, e)
           K == Cardinality(ends)
           End(i) == CHOOSE e \in ends \cup {0} : Rank(e) = i
           E == [i \in 0 .. K |-> End(i)]
           S == Segments(bytes, cuts)
<1>1. L \in Nat /\ L >= 8
  OBVIOUS
<1>2. ends \subseteq 8 .. L /\ ends \subseteq 1 .. L /\ L \in ends /\ L \notin cuts
  <2>1. \A c \in cuts : c \in Int /\ 8 <= c /\ c <= L - 1
    OBVIOUS
  <2>2. \A c \in ends : c \in 8 .. L /\ c \in 1 .. L
    BY <1>1, <2>1
  <2>3. L \notin cuts
    BY <1>1, <2>1
  <2> QED
    BY <2>2, <2>3
<1>3. IsFiniteSet(cuts) /\ K = Cardinality(cuts) + 1
  <2>1. IsFiniteSet(8 .. L - 1)
    BY <1>1, FS_Interval
  <2>2. IsFiniteSet(cuts)
    BY <2>1, FS_Subset
  <2> QED
    BY <1>2, <2>2, FS_AddElement
<1>4. /\ K \in Nat /\ K > 0
      /\ Rank(0) = 0 /\ Rank(L) = K
      /\ \A e \in ends \cup {0} : Rank(e) \in 0 .. K
      /\ \A d, e \in ends \cup {0} : d < e => Rank(d) < Rank(e)
      /\ \A i \in 0 .. K : \E e \in ends \cup {0} : Rank(e) = i
  <2> HIDE DEF ends, L
  <2>1. L \in Nat /\ L > 0 /\ ends \subseteq 1 .. L /\ L \in ends
    BY <1>1, <1>2
  <2>2. Counted(ends, L)
    BY <2>1, EndsAreCounted
  <2> QED
    BY <2>2 DEF Counted
<1>5. S = Cut(bytes, E, K)
  <2>1. S = [i \in 1 .. K |-> SubSeq(bytes, End(i - 1) + 1, End(i))]
    BY DEF Segments, RankIn
  <2>2. \A i \in 1 .. K : i \in 0 .. K /\ i - 1 \in 0 .. K
    BY <1>4
  <2>3. \A i \in 1 .. K : E[i] = End(i) /\ E[i - 1] = End(i - 1)
    BY <2>2
  <2> HIDE DEF S, E, End, K
  <2> QED
    BY <2>1, <2>3 DEF Cut
<1> HIDE DEF S, Rank, K
<1>6. \A i \in 0 .. K : End(i) \in ends \cup {0} /\ Rank(End(i)) = i
  BY <1>4
<1>7. \A e \in ends \cup {0} : e \in 0 .. L
  BY <1>1, <1>2
<1> HIDE DEF End, ends
<1>8. E \in [0 .. K -> 0 .. L]
  BY <1>6, <1>7
<1>9. \A d, e \in ends \cup {0} : Rank(d) = Rank(e) => d = e
  <2> TAKE d, e \in ends \cup {0}
  <2>1. d \in Nat /\ e \in Nat /\ Rank(d) \in 0 .. K /\ Rank(e) \in 0 .. K
    BY <1>4, <1>7
  <2>2. d < e => Rank(d) < Rank(e)
    BY <1>4
  <2>3. e < d => Rank(e) < Rank(d)
    BY <1>4
  <2> HIDE DEF L
  <2> QED
    BY <1>4, <2>1, <2>2, <2>3
<1>10. E[0] = 0 /\ E[K] = L
  <2>1. 0 \in 0 .. K /\ K \in 0 .. K
    BY <1>4
  <2>2. E[0] = End(0) /\ E[K] = End(K)
    BY <2>1
  <2>3. End(0) = 0
    BY <1>4, <1>6, <1>9, <2>1
  <2>4. End(K) = L
    BY <1>2, <1>4, <1>6, <1>9, <2>1
  <2> QED
    BY <2>2, <2>3, <2>4
<1>11. ASSUME NEW i \in 1 .. K
       PROVE  E[i - 1] < E[i]
  <2>1. PICK j \in 0 .. K : j = i - 1
    BY <1>4
  <2>2. i \in 0 .. K /\ j < i
    BY <1>4, <2>1
  <2>3. /\ End(i) \in ends \cup {0} /\ Rank(End(i)) = i
        /\ End(j) \in ends \cup {0} /\ Rank(End(j)) = j
    BY <1>6, <2>2
  <2>4. End(i) \in Nat /\ End(j) \in Nat
    BY <1>7, <2>3
  <2>5. ~ (End(i) < End(j)) /\ End(i) # End(j)
    BY <1>4, <2>2, <2>3
  <2>6. End(j) < End(i)
    BY <2>4, <2>5
  <2> QED
    BY <2>1, <2>2, <2>6
<1>12. S \in Seq(Seq(V) \ {<<>>}) /\ FlattenSeq(S) = bytes
  <2> HIDE DEF E
  <2> QED
    BY <1>4, <1>5, <1>8, <1>10, <1>11, CutAndJoined DEF L
<1>13. Len(S) = K
  <2>1. DOMAIN S = 1 .. K
    BY <1>5 DEF Cut
  <2>2. Len(S) \in Nat /\ DOMAIN S = 1 .. Len(S)
    BY <1>12, LenProperties
  <2> QED
    BY <1>4, <2>1, <2>2, SameInterval
<1>14. \E e \in 8 .. L : S[1] = SubSeq(bytes, 1, e)
  <2>1. 1 \in 1 .. K /\ 1 \in 0 .. K /\ 1 - 1 = 0
    BY <1>4
  <2>2. S[1] = SubSeq(bytes, E[0] + 1, E[1])
    BY <1>5, <2>1 DEF Cut
  <2>3. E[1] \in ends \cup {0} /\ E[0] < E[1]
    BY <1>6, <1>11, <2>1
  <2>4. E[1] \in 8 .. L
    <3>1. E[1] \in ends
      BY <1>10, <2>3
    <3> QED
      BY <1>2, <3>1
  <2> HIDE DEF E, L
  <2>5. S[1] = SubSeq(bytes, 1, E[1])
    BY <1>10, <2>2
  <2> QED
    BY <2>4, <2>5
<1> QED
  BY <1>3, <1>12, <1>13, <1>14 DEF S, L

-----------------------------------------------------------------------------
(* Buffers of a length, whatever they hold. *)

LEMMA ZerosBuffer ==
  ASSUME NEW n \in Nat
  PROVE  IsBuffer(Zeros(n), n)
<1>1. Zeros(n) \in [1 .. n -> {0}]
  BY DEF Zeros
<1> QED
  BY <1>1 DEF IsBuffer

LEMMA FillerBuffer ==
  ASSUME NEW n \in Nat, NEW seed
  PROVE  IsBuffer(Filler(n, seed), n)
<1>1. Filler(n, seed) \in [1 .. n -> {(37 * i + seed) % 64 : i \in 1 .. n}]
  BY DEF Filler
<1> QED
  BY <1>1 DEF IsBuffer

-----------------------------------------------------------------------------
(* Telegrams. *)

\* The header of a telegram with n bytes of data.
LEMMA HeaderBytes ==
  ASSUME NEW c, NEW n \in Nat, IsBuffer(c.data, n), n + 10 \in Uint32, NEW sid, NEW rid
  PROVE  LET h == WriteDataToDataPtr(PrepareHeader, c, sid, rid)
         IN /\ IsBuffer(h, 18)
            /\ readUint32BigEndian(h, 4) = n + 10
            /\ h[17] = c.command_type /\ h[18] = c.command_mode
<1> DEFINE v == <<((n + 10) \div 16777216) % 256, ((n + 10) \div 65536) % 256,
                  ((n + 10) \div 256) % 256, (n + 10) % 256>>
           u == <<(sid \div 16777216) % 256, (sid \div 65536) % 256, (sid \div 256) % 256, sid % 256>>
           w == <<(rid \div 256) % 256, rid % 256>>
           a == Overwritten(PrepareHeader, 0, <<2, 2, 2, 2>>)
           b == Overwritten(a, 4, v)
           d == Overwritten(b, 8, <<0>>)
           e == Overwritten(d, 9, <<0>>)
           f == Overwritten(e, 10, u)
           g == Overwritten(f, 14, w)
           p == Overwritten(g, 16, <<c.command_type>>)
           h == Overwritten(p, 17, <<c.command_mode>>)
<1>1. Len(c.data) = n
  BY BufferIsSequence
<1>2. WriteDataToDataPtr(PrepareHeader, c, sid, rid) = h
  BY <1>1 DEF WriteDataToDataPtr, WriteFrame, writeUint8, writeUint16BigEndian, writeUint32BigEndian
<1>3. /\ DOMAIN v = 1 .. 4 /\ DOMAIN u = 1 .. 4 /\ DOMAIN w = 1 .. 2
      /\ v[1] = ((n + 10) \div 16777216) % 256 /\ v[2] = ((n + 10) \div 65536) % 256
      /\ v[3] = ((n + 10) \div 256) % 256 /\ v[4] = (n + 10) % 256
      /\ DOMAIN <<2, 2, 2, 2>> = 1 .. 4 /\ DOMAIN <<0>> = 1 .. 1
      /\ DOMAIN <<c.command_type>> = 1 .. 1 /\ DOMAIN <<c.command_mode>> = 1 .. 1
      /\ <<c.command_type>>[1] = c.command_type /\ <<c.command_mode>>[1] = c.command_mode
  OBVIOUS
<1>4. IsBuffer(PrepareHeader, 18)
  BY ZerosBuffer DEF PrepareHeader
<1> HIDE DEF v, u, w
<1>5. IsBuffer(a, 18)
  BY <1>4, OverwrittenBuffer
<1> HIDE DEF a
<1>6. IsBuffer(b, 18) /\ \A i \in 1 .. 18 : b[i] = IF i - 4 \in DOMAIN v THEN v[i - 4] ELSE a[i]
  BY <1>5, OverwrittenBuffer
<1> HIDE DEF b
<1>7. IsBuffer(d, 18) /\ \A i \in 1 .. 18 : d[i] = IF i - 8 \in DOMAIN <<0>> THEN <<0>>[i - 8] ELSE b[i]
  BY <1>6, OverwrittenBuffer
<1> HIDE DEF d
<1>8. IsBuffer(e, 18) /\ \A i \in 1 .. 18 : e[i] = IF i - 9 \in DOMAIN <<0>> THEN <<0>>[i - 9] ELSE d[i]
  BY <1>7, OverwrittenBuffer
<1> HIDE DEF e
<1>9. IsBuffer(f, 18) /\ \A i \in 1 .. 18 : f[i] = IF i - 10 \in DOMAIN u THEN u[i - 10] ELSE e[i]
  BY <1>8, OverwrittenBuffer
<1> HIDE DEF f
<1>10. IsBuffer(g, 18) /\ \A i \in 1 .. 18 : g[i] = IF i - 14 \in DOMAIN w THEN w[i - 14] ELSE f[i]
  BY <1>9, OverwrittenBuffer
<1> HIDE DEF g
<1>11. /\ IsBuffer(p, 18)
       /\ \A i \in 1 .. 18 : p[i] = IF i - 16 \in DOMAIN <<c.command_type>>
                                    THEN <<c.command_type>>[i - 16] ELSE g[i]
  BY <1>10, OverwrittenBuffer
<1> HIDE DEF p
<1>12. /\ IsBuffer(h, 18)
       /\ \A i \in 1 .. 18 : h[i] = IF i - 17 \in DOMAIN <<c.command_mode>>
                                    THEN <<c.command_mode>>[i - 17] ELSE p[i]
  BY <1>11, OverwrittenBuffer
<1> HIDE DEF h
<1>13. h[18] = c.command_mode
  BY <1>3, <1>12
<1>14. h[17] = c.command_type
  <2>1. h[17] = p[17] /\ p[17] = c.command_type
    BY <1>3, <1>11, <1>12
  <2> QED
    BY <2>1
<1>15. ASSUME NEW i \in 5 .. 8
       PROVE  h[i] = v[i - 4]
  <2>1. h[i] = p[i] /\ p[i] = g[i]
    BY <1>3, <1>11, <1>12
  <2>2. g[i] = f[i] /\ f[i] = e[i]
    BY <1>3, <1>9, <1>10
  <2>3. e[i] = d[i] /\ d[i] = b[i]
    BY <1>3, <1>7, <1>8
  <2>4. b[i] = v[i - 4]
    BY <1>3, <1>6
  <2> QED
    BY <2>1, <2>2, <2>3, <2>4
<1>16. h[5] = v[1] /\ h[6] = v[2] /\ h[7] = v[3] /\ h[8] = v[4]
  BY <1>15
<1>17. readUint32BigEndian(h, 4) = n + 10
  <2>1. readUint32BigEndian(h, 4) = 16777216 * h[5] + 65536 * h[6] + 256 * h[7] + h[8]
    BY DEF readUint32BigEndian
  <2>2. PICK k \in Uint32 : k = n + 10
    OBVIOUS
  <2>3. k = 16777216 * ((k \div 16777216) % 256) + 65536 * ((k \div 65536) % 256)
            + 256 * ((k \div 256) % 256) + (k % 256)
    BY Uint32Bytes
  <2> QED
    BY <1>3, <1>16, <2>1, <2>2, <2>3
<1> QED
  BY <1>2, <1>12, <1>13, <1>14, <1>17

LEMMA TelegramBytes ==
  ASSUME NEW c, NEW n \in Nat, IsBuffer(c.data, n), n + 10 \in Uint32, NEW sid, NEW rid
  PROVE  LET t == ConstructTelegram(c, sid, rid)
         IN /\ IsBuffer(t, 18 + n)
            /\ readUint32BigEndian(t, 4) = n + 10
            /\ readUint8(t, 16) = c.command_type /\ readUint8(t, 17) = c.command_mode
            /\ \A i \in 1 .. n : t[18 + i] = c.data[i]
<1> DEFINE h == WriteDataToDataPtr(PrepareHeader, c, sid, rid)
           t == h \o c.data
<1>1. /\ IsBuffer(h, 18)
      /\ readUint32BigEndian(h, 4) = n + 10
      /\ h[17] = c.command_type /\ h[18] = c.command_mode
  BY HeaderBytes
<1> HIDE DEF h
<1>2. /\ IsBuffer(t, 18 + n)
      /\ \A i \in 1 .. 18 : t[i] = h[i]
      /\ \A i \in 1 .. n : t[18 + i] = c.data[i]
  <2>1. Joins(t, h, 18, c.data, n)
    BY <1>1, JoinedBuffers
  <2> HIDE DEF t
  <2> QED
    BY <2>1 DEF Joins
<1> HIDE DEF t
<1>3. t[5] = h[5] /\ t[6] = h[6] /\ t[7] = h[7] /\ t[8] = h[8] /\ t[17] = h[17] /\ t[18] = h[18]
  BY <1>2
<1>4. readUint32BigEndian(t, 4) = readUint32BigEndian(h, 4)
  BY <1>3 DEF readUint32BigEndian
<1>5. readUint8(t, 16) = t[17] /\ readUint8(t, 17) = t[18]
  BY DEF readUint8
<1>6. ConstructTelegram(c, sid, rid) = t
  BY DEF ConstructTelegram, h, t
<1> QED
  BY <1>1, <1>2, <1>3, <1>4, <1>5, <1>6

-----------------------------------------------------------------------------
(* The variables of a sensor. *)

Short(b) == \E n \in 0 .. 1000 : IsBuffer(b, n)

LEMMA ShortBuffer ==
  ASSUME NEW n \in 0 .. 1000, NEW b, IsBuffer(b, n)
  PROVE  Short(b)
BY DEF Short

LEMMA ShortFiller ==
  ASSUME NEW n \in 0 .. 1000, NEW seed
  PROVE  Short(Filler(n, seed))
BY FillerBuffer, ShortBuffer

LEMMA ShortOverwritten ==
  ASSUME NEW b, Short(b), NEW o, NEW v
  PROVE  Short(Overwritten(b, o, v))
<1>1. PICK n \in 0 .. 1000 : IsBuffer(b, n)
  BY DEF Short
<1>2. IsBuffer(Overwritten(b, o, v), n)
  BY <1>1, OverwrittenBuffer
<1> QED
  BY <1>2, ShortBuffer

LEMMA ShortWritten ==
  ASSUME NEW b, Short(b), NEW o, NEW v
  PROVE  /\ Short(writeUint8(b, o, v))
         /\ Short(writeUint16LittleEndian(b, o, v))
         /\ Short(writeUint32LittleEndian(b, o, v))
BY ShortOverwritten DEF writeUint8, writeUint16LittleEndian, writeUint32LittleEndian

TwoBlocks == [published |-> {"derived_values", "measurement_data"},
              order     |-> <<"derived_values", "measurement_data">>,
              beams     |-> 2]

\* A telegram with one block more.
Extended(t, shorter, i) ==
  LET block  == BlockBytes(t.order[i], t.beams)
      offset == writeUint16LittleEndian(shorter, BlockEntry[t.order[i]], Len(shorter))
  IN IF t.order[i] \in t.published
     THEN writeUint16LittleEndian(offset, BlockEntry[t.order[i]] + 2, Len(block)) \o block
     ELSE shorter

LEMMA ExtendedLength ==
  ASSUME NEW t, NEW i, NEW shorter, NEW m, IsBuffer(shorter, m), NEW n,
         t.order[i] \in t.published, IsBuffer(BlockBytes(t.order[i], t.beams), n)
  PROVE  IsBuffer(Extended(t, shorter, i), m + n)
<1> DEFINE block  == BlockBytes(t.order[i], t.beams)
           offset == writeUint16LittleEndian(shorter, BlockEntry[t.order[i]], Len(shorter))
           size   == writeUint16LittleEndian(offset, BlockEntry[t.order[i]] + 2, Len(block))
<1>1. IsBuffer(offset, m)
  BY OverwrittenBuffer DEF writeUint16LittleEndian
<1> HIDE DEF offset
<1>2. IsBuffer(size, m)
  BY <1>1, OverwrittenBuffer DEF writeUint16LittleEndian
<1> HIDE DEF size
<1>3. IsBuffer(block, n)
  OBVIOUS
<1> HIDE DEF block
<1>4. Joins(size \o block, size, m, block, n)
  BY <1>2, <1>3, JoinedBuffers
<1>5. Extended(t, shorter, i) = size \o block
  BY DEF Extended, block, offset, size
<1> QED
  BY <1>4, <1>5 DEF Joins

LEMMA BlocksOfTwo ==
  /\ IsBuffer(BlockBytes("derived_values", 2), 20)
  /\ IsBuffer(BlockBytes("measurement_data", 2), 12)
<1>1. IsBuffer(Filler(20, 11), 20) /\ IsBuffer(Filler(12, 23), 12)
  BY FillerBuffer
<1>2. BlockBytes("measurement_data", 2) = writeUint32LittleEndian(Filler(4 + 4 * 2, 23), 0, 2)
  BY DEF BlockBytes
<1>3. IsBuffer(writeUint32LittleEndian(Filler(4 + 4 * 2, 23), 0, 2), 12)
  BY <1>1, OverwrittenBuffer DEF writeUint32LittleEndian
<1>4. BlockBytes("derived_values", 2) = DerivedBytes(2)
  BY DEF BlockBytes
<1>5. IsBuffer(DerivedBytes(2), 20)
  <2> DEFINE a == writeInt32LittleEndian(Filler(20, 11), 8, StartAngle)
             b == writeInt32LittleEndian(a, 12, Resolution)
  <2>1. IsBuffer(a, 20)
    BY <1>1, OverwrittenBuffer DEF writeUint32LittleEndian, writeInt32LittleEndian
  <2> HIDE DEF a
  <2>2. IsBuffer(b, 20)
    BY <2>1, OverwrittenBuffer DEF writeUint32LittleEndian, writeInt32LittleEndian
  <2> HIDE DEF b
  <2>3. IsBuffer(writeUint16LittleEndian(b, 2, 2), 20)
    BY <2>2, OverwrittenBuffer DEF writeUint16LittleEndian
  <2> QED
    BY <2>3 DEF DerivedBytes, a, b
<1> QED
  BY <1>2, <1>3, <1>4, <1>5

LEMMA TwoBlocksLength == IsBuffer(WholeBytes(TwoBlocks), 84)
<1> DEFINE Z == Filler(32, 3) \o [k \in 1 .. HeaderSize - 32 |-> 0]
           t == TwoBlocks
           IsWhole(b) == b = [i \in 0 .. Len(t.order) |->
                                IF i = 0 THEN Z ELSE Extended(t, b[i - 1], i)]
           B == CHOOSE b : IsWhole(b)
<1>1. WholeBytes(TwoBlocks) = B[Len(t.order)]
  BY DEF WholeBytes, Extended
<1>2. /\ Len(t.order) = 2 /\ t.order[1] = "derived_values" /\ t.order[2] = "measurement_data"
      /\ t.order[1] \in t.published /\ t.order[2] \in t.published /\ t.beams = 2
  BY DEF TwoBlocks
<1>3. IsBuffer(Z, 52)
  <2>1. IsBuffer(Filler(32, 3), 32)
    BY FillerBuffer
  <2>2. [k \in 1 .. HeaderSize - 32 |-> 0] = Zeros(20)
    BY DEF HeaderSize, Zeros
  <2>3. IsBuffer(Zeros(20), 20)
    BY ZerosBuffer
  <2>4. Joins(Z, Filler(32, 3), 32, Zeros(20), 20)
    BY <2>1, <2>2, <2>3, JoinedBuffers
  <2> QED
    BY <2>4 DEF Joins
<1> HIDE DEF Z, t
<1>4. IsWhole(B)
  <2> DEFINE y == Extended(t, Z, 1)
             z == Extended(t, y, 2)
             g == [i \in 0 .. 2 |-> IF i = 0 THEN Z ELSE IF i = 1 THEN y ELSE z]
  <2>1. g[0] = Z /\ g[1] = y /\ g[2] = z
    OBVIOUS
  <2>2. g = [i \in 0 .. 2 |-> IF i = 0 THEN Z ELSE Extended(t, g[i - 1], i)]
    <3> DEFINE e == [i \in 0 .. 2 |-> IF i = 0 THEN Z ELSE Extended(t, g[i - 1], i)]
    <3>1. e[0] = Z /\ e[1] = Extended(t, g[0], 1) /\ e[2] = Extended(t, g[1], 2)
      OBVIOUS
    <3>2. \A i \in 0 .. 2 : i = 0 \/ i = 1 \/ i = 2
      OBVIOUS
    <3>3. \A i \in 0 .. 2 : e[i] = g[i]
      BY <2>1, <3>1, <3>2
    <3> QED
      BY <3>3
  <2> HIDE DEF g
  <2>3. IsWhole(g)
    BY <1>2, <2>2
  <2> QED
    BY <2>3
<1> HIDE DEF B
<1>5. B[0] = Z /\ B[1] = Extended(t, B[0], 1) /\ B[2] = Extended(t, B[1], 2)
  <2> DEFINE e == [i \in 0 .. 2 |-> IF i = 0 THEN Z ELSE Extended(t, B[i - 1], i)]
  <2>1. e[0] = Z /\ e[1] = Extended(t, B[0], 1) /\ e[2] = Extended(t, B[1], 2)
    OBVIOUS
  <2>2. B = e
    BY <1>2, <1>4
  <2> HIDE DEF e
  <2> QED
    BY <2>1, <2>2
<1>6. IsBuffer(B[1], 52 + 20)
  BY <1>2, <1>3, <1>5, BlocksOfTwo, ExtendedLength
<1>7. IsBuffer(B[2], 72 + 12)
  BY <1>2, <1>5, <1>6, BlocksOfTwo, ExtendedLength
<1> QED
  BY <1>1, <1>2, <1>7

LEMMA ShortStrings ==
  ASSUME NEW n \in 0 .. 100, NEW seed
  PROVE  Short(ShortString(n, seed)) /\ Short(VersionAndString(n, seed))
<1>1. n + 3 \in 0 .. 1000 /\ n + 8 \in 0 .. 1000
  OBVIOUS
<1>2. Short(Filler(n + 3, seed)) /\ Short(Filler(n + 8, seed))
  BY <1>1, ShortFiller
<1> QED
  BY <1>2, ShortWritten, Zenon DEF ShortString, VersionAndString

LEMMA ShortFields ==
  ASSUME NEW e, NEW i \in 0 .. 127
  PROVE  Short(FieldHeaderBytes(e, i)) /\ Short(FieldGeometryBytes(i))
<1>1. 88 + 3 \in 0 .. 1000 /\ 8 + 2 * (2 + i) \in 0 .. 1000
  OBVIOUS
<1>2. Short(Filler(88 + 3, i)) /\ Short(Filler(8 + 2 * (2 + i), 7 * i))
  BY <1>1, ShortFiller
<1>3. Short(writeUint32LittleEndian(Filler(88 + 3, i), 84, 3))
  BY <1>2, ShortWritten, Zenon
<1> QED
  BY <1>2, <1>3, ShortWritten, Zenon DEF FieldHeaderBytes, FieldGeometryBytes

LEMMA ShortFieldSets == Short(FieldSetsBytes)
<1>1. Short(Filler(216, 9))
  BY ShortFiller
<1>2. Short(writeUint32LittleEndian(Filler(216, 9), 4, 2))
  BY <1>1, ShortWritten, Zenon
<1>3. Short(writeUint32LittleEndian(writeUint32LittleEndian(Filler(216, 9), 4, 2), 8, 3))
  BY <1>2, ShortWritten, Zenon
<1> QED
  BY <1>3, ShortWritten, Zenon DEF FieldSetsBytes

LEMMA ShortTelegram ==
  ASSUME NEW channel
  PROVE  Short(TelegramOf(channel))
<1>1. Short(WholeBytes(TwoBlocks))
  BY TwoBlocksLength, ShortBuffer
<1> QED
  BY <1>1, ShortWritten, Zenon DEF TelegramOf, TwoBlocks

FixedNumbers ==
  {3, 4, 13, 14, 15, 16, 17, 18, 23, 28, 33, 35, 177, 1003, 2100} \cup (179 .. 182)

LEMMA ShortFixedVariables ==
  /\ DOMAIN FixedVariables = FixedNumbers
  /\ \A x \in FixedNumbers : Short(FixedVariables[x])
<1>1. DOMAIN FixedVariables = FixedNumbers
  BY DEF FixedVariables, FixedNumbers
<1>2. \A x \in FixedNumbers :
        \/ x \in {3, 4, 13, 14, 17, 18, 33, 35}
        \/ x \in {15, 16, 23, 28, 177, 2100}
        \/ x = 1003
        \/ x \in 179 .. 182
  BY DEF FixedNumbers
<1>3. /\ FixedVariables[3] = ShortString(8, 1) /\ FixedVariables[4] = ShortString(9, 2)
      /\ FixedVariables[13] = ShortString(16, 3) /\ FixedVariables[14] = ShortString(7, 4)
      /\ FixedVariables[17] = ShortString(6, 7) /\ FixedVariables[18] = ShortString(5, 8)
      /\ FixedVariables[33] = VersionAndString(5, 11) /\ FixedVariables[35] = VersionAndString(4, 12)
  BY DEF FixedVariables
<1>4. /\ FixedVariables[15] = Filler(1, 5) /\ FixedVariables[16] = Filler(1, 6)
      /\ FixedVariables[23] = Filler(58, 9) /\ FixedVariables[28] = Filler(84, 10)
      /\ FixedVariables[177] = Filler(48, 13) /\ FixedVariables[2100] = Filler(8, 14)
  BY DEF FixedVariables
<1>5. FixedVariables[1003] = FieldSetsBytes
  BY DEF FixedVariables
<1>6. \A x \in 179 .. 182 : FixedVariables[x] = TelegramOf(x - 179)
  BY DEF FixedVariables
<1>7. \A x \in {3, 4, 13, 14, 17, 18, 33, 35} : Short(FixedVariables[x])
  BY <1>3, ShortStrings
<1>8. \A x \in {15, 16, 23, 28, 177, 2100} : Short(FixedVariables[x])
  BY <1>4, ShortFiller
<1>9. Short(FixedVariables[1003])
  BY <1>5, ShortFieldSets
<1>10. \A x \in 179 .. 182 : Short(FixedVariables[x])
  BY <1>6, ShortTelegram
<1> QED
  BY <1>1, <1>2, <1>7, <1>8, <1>9, <1>10

\* The numbers of the variables that a sensor has.
Known == FixedNumbers \cup {178} \cup (2101 .. 2354) \cup (10000 .. 10127) \cup (10256 .. 10383)

\* No number is in two of those sets.
LEMMA NumbersDiffer ==
  /\ \A k \in FixedNumbers :
       k # 178 /\ k \notin 2101 .. 2354 /\ k \notin 10000 .. 10127 /\ k \notin 10256 .. 10383
  /\ 178 \notin 2101 .. 2354 /\ 178 \notin 10000 .. 10127 /\ 178 \notin 10256 .. 10383
  /\ \A k \in 2101 .. 2354 :
       k # 178 /\ k \notin FixedNumbers /\ k \notin 10000 .. 10127 /\ k \notin 10256 .. 10383
  /\ \A k \in 10000 .. 10127 : k # 178 /\ k \notin FixedNumbers /\ k \notin 10256 .. 10383
BY DEF FixedNumbers

LEMMA CaseVariable ==
  ASSUME NEW s, NEW k \in 2101 .. 2354
  PROVE  Short(VariableBytes(s, k))
<1>1. DOMAIN FixedVariables = FixedNumbers
  BY ShortFixedVariables
<1>2. k # 178 /\ k \notin FixedNumbers
  BY DEF FixedNumbers
<1>3. \E v : VariableBytes(s, k) = writeUint8(Filler(188, k - 2101), 0, v)
  <2>1. k \notin 10000 .. 10127
    OBVIOUS
  <2>2. k \notin 10256 .. 10383
    OBVIOUS
  <2> QED
    BY <1>1, <1>2, <2>1, <2>2 DEF VariableBytes, MonitoringCaseBytes
<1>4. Short(Filler(188, k - 2101))
  BY ShortFiller
<1> QED
  BY <1>3, <1>4, ShortWritten

LEMMA ShortVariable ==
  ASSUME NEW s, NEW k \in Known
  PROVE  Short(VariableBytes(s, k))
<1>1. DOMAIN FixedVariables = FixedNumbers /\ \A x \in FixedNumbers : Short(FixedVariables[x])
  BY ShortFixedVariables
<1>2. CASE k \in FixedNumbers
  <2>1. VariableBytes(s, k) = FixedVariables[k]
    BY <1>1, <1>2, NumbersDiffer DEF VariableBytes
  <2> QED
    BY <1>1, <1>2, <2>1, Zenon
<1>3. CASE k = 178
  <2>1. VariableBytes(s, k) = CurrentConfigBytes(s.settings)
    BY <1>1, <1>3, NumbersDiffer DEF VariableBytes
  <2>2. Short(Filler(48, 29))
    BY ShortFiller
  <2> QED
    BY <2>1, <2>2, ShortOverwritten, Zenon DEF CurrentConfigBytes
<1>4. CASE k \in 2101 .. 2354
  BY <1>4, CaseVariable
<1>5. CASE k \in 10000 .. 10127
  <2>1. \E e : VariableBytes(s, k) = FieldHeaderBytes(e, k - 10000)
    BY <1>1, <1>5, NumbersDiffer DEF VariableBytes, FieldExists
  <2>2. k - 10000 \in 0 .. 127
    BY <1>5
  <2> QED
    BY <2>1, <2>2, ShortFields
<1>6. CASE k \in 10256 .. 10383
  <2>1. VariableBytes(s, k) = FieldGeometryBytes(k - 10256)
    BY <1>1, <1>6, NumbersDiffer DEF VariableBytes
  <2>2. k - 10256 \in 0 .. 127
    BY <1>6
  <2> QED
    BY <2>1, <2>2, ShortFields
<1> QED
  BY <1>2, <1>3, <1>4, <1>5, <1>6 DEF Known

LEMMA ShortCurrent ==
  ASSUME NEW s, NEW k \in Known
  PROVE  Short(CurrentBytes(s, k))
BY ShortVariable, ShortWritten, Zenon DEF CurrentBytes

-----------------------------------------------------------------------------
(* Replies. *)

\* The sizes of the data of a reply, and of replies with their header: bounds
\* that no variable of a sensor reaches.
DataSizes == 0 .. 2000
ReplySizes == 18 .. 3000

\* A reply that announces its own length.
Announced(r) == \E n \in ReplySizes : IsBuffer(r, n) /\ GetExpectedPacketLength(r) = n

LEMMA AnnouncedReply ==
  ASSUME NEW t, NEW type, NEW mode, NEW n \in DataSizes, NEW data, IsBuffer(data, n)
  PROVE  Announced(Reply(t, type, mode, data))
<1> DEFINE c == [command_type |-> type, command_mode |-> mode, data |-> data]
           r == ConstructTelegram(c, SessionID, readUint16BigEndian(t, 14))
<1>1. IsBuffer(c.data, n) /\ n \in Nat
  BY DEF DataSizes
<1>2. n + 10 \in Uint32
  BY DEF Uint32, Uint16, Uint8, Byte, DataSizes
<1>3. Reply(t, type, mode, data) = r
  BY DEF Reply
<1> HIDE DEF c
<1>4. IsBuffer(r, 18 + n) /\ readUint32BigEndian(r, 4) = n + 10
  BY <1>1, <1>2, TelegramBytes
<1> HIDE DEF r
<1>5. PICK m \in ReplySizes : m = 18 + n
  BY DEF ReplySizes, DataSizes
<1>6. IsBuffer(r, m) /\ GetExpectedPacketLength(r) = m
  <2>1. IsBuffer(r, m)
    BY <1>4, <1>5
  <2>2. GetExpectedPacketLength(r) = (n + 10) + 8
    BY <1>4 DEF GetExpectedPacketLength
  <2>3. (n + 10) + 8 = m
    BY <1>1, <1>5
  <2> QED
    BY <2>1, <2>2, <2>3
<1>7. Announced(r)
  BY <1>6, Zenon DEF Announced
<1> QED
  BY <1>3, <1>7, Zenon

\* The same, for any data.
LEMMA AnnouncedReplies ==
  ASSUME NEW t
  PROVE  \A type, mode, data :
           (\E n \in DataSizes : IsBuffer(data, n)) => Announced(Reply(t, type, mode, data))
BY AnnouncedReply, Zenon

LEMMA AnnouncedRefusal ==
  ASSUME NEW t
  PROVE  Announced(Refusal(t))
<1>1. IsBuffer(<<0, 1>>, 2)
  <2>1. <<0, 1>> \in [1 .. 2 -> {0, 1}]
    OBVIOUS
  <2> QED
    BY <2>1 DEF IsBuffer
<1>2. 2 \in DataSizes
  BY DEF DataSizes
<1> QED
  BY <1>1, <1>2, AnnouncedReplies, Zenon DEF Refusal

LEMMA PartOfBuffer ==
  ASSUME NEW b, NEW n, IsBuffer(b, n), n >= 20
  PROVE  IsBuffer(SubSeq(b, 19, 20), 2)
<1>1. PICK V : n \in Nat /\ b \in [1 .. n -> V]
  BY DEF IsBuffer
<1>2. SubSeq(b, 19, 20) = [i \in 1 .. 2 |-> b[i + 18]]
  BY <1>1, SubSeqProperties, BufferIsSequence
<1>3. [i \in 1 .. 2 |-> b[i + 18]] \in [1 .. 2 -> V]
  BY <1>1
<1> QED
  BY <1>2, <1>3 DEF IsBuffer

\* The commands that the sensor knows an answer to.
Valid(c) ==
  /\ Short(c.data)
  /\ \/ <<c.command_type, c.command_mode>> \in {<<Char.O, Char.X>>, <<Char.C, Char.X>>}
     \/ /\ <<c.command_type, c.command_mode>> = <<Char.R, Char.I>>
        /\ \E k \in Known : c.data = Index(k)
     \/ /\ <<c.command_type, c.command_mode>> = <<Char.M, Char.I>>
        /\ \E n \in 2 .. 1000 : IsBuffer(c.data, n)

LEMMA SmallNumber ==
  ASSUME NEW k \in Int, 0 <= k, k <= 20000
  PROVE  k \in Uint16
<1> DEFINE q == k \div 256
           r == k % 256
<1>1. r \in 0 .. 255 /\ q \in Int /\ k = (256 * q) + r
  BY LastByte DEF Byte
<1> HIDE DEF q, r
<1>2. q \in 0 .. 255
  BY <1>1
<1> QED
  BY <1>2 DEF Uint16, Uint8, Byte, q

LEMMA IndexBytes ==
  ASSUME NEW k \in Known
  PROVE  /\ IsBuffer(Index(k), 2)
         /\ 256 * Index(k)[2] + Index(k)[1] = k
<1> DEFINE v == <<k % 256, (k \div 256) % 256>>
<1>1. IsBuffer(Zeros(2), 2)
  BY ZerosBuffer
<1>2. Index(k) = Overwritten(Zeros(2), 0, v)
  BY DEF Index, writeUint16LittleEndian
<1>3. /\ DOMAIN v = 1 .. 2
      /\ v[1] = k % 256 /\ v[2] = (k \div 256) % 256
  OBVIOUS
<1> HIDE DEF v
<1>4. /\ IsBuffer(Index(k), 2)
      /\ \A i \in 1 .. 2 : Index(k)[i] = IF i - 0 \in DOMAIN v THEN v[i - 0] ELSE Zeros(2)[i]
  BY <1>1, <1>2, OverwrittenBuffer
<1>5. Index(k)[1] = v[1] /\ Index(k)[2] = v[2]
  BY <1>3, <1>4
<1>6. k \in Int /\ 0 <= k /\ k <= 20000
  BY DEF Known, FixedNumbers
<1>7. k \in Uint16
  BY <1>6, SmallNumber
<1>8. k = 256 * ((k \div 256) % 256) + (k % 256)
  BY <1>7, Uint16Bytes
<1> QED
  BY <1>3, <1>4, <1>5, <1>8

\* The sensor's answer to such a command has its length in its header.
LEMMA AnnouncedAnswer ==
  ASSUME NEW c, Valid(c), NEW s, NEW sid, NEW rid
  PROVE  Announced(Answer(s, ConstructTelegram(c, sid, rid)))
<1> DEFINE t == ConstructTelegram(c, sid, rid)
<1>1. PICK n \in 0 .. 1000 : IsBuffer(c.data, n)
  BY DEF Valid, Short
<1>2. n + 10 \in Uint32 /\ n \in Nat
  BY DEF Uint32, Uint16, Uint8, Byte
<1>3. /\ IsBuffer(t, 18 + n)
      /\ readUint8(t, 16) = c.command_type /\ readUint8(t, 17) = c.command_mode
      /\ \A i \in 1 .. n : t[18 + i] = c.data[i]
  BY <1>1, <1>2, TelegramBytes
<1> HIDE DEF t
<1> DEFINE kind == <<readUint8(t, 16), readUint8(t, 17)>>
           part == SubSeq(t, 19, 20)
           whole == part \o CurrentBytes(s, readUint16LittleEndian(t, 18))
<1>4. kind = <<c.command_type, c.command_mode>>
  BY <1>3
<1>5. IsBuffer(<<0, 0>>, 2)
  <2>1. <<0, 0>> \in [1 .. 2 -> {0}]
    OBVIOUS
  <2> QED
    BY <2>1 DEF IsBuffer
<1>6. CASE kind \in {<<Char.O, Char.X>>, <<Char.C, Char.X>>}
  <2>1. \/ Answer(s, t) = Reply(t, Char.O, Char.A, <<0, 0>>)
        \/ Answer(s, t) = Reply(t, Char.C, Char.A, <<0, 0>>)
        \/ Answer(s, t) = Refusal(t)
    BY <1>6 DEF Answer, Char
  <2>2. 2 \in DataSizes
    BY DEF DataSizes
  <2> QED
    BY <1>5, <2>1, <2>2, AnnouncedReplies, AnnouncedRefusal, Zenon DEF t
<1>7. CASE kind = <<Char.R, Char.I>>
  <2>1. PICK k \in Known : c.data = Index(k)
    BY <1>4, <1>7 DEF Valid, Char
  <2>2. n = 2
    BY <1>1, <2>1, IndexBytes, BufferIsSequence
  <2>3. readUint16LittleEndian(t, 18) = k
    <3>1. t[18 + 1] = c.data[1] /\ t[18 + 2] = c.data[2]
      BY <1>3, <2>2
    <3>2. t[19] = c.data[1] /\ t[20] = c.data[2]
      BY <3>1
    <3> QED
      BY <2>1, <3>2, IndexBytes DEF readUint16LittleEndian
  <2>4. PICK m \in 0 .. 1000 : IsBuffer(CurrentBytes(s, k), m)
    BY ShortCurrent DEF Short
  <2>5. IsBuffer(part, 2)
    BY <1>3, <2>2, PartOfBuffer
  <2>6. Joins(whole, part, 2, CurrentBytes(s, k), m)
    BY <2>3, <2>4, <2>5, JoinedBuffers
  <2>7. IsBuffer(whole, 2 + m) /\ 2 + m \in DataSizes
    BY <2>6 DEF Joins, DataSizes
  <2>8. \/ Answer(s, t) = Reply(t, Char.R, Char.A, whole)
        \/ Answer(s, t) = Refusal(t)
    BY <1>7 DEF Answer, Char
  <2>9. PICK l \in DataSizes : IsBuffer(whole, l)
    BY <2>7, Zenon
  <2> HIDE DEF whole
  <2> QED
    BY <2>8, <2>9, AnnouncedReplies, AnnouncedRefusal, Zenon DEF t
<1>8. CASE kind = <<Char.M, Char.I>>
  <2>1. PICK m \in 2 .. 1000 : IsBuffer(c.data, m)
    BY <1>4, <1>8 DEF Valid, Char
  <2>2. n = m
    BY <1>1, <2>1, BufferIsSequence
  <2>3. IsBuffer(part, 2)
    BY <1>3, <2>2, PartOfBuffer
  <2>4. \/ Answer(s, t) = Reply(t, Char.A, Char.I, part)
        \/ Answer(s, t) = Refusal(t)
    BY <1>8 DEF Answer, Char
  <2>5. 2 \in DataSizes
    BY DEF DataSizes
  <2> HIDE DEF part
  <2> QED
    BY <2>3, <2>4, <2>5, AnnouncedReplies, AnnouncedRefusal, Zenon DEF t
<1> QED
  BY <1>4, <1>6, <1>7, <1>8 DEF Valid

-----------------------------------------------------------------------------
(* A reply that is on its way: some segments have been collected, others   *)
(* are still to come.                                                      *)

\* The collected segments and those to come are the reply, none of them is
\* empty, and the target size is, or will be when the first comes, its length.
InProgress(vector, size, segments, bytes) ==
  \E V :
    /\ vector \in Seq(Seq(V) \ {<<>>})
    /\ segments \in Seq(Seq(V) \ {<<>>})
    /\ bytes \in Seq(V)
    /\ FlattenSeq(vector \o segments) = bytes
    /\ (IF vector = <<>> THEN GetExpectedPacketLength(Head(segments)) ELSE size) = Len(bytes)

LEMMA AnnouncedBytes ==
  ASSUME NEW r, Announced(r)
  PROVE  /\ Len(r) \in Nat /\ Len(r) >= 18
         /\ GetExpectedPacketLength(r) = Len(r)
         /\ \E V : r \in Seq(V)
<1>1. PICK n \in ReplySizes : IsBuffer(r, n) /\ GetExpectedPacketLength(r) = n
  BY DEF Announced
<1>2. Len(r) = n /\ \E V : r \in Seq(V)
  BY <1>1, BufferIsSequence
<1> QED
  BY <1>1, <1>2 DEF ReplySizes

LEMMA ReplyInSegments ==
  ASSUME NEW r, Announced(r), NEW cuts, cuts \subseteq 8 .. Len(r) - 1, NEW size
  PROVE  /\ InProgress(<<>>, size, Segments(r, cuts), r)
         /\ Segments(r, cuts) # <<>>
         /\ IsFiniteSet(cuts) /\ Len(Segments(r, cuts)) = Cardinality(cuts) + 1
<1>1. PICK V : r \in Seq(V)
  BY AnnouncedBytes
<1>2. Len(r) \in Nat /\ Len(r) >= 18 /\ GetExpectedPacketLength(r) = Len(r)
  BY AnnouncedBytes
<1>3. Len(r) >= 8
  BY <1>2
<1> DEFINE S == Segments(r, cuts)
<1>4. /\ S \in Seq(Seq(V) \ {<<>>}) /\ FlattenSeq(S) = r
      /\ IsFiniteSet(cuts) /\ Len(S) = Cardinality(cuts) + 1
      /\ \E e \in 8 .. Len(r) : S[1] = SubSeq(r, 1, e)
  BY <1>1, <1>3, SegmentsOfReply
<1> HIDE DEF S
<1>5. Cardinality(cuts) \in Nat
  BY <1>4, FS_CardinalityType
<1>6. S # <<>> /\ Head(S) = S[1]
  BY <1>4, <1>5
<1>7. PICK e \in 8 .. Len(r) : S[1] = SubSeq(r, 1, e)
  BY <1>4
<1>8. \A i \in 1 .. e : S[1][i] = r[i]
  BY <1>1, <1>2, <1>7, SubSeqProperties
<1>9. S[1][5] = r[5] /\ S[1][6] = r[6] /\ S[1][7] = r[7] /\ S[1][8] = r[8]
  BY <1>2, <1>8
<1>10. readUint32BigEndian(S[1], 4) = readUint32BigEndian(r, 4)
  BY <1>9 DEF readUint32BigEndian
<1>11. GetExpectedPacketLength(Head(S)) = Len(r)
  BY <1>2, <1>6, <1>10 DEF GetExpectedPacketLength
<1>12. <<>> \in Seq(Seq(V) \ {<<>>}) /\ <<>> \o S = S
  BY <1>4
<1> QED
  BY <1>1, <1>4, <1>6, <1>11, <1>12 DEF InProgress, S

LEMMA ReplyInOneSegment ==
  ASSUME NEW r, Announced(r), NEW size
  PROVE  InProgress(<<>>, size, <<r>>, r) /\ <<r>> # <<>>
<1>1. PICK V : r \in Seq(V)
  BY AnnouncedBytes
<1>2. Len(r) \in Nat /\ Len(r) >= 18 /\ GetExpectedPacketLength(r) = Len(r)
  BY AnnouncedBytes
<1>3. r # <<>>
  BY <1>2
<1> DEFINE S == <<r>>
<1>4. S \in Seq(Seq(V) \ {<<>>}) /\ Len(S) = 1 /\ S[1] = r /\ Head(S) = r /\ S # <<>>
  BY <1>1, <1>3
<1> HIDE DEF S
<1>5. FlattenSeq(S) = r
  BY <1>4, FlattenSingle
<1>6. <<>> \in Seq(Seq(V) \ {<<>>}) /\ <<>> \o S = S
  BY <1>4
<1> QED
  BY <1>1, <1>2, <1>4, <1>5, <1>6 DEF InProgress, S

LEMMA HeadAndTail ==
  ASSUME NEW Q, NEW s \in Seq(Q), s # <<>>
  PROVE  /\ Head(s) \in Q /\ Tail(s) \in Seq(Q) /\ Head(s) = s[1]
         /\ Len(s) \in Nat /\ Len(s) > 0 /\ Len(Tail(s)) = Len(s) - 1
         /\ \A i \in 1 .. Len(s) - 1 : Tail(s)[i] = s[i + 1]
OBVIOUS

LEMMA HeadMoves ==
  ASSUME NEW Q, NEW v \in Seq(Q), NEW s \in Seq(Q), s # <<>>
  PROVE  v \o s = Append(v, Head(s)) \o Tail(s)
<1>1. /\ Head(s) \in Q /\ Tail(s) \in Seq(Q) /\ Head(s) = s[1]
      /\ Len(s) \in Nat /\ Len(s) > 0 /\ Len(Tail(s)) = Len(s) - 1
      /\ \A i \in 1 .. Len(s) - 1 : Tail(s)[i] = s[i + 1]
  BY HeadAndTail
<1> DEFINE a == Append(v, Head(s))
           l == v \o s
           r == a \o Tail(s)
<1>2. /\ a \in Seq(Q) /\ Len(a) = Len(v) + 1 /\ Len(v) \in Nat
      /\ \A i \in 1 .. Len(v) : a[i] = v[i]
      /\ a[Len(v) + 1] = s[1]
  BY <1>1
<1> HIDE DEF a
<1>3. l \in Seq(Q) /\ Len(l) = Len(v) + Len(s)
  OBVIOUS
<1>4. r \in Seq(Q) /\ Len(r) = Len(v) + Len(s)
  BY <1>1, <1>2
<1>5. ASSUME NEW i \in 1 .. Len(v) + Len(s) PROVE l[i] = r[i]
  <2>1. CASE i <= Len(v)
    BY <1>1, <1>2, <2>1
  <2>2. CASE i = Len(v) + 1
    <3>1. l[i] = s[1]
      BY <1>1, <1>2, <2>2
    <3>2. r[i] = a[i]
      BY <1>1, <1>2, <2>2
    <3> QED
      BY <1>2, <2>2, <3>1, <3>2
  <2>3. CASE i > Len(v) + 1
    <3>1. l[i] = s[i - Len(v)]
      BY <1>1, <1>2, <2>3
    <3>2. r[i] = Tail(s)[i - (Len(v) + 1)]
      <4>1. /\ Len(r) = Len(a) + Len(Tail(s))
            /\ \A j \in 1 .. Len(a) + Len(Tail(s)) :
                 r[j] = IF j <= Len(a) THEN a[j] ELSE Tail(s)[j - Len(a)]
        BY <1>1, <1>2, ConcatProperties
      <4>2. i \in 1 .. Len(a) + Len(Tail(s)) /\ ~ (i <= Len(a))
        BY <1>1, <1>2, <2>3
      <4> QED
        BY <1>2, <4>1, <4>2
    <3>3. i - (Len(v) + 1) \in 1 .. Len(s) - 1 /\ (i - (Len(v) + 1)) + 1 = i - Len(v)
      BY <1>1, <1>2, <2>3
    <3> QED
      BY <1>1, <3>1, <3>2, <3>3
  <2> QED
    BY <1>1, <1>2, <2>1, <2>2, <2>3
<1> HIDE DEF l, r
<1>6. l = r
  BY <1>3, <1>4, <1>5
<1> QED
  BY <1>6 DEF l, r, a

\* The merger's reckoning: what is missing has the length of the next segment
\* if and only if this is the last.
LEMMA SegmentIsAdded ==
  ASSUME NEW vector, NEW size, NEW segments, NEW bytes,
         InProgress(vector, size, segments, bytes), segments # <<>>
  PROVE  LET packet == Head(segments)
             rest   == Tail(segments)
             target == IF vector = <<>> THEN GetExpectedPacketLength(packet) ELSE size
         IN /\ target = Len(bytes)
            /\ target - GetCurrentSize(vector) = Len(packet) <=> rest = <<>>
            /\ rest = <<>> => DeployPacket(Append(vector, packet)) = bytes
            /\ rest # <<>> => InProgress(Append(vector, packet), target, rest, bytes)
            /\ Len(rest) = Len(segments) - 1 /\ Len(segments) \in Nat
<1> DEFINE packet == Head(segments)
           rest   == Tail(segments)
           target == IF vector = <<>> THEN GetExpectedPacketLength(packet) ELSE size
           longer == Append(vector, packet)
<1>1. PICK V :
        /\ vector \in Seq(Seq(V) \ {<<>>})
        /\ segments \in Seq(Seq(V) \ {<<>>})
        /\ bytes \in Seq(V)
        /\ FlattenSeq(vector \o segments) = bytes
        /\ target = Len(bytes)
  BY DEF InProgress
<1> HIDE DEF target
<1> DEFINE Q == Seq(V) \ {<<>>}
<1>2. vector \in Seq(Q) /\ segments \in Seq(Q)
  BY <1>1
<1>3. Seq(Q) \subseteq Seq(Seq(V)) /\ Q \subseteq Seq(V)
  BY SeqMonotonic
<1> HIDE DEF Q
<1>4. /\ packet \in Q /\ rest \in Seq(Q)
      /\ longer \in Seq(Q) /\ longer # <<>>
      /\ Len(rest) = Len(segments) - 1 /\ Len(segments) \in Nat
  <2>1. packet \in Q /\ rest \in Seq(Q) /\ Len(rest) = Len(segments) - 1 /\ Len(segments) \in Nat
    BY <1>2, HeadAndTail
  <2> HIDE DEF packet, rest
  <2>2. longer \in Seq(Q) /\ longer # <<>>
    BY <1>2, <2>1, AppendProperties
  <2> QED
    BY <2>1, <2>2
<1>17. vector \o segments = longer \o rest
  BY <1>2, HeadMoves
<1> HIDE DEF packet, rest
<1>16. rest = <<>> => longer \o rest = longer
  <2> HIDE DEF longer
  <2> QED
    BY <1>4
<1>5. FlattenSeq(longer) = FlattenSeq(vector) \o packet
  BY <1>2, <1>3, <1>4, FlattenAppend
<1> HIDE DEF longer
<1>6. /\ FlattenSeq(vector) \in Seq(V) /\ FlattenSeq(longer) \in Seq(V)
      /\ FlattenSeq(rest) \in Seq(V)
  BY <1>2, <1>3, <1>4, FlattenType
<1>7. bytes = FlattenSeq(longer) \o FlattenSeq(rest)
  BY <1>1, <1>3, <1>4, <1>17, FlattenConcat
<1>8. Len(FlattenSeq(longer)) = Len(FlattenSeq(vector)) + Len(packet)
  BY <1>3, <1>4, <1>5, <1>6
<1>9. Len(bytes) = Len(FlattenSeq(longer)) + Len(FlattenSeq(rest))
  BY <1>6, <1>7
<1>10. rest = <<>> => Len(FlattenSeq(rest)) = 0
  BY FlattenEmpty
<1>11. rest # <<>> => Len(FlattenSeq(rest)) > 0
  BY <1>4, FlattenLength DEF Q
<1>12. PICK k \in Nat, m \in Nat, n \in Nat :
         k = Len(FlattenSeq(vector)) /\ m = Len(packet) /\ n = Len(FlattenSeq(rest))
  BY <1>3, <1>4, <1>6
<1>13. target - Len(FlattenSeq(vector)) = Len(packet) <=> rest = <<>>
  <2>1. target = k + m + n
    BY <1>1, <1>8, <1>9, <1>12
  <2>2. rest = <<>> <=> n = 0
    BY <1>10, <1>11, <1>12
  <2>3. (k + m + n) - k = m <=> n = 0
    OBVIOUS
  <2> QED
    BY <1>12, <2>1, <2>2, <2>3
<1>14. rest = <<>> => FlattenSeq(longer) = bytes
  BY <1>1, <1>16, <1>17
<1>15. InProgress(longer, target, rest, bytes)
  BY <1>1, <1>4, <1>17 DEF InProgress, Q
<1> QED
  BY <1>1, <1>4, <1>13, <1>14, <1>15 DEF GetCurrentSize, DeployPacket, packet, rest, target, longer

-----------------------------------------------------------------------------
(* The commands of the requests. *)

LEMMA ValidVariable ==
  ASSUME NEW k \in Known, NEW parser
  PROVE  Valid(VariableCommand(k, parser))
<1> DEFINE c == VariableCommand(k, parser)
<1>1. c.command_type = Char.R /\ c.command_mode = Char.I /\ c.data = Index(k)
  BY DEF VariableCommand
<1> HIDE DEF c
<1>2. 2 \in 0 .. 1000
  OBVIOUS
<1>3. Short(Index(k))
  BY <1>2, IndexBytes, ShortBuffer
<1> QED
  BY <1>1, <1>3 DEF Valid, c

LEMMA ValidMethod ==
  ASSUME NEW m, NEW n \in 0 .. 500, NEW arguments, IsBuffer(arguments, n)
  PROVE  Valid(MethodCommand(m, arguments))
<1> DEFINE c == MethodCommand(m, arguments)
           d == Index(m) \o arguments
<1>1. c.command_type = Char.M /\ c.command_mode = Char.I /\ c.data = d
  BY DEF MethodCommand
<1> HIDE DEF c
<1>2. IsBuffer(Zeros(2), 2)
  BY ZerosBuffer
<1>3. IsBuffer(Index(m), 2)
  BY <1>2, OverwrittenBuffer DEF Index, writeUint16LittleEndian
<1>4. IsBuffer(d, 2 + n)
  BY <1>3, JoinedBuffers DEF Joins
<1>5. 2 + n \in 0 .. 1000 /\ 2 + n \in 2 .. 1000
  OBVIOUS
<1> HIDE DEF d
<1>6. Short(d) /\ \E l \in 2 .. 1000 : IsBuffer(d, l)
  BY <1>4, <1>5, ShortBuffer
<1> QED
  BY <1>1, <1>6 DEF Valid, c

LEMMA ValidSessions == Valid(CreateSession) /\ Valid(CloseSession)
<1>1. Valid(CreateSession)
  <2> DEFINE d == writeUint32BigEndian(writeUint8(Zeros(5), 0, 60), 1, 1)
  <2>1. IsBuffer(Zeros(5), 5)
    BY ZerosBuffer
  <2>2. IsBuffer(writeUint8(Zeros(5), 0, 60), 5)
    BY <2>1, OverwrittenBuffer DEF writeUint8
  <2>3. IsBuffer(d, 5) /\ 5 \in 0 .. 1000
    BY <2>2, OverwrittenBuffer DEF writeUint32BigEndian
  <2> HIDE DEF d
  <2>4. Short(d)
    BY <2>3, ShortBuffer
  <2>5. /\ CreateSession.command_type = Char.O /\ CreateSession.command_mode = Char.X
        /\ CreateSession.data = d
    BY DEF CreateSession, d
  <2> QED
    BY <2>4, <2>5 DEF Valid
<1>2. Valid(CloseSession)
  <2>1. IsBuffer(<<>>, 0) /\ 0 \in 0 .. 1000
    BY ZerosBuffer DEF IsBuffer
  <2>2. Short(<<>>)
    BY <2>1, ShortBuffer
  <2>3. /\ CloseSession.command_type = Char.C /\ CloseSession.command_mode = Char.X
        /\ CloseSession.data = <<>>
    BY DEF CloseSession
  <2> QED
    BY <2>2, <2>3 DEF Valid
<1> QED
  BY <1>1, <1>2

LEMMA KnownNumbers ==
  /\ \A k \in FixedNumbers : k \in Known
  /\ 178 \in Known
  /\ \A i \in 0 .. 253 : 2101 + i \in Known
  /\ \A i \in 0 .. 127 : 10000 + i \in Known /\ 10256 + i \in Known
BY DEF Known

LEMMA ValidIndexed ==
  /\ \A i \in 0 .. 253 : Valid(MonitoringCaseVariableCommand(i))
  /\ \A i \in 0 .. 127 : Valid(FieldHeaderVariableCommand(i)) /\ Valid(FieldGeometryVariableCommand(i))
BY KnownNumbers, ValidVariable
   DEF MonitoringCaseVariableCommand, FieldHeaderVariableCommand, FieldGeometryVariableCommand

LEMMA ValidReads == \A n \in DOMAIN Reads : Valid(Reads[n])
<1>1. /\ 3 \in Known /\ 4 \in Known /\ 13 \in Known /\ 14 \in Known /\ 15 \in Known /\ 16 \in Known
      /\ 17 \in Known /\ 18 \in Known /\ 23 \in Known /\ 28 \in Known /\ 33 \in Known /\ 35 \in Known
      /\ 177 \in Known /\ 178 \in Known /\ 1003 \in Known /\ 2100 \in Known
  BY KnownNumbers DEF FixedNumbers
<1>2. /\ Valid(SerialNumberVariableCommand) /\ Valid(FirmwareVersionVariableCommand)
      /\ Valid(TypeCodeVariableCommand) /\ Valid(OrderNumberVariableCommand)
      /\ Valid(DeviceStatusVariableCommand) /\ Valid(RequiredUserActionVariableCommand)
      /\ Valid(DeviceNameVariableCommand) /\ Valid(ProjectNameVariableCommand)
      /\ Valid(StatusOverviewVariableCommand) /\ Valid(ConfigMetadataVariableCommand)
      /\ Valid(ApplicationNameVariableCommand) /\ Valid(UserNameVariableCommand)
      /\ Valid(MeasurementPersistentConfigVariableCommand)
      /\ Valid(MeasurementCurrentConfigVariableCommand)
      /\ Valid(FieldSetsVariableCommand) /\ Valid(MonitoringCaseTableHeaderVariableCommand)
  BY <1>1, ValidVariable
     DEF SerialNumberVariableCommand, FirmwareVersionVariableCommand, TypeCodeVariableCommand,
         OrderNumberVariableCommand, DeviceStatusVariableCommand, RequiredUserActionVariableCommand,
         DeviceNameVariableCommand, ProjectNameVariableCommand, StatusOverviewVariableCommand,
         ConfigMetadataVariableCommand, ApplicationNameVariableCommand, UserNameVariableCommand,
         MeasurementPersistentConfigVariableCommand, MeasurementCurrentConfigVariableCommand,
         FieldSetsVariableCommand, MonitoringCaseTableHeaderVariableCommand
<1>3. /\ Valid(MonitoringCaseVariableCommand(0)) /\ Valid(FieldHeaderVariableCommand(1))
      /\ Valid(FieldGeometryVariableCommand(1))
  BY ValidIndexed
<1> QED
  BY <1>2, <1>3 DEF Reads

\* Every command of a request is one that the sensor knows an answer to.
LEMMA ValidFirst ==
  ASSUME NEW r \in Request, NEW port
  PROVE  Valid(FirstCommand(r, port))
<1>1. CASE r.kind = "read"
  <2>1. r.name \in DOMAIN Reads
    BY <1>1 DEF Request
  <2>2. FirstCommand(r, port) = Reads[r.name]
    BY <1>1 DEF FirstCommand
  <2> QED
    BY <2>1, <2>2, ValidReads
<1>2. CASE r.kind = "telegram"
  <2>1. ChannelOf(r.channel) \in 0 .. 3
    BY <1>2 DEF Request, Channels, ChannelOf
  <2>2. \A i \in 0 .. 3 : 179 + i \in Known
    BY DEF Known, FixedNumbers
  <2>3. FirstCommand(r, port) = LatestTelegramVariableCommand(ChannelOf(r.channel))
    BY <1>2 DEF FirstCommand
  <2> QED
    BY <2>1, <2>2, <2>3, ValidVariable DEF LatestTelegramVariableCommand
<1>3. CASE r.kind = "find"
  <2>1. FirstCommand(r, port) = FindMeCommand(r.blink_time)
    BY <1>3 DEF FirstCommand
  <2>2. IsBuffer(Zeros(2), 2)
    BY ZerosBuffer
  <2>3. IsBuffer(writeUint16LittleEndian(Zeros(2), 0, r.blink_time), 2) /\ 2 \in 0 .. 500
    BY <2>2, OverwrittenBuffer DEF writeUint16LittleEndian
  <2> QED
    BY <2>1, <2>3, ValidMethod DEF FindMeCommand
<1>4. CASE r.kind = "settings"
  <2>1. FirstCommand(r, port) = ChangeCommSettingsCommand(WithPort(r.settings, port))
    BY <1>4 DEF FirstCommand
  <2>2. \A s : IsBuffer(WriteSettings(s), 28)
    BY ZerosBuffer, OverwrittenBuffer
       DEF WriteSettings, writeUint8, writeUint16LittleEndian, writeUint32LittleEndian,
           writeInt32LittleEndian
  <2>3. 28 \in 0 .. 500
    OBVIOUS
  <2> QED
    BY <2>1, <2>2, <2>3, ValidMethod DEF ChangeCommSettingsCommand
<1>5. CASE r.kind = "fields"
  BY <1>5, ValidIndexed DEF FirstCommand
<1>6. CASE r.kind = "cases"
  BY <1>6, ValidIndexed DEF FirstCommand
<1> QED
  BY <1>1, <1>2, <1>3, <1>4, <1>5, <1>6 DEF Request

-----------------------------------------------------------------------------
(* The inductive invariant.                                                *)

\* What is asked for next is there to be asked for.
CommandInv ==
  /\ phase \in {"open", "execute", "close"}
  /\ Valid(command)
  /\ index \in 0 .. MaxFields + MaxCases
  /\ request.kind = "fields" => index < MaxFields
  /\ request.kind = "cases" => index < MaxCases

\* Between requests nothing is on its way.
Quiet == pc # "receive" => uplink = <<>> /\ downlink = <<>> /\ MergerIsNew

\* The sensor is asked only with a new merger and after all segments of the
\* reply before, and it has an answer.
Asked ==
  uplink # <<>> =>
    /\ pc = "receive" /\ downlink = <<>> /\ MergerIsNew
    /\ \E c, sid : Valid(c) /\ uplink = ConstructTelegram(c, sid, RequestID)

\* A reply has been put together, or some segments of it are still to come.
Answered ==
  pc = "receive" /\ uplink = <<>> =>
    IF downlink = <<>>
    THEN m_is_complete /\ m_deployed_packet_buffer = reply
    ELSE ~ m_is_complete /\ InProgress(m_buffer_vector, m_target_size, downlink, reply)

ReplyInv == CommandInv /\ Quiet /\ Asked /\ Answered

LEMMA CompleteMeansReceived ==
  ASSUME ReplyInv, m_is_complete
  PROVE  pc = "receive" /\ uplink = <<>> /\ downlink = <<>>
BY DEF ReplyInv, Quiet, Asked, Answered, MergerIsNew

\* A command is sent.
LEMMA SendStep ==
  ASSUME NEW c, Valid(c), SendCommand(c)
  PROVE  /\ Quiet' /\ Asked' /\ Answered'
         /\ uplink' # <<>> /\ downlink' = <<>>
<1>1. PICK n \in 0 .. 1000 : IsBuffer(c.data, n)
  BY DEF Valid, Short
<1>2. n + 10 \in Uint32 /\ n \in Nat
  BY DEF Uint32, Uint16, Uint8, Byte
<1>3. IsBuffer(ConstructTelegram(c, m_session_id', RequestID), 18 + n)
  BY <1>1, <1>2, TelegramBytes
<1>4. Len(ConstructTelegram(c, m_session_id', RequestID)) = 18 + n
  BY <1>3, BufferIsSequence
<1>5. uplink' # <<>>
  BY <1>2, <1>4 DEF SendCommand
<1> QED
  BY <1>5 DEF SendCommand, NewMerger, Quiet, Asked, Answered, MergerIsNew

\* The request returns.
LEMMA ReturnStep ==
  ASSUME ReplyInv, m_is_complete, Return
  PROVE  Quiet' /\ Asked' /\ Answered'
<1>1. uplink = <<>> /\ downlink = <<>>
  BY CompleteMeansReceived
<1> QED
  BY <1>1 DEF Return, NewMerger, Quiet, Asked, Answered, MergerIsNew

LEMMA ReplyInit == ASSUME Init PROVE ReplyInv
<1>1. MaxFields \in 1 .. 128 /\ MaxCases \in 1 .. 254
  BY DeviceRequestsAssumption
<1>2. CommandInv
  BY <1>1, ValidSessions DEF Init, CommandInv
<1> QED
  BY <1>2 DEF Init, ReplyInv, Quiet, Asked, Answered

LEMMA CallStep ==
  ASSUME ReplyInv, NEW r \in Request, Call(r)
  PROVE  ReplyInv'
<1>1. MaxFields \in 1 .. 128 /\ MaxCases \in 1 .. 254
  BY DeviceRequestsAssumption
<1>2. PICK port : CreateAndExecute(FirstCommand(r, port))
  BY DEF Call
<1>3. Valid(FirstCommand(r, port))
  BY ValidFirst
<1>4. Quiet' /\ Asked' /\ Answered'
  BY <1>2, ValidSessions, SendStep DEF CreateAndExecute
<1>5. CommandInv'
  BY <1>1, <1>2, <1>3 DEF CreateAndExecute, Call, CommandInv
<1> QED
  BY <1>4, <1>5 DEF ReplyInv

LEMMA AnswerIsCut ==
  ASSUME NEW cuts \in Cutting, Announced(reply')
  PROVE  /\ cuts \subseteq 8 .. Len(reply') - 1
         /\ IsFiniteSet(cuts) /\ Cardinality(cuts) <= Cardinality(Cuts) + 1
<1> DEFINE n == Len(reply')
           possible == {c \in Cuts \cup {n - 1} : 8 <= c /\ c < n}
<1>1. n \in Nat /\ n >= 18
  BY AnnouncedBytes
<1>2. Cuts \subseteq Nat /\ IsFiniteSet(Cuts)
  BY DeviceRequestsAssumption
<1>3. cuts \subseteq possible
  BY DEF Cutting
<1> HIDE DEF n
<1>4. possible \subseteq 8 .. n - 1
  <2>1. ASSUME NEW c \in possible PROVE c \in 8 .. n - 1
    <3>1. c \in Int /\ 8 <= c /\ c < n
      BY <1>1, <1>2
    <3> QED
      BY <1>1, <3>1
  <2> QED
    BY <2>1
<1>5. n - 1 \in Int /\ cuts \subseteq Cuts \cup {n - 1}
  BY <1>1, <1>3
<1>6. /\ IsFiniteSet(Cuts \cup {n - 1})
      /\ Cardinality(Cuts \cup {n - 1}) <= Cardinality(Cuts) + 1
      /\ Cardinality(Cuts) \in Nat
  <2>1. Cardinality(Cuts \cup {n - 1})
          = IF n - 1 \in Cuts THEN Cardinality(Cuts) ELSE Cardinality(Cuts) + 1
    BY <1>2, FS_AddElement
  <2>2. IsFiniteSet(Cuts \cup {n - 1}) /\ Cardinality(Cuts) \in Nat
    BY <1>2, FS_AddElement, FS_CardinalityType
  <2> QED
    BY <2>1, <2>2
<1>7. IsFiniteSet(cuts) /\ Cardinality(cuts) <= Cardinality(Cuts \cup {n - 1})
  BY <1>5, <1>6, FS_Subset
<1>8. Cardinality(cuts) \in Nat /\ Cardinality(Cuts \cup {n - 1}) \in Nat
  BY <1>6, <1>7, FS_CardinalityType
<1>9. Cardinality(cuts) <= Cardinality(Cuts) + 1
  BY <1>6, <1>7, <1>8
<1> QED
  BY <1>3, <1>4, <1>7, <1>9 DEF n

LEMMA AnswerStep ==
  ASSUME ReplyInv, SensorAnswers
  PROVE  ReplyInv' /\ downlink' # <<>> /\ Len(downlink') \in 1 .. Cardinality(Cuts) + 2
<1>1. PICK c, sid : Valid(c) /\ uplink = ConstructTelegram(c, sid, RequestID)
  BY DEF SensorAnswers, ReplyInv, Asked
<1>2. pc = "receive" /\ MergerIsNew
  BY DEF SensorAnswers, ReplyInv, Asked
<1>3. Announced(reply')
  BY <1>1, AnnouncedAnswer DEF SensorAnswers
<1>4. PICK cuts \in Cutting : downlink' = Segments(reply', cuts)
  BY DEF SensorAnswers
<1>5. /\ cuts \subseteq 8 .. Len(reply') - 1
      /\ IsFiniteSet(cuts) /\ Cardinality(cuts) <= Cardinality(Cuts) + 1
  BY <1>3, AnswerIsCut
<1>6. /\ InProgress(<<>>, m_target_size', downlink', reply')
      /\ downlink' # <<>>
      /\ Len(downlink') = Cardinality(cuts) + 1
  BY <1>3, <1>4, <1>5, ReplyInSegments
<1>7. Len(downlink') \in 1 .. Cardinality(Cuts) + 2
  <2>1. Cardinality(cuts) \in Nat /\ Cardinality(Cuts) \in Nat
    BY <1>5, FS_CardinalityType, DeviceRequestsAssumption
  <2> QED
    BY <1>5, <1>6, <2>1
<1>8. m_is_complete' = FALSE /\ m_buffer_vector' = <<>> /\ uplink' = <<>> /\ pc' = "receive"
  BY <1>2 DEF SensorAnswers, mergerVars, MergerIsNew
<1>9. Quiet' /\ Asked' /\ Answered'
  BY <1>6, <1>8 DEF Quiet, Asked, Answered
<1>10. CommandInv'
  BY DEF ReplyInv, CommandInv, SensorAnswers, requestVars
<1> QED
  BY <1>6, <1>7, <1>9, <1>10 DEF ReplyInv

LEMMA RefusalStep ==
  ASSUME ReplyInv, SensorRefuses
  PROVE  ReplyInv' /\ downlink' # <<>> /\ Len(downlink') = 1
<1>1. pc = "receive" /\ MergerIsNew
  BY DEF SensorRefuses, ReplyInv, Asked
<1>2. Announced(reply')
  BY AnnouncedRefusal DEF SensorRefuses
<1>3. downlink' = <<reply'>>
  BY DEF SensorRefuses
<1>4. InProgress(<<>>, m_target_size', downlink', reply') /\ downlink' # <<>>
  BY <1>2, <1>3, ReplyInOneSegment
<1>5. m_is_complete' = FALSE /\ m_buffer_vector' = <<>> /\ uplink' = <<>> /\ pc' = "receive"
  BY <1>1 DEF SensorRefuses, mergerVars, MergerIsNew
<1>6. Quiet' /\ Asked' /\ Answered'
  BY <1>4, <1>5 DEF Quiet, Asked, Answered
<1>7. CommandInv'
  BY DEF ReplyInv, CommandInv, SensorRefuses
<1> QED
  BY <1>3, <1>4, <1>6, <1>7 DEF ReplyInv

LEMMA RaiseStep ==
  ASSUME ReplyInv, CommandRaises
  PROVE  ReplyInv'
<1>1. Quiet' /\ Asked' /\ Answered'
  BY DEF CommandRaises, NewMerger, Quiet, Asked, Answered, MergerIsNew
<1>2. CommandInv'
  BY DEF ReplyInv, CommandInv, CommandRaises, requestVars
<1> QED
  BY <1>1, <1>2 DEF ReplyInv

LEMMA SegmentStep ==
  ASSUME ReplyInv, ReceiveSegment
  PROVE  /\ ReplyInv'
         /\ uplink = <<>> /\ uplink' = <<>>
         /\ Len(downlink') = Len(downlink) - 1 /\ Len(downlink) \in Nat
<1>1. pc = "receive" /\ ~ m_is_complete /\ downlink # <<>> /\ uplink = <<>>
  BY DEF ReceiveSegment, ReplyInv, Asked
<1>2. InProgress(m_buffer_vector, m_target_size, downlink, reply)
  BY <1>1 DEF ReplyInv, Answered
<1> DEFINE packet == Head(downlink)
           rest   == Tail(downlink)
           target == IF m_buffer_vector = <<>> THEN GetExpectedPacketLength(packet) ELSE m_target_size
<1>3. /\ target - GetCurrentSize(m_buffer_vector) = Len(packet) <=> rest = <<>>
      /\ rest = <<>> => DeployPacket(Append(m_buffer_vector, packet)) = reply
      /\ rest # <<>> => InProgress(Append(m_buffer_vector, packet), target, rest, reply)
      /\ Len(rest) = Len(downlink) - 1 /\ Len(downlink) \in Nat
  BY <1>1, <1>2, SegmentIsAdded
<1>4. /\ m_target_size' = target /\ downlink' = rest
      /\ uplink' = uplink /\ reply' = reply /\ pc' = pc
  BY DEF ReceiveSegment, ReceivePacket
<1>5. IF target - GetCurrentSize(m_buffer_vector) = Len(packet)
      THEN /\ m_is_complete' = TRUE
           /\ m_deployed_packet_buffer' = DeployPacket(Append(m_buffer_vector, packet))
      ELSE m_is_complete' = FALSE /\ m_buffer_vector' = Append(m_buffer_vector, packet)
  BY <1>4 DEF ReceiveSegment, ReceivePacket, AddTCPPacket
<1> HIDE DEF packet, rest, target
<1>6. Answered'
  BY <1>3, <1>4, <1>5 DEF Answered
<1>7. Quiet' /\ Asked'
  BY <1>1, <1>4 DEF Quiet, Asked
<1>8. CommandInv'
  BY DEF ReplyInv, CommandInv, ReceiveSegment, requestVars
<1> QED
  BY <1>1, <1>3, <1>4, <1>6, <1>7, <1>8 DEF ReplyInv

LEMMA CreatedStep ==
  ASSUME ReplyInv, SessionIsCreated
  PROVE  ReplyInv' /\ uplink = <<>> /\ downlink = <<>>
<1>1. Quiet' /\ Asked' /\ Answered'
  BY SendStep DEF SessionIsCreated, ReplyInv, CommandInv
<1>2. CommandInv'
  BY DEF ReplyInv, CommandInv, SessionIsCreated, requestVars
<1>3. uplink = <<>> /\ downlink = <<>>
  BY CompleteMeansReceived DEF SessionIsCreated
<1> QED
  BY <1>1, <1>2, <1>3 DEF ReplyInv

LEMMA ProcessedStep ==
  ASSUME ReplyInv, CommandIsProcessed
  PROVE  ReplyInv' /\ uplink = <<>> /\ downlink = <<>>
<1>1. Quiet' /\ Asked' /\ Answered'
  BY SendStep, ValidSessions DEF CommandIsProcessed
<1>2. CommandInv'
  BY DEF ReplyInv, CommandInv, CommandIsProcessed
<1>3. uplink = <<>> /\ downlink = <<>>
  BY CompleteMeansReceived DEF CommandIsProcessed
<1> QED
  BY <1>1, <1>2, <1>3 DEF ReplyInv

\* The next command of a request is sent, or the request returns.
LEMMA CreateAndExecuteStep ==
  ASSUME NEW c, Valid(c), CreateAndExecute(c)
  PROVE  /\ Quiet' /\ Asked' /\ Answered'
         /\ phase' = "open" /\ command' = c /\ Valid(command')
         /\ uplink' # <<>> /\ downlink' = <<>>
BY ValidSessions, SendStep DEF CreateAndExecute

\* The commands that may come next.
LEMMA NextCommands ==
  ASSUME ReplyInv
  PROVE  /\ request.kind = "fields" =>
              /\ Valid(FieldGeometryVariableCommand(index))
              /\ index + 1 < MaxFields => Valid(FieldHeaderVariableCommand(index + 1))
         /\ request.kind = "cases" /\ index + 1 < MaxCases =>
              Valid(MonitoringCaseVariableCommand(index + 1))
<1>1. MaxFields \in 1 .. 128 /\ MaxCases \in 1 .. 254 /\ index \in 0 .. MaxFields + MaxCases
  BY DeviceRequestsAssumption DEF ReplyInv, CommandInv
<1>2. request.kind = "fields" => index \in 0 .. 127
  BY <1>1 DEF ReplyInv, CommandInv
<1>3. index + 1 < MaxFields => index + 1 \in 0 .. 127
  BY <1>1
<1>4. index + 1 < MaxCases => index + 1 \in 0 .. 253
  BY <1>1
<1> QED
  BY <1>2, <1>3, <1>4, ValidIndexed

\* What a reply to CloseSession leads to: the request returns; or the next
\* command is sent, for the geometry of a field after its header, or for the
\* next field or monitoring case.
Goes ==
  \/ Return /\ UNCHANGED <<command, index>>
  \/ /\ CreateAndExecute(FieldGeometryVariableCommand(index))
     /\ Valid(FieldGeometryVariableCommand(index))
     /\ command.parser # "FieldGeometry"
     /\ index' = index
  \/ /\ \E c : Valid(c) /\ CreateAndExecute(c) /\ c.parser # "FieldGeometry"
     /\ index' = index + 1
     /\ request.kind \in {"fields", "cases"}
     /\ request.kind = "fields" => index + 1 < MaxFields
     /\ request.kind = "cases" => index + 1 < MaxCases

LEMMA ClosedLeadsOn ==
  ASSUME ReplyInv, SessionIsClosed
  PROVE  Goes
<1>1. \A i : /\ FieldHeaderVariableCommand(i).parser # "FieldGeometry"
             /\ MonitoringCaseVariableCommand(i).parser # "FieldGeometry"
  BY DEF FieldHeaderVariableCommand, MonitoringCaseVariableCommand, VariableCommand
<1>2. CASE request.kind = "cases"
  <2>1. MonitoringCaseIsRead
    BY <1>2 DEF SessionIsClosed
  <2>2. CASE Return /\ UNCHANGED index
    BY <2>2 DEF Goes, Return
  <2>3. CASE NextIndex(MaxCases, MonitoringCaseVariableCommand(index + 1))
    <3>1. CASE index + 1 < MaxCases
      BY <1>1, <1>2, <2>3, <3>1, NextCommands DEF NextIndex, Goes
    <3>2. CASE ~ (index + 1 < MaxCases)
      BY <2>3, <3>2 DEF NextIndex, Goes, Return
    <3> QED
      BY <3>1, <3>2
  <2> QED
    BY <2>1, <2>2, <2>3 DEF MonitoringCaseIsRead
<1>3. CASE request.kind = "fields" /\ command.parser = "FieldHeader"
  <2>1. FieldHeaderIsRead
    BY <1>3 DEF SessionIsClosed
  <2>2. CASE Return /\ UNCHANGED index
    BY <2>2 DEF Goes, Return
  <2>3. CASE CreateAndExecute(FieldGeometryVariableCommand(index)) /\ UNCHANGED index
    BY <1>3, <2>3, NextCommands DEF Goes
  <2>4. CASE NextIndex(MaxFields, FieldHeaderVariableCommand(index + 1))
    <3>1. CASE index + 1 < MaxFields
      BY <1>1, <1>3, <2>4, <3>1, NextCommands DEF NextIndex, Goes
    <3>2. CASE ~ (index + 1 < MaxFields)
      BY <2>4, <3>2 DEF NextIndex, Goes, Return
    <3> QED
      BY <3>1, <3>2
  <2> QED
    BY <2>1, <2>2, <2>3, <2>4 DEF FieldHeaderIsRead
<1>4. CASE request.kind = "fields" /\ command.parser = "FieldGeometry"
  <2>1. NextIndex(MaxFields, FieldHeaderVariableCommand(index + 1))
    BY <1>4 DEF SessionIsClosed, FieldGeometryIsRead
  <2>2. CASE index + 1 < MaxFields
    BY <1>1, <1>4, <2>1, <2>2, NextCommands DEF NextIndex, Goes
  <2>3. CASE ~ (index + 1 < MaxFields)
    BY <2>1, <2>3 DEF NextIndex, Goes, Return
  <2> QED
    BY <2>2, <2>3
<1>5. CASE /\ request.kind # "cases"
           /\ ~ (request.kind = "fields" /\ command.parser = "FieldHeader")
           /\ ~ (request.kind = "fields" /\ command.parser = "FieldGeometry")
  BY <1>5 DEF SessionIsClosed, Goes, Return
<1> QED
  BY <1>2, <1>3, <1>4, <1>5

LEMMA ClosedStep ==
  ASSUME ReplyInv, SessionIsClosed
  PROVE  /\ ReplyInv' /\ Goes
         /\ uplink = <<>> /\ downlink = <<>>
         /\ pc' = "receive" => uplink' # <<>> /\ downlink' = <<>>
<1>1. Goes /\ m_is_complete /\ request' = request
  BY ClosedLeadsOn DEF SessionIsClosed
<1>2. uplink = <<>> /\ downlink = <<>>
  BY <1>1, CompleteMeansReceived
<1>3. MaxFields \in 1 .. 128 /\ MaxCases \in 1 .. 254
  BY DeviceRequestsAssumption
<1>4. CASE Return /\ UNCHANGED <<command, index>>
  <2>1. Quiet' /\ Asked' /\ Answered' /\ pc' # "receive"
    BY <1>1, <1>4, ReturnStep DEF Return
  <2>2. CommandInv'
    BY <1>1, <1>4 DEF ReplyInv, CommandInv, Return
  <2> QED
    BY <1>1, <1>2, <2>1, <2>2 DEF ReplyInv
<1>5. CASE /\ CreateAndExecute(FieldGeometryVariableCommand(index))
           /\ Valid(FieldGeometryVariableCommand(index))
           /\ index' = index
  <2>1. /\ Quiet' /\ Asked' /\ Answered'
        /\ phase' = "open" /\ Valid(command')
        /\ uplink' # <<>> /\ downlink' = <<>>
    BY <1>5, CreateAndExecuteStep
  <2>2. CommandInv'
    BY <1>1, <1>5, <2>1 DEF ReplyInv, CommandInv
  <2> QED
    BY <1>1, <1>2, <2>1, <2>2 DEF ReplyInv
<1>6. CASE /\ \E c : Valid(c) /\ CreateAndExecute(c) /\ c.parser # "FieldGeometry"
           /\ index' = index + 1
           /\ request.kind \in {"fields", "cases"}
           /\ request.kind = "fields" => index + 1 < MaxFields
           /\ request.kind = "cases" => index + 1 < MaxCases
  <2>1. PICK c : Valid(c) /\ CreateAndExecute(c)
    BY <1>6
  <2>2. /\ Quiet' /\ Asked' /\ Answered'
        /\ phase' = "open" /\ Valid(command')
        /\ uplink' # <<>> /\ downlink' = <<>>
    BY <2>1, CreateAndExecuteStep
  <2>3. index' \in 0 .. MaxFields + MaxCases
    BY <1>3, <1>6 DEF ReplyInv, CommandInv
  <2>4. CommandInv'
    BY <1>1, <1>6, <2>2, <2>3 DEF CommandInv
  <2> QED
    BY <1>1, <1>2, <2>2, <2>4 DEF ReplyInv
<1> QED
  BY <1>1, <1>4, <1>5, <1>6 DEF Goes

\* Nothing of the exchange changes.
LEMMA OtherStep ==
  ASSUME ReplyInv,
         UNCHANGED <<mergerVars, requestVars, pc, phase, command, uplink, downlink, reply>>
  PROVE  ReplyInv'
BY DEF ReplyInv, CommandInv, Quiet, Asked, Answered, MergerIsNew, mergerVars, requestVars

LEMMA ReplyNext == ASSUME ReplyInv, [Next]_vars PROVE ReplyInv'
<1>1. CASE UNCHANGED vars
  BY <1>1, OtherStep DEF vars
<1>2. CASE Next
  <2>1. ASSUME NEW r \in Request, Call(r) PROVE ReplyInv'
    BY <2>1, CallStep
  <2>2. CASE BitChanges
    BY <2>2, OtherStep DEF BitChanges
  <2>3. CASE Done
    BY <2>3, OtherStep DEF Done, vars
  <2> QED
    BY <1>2, <2>1, <2>2, <2>3, AnswerStep, RefusalStep, RaiseStep, SegmentStep, CreatedStep,
       ProcessedStep, ClosedStep DEF Next
<1> QED
  BY <1>1, <1>2

THEOREM ReplyInvariant == Spec => []ReplyInv
<1>1. Init => ReplyInv
  BY ReplyInit
<1>2. ReplyInv /\ [Next]_vars => ReplyInv'
  BY ReplyNext
<1> QED
  BY <1>1, <1>2, PTL DEF Spec

-----------------------------------------------------------------------------

\* However TCP cuts a reply of the sensor, whatever variable it holds and whatever
\* went wrong before, the merger of receiveAndProcessResponse is complete when the last
\* byte has come and not before, and hands on exactly what the sensor sent.
THEOREM ReplyIsWholeAlways == Spec => []ReplyIsWhole
<1>1. ReplyInv => ReplyIsWhole
  BY DEF ReplyInv, Answered, InProgress, ReplyIsWhole
<1> QED
  BY <1>1, ReplyInvariant, PTL

-----------------------------------------------------------------------------
(* Every request ends: StepsLeft is a natural number and decreases.        *)

Most == Cardinality(Cuts) + 3

\* The commands that may still be sent, with the parts of the current one.
PartsLeft ==
  3 * (2 * (MaxFields + MaxCases - index) + (IF command.parser = "FieldGeometry" THEN 0 ELSE 1))
    + [open |-> 2, execute |-> 1, close |-> 0][phase]

\* What is on its way of the current part.
OnTheWay == IF uplink # <<>> THEN Most ELSE Len(downlink)

LEMMA StepsLeftSplit == StepsLeft = PartsLeft * (Most + 1) + OnTheWay
BY DEF StepsLeft, PartsLeft, Most, OnTheWay

LEMMA FewerParts ==
  ASSUME NEW w \in Nat, NEW a \in Nat, NEW b \in Nat, b < a, NEW x \in Nat, NEW y \in Nat, y <= w
  PROVE  b * (w + 1) + y < a * (w + 1) + x
<1>1. PICK d \in Nat : a = b + 1 + d
  <2>1. a - b - 1 \in Nat /\ a = b + 1 + (a - b - 1)
    OBVIOUS
  <2> QED
    BY <2>1
<1>2. PICK e \in Nat : e = d * (w + 1)
  OBVIOUS
<1>3. PICK f \in Nat : f = b * (w + 1)
  OBVIOUS
<1>4. a * (w + 1) = f + (w + 1) + e
  BY <1>1, <1>2, <1>3
<1> QED
  BY <1>3, <1>4

LEMMA StepsLeftTypes ==
  ASSUME ReplyInv
  PROVE  Most \in Nat /\ PartsLeft \in Nat /\ OnTheWay \in Nat
<1>1. Most \in Nat
  BY DeviceRequestsAssumption, FS_CardinalityType DEF Most
<1>2. PartsLeft \in Nat
  <2>1. MaxFields \in Nat /\ MaxCases \in Nat
    BY DeviceRequestsAssumption
  <2>2. index \in 0 .. MaxFields + MaxCases /\ phase \in {"open", "execute", "close"}
    BY DEF ReplyInv, CommandInv
  <2>3. [open |-> 2, execute |-> 1, close |-> 0][phase] \in Nat
    BY <2>2
  <2>4. 2 * (MaxFields + MaxCases - index) + (IF command.parser = "FieldGeometry" THEN 0 ELSE 1) \in Nat
    BY <2>1, <2>2
  <2> QED
    BY <2>3, <2>4 DEF PartsLeft
<1>3. OnTheWay \in Nat
  <2>1. CASE downlink = <<>>
    BY <1>1, <2>1 DEF OnTheWay
  <2>2. CASE downlink # <<>>
    <3>1. PICK V : downlink \in Seq(V)
      BY <2>2 DEF ReplyInv, Quiet, Asked, Answered, InProgress
    <3> QED
      BY <1>1, <3>1 DEF OnTheWay
  <2> QED
    BY <2>1, <2>2
<1> QED
  BY <1>1, <1>2, <1>3

LEMMA StepsLeftTypesNext ==
  ReplyInv' => Most \in Nat /\ (PartsLeft \in Nat)' /\ (OnTheWay \in Nat)'
<1>1. ReplyInv => Most \in Nat /\ PartsLeft \in Nat /\ OnTheWay \in Nat
  BY StepsLeftTypes
<1>2. (ReplyInv => Most \in Nat /\ PartsLeft \in Nat /\ OnTheWay \in Nat)'
  BY <1>1, PTL
<1> QED
  BY <1>2 DEF Most

\* The bound is a natural number, so that it cannot decrease for ever.
THEOREM StepsLeftIsNatural == Spec => [](StepsLeft \in Nat)
<1>1. ReplyInv => StepsLeft \in Nat
  BY StepsLeftTypes, StepsLeftSplit
<1> QED
  BY <1>1, ReplyInvariant, PTL

\* A step after which fewer parts are left, whatever is on its way then.
LEMMA PartIsDone ==
  ASSUME ReplyInv, ReplyInv', PartsLeft' < PartsLeft, OnTheWay' <= Most
  PROVE  StepsLeft' < StepsLeft
<1>1. Most \in Nat /\ PartsLeft \in Nat /\ OnTheWay \in Nat
  BY StepsLeftTypes
<1>2. PartsLeft' \in Nat /\ OnTheWay' \in Nat
  BY StepsLeftTypesNext
<1>3. StepsLeft' = PartsLeft' * (Most + 1) + OnTheWay'
  BY DEF StepsLeft, PartsLeft, Most, OnTheWay
<1>4. PICK a, b, x, y, w :
        a = PartsLeft /\ b = PartsLeft' /\ x = OnTheWay /\ y = OnTheWay' /\ w = Most
  OBVIOUS
<1>5. /\ a \in Nat /\ b \in Nat /\ x \in Nat /\ y \in Nat /\ w \in Nat
      /\ b < a /\ y <= w
      /\ StepsLeft = a * (w + 1) + x /\ StepsLeft' = b * (w + 1) + y
  BY <1>1, <1>2, <1>3, <1>4, StepsLeftSplit
<1>6. b * (w + 1) + y < a * (w + 1) + x
  BY <1>5, FewerParts
<1> QED
  BY <1>5, <1>6

\* A step after which as many parts are left, but less is on its way.
LEMMA LessIsOnTheWay ==
  ASSUME ReplyInv, ReplyInv', PartsLeft' = PartsLeft, OnTheWay' < OnTheWay
  PROVE  StepsLeft' < StepsLeft
<1>1. Most \in Nat /\ PartsLeft \in Nat /\ OnTheWay \in Nat
  BY StepsLeftTypes
<1>2. OnTheWay' \in Nat
  BY StepsLeftTypesNext
<1>3. StepsLeft' = PartsLeft * (Most + 1) + OnTheWay'
  BY DEF StepsLeft, PartsLeft, Most, OnTheWay
<1>4. PICK p \in Nat, x \in Nat, y \in Nat :
        p = PartsLeft * (Most + 1) /\ x = OnTheWay /\ y = OnTheWay'
  BY <1>1, <1>2
<1>5. StepsLeft = p + x /\ StepsLeft' = p + y /\ y < x
  BY <1>3, <1>4, StepsLeftSplit
<1> QED
  BY <1>4, <1>5

LEMMA StepsLeftDecrease ==
  ASSUME ReplyInv, ReplyInv', [Next]_vars, pc = "receive", pc' = "receive", vars' # vars
  PROVE  StepsLeft' < StepsLeft
<1>1. Most \in Nat /\ PartsLeft \in Nat /\ OnTheWay \in Nat /\ MaxFields \in Nat /\ MaxCases \in Nat
  BY StepsLeftTypes, DeviceRequestsAssumption
<1>2. index \in 0 .. MaxFields + MaxCases
  BY DEF ReplyInv, CommandInv
<1>3. Cardinality(Cuts) \in Nat
  BY DeviceRequestsAssumption, FS_CardinalityType
<1>4. ASSUME UNCHANGED <<index, phase, command>> PROVE PartsLeft' = PartsLeft
  BY <1>4 DEF PartsLeft
<1>5. CASE SensorAnswers
  <2>1. OnTheWay = Most /\ uplink' = <<>>
    BY <1>5 DEF SensorAnswers, OnTheWay
  <2>2. OnTheWay' = Len(downlink') /\ Len(downlink') \in 1 .. Cardinality(Cuts) + 2
    BY <1>5, <2>1, AnswerStep DEF OnTheWay
  <2>3. OnTheWay' < OnTheWay
    BY <1>3, <2>1, <2>2 DEF Most
  <2> QED
    BY <1>4, <1>5, <2>3, LessIsOnTheWay DEF SensorAnswers, requestVars
<1>6. CASE SensorRefuses
  <2>1. OnTheWay = Most /\ uplink' = <<>>
    BY <1>6 DEF SensorRefuses, OnTheWay
  <2>2. OnTheWay' = 1
    BY <1>6, <2>1, RefusalStep DEF OnTheWay
  <2>3. OnTheWay' < OnTheWay
    BY <1>3, <2>1, <2>2 DEF Most
  <2> QED
    BY <1>4, <1>6, <2>3, LessIsOnTheWay DEF SensorRefuses
<1>7. CASE ReceiveSegment
  <2>1. /\ uplink = <<>> /\ uplink' = <<>>
        /\ Len(downlink') = Len(downlink) - 1 /\ Len(downlink) \in Nat
    BY <1>7, SegmentStep
  <2>2. OnTheWay' < OnTheWay
    BY <2>1 DEF OnTheWay
  <2> QED
    BY <1>4, <1>7, <2>2, LessIsOnTheWay DEF ReceiveSegment, requestVars
<1>8. CASE SessionIsCreated
  <2>1. phase = "open" /\ phase' = "execute" /\ UNCHANGED <<index, command>>
    BY <1>8 DEF SessionIsCreated, requestVars
  <2>2. PartsLeft' < PartsLeft
    BY <1>1, <1>2, <2>1 DEF PartsLeft
  <2>3. uplink' # <<>>
    BY <1>8, SendStep DEF SessionIsCreated, ReplyInv, CommandInv
  <2> QED
    BY <1>1, <2>2, <2>3, PartIsDone DEF OnTheWay, Most
<1>9. CASE CommandIsProcessed
  <2>1. phase = "execute" /\ phase' = "close" /\ UNCHANGED <<index, command>>
    BY <1>9 DEF CommandIsProcessed
  <2>2. PartsLeft' < PartsLeft
    BY <1>1, <1>2, <2>1 DEF PartsLeft
  <2>3. uplink' # <<>>
    BY <1>9, SendStep, ValidSessions DEF CommandIsProcessed
  <2> QED
    BY <1>1, <2>2, <2>3, PartIsDone DEF OnTheWay, Most
<1>10. CASE SessionIsClosed
  <2>1. Goes /\ uplink' # <<>> /\ phase = "close"
    BY <1>10, ClosedStep DEF SessionIsClosed
  <2>2. CASE /\ CreateAndExecute(FieldGeometryVariableCommand(index))
             /\ command.parser # "FieldGeometry"
             /\ index' = index
    <3>1. phase' = "open" /\ command'.parser = "FieldGeometry"
      BY <2>2 DEF CreateAndExecute, FieldGeometryVariableCommand, VariableCommand
    <3> QED
      BY <1>1, <1>2, <2>1, <2>2, <3>1, PartIsDone DEF PartsLeft, OnTheWay, Most
  <2>3. CASE /\ \E c : Valid(c) /\ CreateAndExecute(c) /\ c.parser # "FieldGeometry"
             /\ index' = index + 1
    <3>1. phase' = "open" /\ command'.parser # "FieldGeometry"
      BY <2>3 DEF CreateAndExecute
    <3> QED
      BY <1>1, <1>2, <2>1, <2>3, <3>1, PartIsDone DEF PartsLeft, OnTheWay, Most
  <2> QED
    BY <2>1, <2>2, <2>3 DEF Goes, Return
<1>11. CASE CommandRaises \/ BitChanges \/ Done \/ \E r \in Request : Call(r)
  BY <1>11 DEF CommandRaises, BitChanges, Done, Call
<1> QED
  BY <1>5, <1>6, <1>7, <1>8, <1>9, <1>10, <1>11 DEF Next

\* Every step of a request brings its end nearer, for any numbers of fields and
\* monitoring cases and any way to cut replies; that a request returns or raises
\* follows, as it does not get stuck.
THEOREM EveryRequestEndsAlways == Spec => EveryRequestEnds
<1>1. ReplyInv /\ ReplyInv' /\ [Next]_vars
        => [pc = "receive" /\ pc' = "receive" => StepsLeft' < StepsLeft]_vars
  BY StepsLeftDecrease
<1> QED
  BY <1>1, ReplyInvariant, PTL DEF Spec, EveryRequestEnds
=============================================================================
