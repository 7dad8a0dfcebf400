---------------------------- MODULE PayloadProofs ----------------------------
(***************************************************************************)
(* What Payloads.tla computes, for every chain.  First the lists of        *)
(* Lists.tla: the library states induction over the naturals for a         *)
(* predicate, which no prover here can put one in for; it also states that *)
(* < is well founded and that a well founded relation has minima in every  *)
(* set.  Induction over a set of naturals follows from that, and with it   *)
(* that a recursive function is what its definition says.                  *)
(*                                                                         *)
(* Then what each rewriting of a chain may say, which chains can be sent   *)
(* ("settled"), that the sanitizer settles every chain and leaves a        *)
(* settled one as it is, and what stays in its place: who speaks first,    *)
(* who speaks last, and the answer at the end.  Last, that what users say  *)
(* and the turns of a settled part at the start stay through each rewriting.*)
(***************************************************************************)
EXTENDS Payloads, SequenceTheorems, WellFoundedInduction, TLAPS

-----------------------------------------------------------------------------
(* Induction                                                               *)

\* The order of the naturals, as a relation.
Below == OpToRel(<, Nat)

\* What is less is below.
LEMMA BelowIsLess == \A m, n \in Nat : m < n => <<m, n>> \in Below
BY DEF Below, OpToRel

\* A set of naturals that is not empty has a smallest member.
LEMMA Smallest ==
    ASSUME NEW T \in SUBSET Nat, T # {}
    PROVE  \E n \in T : \A m \in T : n <= m
<1>1. IsWellFoundedOn(Below, Nat)
  BY NatLessThanWellFounded DEF Below
<1>2. PICK x \in T : \A y \in T : ~(<<y, x>> \in Below)
  BY <1>1, WFMin
<1>3. \A y \in T : ~(y < x)
  BY <1>2, BelowIsLess
<1> QED BY <1>3

\* Induction over an interval: a set that has 0 and, with each number of it that
\* is not the last, the next one, has all of it.
LEMMA SetInduction ==
    ASSUME NEW N \in Nat, NEW T,
           0 \in T, \A n \in 0..(N - 1) : n \in T => n + 1 \in T
    PROVE  0..N \subseteq T
<1> SUFFICES ASSUME (0..N) \ T # {} PROVE FALSE
  OBVIOUS
<1>1. PICK n \in (0..N) \ T : \A m \in (0..N) \ T : n <= m
  <2>1. (0..N) \ T \in SUBSET Nat
    OBVIOUS
  <2> QED BY <2>1, Smallest
<1>2. n # 0 /\ n - 1 \in T
  BY <1>1
<1> QED BY <1>1, <1>2

-----------------------------------------------------------------------------
(* Recursion                                                               *)

\* g starts with b and goes on with the step h[m] from m - 1 to m.
Defined(g, b, h, n) == g = [m \in 0..n |-> IF m = 0 THEN b ELSE h[m][g[m - 1]]]

\* There is a function that is defined so, and its values stay in A.
LEMMA Recursion ==
    ASSUME NEW A, NEW b \in A, NEW N \in Nat, NEW h \in [1..N -> [A -> A]]
    PROVE  \E g \in [0..N -> A] : Defined(g, b, h, N)
<1> DEFINE T == {n \in 0..N : \E g \in [0..n -> A] : Defined(g, b, h, n)}
<1>1. 0 \in T
  <2> DEFINE g == [m \in 0..0 |-> b]
  <2>1. g \in [0..0 -> A] /\ Defined(g, b, h, 0)
    BY DEF Defined
  <2> QED BY <2>1
<1>2. ASSUME NEW n \in 0..(N - 1), n \in T
      PROVE  n + 1 \in T
  <2>1. PICK f \in [0..n -> A] : Defined(f, b, h, n)
    BY <1>2
  <2>2. h[n + 1][f[n]] \in A
    <3>1. f[n] \in A /\ n + 1 \in 1..N
      BY <2>1
    <3> QED BY <3>1
  <2> DEFINE g == [m \in 0..(n + 1) |-> IF m = n + 1 THEN h[n + 1][f[n]] ELSE f[m]]
  <2>3. g \in [0..(n + 1) -> A]
    <3>1. ASSUME NEW m \in 0..(n + 1) PROVE g[m] \in A
      <4>1. CASE m = n + 1
        BY <2>2, <4>1
      <4>2. CASE m # n + 1
        BY <4>2, m \in 0..n
      <4> QED BY <4>1, <4>2
    <3> QED BY <3>1
  <2>4. ASSUME NEW m \in 0..(n + 1)
        PROVE  g[m] = IF m = 0 THEN b ELSE h[m][g[m - 1]]
    <3>1. CASE m = n + 1
      <4>1. m # 0 /\ m - 1 = n /\ n \in 0..(n + 1) /\ n # n + 1
        BY <3>1
      <4>2. g[n] = f[n] /\ g[m] = h[n + 1][f[n]]
        BY <3>1, <4>1
      <4> QED BY <3>1, <4>1, <4>2
    <3>2. CASE m # n + 1
      <4>1. m \in 0..n /\ (m # 0 => m - 1 \in 0..n /\ m - 1 # n + 1)
        BY <3>2
      <4>2. f[m] = IF m = 0 THEN b ELSE h[m][f[m - 1]]
        BY <2>1, <4>1 DEF Defined
      <4>3. g[m] = f[m] /\ (m # 0 => g[m - 1] = f[m - 1])
        BY <3>2, <4>1
      <4> QED BY <4>2, <4>3
    <3> QED BY <3>1, <3>2
  <2>5. Defined(g, b, h, n + 1)
    BY <2>3, <2>4 DEF Defined
  <2> HIDE DEF g
  <2>6. n + 1 \in 0..N
    OBVIOUS
  <2> QED BY <2>3, <2>5, <2>6
<1>3. 0..N \subseteq T
  BY <1>1, <1>2, SetInduction
<1> QED BY <1>3

-----------------------------------------------------------------------------
(* List comprehensions                                                     *)

\* The recursion of Only.
Taking(taken, s, I) ==
    taken = [n \in 0..Len(s) |->
               IF n = 0 THEN <<>>
               ELSE IF n \in I THEN Append(taken[n - 1], s[n]) ELSE taken[n - 1]]

\* The recursion of Only is well defined.
LEMMA OnlyUnfolds ==
    ASSUME NEW S, NEW s \in Seq(S), NEW I
    PROVE  \E taken \in [0..Len(s) -> Seq(S)] :
              Taking(taken, s, I) /\ Only(s, I) = taken[Len(s)]
<1> DEFINE N == Len(s)
           h == [n \in 1..N |-> [t \in Seq(S) |-> IF n \in I THEN Append(t, s[n]) ELSE t]]
           taken == CHOOSE t : Taking(t, s, I)
<1>1. N \in Nat /\ h \in [1..N -> [Seq(S) -> Seq(S)]] /\ <<>> \in Seq(S)
  <2>1. ASSUME NEW n \in 1..N, NEW t \in Seq(S)
        PROVE  (IF n \in I THEN Append(t, s[n]) ELSE t) \in Seq(S)
    <3>1. s[n] \in S
      OBVIOUS
    <3> QED BY <3>1
  <2> QED BY <2>1
<1>2. PICK g \in [0..N -> Seq(S)] : Defined(g, <<>>, h, N)
  <2> HIDE DEF N, h
  <2> QED BY <1>1, Recursion
<1>3. \A n \in 0..N : g[n] = IF n = 0 THEN <<>>
                             ELSE IF n \in I THEN Append(g[n - 1], s[n]) ELSE g[n - 1]
  <2>1. ASSUME NEW n \in 0..N, n # 0
        PROVE  g[n] = h[n][g[n - 1]]
    BY <1>2, <2>1 DEF Defined
  <2>2. \A n \in 0..N : n # 0 => n \in 1..N /\ g[n - 1] \in Seq(S)
    BY <1>1, <1>2
  <2>3. g[0] = <<>>
    BY <1>1, <1>2 DEF Defined
  <2> QED BY <2>1, <2>2, <2>3
<1>4. Taking(g, s, I)
  BY <1>2, <1>3 DEF Taking
<1>5. Taking(taken, s, I)
  BY <1>4
<1>6. Only(s, I) = taken[N]
  BY DEF Only, Taking
<1> HIDE DEF taken
<1>7. taken \in [0..N -> Seq(S)]
  <2> DEFINE T == {n \in 0..N : taken[n] \in Seq(S)}
  <2>1. 0 \in T
    BY <1>1, <1>5 DEF Taking
  <2>2. ASSUME NEW n \in 0..(N - 1), n \in T PROVE n + 1 \in T
    <3>1. n + 1 \in 0..N /\ n + 1 # 0 /\ (n + 1) - 1 = n /\ s[n + 1] \in S
      BY <1>1
    <3>2. taken[n + 1] = IF n + 1 \in I THEN Append(taken[n], s[n + 1]) ELSE taken[n]
      BY <1>5, <3>1 DEF Taking
    <3>3. taken[n] \in Seq(S)
      BY <2>2
    <3>4. taken[n + 1] \in Seq(S)
      BY <3>1, <3>2, <3>3, AppendProperties
    <3> QED BY <3>1, <3>4
  <2>3. 0..N \subseteq T
    <3> HIDE DEF T, N
    <3> QED BY <1>1, <2>1, <2>2, SetInduction
  <2> QED BY <1>5, <2>3 DEF Taking
<1> QED BY <1>5, <1>6, <1>7

\* o has the elements of s at the indices I and no other, in their order; at[k]
\* is the index where the element k of o was.
Picked(o, s, I, at) ==
    /\ at \in [1..Len(o) -> I]
    /\ \A k \in 1..Len(o) : o[k] = s[at[k]]
    /\ \A j, k \in 1..Len(o) : j < k => at[j] < at[k]
    /\ \A i \in I : \E k \in 1..Len(o) : at[k] = i

\* Only picks these elements.
LEMMA OnlyPicks ==
    ASSUME NEW S, NEW s \in Seq(S), NEW I \in SUBSET (1..Len(s))
    PROVE  Only(s, I) \in Seq(S) /\ \E at : Picked(Only(s, I), s, I, at)
<1> DEFINE N == Len(s)
<1>1. N \in Nat
  OBVIOUS
<1>2. PICK t \in [0..N -> Seq(S)] : Taking(t, s, I) /\ Only(s, I) = t[N]
  BY OnlyUnfolds
<1> DEFINE T == {n \in 0..N : \E at : Picked(t[n], s, I \cap (1..n), at)}
<1>3. 0 \in T
  <2>1. t[0] = <<>> /\ I \cap (1..0) = {}
    BY <1>1, <1>2 DEF Taking
  <2> DEFINE none == [k \in 1..0 |-> 0]
  <2>2. Picked(<<>>, s, {}, none)
    BY DEF Picked
  <2> QED BY <1>1, <2>1, <2>2
<1>4. ASSUME NEW n \in 0..(N - 1), n \in T PROVE n + 1 \in T
  <2>1. n + 1 \in 0..N /\ n + 1 # 0 /\ (n + 1) - 1 = n /\ s[n + 1] \in S /\ n \in 0..N
    BY <1>1
  <2>2. t[n] \in Seq(S) /\ t[n + 1] = IF n + 1 \in I THEN Append(t[n], s[n + 1]) ELSE t[n]
    BY <1>2, <2>1 DEF Taking
  <2>3. PICK at : Picked(t[n], s, I \cap (1..n), at)
    BY <1>4
  <2>4. CASE n + 1 \notin I
    <3>1. I \cap (1..(n + 1)) = I \cap (1..n) /\ t[n + 1] = t[n]
      BY <2>1, <2>2, <2>4
    <3> QED BY <2>1, <2>3, <3>1
  <2>5. CASE n + 1 \in I
    <3> DEFINE o  == t[n]
               J  == I \cap (1..n)
               K  == I \cap (1..(n + 1))
               on == Append(o, s[n + 1])
               m  == Len(o)
               an == [k \in 1..(m + 1) |-> IF k = m + 1 THEN n + 1 ELSE at[k]]
    <3>1. /\ t[n + 1] = on /\ o \in Seq(S) /\ on \in Seq(S) /\ m \in Nat
          /\ Len(on) = m + 1 /\ on[m + 1] = s[n + 1]
          /\ \A k \in 1..m : on[k] = o[k]
      BY <2>1, <2>2, <2>5, AppendProperties
    <3>2. K = J \cup {n + 1} /\ \A i \in J : i < n + 1
      BY <2>1, <2>5
    <3>3. /\ at \in [1..m -> J]
          /\ \A k \in 1..m : o[k] = s[at[k]]
          /\ \A j, k \in 1..m : j < k => at[j] < at[k]
          /\ \A i \in J : \E k \in 1..m : at[k] = i
      BY <2>3 DEF Picked
    <3> HIDE DEF o, J, K, on, m
    <3>4. \A k \in 1..m : k \in 1..(m + 1) /\ an[k] = at[k] /\ at[k] \in J
      BY <3>1, <3>3
    <3>5. m + 1 \in 1..(m + 1) /\ an[m + 1] = n + 1
      BY <3>1
    <3>6. \A k \in 1..(m + 1) : k = m + 1 \/ (k \in 1..m /\ k < m + 1)
      BY <3>1
    <3> HIDE DEF an
    <3>7. an \in [1..(m + 1) -> K]
      <4>1. \A k \in 1..(m + 1) : an[k] \in K
        BY <3>2, <3>4, <3>5, <3>6
      <4>2. an = [k \in 1..(m + 1) |-> an[k]]
        BY DEF an
      <4> QED BY <4>1, <4>2
    <3>8. \A k \in 1..(m + 1) : on[k] = s[an[k]]
      BY <3>1, <3>3, <3>4, <3>5, <3>6
    <3>9. ASSUME NEW j \in 1..(m + 1), NEW k \in 1..(m + 1), j < k
          PROVE  an[j] < an[k]
      <4>1. j \in 1..m
        BY <3>1, <3>9
      <4>2. CASE k \in 1..m
        BY <3>3, <3>4, <3>9, <4>1, <4>2
      <4>3. CASE k = m + 1
        BY <3>2, <3>4, <3>5, <4>1, <4>3
      <4> QED BY <3>6, <4>2, <4>3
    <3>10. \A i \in K : \E k \in 1..(m + 1) : an[k] = i
      BY <3>2, <3>3, <3>4, <3>5
    <3>11. Picked(on, s, K, an)
      BY <3>1, <3>7, <3>8, <3>9, <3>10 DEF Picked
    <3> QED BY <2>1, <3>1, <3>11 DEF K
  <2> QED BY <2>4, <2>5
<1>5. 0..N \subseteq T
  <2> HIDE DEF T, N
  <2> QED BY <1>1, <1>3, <1>4, SetInduction
<1>6. \E at : Picked(t[N], s, I \cap (1..N), at)
  BY <1>1, <1>5
<1>7. t[N] \in Seq(S)
  BY <1>1, <1>2
<1>8. I \cap (1..N) = I
  OBVIOUS
<1> QED BY <1>2, <1>6, <1>7, <1>8

\* The same of a list comprehension: where its elements come from, which of the
\* elements of s it has, and in which order.
LEMMA OnlyFacts ==
    ASSUME NEW S, NEW s \in Seq(S), NEW I \in SUBSET (1..Len(s))
    PROVE  /\ Only(s, I) \in Seq(S)
           /\ \A k \in 1..Len(Only(s, I)) : \E i \in I : Only(s, I)[k] = s[i]
           /\ \A i \in I : \E k \in 1..Len(Only(s, I)) : Only(s, I)[k] = s[i]
           /\ \A j, k \in 1..Len(Only(s, I)) : j < k =>
                 \E g, i \in I : g < i /\ Only(s, I)[j] = s[g] /\ Only(s, I)[k] = s[i]
           /\ \A g, i \in I : g < i =>
                 \E j, k \in 1..Len(Only(s, I)) :
                    j < k /\ Only(s, I)[j] = s[g] /\ Only(s, I)[k] = s[i]
<1> DEFINE o == Only(s, I)
<1>1. o \in Seq(S) /\ \E at : Picked(o, s, I, at)
  BY OnlyPicks
<1>2. PICK at : Picked(o, s, I, at)
  BY <1>1
<1>3. /\ Len(o) \in Nat
      /\ at \in [1..Len(o) -> I]
      /\ \A k \in 1..Len(o) : o[k] = s[at[k]]
      /\ \A j, k \in 1..Len(o) : j < k => at[j] < at[k]
      /\ \A i \in I : \E k \in 1..Len(o) : at[k] = i
  BY <1>1, <1>2 DEF Picked
<1> HIDE DEF o
<1>4. \A g, i \in I : g < i =>
        \E j, k \in 1..Len(o) : j < k /\ o[j] = s[g] /\ o[k] = s[i]
  <2> SUFFICES ASSUME NEW g \in I, NEW i \in I, g < i
               PROVE  \E j, k \in 1..Len(o) : j < k /\ o[j] = s[g] /\ o[k] = s[i]
    OBVIOUS
  <2>1. PICK j \in 1..Len(o) : at[j] = g
    BY <1>3
  <2>2. PICK k \in 1..Len(o) : at[k] = i
    BY <1>3
  <2>3. j < k
    <3>1. j # k /\ ~(k < j)
      BY <1>3, <2>1, <2>2
    <3> QED BY <1>3, <3>1
  <2> QED BY <1>3, <2>1, <2>2, <2>3
<1>5. \A j, k \in 1..Len(o) : j < k =>
         \E g, i \in I : g < i /\ o[j] = s[g] /\ o[k] = s[i]
  BY <1>3
<1>6. \A k \in 1..Len(o) : at[k] \in I
  BY <1>3
<1>7. \A k \in 1..Len(o) : \E i \in I : o[k] = s[i]
  BY <1>3, <1>6
<1>8. ASSUME NEW i \in I PROVE \E k \in 1..Len(o) : o[k] = s[i]
  <2>1. PICK k \in 1..Len(o) : at[k] = i
    BY <1>3
  <2> QED BY <1>3, <2>1
<1> QED BY <1>1, <1>4, <1>5, <1>7, <1>8 DEF o

\* Nothing is added by it.
LEMMA OnlyShorter ==
    ASSUME NEW S, NEW s \in Seq(S), NEW I
    PROVE  Len(Only(s, I)) <= Len(s)
<1> DEFINE N == Len(s)
<1>1. N \in Nat
  OBVIOUS
<1>2. PICK t \in [0..N -> Seq(S)] : Taking(t, s, I) /\ Only(s, I) = t[N]
  BY OnlyUnfolds
<1> DEFINE T == {n \in 0..N : Len(t[n]) <= n}
<1>3. 0 \in T
  BY <1>1, <1>2 DEF Taking
<1>4. ASSUME NEW n \in 0..(N - 1), n \in T PROVE n + 1 \in T
  <2>1. n + 1 \in 0..N /\ n + 1 # 0 /\ (n + 1) - 1 = n /\ s[n + 1] \in S /\ t[n] \in Seq(S)
    BY <1>1, <1>2
  <2>2. t[n + 1] = IF n + 1 \in I THEN Append(t[n], s[n + 1]) ELSE t[n]
    BY <1>2, <2>1 DEF Taking
  <2>3. Len(t[n + 1]) <= Len(t[n]) + 1
    BY <2>1, <2>2, AppendProperties
  <2>4. Len(t[n]) <= n /\ Len(t[n]) \in Nat /\ Len(t[n + 1]) \in Nat
    <3>1. t[n + 1] \in Seq(S)
      BY <1>2, <2>1
    <3> QED BY <1>4, <2>1, <3>1
  <2>5. Len(t[n + 1]) <= n + 1
    BY <2>3, <2>4
  <2> QED BY <2>1, <2>5
<1>5. 0..N \subseteq T
  <2> HIDE DEF T, N
  <2> QED BY <1>1, <1>3, <1>4, SetInduction
<1> QED BY <1>1, <1>2, <1>5

\* An element added to the second part is added to the whole.
LEMMA AppendToConcat ==
    ASSUME NEW S, NEW s \in Seq(S), NEW t \in Seq(S), NEW e \in S
    PROVE  s \o Append(t, e) = Append(s \o t, e)
<1> DEFINE u == <<e>>
<1>1. u \in Seq(S) /\ s \o t \in Seq(S)
  BY ConcatProperties
<1>2. Append(t, e) = t \o u /\ Append(s \o t, e) = (s \o t) \o u
  BY <1>1, AppendIsConcat
<1> HIDE DEF u
<1>3. (s \o t) \o u = s \o (t \o u)
  BY <1>1, ConcatAssociative
<1> QED BY <1>2, <1>3

-----------------------------------------------------------------------------
(* Indices and slices                                                      *)

\* A set of indices that is not empty has a largest member,
LEMMA Largest ==
    ASSUME NEW N \in Nat, NEW T \in SUBSET (1..N), T # {}
    PROVE  \E n \in T : \A m \in T : m <= n
<1> DEFINE U == {N - n : n \in T}
<1>1. U \in SUBSET Nat /\ U # {}
  <2>1. \A n \in T : N - n \in Nat
    OBVIOUS
  <2>2. PICK n \in T : TRUE
    OBVIOUS
  <2> QED BY <2>1, <2>2
<1>2. PICK u \in U : \A v \in U : u <= v
  BY <1>1, Smallest
<1>3. PICK n \in T : u = N - n
  OBVIOUS
<1>4. ASSUME NEW m \in T PROVE m <= n
  <2>1. N - n <= N - m
    BY <1>2, <1>3
  <2> QED BY <2>1
<1> QED BY <1>4

\* and a slice is of the same kind as the list.
LEMMA SliceFacts ==
    ASSUME NEW S, NEW s \in Seq(S), NEW m \in Nat \ {0}, NEW n \in 0..Len(s)
    PROVE  SubSeq(s, m, n) \in Seq(S)
<1>1. \A i \in m..n : s[i] \in S
  <2>1. \A i \in m..n : i \in 1..Len(s)
    OBVIOUS
  <2> QED BY <2>1, ElementOfSeq
<1> QED BY <1>1, SubSeqProperties

\* The values of a function that is defined by recursion, one after the other.
LEMMA RunsIn ==
    ASSUME NEW A, NEW N \in Nat, NEW f, f = [n \in 0..N |-> f[n]], f[0] \in A,
           \A n \in 0..(N - 1) : f[n] \in A => f[n + 1] \in A
    PROVE  f \in [0..N -> A]
<1> DEFINE T == {n \in 0..N : f[n] \in A}
<1>1. 0 \in T
  OBVIOUS
<1>2. \A n \in 0..(N - 1) : n \in T => n + 1 \in T
  OBVIOUS
<1>3. 0..N \subseteq T
  <2> HIDE DEF T
  <2> QED BY <1>1, <1>2, SetInduction
<1> QED BY <1>3

\* What is cut off.
LEMMA UptoFacts ==
    ASSUME NEW S, NEW s \in Seq(S), NEW n \in Nat
    PROVE  Upto(s, n) \in Seq(S)
<1>1. (IF n <= Len(s) THEN n ELSE Len(s)) \in 0..Len(s)
  OBVIOUS
<1> QED BY <1>1, SliceFacts DEF Upto

-----------------------------------------------------------------------------
(* Chains of a vocabulary                                                  *)

\* A smaller vocabulary is one of the greater.
LEMMA LinesGrow ==
    ASSUME NEW V, NEW W, V \subseteq W
    PROVE  Lines(V) \subseteq Lines(W) /\ Chains(V) \subseteq Chains(W)
<1>1. Lines(V) \subseteq Lines(W)
  BY DEF Lines
<1>2. ASSUME NEW c \in Chains(V) PROVE c \in Chains(W)
  BY <1>1 DEF Chains
<1> QED BY <1>1, <1>2

\* The payloads that are made.
LEMMA MadeFacts ==
    ASSUME NEW W
    PROVE  /\ System \in Lines(W) /\ Tools \in Lines(W)
           /\ \A text \in (SUBSET W) \ {{}} : User(text) \in Lines(W)
           /\ \A text \in SUBSET W, ids \in SUBSET CallIds :
                 text \subseteq Words => Assistant(text, ids) \in Lines(W)
           /\ \A ids \in SUBSET CallIds : Result(ids) \in Lines(W)
           /\ Words \subseteq W => Suspend \in Lines(W) /\ Bridge \in Lines(W)
<1>1. System \in Lines(W) /\ Tools \in Lines(W)
  BY DEF System, Tools, Payload, Lines, Roles
<1>2. \A text \in (SUBSET W) \ {{}} : User(text) \in Lines(W)
  BY DEF User, Payload, Lines, Roles
<1>3. \A text \in SUBSET W, ids \in SUBSET CallIds :
        text \subseteq Words => Assistant(text, ids) \in Lines(W)
  BY DEF Assistant, Payload, Lines, Roles
<1>4. \A ids \in SUBSET CallIds : Result(ids) \in Lines(W)
  BY DEF Result, Payload, Lines, Roles
<1>5. Words \subseteq W => Suspend \in Lines(W) /\ Bridge \in Lines(W)
  BY <1>2, <1>3 DEF Suspend, Bridge, Words
<1> QED BY <1>1, <1>2, <1>3, <1>4, <1>5

\* The payloads that are changed.
LEMMA ChangedFacts ==
    ASSUME NEW W, NEW p \in Lines(W)
    PROVE  /\ \A ids : [p EXCEPT !.calls = @ \ ids] \in Lines(W)
           /\ \A ids : [p EXCEPT !.results = @ \ ids] \in Lines(W)
           /\ \A ids \in SUBSET p.calls : [p EXCEPT !.calls = ids] \in Lines(W)
           /\ \A ids \in SUBSET p.results : [p EXCEPT !.results = ids] \in Lines(W)
           /\ \A text \in SUBSET W :
                 (p.role = "user" /\ text # {}) \/ (p.role = "assistant" /\ text \subseteq Words)
                    => [p EXCEPT !.text = text] \in Lines(W)
           /\ p.role = "assistant" => p.text \subseteq Words
           /\ p.text \in SUBSET W /\ p.calls \in SUBSET CallIds /\ p.results \in SUBSET CallIds
           /\ p.role \in Roles
<1>1. p.text \in SUBSET W /\ p.calls \in SUBSET CallIds /\ p.results \in SUBSET CallIds
      /\ p.role \in Roles /\ (p.role = "assistant" => p.text \subseteq Words)
  BY DEF Lines
<1>2. \A ids \in SUBSET p.calls : [p EXCEPT !.calls = ids] \in Lines(W)
  BY DEF Lines
<1>3. \A ids \in SUBSET p.results : [p EXCEPT !.results = ids] \in Lines(W)
  BY DEF Lines
<1>4. \A ids : [p EXCEPT !.calls = @ \ ids] \in Lines(W)
  BY <1>2
<1>5. \A ids : [p EXCEPT !.results = @ \ ids] \in Lines(W)
  BY <1>3
<1>6. \A text \in SUBSET W :
        (p.role = "user" /\ text # {}) \/ (p.role = "assistant" /\ text \subseteq Words)
           => [p EXCEPT !.text = text] \in Lines(W)
  BY DEF Lines
<1> QED BY <1>1, <1>2, <1>3, <1>4, <1>5, <1>6

\* A chain as a function, and what is taken out of one.
LEMMA ChainFacts ==
    ASSUME NEW W, NEW c \in Chains(W)
    PROVE  /\ c \in Seq(Lines(W)) /\ Len(c) \in Nat /\ DOMAIN c = 1..Len(c)
           /\ \A i \in 1..Len(c) : c[i] \in Lines(W)
           /\ \A I \in SUBSET (1..Len(c)) : Only(c, I) \in Chains(W)
           /\ \A i \in 1..Len(c), p \in Lines(W) : [c EXCEPT ![i] = p] \in Chains(W)
           /\ \A p \in Lines(W) : Append(c, p) \in Chains(W)
           /\ <<>> \in Chains(W)
<1>1. c \in Seq(Lines(W)) /\ <<>> \in Chains(W)
  BY DEF Chains
<1>2. Len(c) \in Nat /\ DOMAIN c = 1..Len(c) /\ \A i \in 1..Len(c) : c[i] \in Lines(W)
  BY <1>1, LenProperties, ElementOfSeq
<1>3. ASSUME NEW I \in SUBSET (1..Len(c)) PROVE Only(c, I) \in Chains(W)
  BY <1>1, OnlyFacts DEF Chains
<1>4. ASSUME NEW i \in 1..Len(c), NEW p \in Lines(W) PROVE [c EXCEPT ![i] = p] \in Chains(W)
  BY <1>1, ExceptSeq DEF Chains
<1>5. ASSUME NEW p \in Lines(W) PROVE Append(c, p) \in Chains(W)
  BY <1>1, AppendProperties DEF Chains
<1> QED BY <1>1, <1>2, <1>3, <1>4, <1>5

\* One chain after the other, parts of one, and one with a gap.
LEMMA PartFacts ==
    ASSUME NEW W, NEW c \in Chains(W)
    PROVE  /\ \A d \in Chains(W) : c \o d \in Chains(W)
           /\ \A m \in Nat \ {0}, n \in 0..Len(c) : SubSeq(c, m, n) \in Chains(W)
           /\ \A n \in Nat : Upto(c, n) \in Chains(W)
           /\ \A i \in 1..Len(c) : RemoveAt(c, i) \in Chains(W)
<1>1. ASSUME NEW d \in Chains(W) PROVE c \o d \in Chains(W)
  BY ConcatProperties DEF Chains
<1>2. ASSUME NEW m \in Nat \ {0}, NEW n \in 0..Len(c) PROVE SubSeq(c, m, n) \in Chains(W)
  BY SliceFacts DEF Chains
<1>3. ASSUME NEW n \in Nat PROVE Upto(c, n) \in Chains(W)
  BY UptoFacts DEF Chains
<1>4. ASSUME NEW i \in 1..Len(c) PROVE RemoveAt(c, i) \in Chains(W)
  <2>0. Len(c) \in Nat
    BY ChainFacts
  <2>1. i - 1 \in 0..Len(c) /\ i + 1 \in Nat \ {0} /\ Len(c) \in 0..Len(c) /\ 1 \in Nat \ {0}
    BY <2>0
  <2>2. SubSeq(c, 1, i - 1) \in Chains(W)
    BY <1>2, <2>1
  <2>3. SubSeq(c, i + 1, Len(c)) \in Chains(W)
    BY <1>2, <2>1
  <2> QED BY <2>2, <2>3, ConcatProperties DEF RemoveAt, Chains
<1> QED BY <1>1, <1>2, <1>3, <1>4

\* The index of the first of some payloads, and of the last.
LEMMA EndFacts ==
    ASSUME NEW n \in Nat, NEW I \in SUBSET (1..n), I # {}
    PROVE  /\ (CHOOSE i \in I : \A j \in I : i <= j) \in I
           /\ (CHOOSE i \in I : \A j \in I : j <= i) \in I
           /\ \A j \in I : (CHOOSE i \in I : \A k \in I : i <= k) <= j
           /\ \A j \in I : j <= (CHOOSE i \in I : \A k \in I : k <= i)
<1>1. \E i \in I : \A j \in I : i <= j
  <2>1. I \in SUBSET Nat
    OBVIOUS
  <2> QED BY <2>1, Smallest
<1>2. \E i \in I : \A j \in I : j <= i
  BY Largest
<1> QED BY <1>1, <1>2

\* One list after the other.
LEMMA FlattenFacts ==
    ASSUME NEW S, NEW q \in Seq(Seq(S))
    PROVE  FlattenSeq(q) \in Seq(S)
<1> DEFINE N == Len(q)
           h == [n \in 1..N |-> [t \in Seq(S) |-> t \o q[n]]]
           Flattening(f) == f = [n \in 1..N |-> IF n = 1 THEN q[n] ELSE f[n - 1] \o q[n]]
           flat == CHOOSE f : Flattening(f)
<1>1. N \in Nat /\ <<>> \in Seq(S) /\ \A n \in 1..N : q[n] \in Seq(S)
  BY LenProperties, ElementOfSeq, EmptySeq
<1>2. CASE N = 0
  <2>1. q = <<>>
    BY <1>2, EmptySeq
  <2> QED BY <1>2, <2>1, EmptySeq DEF FlattenSeq
<1>3. CASE N # 0
  <2>1. h \in [1..N -> [Seq(S) -> Seq(S)]]
    <3>1. ASSUME NEW n \in 1..N, NEW t \in Seq(S) PROVE t \o q[n] \in Seq(S)
      BY <1>1, ConcatProperties
    <3> QED BY <3>1
  <2>2. PICK g \in [0..N -> Seq(S)] : Defined(g, <<>>, h, N)
    <3> HIDE DEF N, h
    <3> QED BY <1>1, <2>1, Recursion
  <2> DEFINE f == [n \in 1..N |-> g[n]]
  <2>3. ASSUME NEW n \in 1..N PROVE f[n] = IF n = 1 THEN q[n] ELSE f[n - 1] \o q[n]
    <3>1. n \in 0..N /\ n # 0 /\ n - 1 \in 0..N /\ 0 \in 0..N
      BY <1>1
    <3>2. g[n] = h[n][g[n - 1]]
      BY <2>2, <3>1 DEF Defined
    <3>3. g[0] = <<>>
      BY <2>2, <3>1 DEF Defined
    <3>4. g[n - 1] \in Seq(S)
      BY <2>2, <3>1
    <3>5. g[n] = g[n - 1] \o q[n]
      BY <3>2, <3>4
    <3>6. CASE n = 1
      <4>0. n - 1 = 0
        BY <3>6
      <4>1. g[n] = <<>> \o q[n]
        BY <3>3, <3>5, <4>0
      <4>2. q[n] \in Seq(S)
        BY <1>1
      <4> QED BY <3>6, <4>1, <4>2, ConcatEmptySeq
    <3>7. CASE n # 1
      <4>1. n - 1 \in 1..N
        BY <3>7
      <4> QED BY <3>5, <3>7, <4>1
    <3> QED BY <3>6, <3>7
  <2>4. Flattening(f)
    BY <2>3
  <2> HIDE DEF f
  <2>5. Flattening(flat)
    BY <2>4
  <2>6. FlattenSeq(q) = flat[N]
    BY <1>3 DEF FlattenSeq
  <2> HIDE DEF flat
  <2> DEFINE T == {n \in 0..N : n # 0 => flat[n] \in Seq(S)}
  <2>7. 0 \in T
    BY <1>1
  <2>8. ASSUME NEW n \in 0..(N - 1), n \in T PROVE n + 1 \in T
    <3>1. n + 1 \in 1..N /\ (n + 1) - 1 = n
      BY <1>1
    <3>2. flat[n + 1] = IF n + 1 = 1 THEN q[n + 1] ELSE flat[n] \o q[n + 1]
      BY <2>5, <3>1
    <3>3. q[n + 1] \in Seq(S)
      BY <1>1, <3>1
    <3>4. CASE n = 0
      BY <3>1, <3>2, <3>3, <3>4
    <3>5. CASE n # 0
      <4>1. flat[n] \in Seq(S)
        BY <2>8, <3>5
      <4>2. flat[n] \o q[n + 1] \in Seq(S)
        BY <3>3, <4>1, ConcatProperties
      <4>3. n + 1 # 1
        BY <3>5
      <4>4. flat[n + 1] \in Seq(S)
        BY <3>2, <4>2, <4>3
      <4> QED BY <3>1, <4>4
    <3> QED BY <3>4, <3>5
  <2>9. 0..N \subseteq T
    <3> HIDE DEF N, T
    <3> QED BY <1>1, <2>7, <2>8, SetInduction
  <2> QED BY <1>1, <1>3, <2>6, <2>9
<1> QED BY <1>2, <1>3

-----------------------------------------------------------------------------
(* The sanitizers                                                          *)

\* What becomes of one payload when a chain is healed,
LEMMA HealedAtFacts ==
    ASSUME NEW W, NEW c \in Chains(W), NEW j \in 1..Len(c)
    PROVE  HealedAt(c, j) \in Chains(W)
<1> DEFINE p == c[j]
           i == Caller(c, j)
<1>1. p \in Lines(W)
  BY ChainFacts
<1>2. <<>> \in Chains(W) /\ \A x \in Lines(W) : <<x>> \in Chains(W)
  BY DEF Chains
<1>3. [p EXCEPT !.calls = Matched(c, j)] \in Lines(W)
  <2>1. Matched(c, j) \in SUBSET p.calls
    BY DEF Matched, Ids
  <2> HIDE DEF p
  <2> QED BY <1>1, <2>1, ChangedFacts
<1>4. [p EXCEPT !.results = FirstAnswers(c, i, j)] \in Lines(W)
  <2>1. FirstAnswers(c, i, j) \in SUBSET p.results
    BY DEF FirstAnswers
  <2> HIDE DEF p, i
  <2> QED BY <1>1, <2>1, ChangedFacts
<1> DEFINE calling == [p EXCEPT !.calls = Matched(c, j)]
           answering == [p EXCEPT !.results = FirstAnswers(c, i, j)]
<1>5. HealedAt(c, j) \in {<<>>, <<p>>, <<calling>>, <<answering>>}
  BY DEF HealedAt
<1> HIDE DEF p, calling, answering
<1> QED BY <1>1, <1>2, <1>3, <1>4, <1>5 DEF calling, answering

\* and of the chain.
LEMMA HealFacts ==
    ASSUME NEW W, NEW c \in Chains(W)
    PROVE  Heal(c) \in Chains(W)
<1> DEFINE q == [j \in DOMAIN c |-> HealedAt(c, j)]
<1>1. Len(c) \in Nat /\ DOMAIN c = 1..Len(c)
  BY ChainFacts
<1>2. \A j \in 1..Len(c) : HealedAt(c, j) \in Seq(Lines(W))
  BY HealedAtFacts DEF Chains
<1>3. q \in Seq(Seq(Lines(W)))
  BY <1>1, <1>2
<1> HIDE DEF q
<1>4. FlattenSeq(q) \in Seq(Lines(W))
  BY <1>3, FlattenFacts
<1> QED BY <1>4 DEF q, Heal, Chains

\* A payload of a chain,
LEMMA LineFacts ==
    ASSUME NEW W, NEW c \in Chains(W), NEW i \in 1..Len(c)
    PROVE  /\ c[i].role \in Roles
           /\ c[i].calls \in SUBSET CallIds /\ c[i].results \in SUBSET CallIds
           /\ c[i].calls # {} => c[i].role = "assistant"
           /\ c[i].results # {} => c[i].role = "result"
           /\ NoId \notin c[i].calls
<1>1. c[i] \in Lines(W)
  BY ChainFacts
<1> QED BY <1>1, PayloadsAssumption DEF Lines

\* Who speaks last.
LEMMA RoleFacts ==
    ASSUME NEW W, NEW c \in Chains(W)
    PROVE  /\ LastRole(c) = "none" => \A i \in 1..Len(c) : IsPinned(c[i])
           /\ LastRole(c) # "none" =>
                /\ LastIndex(c) \in 1..Len(c) /\ ~IsPinned(c[LastIndex(c)])
                /\ c[LastIndex(c)].role = LastRole(c)
                /\ \A j \in (LastIndex(c) + 1)..Len(c) : IsPinned(c[j])
<1> DEFINE I == {i \in DOMAIN c : ~IsPinned(c[i])}
           k == Only(c, I)
<1>1. Len(c) \in Nat /\ DOMAIN c = 1..Len(c) /\ c \in Seq(Lines(W))
  BY ChainFacts
<1>2. Conversation(c) = k
  BY DEF Conversation, Those
<1>3. I \in SUBSET (1..Len(c)) /\ \A i \in 1..Len(c) : i \in I <=> ~IsPinned(c[i])
  BY <1>1
<1> HIDE DEF I
<1>4. k \in Seq(Lines(W)) /\ \E at : Picked(k, c, I, at)
  BY <1>1, <1>3, OnlyPicks
<1>5. LastRole(c) = IF k = <<>> THEN "none" ELSE k[Len(k)].role
  BY <1>2 DEF LastRole, Last
<1> HIDE DEF k
<1>6. PICK at : Picked(k, c, I, at)
  BY <1>4
<1>7. Len(k) \in Nat /\ (k = <<>> => Len(k) = 0) /\ (k # <<>> => Len(k) \in 1..Len(k))
  BY <1>4, EmptySeq, LenProperties
<1>8. \A n \in 1..Len(k) : at[n] \in 1..Len(c) /\ ~IsPinned(c[at[n]]) /\ k[n] = c[at[n]]
  BY <1>3, <1>6 DEF Picked
<1>9. CASE k = <<>>
  <2>1. ASSUME NEW i \in 1..Len(c), ~IsPinned(c[i]) PROVE FALSE
    <3>1. PICK n \in 1..Len(k) : at[n] = i
      BY <1>3, <1>6, <2>1 DEF Picked
    <3> QED BY <1>7, <1>9, <3>1
  <2> QED BY <1>5, <1>9, <2>1
<1>10. CASE k # <<>>
  <2> DEFINE l == at[Len(k)]
  <2>1. l \in 1..Len(c) /\ ~IsPinned(c[l]) /\ c[l].role = LastRole(c)
    BY <1>5, <1>7, <1>8, <1>10
  <2>2. ASSUME NEW j \in (l + 1)..Len(c), ~IsPinned(c[j]) PROVE FALSE
    <3>1. j \in 1..Len(c)
      BY <1>1, <2>1
    <3>2. PICK n \in 1..Len(k) : at[n] = j
      BY <1>3, <1>6, <2>2, <3>1 DEF Picked
    <3>3. n < Len(k)
      BY <1>7, <1>10, <2>1, <3>2
    <3>4. at[n] < l
      BY <1>6, <1>7, <1>10, <3>3 DEF Picked
    <3> QED BY <2>1, <3>2, <3>4
  <2>3. LastRole(c) # "none"
    <3>1. c[l].role \in Roles
      BY <2>1, LineFacts
    <3> QED BY <2>1, <3>1 DEF Roles
  <2> HIDE DEF l
  <2> DEFINE Ends(i) == ~IsPinned(c[i]) /\ \A j \in (i + 1)..Len(c) : IsPinned(c[j])
  <2>4. \E i \in DOMAIN c : Ends(i)
    BY <1>1, <2>1, <2>2
  <2>5. LastIndex(c) \in DOMAIN c /\ Ends(LastIndex(c))
    BY <2>4 DEF LastIndex
  <2>6. LastIndex(c) = l
    <3>1. ~(LastIndex(c) < l)
      BY <1>1, <2>1, <2>5
    <3>2. ~(l < LastIndex(c))
      BY <1>1, <2>1, <2>2, <2>5
    <3> QED BY <1>1, <2>1, <2>5, <3>1, <3>2
  <2> QED BY <1>1, <2>1, <2>3, <2>5, <2>6
<1> QED BY <1>9, <1>10

\* What the pass over a chain carries: open calls have one that made them.
Passes(W) ==
    {a \in [out : Chains(W), pending : SUBSET CallIds, at : Nat] :
        a.pending # {} => a.at \in 1..Len(a.out)}

\* Dropping the open calls,
LEMMA DropFacts ==
    ASSUME NEW W, NEW a \in Passes(W)
    PROVE  DropPending(a) \in Passes(W) /\ DropPending(a).pending = {}
<1> DEFINE left == [a.out[a.at] EXCEPT !.calls = @ \ a.pending]
           kept == IF left.text = {} /\ left.calls = {}
                   THEN RemoveAt(a.out, a.at) ELSE ReplaceAt(a.out, a.at, left)
<1>1. a.out \in Chains(W)
  BY DEF Passes
<1>2. CASE a.pending = {}
  BY <1>2 DEF DropPending
<1>3. CASE a.pending # {}
  <2>1. a.at \in 1..Len(a.out)
    BY <1>3 DEF Passes
  <2>2. left \in Lines(W)
    <3>1. a.out[a.at] \in Lines(W)
      BY <1>1, <2>1, ChainFacts
    <3> QED BY <3>1, ChangedFacts
  <2> HIDE DEF left
  <2>3. RemoveAt(a.out, a.at) \in Chains(W)
    BY <1>1, <2>1, PartFacts
  <2>4. ReplaceAt(a.out, a.at, left) \in Chains(W)
    BY <1>1, <2>1, <2>2, ChainFacts DEF ReplaceAt
  <2>5. kept \in Chains(W)
    BY <2>3, <2>4
  <2>6. DropPending(a) = [out |-> kept, pending |-> {}, at |-> 0]
    BY <1>3 DEF DropPending, left
  <2> HIDE DEF kept
  <2> QED BY <2>5, <2>6 DEF Passes
<1> QED BY <1>2, <1>3

\* keeping a payload,
LEMMA KeepFacts ==
    ASSUME NEW W, NEW a \in Passes(W), NEW p \in Lines(W)
    PROVE  Keep(a, p) \in Passes(W)
<1> DEFINE out == Append(a.out, p)
<1>1. a \in [out : Chains(W), pending : SUBSET CallIds, at : Nat]
  BY DEF Passes
<1>2. out \in Chains(W) /\ Len(out) = Len(a.out) + 1 /\ Len(a.out) \in Nat
  BY <1>1, AppendProperties, LenProperties DEF Chains
<1>3. Keep(a, p) = [out |-> out, pending |-> a.pending, at |-> a.at]
  <2>1. Keep(a, p) = [a EXCEPT !.out = out]
    BY DEF Keep
  <2> HIDE DEF out
  <2> QED BY <1>1, <2>1
<1> HIDE DEF out
<1>4. a.pending # {} => a.at \in 1..Len(out)
  <2>1. a.pending # {} => a.at \in 1..Len(a.out)
    BY DEF Passes
  <2> QED BY <1>2, <2>1
<1> QED BY <1>1, <1>2, <1>3, <1>4 DEF Passes

\* and one whose calls are open,
LEMMA OpenFacts ==
    ASSUME NEW W, NEW a \in Passes(W), NEW p \in Lines(W)
    PROVE  Open(a, p) \in Passes(W)
<1> DEFINE out == Append(a.out, p)
<1>1. a.out \in Chains(W)
  BY DEF Passes
<1>2. out \in Chains(W) /\ Len(out) = Len(a.out) + 1 /\ Len(a.out) \in Nat
  BY <1>1, AppendProperties, LenProperties DEF Chains
<1>3. Open(a, p) = [out |-> out, pending |-> Ids(p), at |-> Len(a.out) + 1]
  BY DEF Open
<1> HIDE DEF out
<1>4. Ids(p) \in SUBSET CallIds
  <2>1. p.calls \in SUBSET CallIds
    BY ChangedFacts
  <2> QED BY <2>1 DEF Ids
<1>5. Len(a.out) + 1 \in 1..Len(out) /\ Len(a.out) + 1 \in Nat
  BY <1>2
<1> QED BY <1>2, <1>3, <1>4, <1>5 DEF Passes

\* merging one into the last,
LEMMA MergeFacts ==
    ASSUME NEW W, NEW c \in Chains(W), NEW i \in 1..Len(c), NEW p \in Lines(W),
           c[i].role = "assistant", p.role = "assistant"
    PROVE  MergeText(c, i, p) \in Chains(W)
<1>1. c[i] \in Lines(W) /\ DOMAIN c = 1..Len(c) /\ c \in Seq(Lines(W))
  BY ChainFacts
<1> DEFINE line == [c[i] EXCEPT !.text = @ \cup p.text]
<1>2. line \in Lines(W)
  <2>1. /\ c[i].text \in SUBSET W /\ p.text \in SUBSET W
        /\ c[i].text \subseteq Words /\ p.text \subseteq Words
    BY <1>1, ChangedFacts
  <2>2. c[i].text \cup p.text \in SUBSET W /\ c[i].text \cup p.text \subseteq Words
    BY <2>1
  <2>3. line = [c[i] EXCEPT !.text = c[i].text \cup p.text]
    OBVIOUS
  <2> HIDE DEF line
  <2> QED BY <1>1, <2>2, <2>3, ChangedFacts
<1>3. MergeText(c, i, p) = [c EXCEPT ![i] = line]
  BY <1>1 DEF MergeText
<1> HIDE DEF line
<1>4. [c EXCEPT ![i] = line] \in Chains(W)
  BY <1>2, ChainFacts
<1> QED BY <1>3, <1>4

\* adding an assistant
LEMMA AddAssistantFacts ==
    ASSUME NEW W, Words \subseteq W, NEW a \in Passes(W), a.pending = {},
           NEW p \in Lines(W), p.role = "assistant"
    PROVE  AddAssistant(a, p) \in Passes(W)
<1> DEFINE last == LastRole(a.out)
           i    == LastIndex(a.out)
<1>1. a.out \in Chains(W) /\ a \in [out : Chains(W), pending : SUBSET CallIds, at : Nat]
  BY DEF Passes
<1>2. Open(a, p) \in Passes(W)
  BY OpenFacts
<1>3. Open(Keep(a, Bridge), p) \in Passes(W)
  <2>1. Bridge \in Lines(W)
    BY MadeFacts
  <2> QED BY <2>1, KeepFacts, OpenFacts
<1>4. last = "assistant" => [a EXCEPT !.out = MergeText(@, i, p)] \in Passes(W)
  <2> SUFFICES ASSUME last = "assistant" PROVE [a EXCEPT !.out = MergeText(@, i, p)] \in Passes(W)
    OBVIOUS
  <2>1. i \in 1..Len(a.out) /\ a.out[i].role = "assistant"
    BY <1>1, RoleFacts
  <2>2. MergeText(a.out, i, p) \in Chains(W)
    BY <1>1, <2>1, MergeFacts
  <2> QED BY <1>1, <2>2 DEF Passes
<1>5. \/ AddAssistant(a, p) \in {a, Open(a, p), Open(Keep(a, Bridge), p)}
      \/ /\ last = "assistant"
         /\ AddAssistant(a, p) = [a EXCEPT !.out = MergeText(@, i, p)]
  BY DEF AddAssistant
<1> QED BY <1>2, <1>3, <1>4, <1>5

\* or a result.
LEMMA AddResultFacts ==
    ASSUME NEW W, NEW a \in Passes(W), NEW p \in Lines(W)
    PROVE  AddResult(a, p) \in Passes(W)
<1> DEFINE hit == p.results \cap a.pending
           kept == Keep(a, Result(hit))
<1>1. hit \in SUBSET CallIds /\ a \in [out : Chains(W), pending : SUBSET CallIds, at : Nat]
  BY DEF Passes
<1>2. kept \in Passes(W)
  <2>1. Result(hit) \in Lines(W)
    BY <1>1, MadeFacts
  <2> HIDE DEF hit
  <2> QED BY <2>1, KeepFacts
<1>3. AddResult(a, p) \in {a, [kept EXCEPT !.pending = a.pending \ hit]}
  BY <1>1 DEF AddResult, Keep
<1>4. kept.pending = a.pending /\ kept \in [out : Chains(W), pending : SUBSET CallIds, at : Nat]
  BY <1>1, <1>2 DEF Keep, Passes
<1> HIDE DEF kept, hit
<1>5. [kept EXCEPT !.pending = a.pending \ hit] \in Passes(W)
  BY <1>2, <1>4 DEF Passes
<1> QED BY <1>3, <1>5

\* So each step of the pass.
LEMMA SanitizeStepFacts ==
    ASSUME NEW W, Words \subseteq W, NEW a \in Passes(W), NEW p \in Lines(W)
    PROVE  SanitizeStep(a, p) \in Passes(W)
<1>1. Keep(a, p) \in Passes(W) /\ AddResult(a, p) \in Passes(W)
  BY KeepFacts, AddResultFacts
<1>2. DropPending(a) \in Passes(W) /\ DropPending(a).pending = {}
  BY DropFacts
<1>3. Keep(DropPending(a), p) \in Passes(W)
  BY <1>2, KeepFacts
<1>4. p.role = "assistant" => AddAssistant(DropPending(a), p) \in Passes(W)
  BY <1>2, AddAssistantFacts
<1>5. p.role \in Roles
  BY ChangedFacts
<1>6. \/ SanitizeStep(a, p) \in {Keep(a, p), AddResult(a, p), Keep(DropPending(a), p)}
      \/ p.role = "assistant" /\ SanitizeStep(a, p) = AddAssistant(DropPending(a), p)
  BY <1>5 DEF SanitizeStep, IsPinned, Roles
<1> QED BY <1>1, <1>3, <1>4, <1>6

\* The pass is what its definition says.
Sanitizing(f, b, c) ==
    f = [n \in 0..Len(c) |-> IF n = 0 THEN b ELSE SanitizeStep(f[n - 1], c[n])]

\* Every payload of a chain is taken once, in order, and each pass is well formed.
LEMMA SanitizeRuns ==
    ASSUME NEW W, Words \subseteq W, NEW c \in Chains(W), NEW b \in Passes(W)
    PROVE  \E f \in [0..Len(c) -> Passes(W)] :
              Sanitizing(f, b, c) /\ Folded(SanitizeStep, b, c) = f[Len(c)]
<1> DEFINE N == Len(c)
           A == Passes(W)
           h == [n \in 1..N |-> [a \in A |-> SanitizeStep(a, c[n])]]
           f == CHOOSE g : Sanitizing(g, b, c)
<1>1. N \in Nat /\ \A n \in 1..N : c[n] \in Lines(W)
  BY ChainFacts
<1>2. h \in [1..N -> [A -> A]]
  <2>1. \A n \in 1..N, a \in A : SanitizeStep(a, c[n]) \in A
    BY <1>1, SanitizeStepFacts
  <2> HIDE DEF A, N
  <2> QED BY <2>1
<1>3. PICK g \in [0..N -> A] : Defined(g, b, h, N)
  <2> HIDE DEF N, A, h
  <2>1. b \in A
    BY DEF A
  <2> QED BY <1>1, <1>2, <2>1, Recursion
<1>4. Sanitizing(g, b, c)
  <2>1. ASSUME NEW n \in 0..N
        PROVE  g[n] = IF n = 0 THEN b ELSE SanitizeStep(g[n - 1], c[n])
    <3>1. n # 0 => n \in 1..N /\ n - 1 \in 0..N
      BY <1>1
    <3>2. n # 0 => g[n - 1] \in A
      BY <1>3, <3>1
    <3>3. g[n] = IF n = 0 THEN b ELSE h[n][g[n - 1]]
      BY <1>3 DEF Defined
    <3> HIDE DEF A, N
    <3> QED BY <3>1, <3>2, <3>3
  <2> QED BY <1>3, <2>1 DEF Sanitizing
<1>5. Sanitizing(f, b, c)
  BY <1>4
<1>6. Folded(SanitizeStep, b, c) = f[N]
  BY DEF Folded, Sanitizing
<1> HIDE DEF f
<1>7. f \in [0..N -> A]
  <2>1. f = [n \in 0..N |-> f[n]] /\ f[0] \in A
    BY <1>1, <1>5 DEF Sanitizing
  <2>2. ASSUME NEW n \in 0..(N - 1), f[n] \in A PROVE f[n + 1] \in A
    <3>1. n + 1 \in 0..N /\ n + 1 # 0 /\ (n + 1) - 1 = n /\ n + 1 \in 1..N
      BY <1>1
    <3>2. f[n + 1] = SanitizeStep(f[n], c[n + 1])
      BY <1>5, <3>1 DEF Sanitizing
    <3> QED BY <1>1, <2>2, <3>1, <3>2, SanitizeStepFacts
  <2> HIDE DEF N, A
  <2> QED BY <1>1, <2>1, <2>2, RunsIn
<1> QED BY <1>5, <1>6, <1>7

\* A sanitized chain says what the chain says, but for the bridges.
LEMMA SanitizeFacts ==
    ASSUME NEW W, Words \subseteq W, NEW c \in Chains(W)
    PROVE  Sanitize(c) \in Chains(W)
<1> DEFINE b == [out |-> <<>>, pending |-> {}, at |-> 0]
<1>1. b \in Passes(W) /\ Len(c) \in Nat
  BY ChainFacts DEF Passes
<1>2. Folded(SanitizeStep, b, c) \in Passes(W)
  <2> HIDE DEF b
  <2>1. PICK f \in [0..Len(c) -> Passes(W)] : Folded(SanitizeStep, b, c) = f[Len(c)]
    BY <1>1, SanitizeRuns
  <2> QED BY <1>1, <2>1
<1> DEFINE done == DropPending(Folded(SanitizeStep, b, c))
<1>3. Sanitize(c) = done.out
  BY DEF Sanitize
<1>4. done \in Passes(W)
  <2> HIDE DEF b
  <2> QED BY <1>2, DropFacts
<1> HIDE DEF done
<1> QED BY <1>3, <1>4 DEF Passes

\* Healing and sanitizing, one after the other, say nothing new.
LEMMA PrepareFacts ==
    ASSUME NEW W, Words \subseteq W, NEW c \in Chains(W)
    PROVE  Prepare(c) \in Chains(W)
BY HealFacts, SanitizeFacts DEF Prepare
-----------------------------------------------------------------------------
(* The repair and the view of a request                                    *)

\* Some payloads of a chain, and those that say nothing of one vocabulary.
LEMMA ThoseFacts ==
    ASSUME NEW W, NEW c \in Chains(W)
    PROVE  /\ \A I \in SUBSET (DOMAIN c) : Only(c, I) \in Chains(W)
           /\ Those(c, LAMBDA p : ~IsSuspend(p)) \in Chains(W)
<1>1. DOMAIN c = 1..Len(c) /\ \A I \in SUBSET (1..Len(c)) : Only(c, I) \in Chains(W)
  BY ChainFacts
<1>2. {i \in DOMAIN c : ~IsSuspend(c[i])} \in SUBSET (DOMAIN c)
  OBVIOUS
<1> QED BY <1>1, <1>2 DEF Those

\* Putting a payload after the last one,
LEMMA RejoinFacts ==
    ASSUME NEW W, Words \subseteq W, NEW c \in Chains(W), NEW p \in Lines(W)
    PROVE  Rejoin(c, p) \in Chains(W)
<1> DEFINE i == LastIndex(c)
<1>1. Append(c, p) \in Chains(W)
  BY ChainFacts
<1>2. c \o <<Bridge, p>> \in Chains(W)
  <2>1. Bridge \in Lines(W)
    BY MadeFacts
  <2>2. <<Bridge, p>> \in Chains(W)
    BY <2>1 DEF Chains
  <2> QED BY <2>2, PartFacts
<1>3. LastRole(c) = "assistant" /\ p.role = "assistant" => MergeText(c, i, p) \in Chains(W)
  <2> SUFFICES ASSUME LastRole(c) = "assistant", p.role = "assistant"
               PROVE  MergeText(c, i, p) \in Chains(W)
    OBVIOUS
  <2>1. i \in 1..Len(c) /\ c[i].role = "assistant"
    BY RoleFacts
  <2> HIDE DEF i
  <2> QED BY <2>1, MergeFacts
<1>4. \/ Rejoin(c, p) \in {Append(c, p), c \o <<Bridge, p>>}
      \/ /\ LastRole(c) = "assistant" /\ p.role = "assistant"
         /\ Rejoin(c, p) = MergeText(c, i, p)
  BY DEF Rejoin
<1> QED BY <1>1, <1>2, <1>3, <1>4

\* one after the other,
Rejoining(f, b, c) ==
    f = [n \in 0..Len(c) |-> IF n = 0 THEN b ELSE Rejoin(f[n - 1], c[n])]

\* Every payload of a chain is rejoined once, in order, and nothing new is said.
LEMMA RejoinRuns ==
    ASSUME NEW W, Words \subseteq W, NEW c \in Chains(W), NEW b \in Chains(W)
    PROVE  \E f \in [0..Len(c) -> Chains(W)] :
              Rejoining(f, b, c) /\ Folded(Rejoin, b, c) = f[Len(c)]
<1> DEFINE N == Len(c)
           A == Chains(W)
           h == [n \in 1..N |-> [a \in A |-> Rejoin(a, c[n])]]
           f == CHOOSE g : Rejoining(g, b, c)
<1>1. N \in Nat /\ \A n \in 1..N : c[n] \in Lines(W)
  BY ChainFacts
<1>2. h \in [1..N -> [A -> A]]
  <2>1. \A n \in 1..N, a \in A : Rejoin(a, c[n]) \in A
    BY <1>1, RejoinFacts
  <2> HIDE DEF A, N
  <2> QED BY <2>1
<1>3. PICK g \in [0..N -> A] : Defined(g, b, h, N)
  <2> HIDE DEF N, A, h
  <2>1. b \in A
    BY DEF A
  <2> QED BY <1>1, <1>2, <2>1, Recursion
<1>4. Rejoining(g, b, c)
  <2>1. ASSUME NEW n \in 0..N
        PROVE  g[n] = IF n = 0 THEN b ELSE Rejoin(g[n - 1], c[n])
    <3>1. n # 0 => n \in 1..N /\ n - 1 \in 0..N
      BY <1>1
    <3>2. n # 0 => g[n - 1] \in A
      BY <1>3, <3>1
    <3>3. g[n] = IF n = 0 THEN b ELSE h[n][g[n - 1]]
      BY <1>3 DEF Defined
    <3> HIDE DEF A, N
    <3> QED BY <3>1, <3>2, <3>3
  <2> QED BY <1>3, <2>1 DEF Rejoining
<1>5. Rejoining(f, b, c)
  BY <1>4
<1>6. Folded(Rejoin, b, c) = f[N]
  BY DEF Folded, Rejoining
<1> HIDE DEF f
<1>7. f \in [0..N -> A]
  <2>1. f = [n \in 0..N |-> f[n]] /\ f[0] \in A
    BY <1>1, <1>5 DEF Rejoining
  <2>2. ASSUME NEW n \in 0..(N - 1), f[n] \in A PROVE f[n + 1] \in A
    <3>1. n + 1 \in 0..N /\ n + 1 # 0 /\ (n + 1) - 1 = n /\ n + 1 \in 1..N
      BY <1>1
    <3>2. f[n + 1] = Rejoin(f[n], c[n + 1])
      BY <1>5, <3>1 DEF Rejoining
    <3> QED BY <1>1, <2>2, <3>1, <3>2, RejoinFacts
  <2> HIDE DEF N, A
  <2> QED BY <1>1, <2>1, <2>2, RunsIn
<1> QED BY <1>5, <1>6, <1>7

\* so a repaired chain says what the chain says, but for the bridges.
LEMMA RepairFacts ==
    ASSUME NEW W, Words \subseteq W, NEW c \in Chains(W)
    PROVE  Repair(c) \in Chains(W)
<1> DEFINE d == Those(c, LAMBDA p : ~IsSuspend(p))
<1>1. d \in Chains(W)
  BY ThoseFacts
<1>2. Repair(c) = Folded(Rejoin, <<>>, Heal(d))
  BY DEF Repair
<1> HIDE DEF d
<1> DEFINE h == Heal(d)
<1>3. h \in Chains(W) /\ <<>> \in Chains(W) /\ Len(h) \in Nat
  BY <1>1, HealFacts, ChainFacts
<1> HIDE DEF h
<1>4. PICK f \in [0..Len(h) -> Chains(W)] : Folded(Rejoin, <<>>, h) = f[Len(h)]
  BY <1>3, RejoinRuns
<1> QED BY <1>2, <1>3, <1>4 DEF h

\* A chain without the payloads of a note says nothing of the note.
LEMMA StripFacts ==
    ASSUME NEW W, NEW text, Words \subseteq W \ text, NEW c \in Chains(W)
    PROVE  Strip(c, text) \in Chains(W \ text)
<1> DEFINE I == {i \in DOMAIN c : c[i].text \cap text = {}}
           V == W \ text
           d == Only(c, I)
<1>1. c \in Seq(Lines(W)) /\ I \in SUBSET (1..Len(c)) /\ \A i \in 1..Len(c) : c[i] \in Lines(W)
  BY ChainFacts
<1>2. \A i \in I : c[i] \in Lines(V)
  BY <1>1 DEF Lines
<1>3. /\ d \in Seq(Lines(W))
      /\ \A k \in 1..Len(d) : \E i \in I : d[k] = c[i]
  <2> HIDE DEF I
  <2> QED BY <1>1, OnlyFacts
<1>4. Strip(c, text) = Repair(d)
  BY DEF Strip, Those
<1> HIDE DEF d, I
<1> HIDE DEF V
<1>5. d \in Chains(V)
  <2>1. \A k \in 1..Len(d) : d[k] \in Lines(V)
    BY <1>2, <1>3
  <2>2. Len(d) \in Nat /\ d = [k \in 1..Len(d) |-> d[k]]
    BY <1>3
  <2>3. d \in [1..Len(d) -> Lines(V)]
    BY <2>1, <2>2
  <2> QED BY <2>2, <2>3 DEF Chains
<1>6. Words \subseteq V
  BY DEF V
<1>7. Repair(d) \in Chains(V)
  BY <1>5, <1>6, RepairFacts
<1> QED BY <1>4, <1>7 DEF V

\* The draft of a text answer.
LEMMA DraftFacts ==
    ASSUME NEW W, Words \subseteq W, NEW c \in Chains(W), c # <<>>, c[Len(c)].role = "assistant"
    PROVE  WithDraft(c) \in Chains(W)
<1> DEFINE n == Len(c)
           line == [c[n] EXCEPT !.text = {"draft"}]
           d == [c EXCEPT ![n] = line]
           u == <<User({"followup"})>>
<1>1. Len(c) \in Nat \ {0} /\ c \in Seq(Lines(W)) /\ DOMAIN c = 1..Len(c)
  <2>1. Len(c) \in Nat /\ c \in Seq(Lines(W)) /\ DOMAIN c = 1..Len(c)
    BY ChainFacts
  <2>2. Len(c) # 0
    BY <2>1, EmptySeq
  <2> QED BY <2>1, <2>2
<1>2. n \in 1..Len(c) /\ c[n] \in Lines(W)
  <2>1. n \in 1..Len(c)
    BY <1>1
  <2> QED BY <2>1, ChainFacts
<1>3. {"draft"} \in SUBSET W /\ {"followup"} \in SUBSET W /\ {"draft"} \subseteq Words
  BY DEF Words
<1>4. line \in Lines(W)
  BY <1>2, <1>3, ChangedFacts
<1>5. u \in Chains(W)
  <2>1. User({"followup"}) \in Lines(W)
    BY <1>3, MadeFacts
  <2> QED BY <2>1 DEF Chains
<1>6. WithDraft(c) = d \o u
  BY <1>1, <1>2 DEF WithDraft
<1> HIDE DEF line, u
<1>7. d \in Chains(W)
  <2> HIDE DEF n
  <2> QED BY <1>2, <1>4, ChainFacts
<1> HIDE DEF d
<1> QED BY <1>5, <1>6, <1>7, PartFacts

\* The marker after a result.
LEMMA SuspendFacts ==
    ASSUME NEW W, Words \subseteq W, NEW c \in Chains(W)
    PROVE  WithSuspend(c) \in Chains(W)
<1>1. Suspend \in Lines(W)
  BY MadeFacts
<1>2. Append(c, Suspend) \in Chains(W)
  BY <1>1, ChainFacts
<1> QED BY <1>2 DEF WithSuspend

\* Calls that failed.
LEMMA RemoveFacts ==
    ASSUME NEW W, NEW c \in Chains(W), NEW ids
    PROVE  RemoveCalls(c, ids) \in Chains(W)
<1> DEFINE makers == {i \in DOMAIN c : c[i].role = "assistant" /\ c[i].calls \cap ids # {}}
           i      == CHOOSE i \in makers : \A j \in makers : j <= i
           left   == [c[i] EXCEPT !.calls = @ \ ids]
<1>1. Len(c) \in Nat /\ makers \in SUBSET (1..Len(c))
  BY ChainFacts
<1>2. makers # {} => i \in 1..Len(c)
  <2> HIDE DEF makers
  <2>1. makers # {} => i \in makers
    BY <1>1, EndFacts
  <2> QED BY <1>1, <2>1
<1>3. RemoveCalls(c, ids) = IF makers = {} THEN c
                            ELSE IF left.text = {} /\ left.calls = {} THEN RemoveAt(c, i)
                            ELSE ReplaceAt(c, i, left)
  BY DEF RemoveCalls
<1> HIDE DEF makers, i
<1>4. CASE makers = {}
  BY <1>3, <1>4
<1>5. CASE makers # {}
  <2>1. c[i] \in Lines(W)
    BY <1>2, <1>5, ChainFacts
  <2>2. left \in Lines(W)
    BY <2>1, ChangedFacts
  <2> HIDE DEF left
  <2>3. RemoveAt(c, i) \in Chains(W)
    BY <1>2, <1>5, PartFacts
  <2>4. [c EXCEPT ![i] = left] \in Chains(W)
    BY <1>2, <1>5, <2>2, ChainFacts
  <2> QED BY <1>3, <1>5, <2>3, <2>4 DEF ReplaceAt
<1> QED BY <1>4, <1>5

\* An empty reply.
LEMMA PurgeFacts ==
    ASSUME NEW W, NEW c \in Chains(W), NEW ids
    PROVE  PurgeReply(c, ids) \in Chains(W)
<1> DEFINE makers == {i \in DOMAIN c : c[i].role = "assistant" /\ c[i].calls \cap ids # {}}
           i      == CHOOSE i \in makers : \A j \in makers : j <= i
           purged == [j \in DOMAIN c |-> IF j \in GroupOf(c, i)
                                         THEN [c[j] EXCEPT !.results = @ \ ids] ELSE c[j]]
           e      == RemoveCalls(purged, ids)
           I      == {k \in DOMAIN e : e[k].role = "result" => e[k].results # {}}
<1>1. Len(c) \in Nat /\ DOMAIN c = 1..Len(c) /\ \A j \in 1..Len(c) : c[j] \in Lines(W)
  BY ChainFacts
<1>2. PurgeReply(c, ids) = IF makers = {} THEN c ELSE Only(e, I)
  BY DEF PurgeReply, Those
<1> HIDE DEF makers, i
<1>3. purged \in Chains(W)
  <2>1. \A j \in 1..Len(c) : [c[j] EXCEPT !.results = @ \ ids] \in Lines(W)
    BY <1>1, ChangedFacts
  <2>2. purged \in [1..Len(c) -> Lines(W)]
    BY <1>1, <2>1
  <2> HIDE DEF purged
  <2> QED BY <1>1, <2>2 DEF Chains
<1> HIDE DEF purged
<1>4. e \in Chains(W)
  BY <1>3, RemoveFacts
<1> HIDE DEF e
<1>5. I \in SUBSET (DOMAIN e)
  OBVIOUS
<1> HIDE DEF I
<1>6. Only(e, I) \in Chains(W)
  BY <1>4, <1>5, ThoseFacts
<1> QED BY <1>2, <1>6
-----------------------------------------------------------------------------
(* The snapshot                                                            *)

\* What is captured of a chain,
LEMMA CaptureFacts ==
    ASSUME NEW W, NEW c \in Chains(W)
    PROVE  Capture(c) \in Chains(W)
<1> DEFINE I == {i \in DOMAIN c :
                    /\ c[i].role # "tool" /\ ~IsSuspend(c[i])
                    /\ c[i].role \in {"user", "assistant"} => c[i].text # {} \/ HasCalls(c[i])}
<1>1. Capture(c) = Only(c, I)
  BY DEF Capture, Those
<1>2. I \in SUBSET (DOMAIN c)
  OBVIOUS
<1> HIDE DEF I
<1> QED BY <1>1, <1>2, ThoseFacts

\* and what is carried while it is restored.
Restores(W) ==
    [out : Chains(W), pending : SUBSET CallIds, safe : Nat, start : Nat, rollback : Nat]

\* A payload that is restored, dropped or rolled back keeps what is carried well formed.
LEMMA RestoreStepFacts ==
    ASSUME NEW W, NEW a \in Restores(W), NEW p \in Lines(W)
    PROVE  RestoreStep(a, p) \in Restores(W)
<1> DEFINE back == IF a.pending = {} THEN a
                   ELSE [a EXCEPT !.out = Upto(@, a.rollback), !.pending = {}]
           hit  == p.results \cap a.pending
           done == Append(a.out, Result(hit))
           out  == Append(back.out, p)
           asked == [back EXCEPT !.out = Append(@, p), !.start = back.safe]
           said  == [back EXCEPT !.out = out, !.pending = Ids(p),
                                 !.safe = IF Ids(p) = {} THEN Len(out) ELSE @,
                                 !.rollback = IF Ids(p) = {} THEN @ ELSE back.start]
           got   == [a EXCEPT !.out = done, !.pending = @ \ hit,
                              !.safe = IF a.pending \ hit = {} THEN Len(done) ELSE @]
<1>1. a.out \in Chains(W) /\ a.rollback \in Nat /\ a.pending \in SUBSET CallIds
  BY DEF Restores
<1>2. back \in Restores(W)
  <2>1. Upto(a.out, a.rollback) \in Chains(W)
    BY <1>1, PartFacts
  <2>2. [a EXCEPT !.out = Upto(@, a.rollback), !.pending = {}] \in Restores(W)
    BY <2>1 DEF Restores
  <2> QED BY <2>2
<1>3. p.calls \in SUBSET CallIds /\ p.results \in SUBSET CallIds
  BY ChangedFacts
<1>4. RestoreStep(a, p) \in {a, asked, said, got}
  BY DEF RestoreStep
<1>5. Ids(p) \in SUBSET CallIds
  BY <1>3 DEF Ids
<1> HIDE DEF back
<1>6. out \in Chains(W) /\ Len(out) \in Nat
  <2>1. back.out \in Chains(W)
    BY <1>2 DEF Restores
  <2>2. out \in Chains(W)
    BY <2>1, ChainFacts
  <2> HIDE DEF out
  <2> QED BY <2>2, ChainFacts
<1>7. asked \in Restores(W)
  BY <1>2, <1>6 DEF Restores
<1>8. said \in Restores(W)
  <2> HIDE DEF out
  <2> QED BY <1>2, <1>5, <1>6 DEF Restores
<1>9. done \in Chains(W) /\ Len(done) \in Nat
  <2>1. Result(hit) \in Lines(W)
    <3>1. hit \in SUBSET CallIds
      BY <1>1
    <3> QED BY <3>1, MadeFacts
  <2>2. done \in Chains(W)
    BY <1>1, <2>1, ChainFacts
  <2> HIDE DEF done
  <2> QED BY <2>2, ChainFacts
<1>10. got \in Restores(W)
  <2> HIDE DEF done, hit
  <2> QED BY <1>1, <1>9 DEF Restores
<1> HIDE DEF asked, said, got
<1> QED BY <1>4, <1>7, <1>8, <1>10

\* One payload after the other.
Restoring(f, b, c) ==
    f = [n \in 0..Len(c) |-> IF n = 0 THEN b ELSE RestoreStep(f[n - 1], c[n])]

\* So does a whole chain.
LEMMA RestoreRuns ==
    ASSUME NEW W, NEW c \in Chains(W), NEW b \in Restores(W)
    PROVE  \E f \in [0..Len(c) -> Restores(W)] :
              Restoring(f, b, c) /\ Folded(RestoreStep, b, c) = f[Len(c)]
<1> DEFINE N == Len(c)
           A == Restores(W)
           h == [n \in 1..N |-> [a \in A |-> RestoreStep(a, c[n])]]
           f == CHOOSE g : Restoring(g, b, c)
<1>1. N \in Nat /\ \A n \in 1..N : c[n] \in Lines(W)
  BY ChainFacts
<1>2. h \in [1..N -> [A -> A]]
  <2>1. \A n \in 1..N, a \in A : RestoreStep(a, c[n]) \in A
    BY <1>1, RestoreStepFacts
  <2> HIDE DEF A, N
  <2> QED BY <2>1
<1>3. PICK g \in [0..N -> A] : Defined(g, b, h, N)
  <2> HIDE DEF N, A, h
  <2>1. b \in A
    BY DEF A
  <2> QED BY <1>1, <1>2, <2>1, Recursion
<1>4. Restoring(g, b, c)
  <2>1. ASSUME NEW n \in 0..N
        PROVE  g[n] = IF n = 0 THEN b ELSE RestoreStep(g[n - 1], c[n])
    <3>1. n # 0 => n \in 1..N /\ n - 1 \in 0..N
      BY <1>1
    <3>2. n # 0 => g[n - 1] \in A
      BY <1>3, <3>1
    <3>3. g[n] = IF n = 0 THEN b ELSE h[n][g[n - 1]]
      BY <1>3 DEF Defined
    <3> HIDE DEF A, N
    <3> QED BY <3>1, <3>2, <3>3
  <2> QED BY <1>3, <2>1 DEF Restoring
<1>5. Restoring(f, b, c)
  BY <1>4
<1>6. Folded(RestoreStep, b, c) = f[N]
  BY DEF Folded, Restoring
<1> HIDE DEF f
<1>7. f \in [0..N -> A]
  <2>1. f = [n \in 0..N |-> f[n]] /\ f[0] \in A
    BY <1>1, <1>5 DEF Restoring
  <2>2. ASSUME NEW n \in 0..(N - 1), f[n] \in A PROVE f[n + 1] \in A
    <3>1. n + 1 \in 0..N /\ n + 1 # 0 /\ (n + 1) - 1 = n /\ n + 1 \in 1..N
      BY <1>1
    <3>2. f[n + 1] = RestoreStep(f[n], c[n + 1])
      BY <1>5, <3>1 DEF Restoring
    <3> QED BY <1>1, <2>2, <3>1, <3>2, RestoreStepFacts
  <2> HIDE DEF N, A
  <2> QED BY <1>1, <2>1, <2>2, RunsIn
<1> QED BY <1>5, <1>6, <1>7

\* The turns that are restored from a snapshot say what the snapshot says, and no more.
LEMMA TurnsFacts ==
    ASSUME NEW W, NEW c \in Chains(W)
    PROVE  RestoredTurns(c) \in Chains(W)
<1> DEFINE b == [out |-> <<>>, pending |-> {}, safe |-> 0, start |-> 0, rollback |-> 0]
           end == Folded(RestoreStep, b, c)
<1>1. b \in Restores(W)
  BY ChainFacts DEF Restores
<1>2. RestoredTurns(c) = IF end.pending = {} THEN end.out ELSE Upto(end.out, end.rollback)
  BY DEF RestoredTurns
<1>3. end \in Restores(W)
  <2> HIDE DEF b
  <2>1. PICK f \in [0..Len(c) -> Restores(W)] : end = f[Len(c)]
    BY <1>1, RestoreRuns
  <2>2. Len(c) \in 0..Len(c)
    BY ChainFacts
  <2> HIDE DEF end
  <2> QED BY <2>1, <2>2
<1> HIDE DEF end
<1>4. end.out \in Chains(W) /\ end.rollback \in Nat
  BY <1>3 DEF Restores
<1>5. Upto(end.out, end.rollback) \in Chains(W)
  BY <1>4, PartFacts
<1> QED BY <1>2, <1>4, <1>5

\* What is restored says what was captured, but for the bridges,
LEMMA RestoreFacts ==
    ASSUME NEW W, Words \subseteq W, NEW c \in Chains(W)
    PROVE  Restore(c) \in Chains(W)
<1> DEFINE t == RestoredTurns(c)
           users == {i \in DOMAIN t : t[i].role = "user"}
           from  == CHOOSE i \in users : \A j \in users : i <= j
<1>1. t \in Chains(W)
  BY TurnsFacts
<1>2. Restore(c) = IF users = {} THEN <<>> ELSE Prepare(SubSeq(t, from, Len(t)))
  BY DEF Restore
<1> HIDE DEF t
<1>3. Len(t) \in Nat /\ <<>> \in Chains(W) /\ users \in SUBSET (1..Len(t))
  BY <1>1, ChainFacts
<1>4. users # {} => from \in 1..Len(t)
  <2> HIDE DEF users
  <2>1. users # {} => from \in users
    BY <1>3, EndFacts
  <2> QED BY <1>3, <2>1
<1> HIDE DEF users, from
<1>5. ASSUME users # {} PROVE Prepare(SubSeq(t, from, Len(t))) \in Chains(W)
  <2>1. from \in Nat \ {0} /\ Len(t) \in 0..Len(t)
    BY <1>3, <1>4, <1>5
  <2>2. SubSeq(t, from, Len(t)) \in Chains(W)
    BY <1>1, <2>1, PartFacts
  <2> QED BY <2>2, PrepareFacts
<1> QED BY <1>2, <1>3, <1>5

\* also where it is put in.
LEMMA InjectFacts ==
    ASSUME NEW W, NEW c \in Chains(W), NEW d \in Chains(W)
    PROVE  Inject(c, d) \in Chains(W)
<1> DEFINE rest  == {i \in DOMAIN c : ~IsPinned(c[i])}
           first == CHOOSE i \in rest : \A j \in rest : i <= j
           split == IF rest = {} THEN Len(c) ELSE first - 1
<1>1. Len(c) \in Nat /\ rest \in SUBSET (1..Len(c))
  BY ChainFacts
<1>2. Inject(c, d) = SubSeq(c, 1, split) \o d \o SubSeq(c, split + 1, Len(c))
  BY DEF Inject
<1>3. split \in 0..Len(c)
  <2> HIDE DEF rest
  <2>1. rest # {} => first \in rest
    BY <1>1, EndFacts
  <2> HIDE DEF first
  <2>2. rest # {} => first \in 1..Len(c)
    BY <1>1, <2>1
  <2>3. rest # {} => first - 1 \in 0..Len(c)
    BY <1>1, <2>2
  <2> QED BY <1>1, <2>3
<1> HIDE DEF rest, first, split
<1>4. SubSeq(c, 1, split) \in Chains(W)
  BY <1>3, PartFacts
<1>5. SubSeq(c, split + 1, Len(c)) \in Chains(W)
  <2>1. split + 1 \in Nat \ {0} /\ Len(c) \in 0..Len(c)
    BY <1>1, <1>3
  <2> QED BY <2>1, PartFacts
<1>6. SubSeq(c, 1, split) \o d \in Chains(W)
  BY <1>4, PartFacts
<1>7. (SubSeq(c, 1, split) \o d) \o SubSeq(c, split + 1, Len(c)) \in Chains(W)
  BY <1>5, <1>6, PartFacts
<1> QED BY <1>2, <1>7

-----------------------------------------------------------------------------
(* What can be sent                                                        *)

\* Between two payloads there are only pinned ones.
Gap(c, i, j) == \A k \in (i + 1)..(j - 1) : IsPinned(c[k])

\* The payload at j has results in the group of the one at i.
InGroup(c, i, j) ==
    i < j /\ c[j].role = "result" /\ \A k \in (i + 1)..j : Continues(c[k])

\* An assistant speaks after a user or a result.
Follows(c) ==
    \A i \in 1..Len(c) : c[i].role = "assistant" =>
        \E j \in 1..(i - 1) : c[j].role \in {"user", "result"} /\ Gap(c, j, i)

\* The results at j answer calls of the assistant at i, and are the only ones
\* that answer these.
Owns(c, i, j) ==
    /\ c[i].role = "assistant" /\ InGroup(c, i, j)
    /\ c[j].results # {} /\ c[j].results \subseteq c[i].calls
    /\ \A k \in 1..Len(c) : InGroup(c, i, k) /\ k # j => c[k].results \cap c[j].results = {}

Owned(c) ==
    \A j \in 1..Len(c) : c[j].role = "result" => \E i \in 1..(j - 1) : Owns(c, i, j)

\* Every call has its result, but for the open ones of the payload at last.
Met(c, open, last) ==
    \A i \in 1..Len(c) : \A id \in c[i].calls :
        \/ i = last /\ id \in open
        \/ \E j \in 1..Len(c) : InGroup(c, i, j) /\ id \in c[j].results

Settled(c) == Follows(c) /\ Owned(c) /\ Met(c, {}, 0)

\* Where the payloads of the conversation were before the pinned ones were left out.
Placed(k, c, at) ==
    /\ \A n \in 1..Len(k) : at[n] \in 1..Len(c) /\ ~IsPinned(c[at[n]]) /\ k[n] = c[at[n]]
    /\ \A m, n \in 1..Len(k) : m < n <=> at[m] < at[n]
    /\ \A i \in 1..Len(c) : ~IsPinned(c[i]) => \E n \in 1..Len(k) : at[n] = i
    /\ \A m, n \in 1..Len(k) : n \in AnswersOf(k, m) <=> InGroup(c, at[m], at[n])

\* The validator looks at the conversation without the pinned payloads, and finds
\* the same groups there.
LEMMA ConversationPlaced ==
    ASSUME NEW W, NEW c \in Chains(W)
    PROVE  LET k == Conversation(c)
           IN  k \in Seq(Lines(W)) /\ \E at : Placed(k, c, at)
<1> DEFINE I == {i \in DOMAIN c : ~IsPinned(c[i])}
           k == Only(c, I)
<1>1. Len(c) \in Nat /\ DOMAIN c = 1..Len(c) /\ c \in Seq(Lines(W))
  BY ChainFacts
<1>2. Conversation(c) = k
  BY DEF Conversation, Those
<1>3. I \in SUBSET (1..Len(c)) /\ \A i \in 1..Len(c) : i \in I <=> ~IsPinned(c[i])
  BY <1>1
<1> HIDE DEF I
<1>4. k \in Seq(Lines(W)) /\ \E at : Picked(k, c, I, at)
  BY <1>1, <1>3, OnlyPicks
<1> HIDE DEF k
<1>5. PICK at : Picked(k, c, I, at)
  BY <1>4
<1>6. Len(k) \in Nat /\ DOMAIN k = 1..Len(k)
  BY <1>4, LenProperties
<1>7. \A n \in 1..Len(k) : at[n] \in 1..Len(c) /\ ~IsPinned(c[at[n]]) /\ k[n] = c[at[n]]
  BY <1>3, <1>5 DEF Picked
<1>8. \A m, n \in 1..Len(k) : m < n <=> at[m] < at[n]
  <2>1. \A m, n \in 1..Len(k) : m < n => at[m] < at[n]
    BY <1>5 DEF Picked
  <2>2. ASSUME NEW m \in 1..Len(k), NEW n \in 1..Len(k), at[m] < at[n] PROVE m < n
    <3>1. ~(n < m) /\ n # m
      BY <1>7, <2>1, <2>2
    <3> QED BY <1>6, <3>1
  <2> QED BY <2>1, <2>2
<1>9. \A i \in 1..Len(c) : ~IsPinned(c[i]) => \E n \in 1..Len(k) : at[n] = i
  BY <1>3, <1>5 DEF Picked
<1>10. ASSUME NEW m \in 1..Len(k), NEW n \in 1..Len(k)
       PROVE  n \in AnswersOf(k, m) <=> InGroup(c, at[m], at[n])
  <2>1. ASSUME n \in AnswersOf(k, m) PROVE InGroup(c, at[m], at[n])
    <3>1. m < n /\ \A x \in (m + 1)..n : k[x].role = "result"
      BY <1>6, <2>1 DEF AnswersOf
    <3>2. ASSUME NEW y \in (at[m] + 1)..at[n] PROVE Continues(c[y])
      <4>1. y \in 1..Len(c)
        BY <1>1, <1>7
      <4>2. CASE ~IsPinned(c[y])
        <5>1. PICK x \in 1..Len(k) : at[x] = y
          BY <1>9, <4>1, <4>2
        <5>2. m < x /\ ~(n < x)
          BY <1>1, <1>7, <1>8, <5>1
        <5>3. x \in (m + 1)..n
          BY <1>6, <5>2
        <5> QED BY <1>7, <3>1, <5>1, <5>3 DEF Continues
      <4> QED BY <4>2 DEF Continues
    <3>3. at[m] < at[n] /\ c[at[n]].role = "result"
      <4>1. n \in (m + 1)..n
        BY <3>1
      <4> QED BY <1>7, <1>8, <3>1, <4>1
    <3> QED BY <3>2, <3>3 DEF InGroup
  <2>2. ASSUME InGroup(c, at[m], at[n]) PROVE n \in AnswersOf(k, m)
    <3>1. m < n
      BY <1>8, <2>2 DEF InGroup
    <3>2. ASSUME NEW x \in (m + 1)..n PROVE k[x].role = "result"
      <4>1. x \in 1..Len(k) /\ m < x /\ ~(n < x)
        BY <1>6
      <4>2. at[m] < at[x] /\ ~(at[n] < at[x])
        BY <1>8, <4>1
      <4>3. at[x] \in (at[m] + 1)..at[n]
        BY <1>7, <4>1, <4>2
      <4> QED BY <1>7, <2>2, <4>1, <4>3 DEF InGroup, Continues
    <3> QED BY <1>6, <3>1, <3>2 DEF AnswersOf
  <2> QED BY <2>1, <2>2
<1>11. Placed(k, c, at)
  BY <1>7, <1>8, <1>9, <1>10 DEF Placed
<1> QED BY <1>2, <1>4, <1>11

\* So every call that has its result in the chain has it there.
LEMMA MetAnswered ==
    ASSUME NEW W, NEW c \in Chains(W), Met(c, {}, 0)
    PROVE  LET k == Conversation(c)
           IN  \A n \in 1..Len(k) : k[n].calls \subseteq Answered(k, n)
<1> DEFINE k == Conversation(c)
<1>1. PICK at : Placed(k, c, at)
  BY ConversationPlaced
<1>2. Len(c) \in Nat
  BY ChainFacts
<1> HIDE DEF k
<1>3. ASSUME NEW n \in 1..Len(k) PROVE k[n].calls \subseteq Answered(k, n)
  <2>1. ASSUME NEW id \in k[n].calls PROVE \E j \in AnswersOf(k, n) : id \in k[j].results
    <3>1. PICK j \in 1..Len(c) : InGroup(c, at[n], j) /\ id \in c[j].results
      <4>1. at[n] \in 1..Len(c) /\ k[n] = c[at[n]]
        BY <1>1 DEF Placed
      <4>2. ~(at[n] = 0 /\ id \in {})
        OBVIOUS
      <4> QED BY <2>1, <4>1, <4>2 DEF Met
    <3>2. ~IsPinned(c[j])
      BY <3>1 DEF InGroup, IsPinned
    <3>3. PICK x \in 1..Len(k) : at[x] = j
      BY <1>1, <3>2 DEF Placed
    <3> QED BY <1>1, <3>1, <3>3 DEF Placed
  <2> QED BY <2>1 DEF Answered
<1> QED BY <1>3 DEF k

\* A settled chain can be sent.
LEMMA SettledSendable ==
    ASSUME NEW W, NEW c \in Chains(W), Settled(c)
    PROVE  Sendable(c)
<1> DEFINE k == Conversation(c)
<1>1. Len(c) \in Nat
  BY ChainFacts
<1>2. k \in Seq(Lines(W)) /\ \E at : Placed(k, c, at)
  BY ConversationPlaced
<1>3. \A n \in 1..Len(k) : k[n].calls \subseteq Answered(k, n)
  BY MetAnswered DEF Settled
<1>4. Conversation(c) = k
  OBVIOUS
<1> HIDE DEF k
<1>5. PICK at : Placed(k, c, at)
  BY <1>2
<1>6. Len(k) \in Nat /\ DOMAIN k = 1..Len(k)
  BY <1>2, LenProperties
<1>7. \A n \in 1..Len(k) : at[n] \in 1..Len(c) /\ ~IsPinned(c[at[n]]) /\ k[n] = c[at[n]]
  BY <1>5 DEF Placed
<1>8. \A m, n \in 1..Len(k) : m < n <=> at[m] < at[n]
  BY <1>5 DEF Placed
<1>9. \A i \in 1..Len(c) : ~IsPinned(c[i]) => \E n \in 1..Len(k) : at[n] = i
  BY <1>5 DEF Placed
<1>10. \A m, n \in 1..Len(k) : n \in AnswersOf(k, m) <=> InGroup(c, at[m], at[n])
  BY <1>5 DEF Placed
<1>11. ASSUME NEW n \in 1..Len(k), k[n].role = "assistant"
       PROVE  n - 1 \in 1..Len(k) /\ k[n - 1].role \in {"user", "result"}
  <2>1. PICK j \in 1..(at[n] - 1) : c[j].role \in {"user", "result"} /\ Gap(c, j, at[n])
    BY <1>7, <1>11 DEF Settled, Follows
  <2>2. j \in 1..Len(c) /\ ~IsPinned(c[j])
    BY <1>1, <1>7, <2>1 DEF IsPinned
  <2>3. PICK x \in 1..Len(k) : at[x] = j
    BY <1>9, <2>2
  <2>4. x < n /\ n - 1 \in 1..Len(k)
    <3>1. x < n
      BY <1>7, <1>8, <2>3
    <3> QED BY <1>6, <3>1
  <2>5. ~(x < n - 1)
    <3> SUFFICES ASSUME x < n - 1 PROVE FALSE
      OBVIOUS
    <3>1. at[x] < at[n - 1] /\ at[n - 1] < at[n]
      BY <1>8, <2>4
    <3>2. at[n - 1] \in (j + 1)..(at[n] - 1)
      BY <1>7, <2>3, <2>4, <3>1
    <3> QED BY <1>7, <2>1, <2>4, <3>2 DEF Gap
  <2>6. x = n - 1
    BY <1>6, <2>4, <2>5
  <2> QED BY <1>7, <2>1, <2>3, <2>4, <2>6
<1>12. ASSUME NEW n \in 1..Len(k), k[n].role = "result"
       PROVE  \E a \in 1..(n - 1) : a \in 1..Len(k) /\ Owns(c, at[a], at[n])
  <2>1. PICK i \in 1..(at[n] - 1) : Owns(c, i, at[n])
    BY <1>7, <1>12 DEF Settled, Owned
  <2>2. i \in 1..Len(c) /\ ~IsPinned(c[i])
    BY <1>1, <1>7, <2>1 DEF IsPinned, Owns
  <2>3. PICK a \in 1..Len(k) : at[a] = i
    BY <1>9, <2>2
  <2>4. a < n
    BY <1>7, <1>8, <2>3
  <2> QED BY <1>6, <2>1, <2>3, <2>4
<1>13. ASSUME k # <<>> PROVE k[1].role = "user"
  <2>1. 1 \in 1..Len(k)
    BY <1>2, <1>13, EmptySeq
  <2>2. k[1].role # "assistant"
    BY <1>11, <2>1
  <2>3. k[1].role # "result"
    BY <1>12, <2>1
  <2>4. k[1].role \in Roles /\ ~IsPinned(k[1])
    BY <1>7, <2>1, LineFacts
  <2> QED BY <2>2, <2>3, <2>4 DEF Roles, IsPinned
<1>14. ASSUME NEW n \in 1..Len(k), k[n].role = "result"
       PROVE  \E a \in 1..(n - 1) :
                 /\ n \in AnswersOf(k, a)
                 /\ k[n].results # {}
                 /\ k[n].results \subseteq k[a].calls
                 /\ \A j \in AnswersOf(k, a) \ {n} : k[j].results \cap k[n].results = {}
  <2>1. PICK a \in 1..(n - 1) : a \in 1..Len(k) /\ Owns(c, at[a], at[n])
    BY <1>12, <1>14
  <2>2. n \in AnswersOf(k, a)
    BY <1>10, <2>1 DEF Owns
  <2>3. k[n].results # {} /\ k[n].results \subseteq k[a].calls
    BY <1>7, <2>1 DEF Owns
  <2>4. ASSUME NEW j \in AnswersOf(k, a) \ {n} PROVE k[j].results \cap k[n].results = {}
    <3>1. j \in 1..Len(k)
      BY <1>6, <2>1 DEF AnswersOf
    <3>2. InGroup(c, at[a], at[j])
      BY <1>10, <2>1, <2>4, <3>1
    <3>3. at[j] # at[n]
      <4>1. j < n \/ n < j
        BY <1>6, <2>4, <3>1
      <4> QED BY <1>7, <1>8, <3>1, <4>1
    <3> QED BY <1>7, <2>1, <3>1, <3>2, <3>3 DEF Owns
  <2> QED BY <2>1, <2>2, <2>3, <2>4
<1>15. Valid(c)
  BY <1>4, <1>6, <1>11, <1>13, <1>14 DEF Valid
<1> QED BY <1>4, <1>6, <1>3, <1>15 DEF Sendable

\* Two chains are alike up to n but for what they say.
Alike(c, d, n) ==
    \A k \in 1..n : d[k].role = c[k].role /\ d[k].calls = c[k].calls /\ d[k].results = c[k].results

\* So they have the same groups there,
LEMMA AlikeGroups ==
    ASSUME NEW c, NEW d, NEW n \in Nat, Alike(c, d, n), NEW i \in 1..n, NEW j \in 1..n
    PROVE  /\ InGroup(d, i, j) <=> InGroup(c, i, j)
           /\ Gap(d, i, j) <=> Gap(c, i, j)
<1>1. \A k \in (i + 1)..j : k \in 1..n /\ (Continues(d[k]) <=> Continues(c[k]))
  BY DEF Alike, Continues, IsPinned
<1>2. \A k \in (i + 1)..(j - 1) : k \in 1..n /\ (IsPinned(d[k]) <=> IsPinned(c[k]))
  BY DEF Alike, IsPinned
<1>3. d[j].role = c[j].role
  BY DEF Alike
<1> QED BY <1>1, <1>2, <1>3 DEF InGroup, Gap

\* and are settled together.
LEMMA AlikeSettled ==
    ASSUME NEW W, NEW c \in Chains(W), NEW d \in Chains(W), Len(d) = Len(c), Alike(c, d, Len(c))
    PROVE  /\ Follows(c) => Follows(d)
           /\ Owned(c) => Owned(d)
           /\ \A open, last : Met(c, open, last) => Met(d, open, last)
<1>1. Len(c) \in Nat
  BY ChainFacts
<1> DEFINE N == Len(c)
<1>2. \A i, j \in 1..N : (InGroup(d, i, j) <=> InGroup(c, i, j)) /\ (Gap(d, i, j) <=> Gap(c, i, j))
  <2> HIDE DEF N
  <2> QED BY <1>1, AlikeGroups DEF N
<1>3. \A k \in 1..N : d[k].role = c[k].role /\ d[k].calls = c[k].calls
                      /\ d[k].results = c[k].results
  BY DEF Alike
<1>4. \A i \in 1..N : \A j \in 1..(i - 1) : j \in 1..N
  BY <1>1
<1>5. Len(d) = N
  OBVIOUS
<1> HIDE DEF N
<1>6. Follows(c) => Follows(d)
  BY <1>2, <1>3, <1>4, <1>5 DEF Follows, N
<1>7. ASSUME NEW i \in 1..N, NEW j \in 1..N, Owns(c, i, j) PROVE Owns(d, i, j)
  BY <1>2, <1>3, <1>5, <1>7 DEF Owns, N
<1>8. Owned(c) => Owned(d)
  BY <1>3, <1>4, <1>5, <1>7 DEF Owned, N
<1>9. \A open, last : Met(c, open, last) => Met(d, open, last)
  BY <1>2, <1>3, <1>5 DEF Met, N
<1> QED BY <1>6, <1>8, <1>9

\* A payload after a chain belongs to what is before it.
LEMMA AppendGroups ==
    ASSUME NEW W, NEW c \in Chains(W), NEW p \in Lines(W)
    PROVE  LET d == Append(c, p)
               n == Len(c) + 1
           IN  /\ d \in Chains(W) /\ Len(d) = n /\ d[n] = p /\ n \in Nat
               /\ \A k \in 1..Len(c) : d[k] = c[k]
               /\ \A i, j \in 1..Len(c) : (InGroup(d, i, j) <=> InGroup(c, i, j))
                                          /\ (Gap(d, i, j) <=> Gap(c, i, j))
               /\ \A i \in 1..Len(c) : InGroup(d, i, n) <=>
                     p.role = "result" /\ \A k \in (i + 1)..Len(c) : Continues(c[k])
               /\ \A j \in 1..n : ~InGroup(d, n, j)
               /\ \A i \in 1..Len(c) : Gap(d, i, n) <=> \A k \in (i + 1)..Len(c) : IsPinned(c[k])
<1> DEFINE d == Append(c, p)
           n == Len(c) + 1
<1>1. Len(c) \in Nat /\ c \in Seq(Lines(W)) /\ d \in Chains(W)
  BY ChainFacts
<1>2. Len(d) = n /\ d[n] = p /\ n \in Nat /\ \A k \in 1..Len(c) : d[k] = c[k]
  BY <1>1, AppendProperties
<1> HIDE DEF d
<1>3. Alike(c, d, Len(c))
  BY <1>2 DEF Alike
<1>4. \A i, j \in 1..Len(c) : (InGroup(d, i, j) <=> InGroup(c, i, j))
                              /\ (Gap(d, i, j) <=> Gap(c, i, j))
  BY <1>1, <1>3, AlikeGroups
<1>5. ASSUME NEW i \in 1..Len(c)
      PROVE  InGroup(d, i, n) <=> p.role = "result" /\ \A k \in (i + 1)..Len(c) : Continues(c[k])
  <2>1. \A k \in (i + 1)..Len(c) : k \in (i + 1)..n /\ d[k] = c[k]
    BY <1>1, <1>2
  <2>2. \A k \in (i + 1)..n : k = n \/ k \in (i + 1)..Len(c)
    BY <1>1
  <2>3. i < n
    BY <1>1
  <2> HIDE DEF n
  <2> QED BY <1>2, <2>1, <2>2, <2>3 DEF InGroup, Continues
<1>6. \A j \in 1..n : ~InGroup(d, n, j)
  BY <1>1 DEF InGroup
<1>7. ASSUME NEW i \in 1..Len(c)
      PROVE  Gap(d, i, n) <=> \A k \in (i + 1)..Len(c) : IsPinned(c[k])
  <2>1. \A k \in (i + 1)..Len(c) : d[k] = c[k]
    BY <1>1, <1>2
  <2>2. n - 1 = Len(c)
    BY <1>1
  <2> HIDE DEF n
  <2> QED BY <2>1, <2>2 DEF Gap
<1> HIDE DEF n
<1>8. /\ d \in Chains(W) /\ Len(d) = n /\ d[n] = p /\ n \in Nat
      /\ \A k \in 1..Len(c) : d[k] = c[k]
      /\ \A i, j \in 1..Len(c) : (InGroup(d, i, j) <=> InGroup(c, i, j))
                                 /\ (Gap(d, i, j) <=> Gap(c, i, j))
      /\ \A i \in 1..Len(c) : InGroup(d, i, n) <=>
            p.role = "result" /\ \A k \in (i + 1)..Len(c) : Continues(c[k])
      /\ \A j \in 1..n : ~InGroup(d, n, j)
      /\ \A i \in 1..Len(c) : Gap(d, i, n) <=> \A k \in (i + 1)..Len(c) : IsPinned(c[k])
  BY <1>1, <1>2, <1>4, <1>5, <1>6, <1>7
<1> QED BY <1>8 DEF d, n

\* A payload that answers nothing, after a chain it may follow, leaves it settled;
\* its own calls are open.
LEMMA AppendSettles ==
    ASSUME NEW W, NEW c \in Chains(W), NEW p \in Lines(W)
    PROVE  /\ Follows(c) /\ (p.role = "assistant" => LastRole(c) \in {"user", "result"})
                => Follows(Append(c, p))
           /\ Owned(c) /\ p.role # "result" => Owned(Append(c, p))
           /\ \A open, last : Met(c, open, last) /\ p.calls = {} => Met(Append(c, p), open, last)
           /\ \A last : Met(c, {}, last) => Met(Append(c, p), p.calls, Len(c) + 1)
<1> DEFINE d == Append(c, p)
           N == Len(c)
           n == N + 1
<1>1. N \in Nat /\ n \in Nat
  BY ChainFacts
<1>2. /\ d \in Chains(W) /\ Len(d) = n /\ d[n] = p
      /\ \A k \in 1..N : d[k] = c[k]
      /\ \A i, j \in 1..N : (InGroup(d, i, j) <=> InGroup(c, i, j))
                            /\ (Gap(d, i, j) <=> Gap(c, i, j))
      /\ \A i \in 1..N : InGroup(d, i, n) <=>
            p.role = "result" /\ \A k \in (i + 1)..N : Continues(c[k])
      /\ \A i \in 1..N : Gap(d, i, n) <=> \A k \in (i + 1)..N : IsPinned(c[k])
  BY AppendGroups
<1>3. \A i \in 1..n : i = n \/ i \in 1..N
  BY <1>1
<1>4. \A i \in 1..N : \A j \in 1..(i - 1) : j \in 1..N
  BY <1>1
<1>5. ASSUME Follows(c), p.role = "assistant" => LastRole(c) \in {"user", "result"}
      PROVE  Follows(d)
  <2>1. ASSUME NEW i \in 1..N, d[i].role = "assistant"
        PROVE  \E j \in 1..(i - 1) : d[j].role \in {"user", "result"} /\ Gap(d, j, i)
    BY <1>2, <1>4, <1>5, <2>1 DEF Follows
  <2>2. ASSUME p.role = "assistant"
        PROVE  \E j \in 1..(n - 1) : d[j].role \in {"user", "result"} /\ Gap(d, j, n)
    <3>1. LastRole(c) \in {"user", "result"}
      BY <1>5, <2>2
    <3>2. /\ LastIndex(c) \in 1..N /\ c[LastIndex(c)].role = LastRole(c)
          /\ \A j \in (LastIndex(c) + 1)..N : IsPinned(c[j])
      BY <3>1, RoleFacts
    <3>3. n - 1 = N
      BY <1>1
    <3> HIDE DEF d, n, N
    <3> QED BY <1>2, <3>1, <3>2, <3>3
  <2> HIDE DEF d, n, N
  <2> QED BY <1>2, <1>3, <2>1, <2>2 DEF Follows
<1>6. ASSUME Owned(c), p.role # "result" PROVE Owned(d)
  <2>1. ASSUME NEW j \in 1..N, d[j].role = "result"
        PROVE  \E i \in 1..(j - 1) : Owns(d, i, j)
    <3>1. PICK i \in 1..(j - 1) : Owns(c, i, j)
      BY <1>2, <1>6, <2>1 DEF Owned
    <3>2. i \in 1..N
      BY <1>4
    <3> HIDE DEF d, n
    <3>3. d[i] = c[i] /\ d[j] = c[j] /\ InGroup(d, i, j)
      BY <1>2, <3>1, <3>2 DEF Owns
    <3>4. ASSUME NEW k \in 1..n, InGroup(d, i, k), k # j
          PROVE  d[k].results \cap d[j].results = {}
      <4>1. k \in 1..N /\ InGroup(c, i, k)
        BY <1>2, <1>3, <1>6, <3>2, <3>4
      <4> QED BY <1>2, <3>1, <3>3, <3>4, <4>1 DEF Owns, N
    <3> QED BY <1>2, <3>1, <3>3, <3>4 DEF Owns
  <2> HIDE DEF d, n, N
  <2> QED BY <1>2, <1>3, <1>6, <2>1 DEF Owned
<1>7. ASSUME NEW open, NEW last, NEW i \in 1..N, NEW id \in c[i].calls, Met(c, open, last)
      PROVE  \/ i = last /\ id \in open
             \/ \E j \in 1..n : InGroup(d, i, j) /\ id \in d[j].results
  <2>1. ASSUME NEW j \in 1..N, InGroup(c, i, j) /\ id \in c[j].results
        PROVE  j \in 1..n /\ InGroup(d, i, j) /\ id \in d[j].results
    BY <1>1, <1>2, <2>1
  <2> HIDE DEF d, n
  <2> QED BY <1>7, <2>1 DEF Met, N
<1>8. ASSUME NEW open, NEW last, Met(c, open, last), p.calls = {} PROVE Met(d, open, last)
  <2> HIDE DEF d, n, N
  <2>1. ASSUME NEW i \in 1..n, NEW id \in d[i].calls
        PROVE  \/ i = last /\ id \in open
               \/ \E j \in 1..n : InGroup(d, i, j) /\ id \in d[j].results
    BY <1>2, <1>3, <1>7, <1>8, <2>1
  <2> QED BY <1>2, <2>1 DEF Met
<1>9. ASSUME NEW last, Met(c, {}, last) PROVE Met(d, p.calls, n)
  <2> HIDE DEF d, n, N
  <2>1. ASSUME NEW i \in 1..n, NEW id \in d[i].calls
        PROVE  \/ i = n /\ id \in p.calls
               \/ \E j \in 1..n : InGroup(d, i, j) /\ id \in d[j].results
    BY <1>2, <1>3, <1>7, <1>9, <2>1
  <2> QED BY <1>2, <2>1 DEF Met
<1> HIDE DEF d
<1> QED BY <1>5, <1>6, <1>8, <1>9 DEF d

\* The pass is sound: what it kept is settled but for the open calls, and only
\* pinned payloads and results came after these.
Sound(a) ==
    /\ Follows(a.out) /\ Owned(a.out) /\ Met(a.out, a.pending, a.at)
    /\ a.pending # {} =>
         /\ a.out[a.at].role = "assistant" /\ a.pending \subseteq a.out[a.at].calls
         /\ \A k \in (a.at + 1)..Len(a.out) : Continues(a.out[k])
         /\ \A j \in 1..Len(a.out) :
              InGroup(a.out, a.at, j) => a.out[j].results \cap a.pending = {}

\* A pinned payload keeps it so,
LEMMA PinnedSound ==
    ASSUME NEW W, NEW a \in Passes(W), Sound(a), NEW p \in Lines(W),
           IsPinned(p) \/ (p.role = "user" /\ a.pending = {})
    PROVE  Sound(Keep(a, p))
<1> DEFINE c == a.out
           d == Append(a.out, p)
           N == Len(a.out)
           n == N + 1
<1>1. /\ c \in Chains(W) /\ a \in [out : Chains(W), pending : SUBSET CallIds, at : Nat]
      /\ N \in Nat /\ (a.pending # {} => a.at \in 1..N)
  BY ChainFacts DEF Passes
<1>2. p.role \notin {"assistant", "result"} /\ p.calls = {}
  BY DEF IsPinned, Lines
<1>3. Keep(a, p).out = d /\ Keep(a, p).pending = a.pending /\ Keep(a, p).at = a.at
  BY <1>1 DEF Keep
<1>4. Follows(d) /\ Owned(d) /\ Met(d, a.pending, a.at)
  BY <1>1, <1>2, AppendSettles DEF Sound
<1>5. ASSUME a.pending # {}
      PROVE  /\ d[a.at].role = "assistant" /\ a.pending \subseteq d[a.at].calls
             /\ \A k \in (a.at + 1)..Len(d) : Continues(d[k])
             /\ \A j \in 1..Len(d) : InGroup(d, a.at, j) => d[j].results \cap a.pending = {}
  <2>1. /\ Len(d) = n /\ d[n] = p
        /\ \A k \in 1..N : d[k] = c[k]
        /\ \A i, j \in 1..N : InGroup(d, i, j) <=> InGroup(c, i, j)
        /\ \A i \in 1..N : ~InGroup(d, i, n)
    BY <1>1, <1>2, AppendGroups
  <2>2. a.at \in 1..N /\ Continues(p)
    BY <1>1, <1>5 DEF Continues
  <2>3. \A k \in (a.at + 1)..n : k = n \/ k \in (a.at + 1)..N
    BY <1>1
  <2>4. \A k \in (a.at + 1)..N : k \in 1..N
    BY <1>1, <2>2
  <2>5. \A k \in 1..n : k = n \/ k \in 1..N
    BY <1>1
  <2>6. /\ c[a.at].role = "assistant" /\ a.pending \subseteq c[a.at].calls
        /\ \A k \in (a.at + 1)..N : Continues(c[k])
        /\ \A j \in 1..N : InGroup(c, a.at, j) => c[j].results \cap a.pending = {}
    BY <1>5 DEF Sound
  <2> HIDE DEF c, d, n, N
  <2> QED BY <2>1, <2>2, <2>3, <2>4, <2>5, <2>6
<1> HIDE DEF d
<1> QED BY <1>3, <1>4, <1>5 DEF Sound

\* a result of open calls as well,
LEMMA ResultSound ==
    ASSUME NEW W, NEW a \in Passes(W), Sound(a), NEW p \in Lines(W)
    PROVE  Sound(AddResult(a, p))
<1> DEFINE c == a.out
           hit == p.results \cap a.pending
           r == Result(hit)
           d == Append(a.out, r)
           N == Len(a.out)
           n == N + 1
<1>1. /\ c \in Chains(W) /\ a \in [out : Chains(W), pending : SUBSET CallIds, at : Nat]
      /\ N \in Nat /\ (a.pending # {} => a.at \in 1..N)
  BY ChainFacts DEF Passes
<1>2. CASE hit = {}
  BY <1>2 DEF AddResult
<1>3. CASE hit # {}
  <2>1. AddResult(a, p) = [a EXCEPT !.out = d, !.pending = a.pending \ hit]
    BY <1>1, <1>3 DEF AddResult
  <2>2. r \in Lines(W) /\ r.role = "result" /\ r.calls = {} /\ r.results = hit
    <3>1. hit \in SUBSET CallIds
      BY <1>1
    <3> HIDE DEF hit
    <3> QED BY <3>1, MadeFacts DEF Result, Payload
  <2> HIDE DEF r
  <2>3. /\ Len(d) = n /\ d[n] = r
        /\ \A k \in 1..N : d[k] = c[k]
        /\ \A i, j \in 1..N : InGroup(d, i, j) <=> InGroup(c, i, j)
        /\ \A i \in 1..N : InGroup(d, i, n) <=> \A k \in (i + 1)..N : Continues(c[k])
        /\ \A j \in 1..n : ~InGroup(d, n, j)
    <3>0. c \in Chains(W) /\ r \in Lines(W)
      BY <1>1, <2>2
    <3>1. Len(d) = n /\ d[n] = r /\ \A k \in 1..N : d[k] = c[k]
      BY <1>1, <3>0, AppendProperties DEF Chains
    <3>4. \A i, j \in 1..N : InGroup(d, i, j) <=> InGroup(c, i, j)
      BY <3>0, AppendGroups
    <3>2. \A i \in 1..N : InGroup(d, i, n) <=>
                r.role = "result" /\ \A k \in (i + 1)..N : Continues(c[k])
      BY <3>0, AppendGroups
    <3>3. \A j \in 1..n : ~InGroup(d, n, j)
      BY <3>0, AppendGroups
    <3> HIDE DEF d, n
    <3> QED BY <2>2, <3>1, <3>2, <3>3, <3>4
  <2>4. a.at \in 1..N /\ a.pending # {} /\ hit \subseteq a.pending
    BY <1>1, <1>3
  <2>5. /\ Follows(c) /\ Owned(c) /\ Met(c, a.pending, a.at)
        /\ c[a.at].role = "assistant" /\ a.pending \subseteq c[a.at].calls
        /\ \A k \in (a.at + 1)..N : Continues(c[k])
        /\ \A j \in 1..N : InGroup(c, a.at, j) => c[j].results \cap a.pending = {}
    BY <2>4 DEF Sound
  <2>6. \A k \in 1..n : k = n \/ k \in 1..N
    BY <1>1
  <2>7. Follows(d)
    BY <1>1, <2>2, <2>5, AppendSettles
  <2>8. d \in Chains(W)
    BY <1>1, <2>2, ChainFacts
  <2> HIDE DEF hit, d
  <2>9. \A i \in 1..N : InGroup(d, i, n) /\ c[i].role = "assistant" => i = a.at
    <3> SUFFICES ASSUME NEW i \in 1..N, InGroup(d, i, n), c[i].role = "assistant", i # a.at
                 PROVE  FALSE
      OBVIOUS
    <3>1. \A k \in (i + 1)..N : Continues(c[k])
      BY <2>3
    <3>2. CASE i < a.at
      <4>1. a.at \in (i + 1)..N
        BY <1>1, <2>4, <3>2
      <4> QED BY <2>5, <3>1, <4>1 DEF Continues, IsPinned
    <3>3. CASE a.at < i
      <4>1. i \in (a.at + 1)..N
        BY <1>1, <2>4, <3>3
      <4> QED BY <2>5, <4>1 DEF Continues, IsPinned
    <3> QED BY <1>1, <2>4, <3>2, <3>3
  <2>10. InGroup(d, a.at, n)
    BY <2>3, <2>4, <2>5
  <2>11. Owned(d)
    <3>1. ASSUME NEW j \in 1..N, d[j].role = "result"
          PROVE  \E i \in 1..(j - 1) : Owns(d, i, j)
      <4>1. PICK i \in 1..(j - 1) : Owns(c, i, j)
        BY <2>3, <2>5, <3>1 DEF Owned
      <4>2. i \in 1..N
        BY <1>1
      <4>3. d[i] = c[i] /\ d[j] = c[j] /\ InGroup(d, i, j)
        BY <2>3, <4>1, <4>2 DEF Owns
      <4>4. ASSUME NEW k \in 1..n, InGroup(d, i, k), k # j
            PROVE  d[k].results \cap d[j].results = {}
        <5>1. CASE k \in 1..N
          BY <2>3, <4>1, <4>2, <4>4, <5>1 DEF Owns
        <5>2. CASE k = n
          <6>1. i = a.at
            BY <2>9, <4>1, <4>2, <4>4, <5>2 DEF Owns
          <6>2. c[j].results \cap a.pending = {}
            BY <2>5, <4>1, <6>1 DEF Owns
          <6> QED BY <2>2, <2>3, <2>4, <4>3, <5>2, <6>2
        <5> QED BY <2>6, <5>1, <5>2
      <4> QED BY <2>3, <4>1, <4>3, <4>4 DEF Owns
    <3>2. a.at \in 1..(n - 1) /\ Owns(d, a.at, n)
      <4>1. d[a.at].role = "assistant" /\ d[n].results # {} /\ d[n].results \subseteq d[a.at].calls
        BY <1>3, <2>2, <2>3, <2>4, <2>5
      <4>2. ASSUME NEW k \in 1..n, InGroup(d, a.at, k), k # n
            PROVE  d[k].results \cap d[n].results = {}
        <5>1. k \in 1..N /\ InGroup(c, a.at, k)
          BY <2>3, <2>4, <2>6, <4>2
        <5> QED BY <2>2, <2>3, <2>4, <2>5, <5>1
      <4>3. a.at \in 1..(n - 1)
        BY <1>1, <2>4
      <4> QED BY <2>3, <2>10, <4>1, <4>2, <4>3 DEF Owns
    <3> HIDE DEF n, N, c
    <3> QED BY <2>3, <2>6, <3>1, <3>2 DEF Owned
  <2>12. Met(d, a.pending \ hit, a.at)
    <3>1. ASSUME NEW i \in 1..N, NEW id \in c[i].calls
          PROVE  \/ i = a.at /\ id \in a.pending \ hit
                 \/ \E j \in 1..n : InGroup(d, i, j) /\ id \in d[j].results
      <4>1. CASE i = a.at /\ id \in a.pending
        <5>1. n \in 1..n
          BY <1>1
        <5> QED BY <2>2, <2>3, <2>10, <4>1, <5>1
      <4>2. CASE \E j \in 1..N : InGroup(c, i, j) /\ id \in c[j].results
        <5>1. \A j \in 1..N : j \in 1..n
          BY <1>1
        <5> QED BY <2>3, <4>2, <5>1
      <4> QED BY <2>5, <4>1, <4>2 DEF Met
    <3> HIDE DEF n, N, c
    <3> QED BY <2>2, <2>3, <2>6, <3>1 DEF Met
  <2>13. /\ d[a.at].role = "assistant" /\ a.pending \ hit \subseteq d[a.at].calls
         /\ \A k \in (a.at + 1)..Len(d) : Continues(d[k])
         /\ \A j \in 1..Len(d) :
              InGroup(d, a.at, j) => d[j].results \cap (a.pending \ hit) = {}
    <3>1. \A k \in (a.at + 1)..n : k = n \/ (k \in (a.at + 1)..N /\ k \in 1..N)
      BY <1>1, <2>4
    <3>2. Continues(r)
      BY <2>2 DEF Continues
    <3> HIDE DEF n, N, c
    <3>3. \A k \in (a.at + 1)..n : Continues(d[k])
      BY <2>3, <2>5, <3>1, <3>2
    <3>4. ASSUME NEW j \in 1..n, InGroup(d, a.at, j)
          PROVE  d[j].results \cap (a.pending \ hit) = {}
      BY <2>2, <2>3, <2>4, <2>5, <2>6, <3>4
    <3> QED BY <2>3, <2>4, <2>5, <3>3, <3>4
  <2>14. /\ AddResult(a, p).out = d /\ AddResult(a, p).pending = a.pending \ hit
         /\ AddResult(a, p).at = a.at
    BY <1>1, <2>1
  <2> QED BY <2>7, <2>11, <2>12, <2>13, <2>14 DEF Sound
<1> QED BY <1>2, <1>3

\* Up to n the chains are alike and after it the second is pinned: it has the
\* first's groups, as far as they end there.
LEMMA CutSettles ==
    ASSUME NEW W, NEW c \in Chains(W), NEW d \in Chains(W), NEW n \in Nat, n <= Len(c), n <= Len(d),
           \A k \in 1..n : d[k] = c[k], \A k \in (n + 1)..Len(d) : IsPinned(d[k])
    PROVE  /\ Follows(c) => Follows(d)
           /\ Owned(c) => Owned(d)
<1>1. Len(c) \in Nat /\ Len(d) \in Nat /\ Alike(c, d, n)
  BY ChainFacts DEF Alike
<1>2. \A i, j \in 1..n : (InGroup(d, i, j) <=> InGroup(c, i, j)) /\ (Gap(d, i, j) <=> Gap(c, i, j))
  BY <1>1, AlikeGroups
<1>3. \A i \in 1..Len(d) : ~IsPinned(d[i]) => i \in 1..n
  BY <1>1
<1>4. \A i \in 1..n : i \in 1..Len(c) /\ i \in 1..Len(d) /\ \A j \in 1..(i - 1) : j \in 1..n
  BY <1>1
<1>5. ASSUME Follows(c) PROVE Follows(d)
  <2> SUFFICES ASSUME NEW i \in 1..Len(d), d[i].role = "assistant"
               PROVE  \E j \in 1..(i - 1) : d[j].role \in {"user", "result"} /\ Gap(d, j, i)
    BY DEF Follows
  <2>1. i \in 1..n
    BY <1>3 DEF IsPinned
  <2>2. PICK j \in 1..(i - 1) : c[j].role \in {"user", "result"} /\ Gap(c, j, i)
    BY <1>4, <1>5, <2>1 DEF Follows
  <2>3. j \in 1..n
    BY <1>4, <2>1
  <2> QED BY <1>2, <2>1, <2>2, <2>3
<1>6. ASSUME Owned(c) PROVE Owned(d)
  <2> SUFFICES ASSUME NEW j \in 1..Len(d), d[j].role = "result"
               PROVE  \E i \in 1..(j - 1) : Owns(d, i, j)
    BY DEF Owned
  <2>1. j \in 1..n
    BY <1>3 DEF IsPinned
  <2>2. PICK i \in 1..(j - 1) : Owns(c, i, j)
    BY <1>4, <1>6, <2>1 DEF Owned
  <2>3. i \in 1..n
    BY <1>4, <2>1
  <2>4. ASSUME NEW k \in 1..Len(d), InGroup(d, i, k), k # j
        PROVE  d[k].results \cap d[j].results = {}
    <3>1. k \in 1..n
      BY <1>3, <2>4 DEF InGroup, IsPinned
    <3> QED BY <1>2, <1>4, <2>1, <2>2, <2>3, <2>4, <3>1 DEF Owns
  <2> QED BY <1>2, <2>1, <2>2, <2>3, <2>4 DEF Owns
<1> QED BY <1>5, <1>6

\* A chain without the payload at x.
LEMMA GapFacts ==
    ASSUME NEW W, NEW c \in Chains(W), NEW x \in 1..Len(c)
    PROVE  LET d == RemoveAt(c, x)
           IN  /\ d \in Chains(W) /\ Len(d) = Len(c) - 1
               /\ \A k \in 1..(x - 1) : d[k] = c[k]
               /\ \A k \in x..(Len(c) - 1) : d[k] = c[k + 1]
<1> DEFINE a == SubSeq(c, 1, x - 1)
           b == SubSeq(c, x + 1, Len(c))
           d == RemoveAt(c, x)
<1>1. Len(c) \in Nat /\ \A i \in 1..Len(c) : c[i] \in Lines(W)
  BY ChainFacts
<1>2. a \in Seq(Lines(W)) /\ Len(a) = x - 1 /\ \A k \in 1..(x - 1) : a[k] = c[k]
  <2>1. \A i \in 1..(x - 1) : c[i] \in Lines(W)
    BY <1>1
  <2>2. /\ a \in Seq(Lines(W)) /\ Len(a) = (IF 1 <= x - 1 THEN (x - 1) - 1 + 1 ELSE 0)
        /\ \A k \in 1..((x - 1) - 1 + 1) : a[k] = c[1 + k - 1]
    BY <1>1, <2>1, SubSeqProperties
  <2> HIDE DEF a
  <2> QED BY <1>1, <2>2
<1>3. b \in Seq(Lines(W)) /\ Len(b) = Len(c) - x /\ \A k \in 1..(Len(c) - x) : b[k] = c[x + k]
  <2>1. \A i \in (x + 1)..Len(c) : c[i] \in Lines(W)
    BY <1>1
  <2>2. /\ b \in Seq(Lines(W))
        /\ Len(b) = (IF x + 1 <= Len(c) THEN Len(c) - (x + 1) + 1 ELSE 0)
        /\ \A k \in 1..(Len(c) - (x + 1) + 1) : b[k] = c[(x + 1) + k - 1]
    BY <1>1, <2>1, SubSeqProperties
  <2> HIDE DEF b
  <2>3. \A k \in 1..(Len(c) - x) : k \in 1..(Len(c) - (x + 1) + 1) /\ (x + 1) + k - 1 = x + k
    BY <1>1
  <2> QED BY <1>1, <2>2, <2>3
<1>4. d = a \o b
  BY DEF RemoveAt
<1> HIDE DEF a, b, d
<1>5. /\ d \in Seq(Lines(W)) /\ Len(d) = Len(a) + Len(b)
      /\ \A i \in 1..(Len(a) + Len(b)) : d[i] = IF i <= Len(a) THEN a[i] ELSE b[i - Len(a)]
  BY <1>2, <1>3, <1>4, ConcatProperties
<1>6. Len(d) = Len(c) - 1
  BY <1>1, <1>2, <1>3, <1>5
<1>7. ASSUME NEW k \in 1..(x - 1) PROVE d[k] = c[k]
  <2>1. k \in 1..(Len(a) + Len(b)) /\ k <= Len(a)
    BY <1>1, <1>2, <1>3
  <2> QED BY <1>2, <1>5, <2>1
<1>8. ASSUME NEW k \in x..(Len(c) - 1) PROVE d[k] = c[k + 1]
  <2>1. k \in 1..(Len(a) + Len(b)) /\ ~(k <= Len(a)) /\ k - Len(a) = k - x + 1
    BY <1>1, <1>2, <1>3
  <2>2. k - x + 1 \in 1..(Len(c) - x) /\ x + (k - x + 1) = k + 1
    BY <1>1
  <2> QED BY <1>3, <1>5, <2>1, <2>2
<1>9. d \in Chains(W)
  BY <1>5 DEF Chains
<1> QED BY <1>6, <1>7, <1>8, <1>9 DEF d

\* dropping the open calls,
LEMMA DropSound ==
    ASSUME NEW W, NEW a \in Passes(W), Sound(a)
    PROVE  Sound(DropPending(a))
<1> DEFINE c == a.out
           x == a.at
           left == [c[x] EXCEPT !.calls = @ \ a.pending]
           N == Len(c)
<1>1. CASE a.pending = {}
  BY <1>1 DEF DropPending
<1>2. CASE a.pending # {}
  <2>1. c \in Chains(W) /\ N \in Nat /\ x \in 1..N /\ c[x] \in Lines(W)
    BY <1>2, ChainFacts DEF Passes
  <2>2. /\ Follows(c) /\ Owned(c) /\ Met(c, a.pending, x)
        /\ c[x].role = "assistant" /\ a.pending \subseteq c[x].calls
        /\ \A k \in (x + 1)..N : Continues(c[k])
        /\ \A j \in 1..N : InGroup(c, x, j) => c[j].results \cap a.pending = {}
    BY <1>2 DEF Sound
  <2>3. /\ left \in Lines(W) /\ left.role = c[x].role /\ left.results = c[x].results
        /\ left.calls = c[x].calls \ a.pending /\ left.text = c[x].text
    BY <2>1, ChangedFacts DEF Lines
  <2>4. DropPending(a).pending = {} /\ DropPending(a).at = 0
        /\ DropPending(a).out = IF left.text = {} /\ left.calls = {}
                                THEN RemoveAt(c, x) ELSE ReplaceAt(c, x, left)
    BY <1>2 DEF DropPending
  <2> HIDE DEF left
  <2>5. CASE left.text = {} /\ left.calls = {}
    <3> DEFINE d == RemoveAt(c, x)
    <3>1. /\ d \in Chains(W) /\ Len(d) = N - 1
          /\ \A k \in 1..(x - 1) : d[k] = c[k]
          /\ \A k \in x..(N - 1) : d[k] = c[k + 1]
      BY <2>1, GapFacts
    <3>2. \A j \in (x + 1)..N : IsPinned(c[j])
      <4> SUFFICES ASSUME NEW j \in (x + 1)..N, ~IsPinned(c[j]) PROVE FALSE
        OBVIOUS
      <4>1. c[j].role = "result" /\ j \in 1..N
        BY <2>1, <2>2 DEF Continues
      <4>2. PICK i \in 1..(j - 1) : Owns(c, i, j)
        BY <2>2, <4>1 DEF Owned
      <4>3. i = x
        <5>1. ~(x < i)
          <6> SUFFICES ASSUME x < i PROVE FALSE
            OBVIOUS
          <6>1. i \in (x + 1)..N
            BY <2>1
          <6> QED BY <2>2, <4>2, <6>1 DEF Continues, IsPinned, Owns
        <5>2. ~(i < x)
          <6> SUFFICES ASSUME i < x PROVE FALSE
            OBVIOUS
          <6>1. x \in (i + 1)..j
            BY <2>1
          <6> QED BY <2>2, <4>2, <6>1 DEF Continues, IsPinned, Owns, InGroup
        <5> QED BY <2>1, <5>1, <5>2
      <4>4. c[j].results # {} /\ c[j].results \subseteq c[x].calls /\ InGroup(c, x, j)
        BY <4>2, <4>3 DEF Owns
      <4> QED BY <2>2, <2>3, <2>5, <4>1, <4>4
    <3> HIDE DEF d
    <3>3. \A k \in x..(N - 1) : IsPinned(d[k])
      <4>1. \A k \in x..(N - 1) : k + 1 \in (x + 1)..N
        BY <2>1
      <4> QED BY <3>1, <3>2, <4>1
    <3>4. Follows(d) /\ Owned(d)
      <4>1. x - 1 \in Nat /\ x - 1 <= N /\ x - 1 <= Len(d) /\ (x - 1) + 1 = x
        BY <2>1, <3>1
      <4> HIDE DEF N
      <4>2. \A k \in ((x - 1) + 1)..Len(d) : IsPinned(d[k])
        BY <3>1, <3>3, <4>1
      <4> QED BY <2>1, <2>2, <3>1, <4>1, <4>2, CutSettles DEF N
    <3>5. Met(d, {}, 0)
      <4> SUFFICES ASSUME NEW i \in 1..Len(d), NEW id \in d[i].calls
                   PROVE  \E j \in 1..Len(d) : InGroup(d, i, j) /\ id \in d[j].results
        BY DEF Met
      <4>1. ~IsPinned(d[i])
        <5>1. d[i].role = "assistant"
          BY <3>1, LineFacts
        <5> QED BY <5>1 DEF IsPinned
      <4>2. i \in 1..(x - 1) /\ d[i] = c[i] /\ i \in 1..N
        BY <2>1, <3>1, <3>3, <4>1
      <4>3. PICK j \in 1..N : InGroup(c, i, j) /\ id \in c[j].results
        <5>1. i # x /\ id \in c[i].calls
          BY <2>1, <4>2
        <5> HIDE DEF x, c, d
        <5> QED BY <2>2, <4>2, <5>1 DEF Met, N
      <4>4. j < x
        <5> SUFFICES ASSUME ~(j < x) PROVE FALSE
          OBVIOUS
        <5>1. x \in (i + 1)..j
          BY <2>1, <4>2
        <5> QED BY <2>2, <4>3, <5>1 DEF InGroup, Continues, IsPinned
      <4>5. j \in 1..(x - 1) /\ j \in 1..Len(d)
        BY <2>1, <3>1, <4>4
      <4>6. Alike(c, d, x - 1) /\ x - 1 \in Nat
        BY <2>1, <3>1 DEF Alike
      <4>7. InGroup(d, i, j)
        BY <4>2, <4>3, <4>5, <4>6, AlikeGroups
      <4> QED BY <3>1, <4>3, <4>5, <4>7
    <3> QED BY <2>4, <2>5, <3>4, <3>5 DEF Sound, d
  <2>6. CASE ~(left.text = {} /\ left.calls = {})
    <3> DEFINE d == ReplaceAt(c, x, left)
    <3>1. /\ d \in Seq(Lines(W)) /\ Len(d) = N
          /\ \A j \in 1..N : d[j] = IF j = x THEN left ELSE c[j]
      BY <2>1, <2>3, ExceptSeq DEF ReplaceAt, Chains
    <3> HIDE DEF d
    <3>2. \A k \in 1..N : d[k].role = c[k].role /\ d[k].results = c[k].results
                          /\ (k # x => d[k].calls = c[k].calls)
                          /\ (k = x => d[k].calls = c[k].calls \ a.pending)
      BY <2>3, <3>1
    <3>3. \A i, j \in 1..N : (InGroup(d, i, j) <=> InGroup(c, i, j)) /\ (Gap(d, i, j) <=> Gap(c, i, j))
      <4> SUFFICES ASSUME NEW i \in 1..N, NEW j \in 1..N
                   PROVE  (InGroup(d, i, j) <=> InGroup(c, i, j)) /\ (Gap(d, i, j) <=> Gap(c, i, j))
        OBVIOUS
      <4>1. \A k \in (i + 1)..j : k \in 1..N /\ (Continues(d[k]) <=> Continues(c[k]))
        BY <2>1, <3>2 DEF Continues, IsPinned
      <4>2. \A k \in (i + 1)..(j - 1) : k \in 1..N /\ (IsPinned(d[k]) <=> IsPinned(c[k]))
        BY <2>1, <3>2 DEF IsPinned
      <4> QED BY <3>2, <4>1, <4>2 DEF InGroup, Gap
    <3>4. \A i \in 1..N : \A j \in 1..(i - 1) : j \in 1..N
      BY <2>1
    <3>5. Follows(d)
      <4> HIDE DEF N, c, x
      <4> QED BY <2>2, <3>1, <3>2, <3>3, <3>4 DEF Follows, N
    <3>6. Owned(d)
      <4> SUFFICES ASSUME NEW j \in 1..N, d[j].role = "result"
                   PROVE  \E i \in 1..(j - 1) : Owns(d, i, j)
        BY <3>1 DEF Owned
      <4>1. PICK i \in 1..(j - 1) : Owns(c, i, j)
        BY <2>2, <3>2 DEF Owned
      <4>2. i \in 1..N
        BY <3>4
      <4>3. d[j].results \subseteq d[i].calls
        BY <2>2, <3>2, <4>1, <4>2 DEF Owns
      <4>4. \A k \in 1..N : InGroup(d, i, k) /\ k # j => d[k].results \cap d[j].results = {}
        BY <3>2, <3>3, <4>1, <4>2 DEF Owns
      <4>5. d[i].role = "assistant" /\ InGroup(d, i, j) /\ d[j].results # {}
        BY <3>2, <3>3, <4>1, <4>2 DEF Owns
      <4> QED BY <3>1, <4>3, <4>4, <4>5 DEF Owns
    <3>7. Met(d, {}, 0)
      <4> SUFFICES ASSUME NEW i \in 1..N, NEW id \in d[i].calls
                   PROVE  \E j \in 1..N : InGroup(d, i, j) /\ id \in d[j].results
        BY <3>1 DEF Met
      <4>1. id \in c[i].calls /\ ~(i = x /\ id \in a.pending)
        BY <3>2
      <4>2. PICK j \in 1..N : InGroup(c, i, j) /\ id \in c[j].results
        BY <2>2, <4>1 DEF Met
      <4> QED BY <3>2, <3>3, <4>2
    <3> QED BY <2>4, <2>6, <3>5, <3>6, <3>7 DEF Sound, d
  <2> QED BY <2>5, <2>6
<1> QED BY <1>1, <1>2

\* The last who is not pinned speaks last.
LEMMA LastOf ==
    ASSUME NEW W, NEW c \in Chains(W), NEW i \in 1..Len(c), ~IsPinned(c[i]),
           \A j \in (i + 1)..Len(c) : IsPinned(c[j])
    PROVE  LastRole(c) = c[i].role
<1>1. Len(c) \in Nat
  BY ChainFacts
<1> DEFINE l == LastIndex(c)
           r == LastRole(c)
<1>2. r # "none"
  BY RoleFacts
<1>3. l \in 1..Len(c) /\ ~IsPinned(c[l]) /\ c[l].role = r /\ \A j \in (l + 1)..Len(c) : IsPinned(c[j])
  BY <1>2, RoleFacts
<1> HIDE DEF l, r
<1>4. l = i
  <2>1. ~(l < i) /\ ~(i < l)
    BY <1>1, <1>3
  <2> QED BY <1>1, <1>3, <2>1
<1> QED BY <1>3, <1>4 DEF r

\* opening the calls of an assistant that may speak,
LEMMA OpenSound ==
    ASSUME NEW W, NEW a \in Passes(W), Sound(a), a.pending = {}, NEW p \in Lines(W),
           p.role = "assistant", LastRole(a.out) \in {"user", "result"}
    PROVE  Sound(Open(a, p))
<1> DEFINE c == a.out
           d == Append(a.out, p)
           n == Len(a.out) + 1
<1>1. c \in Chains(W) /\ Len(c) \in Nat
  BY ChainFacts DEF Passes
<1>2. Ids(p) = p.calls
  <2>1. NoId \notin p.calls
    BY PayloadsAssumption DEF Lines
  <2> QED BY <2>1 DEF Ids
<1>3. Open(a, p) = [out |-> d, pending |-> p.calls, at |-> n]
  BY <1>2 DEF Open
<1>4. Follows(c) /\ Owned(c) /\ Met(c, {}, a.at)
  BY DEF Sound
<1>5. Follows(d) /\ Owned(d)
  BY <1>1, <1>4, AppendSettles
<1>6. Met(d, p.calls, n)
  BY <1>1, <1>4, AppendSettles
<1>7. Len(d) = n /\ d[n] = p
  BY <1>1, AppendProperties DEF Chains
<1>8. \A j \in 1..n : ~InGroup(d, n, j)
  BY <1>1, AppendGroups
<1>9. \A k \in (n + 1)..n : FALSE
  BY <1>1
<1> HIDE DEF d, n
<1> QED BY <1>3, <1>5, <1>6, <1>7, <1>8, <1>9 DEF Sound

\* and so adding an assistant.
LEMMA AssistantSound ==
    ASSUME NEW W, Words \subseteq W, NEW a \in Passes(W), Sound(a), a.pending = {},
           NEW p \in Lines(W), p.role = "assistant"
    PROVE  Sound(AddAssistant(a, p))
<1> DEFINE c == a.out
           last == LastRole(c)
           i == LastIndex(c)
           b == Keep(a, Bridge)
           m == MergeText(c, i, p)
<1>1. c \in Chains(W) /\ Len(c) \in Nat
      /\ a \in [out : Chains(W), pending : SUBSET CallIds, at : Nat]
  BY ChainFacts DEF Passes
<1>2. last \in {"none", "user", "result", "assistant"}
  <2> SUFFICES ASSUME last # "none" PROVE last \in {"user", "result", "assistant"}
    OBVIOUS
  <2>1. i \in 1..Len(c) /\ ~IsPinned(c[i]) /\ c[i].role = last
    BY <1>1, RoleFacts
  <2>2. c[i].role \in Roles
    BY <1>1, <2>1, LineFacts
  <2> QED BY <2>1, <2>2 DEF Roles, IsPinned
<1>3. CASE last = "none"
  BY <1>3 DEF AddAssistant
<1>4. CASE last \in {"user", "result"}
  <2>1. AddAssistant(a, p) = Open(a, p)
    BY <1>4 DEF AddAssistant
  <2> QED BY <1>4, <2>1, OpenSound
<1>5. CASE last = "assistant"
  <2>1. Sound(Open(b, p))
    <3>1. Bridge \in Lines(W) /\ Bridge.role = "user"
      BY MadeFacts DEF Bridge, User, Payload
    <3>2. b \in Passes(W) /\ Sound(b)
      BY <3>1, KeepFacts, PinnedSound
    <3>3. b.pending = {} /\ b.out = Append(c, Bridge)
      BY <1>1 DEF Keep
    <3>4. LastRole(b.out) = "user"
      <4> DEFINE d == Append(c, Bridge)
      <4>1. d \in Chains(W)
        BY <1>1, <3>1, ChainFacts
      <4>2. Len(d) = Len(c) + 1 /\ d[Len(c) + 1] = Bridge
        BY <1>1, <3>1, AppendProperties DEF Chains
      <4>3. Len(d) \in 1..Len(d) /\ \A j \in (Len(d) + 1)..Len(d) : FALSE
        BY <1>1, <4>2
      <4> HIDE DEF d
      <4>4. ~IsPinned(d[Len(d)]) /\ d[Len(d)].role = "user"
        BY <3>1, <4>2 DEF IsPinned
      <4>5. LastRole(d) = "user"
        BY <4>1, <4>3, <4>4, LastOf
      <4> QED BY <3>3, <4>5 DEF d
    <3> HIDE DEF b
    <3> QED BY <3>2, <3>3, <3>4, OpenSound
  <2>2. Sound([a EXCEPT !.out = m])
    <3>1. i \in 1..Len(c) /\ c[i] \in Lines(W) /\ c[i].role = "assistant"
      BY <1>1, <1>5, RoleFacts, ChainFacts
    <3>2. m \in Chains(W)
      <4> HIDE DEF i
      <4> QED BY <1>1, <3>1, MergeFacts
    <3>3. Len(m) = Len(c) /\ Alike(c, m, Len(c))
      <4> DEFINE line == [c[i] EXCEPT !.text = @ \cup p.text]
      <4>1. line.role = c[i].role /\ line.calls = c[i].calls /\ line.results = c[i].results
        BY <3>1 DEF Lines
      <4>2. m = [c EXCEPT ![i] = line]
        BY <1>1, <3>1, ChainFacts DEF MergeText
      <4> HIDE DEF i, m, line, c
      <4>3. line \in Lines(W)
        <5>1. c[i].text \cup p.text \in SUBSET W /\ c[i].text \cup p.text \subseteq Words
          BY <3>1 DEF Lines
        <5>2. line = [c[i] EXCEPT !.text = c[i].text \cup p.text]
          BY DEF line
        <5> QED BY <3>1, <5>1, <5>2, ChangedFacts
      <4>4. Len(m) = Len(c) /\ \A j \in 1..Len(c) : m[j] = IF j = i THEN line ELSE c[j]
        BY <1>1, <3>1, <4>2, <4>3, ExceptSeq DEF Chains
      <4> QED BY <4>1, <4>4 DEF Alike
    <3> HIDE DEF m, i
    <3>4. Follows(m) /\ Owned(m) /\ Met(m, {}, a.at)
      BY <1>1, <3>2, <3>3, AlikeSettled DEF Sound
    <3> QED BY <1>1, <3>4 DEF Sound
  <2>3. AddAssistant(a, p) \in {a, Open(b, p), [a EXCEPT !.out = m]}
    BY <1>5 DEF AddAssistant
  <2> HIDE DEF b, m
  <2> QED BY <2>1, <2>2, <2>3
<1> HIDE DEF last
<1> QED BY <1>2, <1>3, <1>4, <1>5

\* Each step of the pass keeps it sound,
LEMMA StepSound ==
    ASSUME NEW W, Words \subseteq W, NEW a \in Passes(W), Sound(a), NEW p \in Lines(W)
    PROVE  Sound(SanitizeStep(a, p))
<1>1. p.role \in Roles
  BY ChangedFacts
<1>2. DropPending(a) \in Passes(W) /\ DropPending(a).pending = {} /\ Sound(DropPending(a))
  BY DropFacts, DropSound
<1>3. CASE IsPinned(p)
  <2>1. SanitizeStep(a, p) = Keep(a, p)
    BY <1>3 DEF SanitizeStep, IsPinned
  <2> QED BY <1>3, <2>1, PinnedSound
<1>4. CASE p.role = "user"
  <2>1. SanitizeStep(a, p) = Keep(DropPending(a), p)
    BY <1>4 DEF SanitizeStep, IsPinned
  <2> QED BY <1>2, <1>4, <2>1, PinnedSound
<1>5. CASE p.role = "assistant"
  <2>1. SanitizeStep(a, p) = AddAssistant(DropPending(a), p)
    BY <1>5 DEF SanitizeStep, IsPinned
  <2> QED BY <1>2, <1>5, <2>1, AssistantSound
<1>6. CASE p.role = "result"
  <2>1. SanitizeStep(a, p) = AddResult(a, p)
    BY <1>6 DEF SanitizeStep, IsPinned
  <2> QED BY <2>1, ResultSound
<1> QED BY <1>1, <1>3, <1>4, <1>5, <1>6 DEF Roles, IsPinned

\* so that what comes out is settled, whatever went in.
LEMMA SanitizeSettles ==
    ASSUME NEW W, Words \subseteq W, NEW c \in Chains(W)
    PROVE  Settled(Sanitize(c))
<1> DEFINE b == [out |-> <<>>, pending |-> {}, at |-> 0]
           N == Len(c)
<1>1. b \in Passes(W) /\ N \in Nat /\ \A n \in 1..N : c[n] \in Lines(W)
  BY ChainFacts DEF Passes
<1>2. Sound(b)
  BY DEF Sound, Follows, Owned, Met
<1> HIDE DEF b
<1>3. PICK f \in [0..N -> Passes(W)] :
         Sanitizing(f, b, c) /\ Folded(SanitizeStep, b, c) = f[N]
  BY <1>1, SanitizeRuns
<1> DEFINE T == {n \in 0..N : Sound(f[n])}
<1>4. 0 \in T
  BY <1>1, <1>2, <1>3 DEF Sanitizing
<1>5. ASSUME NEW n \in 0..(N - 1), n \in T PROVE n + 1 \in T
  <2>1. n + 1 \in 0..N /\ n + 1 # 0 /\ (n + 1) - 1 = n /\ n + 1 \in 1..N /\ n \in 0..N
    BY <1>1
  <2>2. f[n + 1] = SanitizeStep(f[n], c[n + 1])
    BY <1>3, <2>1 DEF Sanitizing
  <2>3. f[n] \in Passes(W) /\ Sound(f[n]) /\ c[n + 1] \in Lines(W)
    BY <1>1, <1>3, <1>5, <2>1
  <2> QED BY <2>1, <2>2, <2>3, StepSound
<1>6. 0..N \subseteq T
  <2> HIDE DEF T, N
  <2> QED BY <1>1, <1>4, <1>5, SetInduction
<1>7. f[N] \in Passes(W) /\ Sound(f[N])
  BY <1>1, <1>3, <1>6
<1> DEFINE done == DropPending(f[N])
<1>8. Sound(done) /\ done.pending = {}
  BY <1>7, DropFacts, DropSound
<1>9. Sanitize(c) = done.out
  BY <1>3 DEF Sanitize, b
<1> HIDE DEF done
<1>10. Met(done.out, {}, 0)
  BY <1>8 DEF Sound, Met
<1> QED BY <1>8, <1>9, <1>10 DEF Sound, Settled

\* sanitize_payload_chain makes of any chain one that can be sent, whatever was
\* lost, cut off, repeated or put in the wrong order on the way.
THEOREM SanitizedSendable ==
    ASSUME NEW W, Words \subseteq W, NEW c \in Chains(W)
    PROVE  Sendable(Sanitize(c))
BY SanitizeFacts, SanitizeSettles, SettledSendable

\* The group a result is in is that of its owner.
LEMMA OneOwner ==
    ASSUME NEW W, NEW c \in Chains(W), NEW g \in 1..Len(c), NEW i \in 1..Len(c), NEW j \in 1..Len(c),
           c[g].role = "assistant", c[i].role = "assistant", InGroup(c, g, j), InGroup(c, i, j)
    PROVE  g = i
<1>1. Len(c) \in Nat
  BY ChainFacts
<1>2. \A h, k \in 1..Len(c) :
         c[k].role = "assistant" /\ InGroup(c, h, j) /\ InGroup(c, k, j) => ~(h < k)
  <2> SUFFICES ASSUME NEW h \in 1..Len(c), NEW k \in 1..Len(c), c[k].role = "assistant",
                      InGroup(c, h, j), InGroup(c, k, j), h < k
               PROVE  FALSE
    OBVIOUS
  <2>1. k \in (h + 1)..j
    BY <1>1 DEF InGroup
  <2> QED BY <2>1 DEF InGroup, Continues, IsPinned
<1>3. ~(g < i) /\ ~(i < g)
  BY <1>2
<1> QED BY <1>1, <1>3

\* One settled chain after the other is settled.
LEMMA ConcatSettles ==
    ASSUME NEW W, NEW c \in Chains(W), NEW d \in Chains(W), Settled(c), Settled(d)
    PROVE  Settled(c \o d)
<1> DEFINE e == c \o d
           M == Len(c)
           N == Len(d)
<1>1. M \in Nat /\ N \in Nat
  BY ChainFacts
<1>2. /\ Len(e) = M + N /\ e \in Chains(W)
      /\ \A i \in 1..(M + N) : e[i] = IF i <= M THEN c[i] ELSE d[i - M]
  BY ConcatProperties DEF Chains
<1> HIDE DEF e
<1>3. \A i \in 1..M : i \in 1..(M + N) /\ e[i] = c[i]
  BY <1>1, <1>2
<1>4. \A i \in 1..N : M + i \in 1..(M + N) /\ e[M + i] = d[i]
  <2> SUFFICES ASSUME NEW i \in 1..N PROVE M + i \in 1..(M + N) /\ e[M + i] = d[i]
    OBVIOUS
  <2>1. M + i \in 1..(M + N) /\ ~(M + i <= M) /\ (M + i) - M = i
    BY <1>1
  <2> QED BY <1>2, <2>1
<1>5. \A i \in 1..(M + N) : i \in 1..M \/ \E k \in 1..N : i = M + k
  <2> SUFFICES ASSUME NEW i \in 1..(M + N), i \notin 1..M PROVE \E k \in 1..N : i = M + k
    OBVIOUS
  <2>1. i - M \in 1..N /\ i = M + (i - M)
    BY <1>1
  <2> QED BY <2>1
<1>6. \A i, j \in 1..M : (InGroup(e, i, j) <=> InGroup(c, i, j)) /\ (Gap(e, i, j) <=> Gap(c, i, j))
  <2>1. Alike(c, e, M)
    BY <1>3 DEF Alike
  <2> HIDE DEF M
  <2> QED BY <1>1, <2>1, AlikeGroups
<1>7. \A i, j \in 1..N : (InGroup(e, M + i, M + j) <=> InGroup(d, i, j))
                         /\ (Gap(e, M + i, M + j) <=> Gap(d, i, j))
  <2> SUFFICES ASSUME NEW i \in 1..N, NEW j \in 1..N
               PROVE  (InGroup(e, M + i, M + j) <=> InGroup(d, i, j))
                      /\ (Gap(e, M + i, M + j) <=> Gap(d, i, j))
    OBVIOUS
  <2>1. \A k \in (i + 1)..j : k \in 1..N /\ M + k \in ((M + i) + 1)..(M + j)
    BY <1>1
  <2>2. \A k \in ((M + i) + 1)..(M + j) : k - M \in (i + 1)..j /\ M + (k - M) = k
    BY <1>1
  <2>3. \A k \in (i + 1)..(j - 1) : k \in 1..N /\ M + k \in ((M + i) + 1)..((M + j) - 1)
    BY <1>1
  <2>4. \A k \in ((M + i) + 1)..((M + j) - 1) : k - M \in (i + 1)..(j - 1) /\ M + (k - M) = k
    BY <1>1
  <2>5. i < j <=> M + i < M + j
    BY <1>1
  <2> HIDE DEF M, N
  <2>6. ASSUME NEW k \in (i + 1)..j PROVE e[M + k] = d[k]
    BY <1>4, <2>1
  <2>7. ASSUME NEW k \in (i + 1)..(j - 1) PROVE e[M + k] = d[k]
    BY <1>4, <2>3
  <2>8. (\A k \in ((M + i) + 1)..(M + j) : Continues(e[k])) <=> \A k \in (i + 1)..j : Continues(d[k])
    BY <2>1, <2>2, <2>6
  <2>9. Gap(e, M + i, M + j) <=> Gap(d, i, j)
    BY <2>3, <2>4, <2>7 DEF Gap
  <2> QED BY <1>4, <2>5, <2>8, <2>9 DEF InGroup
<1>8. \A i \in 1..M : \A j \in 1..(i - 1) : j \in 1..M
  BY <1>1
<1>9. \A i \in 1..N : \A j \in 1..(i - 1) : j \in 1..N /\ M + j \in 1..((M + i) - 1)
  BY <1>1
<1>10. ASSUME NEW j \in 1..N, d[j].role = "result"
       PROVE  \A i \in 1..M : ~InGroup(e, i, M + j)
  <2> SUFFICES ASSUME NEW i \in 1..M, InGroup(e, i, M + j) PROVE FALSE
    OBVIOUS
  <2>1. PICK g \in 1..(j - 1) : Owns(d, g, j)
    BY <1>10 DEF Settled, Owned
  <2>2. g \in 1..N /\ M + g \in (i + 1)..(M + j)
    BY <1>1, <2>1
  <2> QED BY <1>4, <2>1, <2>2 DEF Owns, InGroup, Continues, IsPinned
<1>11. Follows(e)
  <2>1. ASSUME NEW i \in 1..M, e[i].role = "assistant"
        PROVE  \E j \in 1..(i - 1) : e[j].role \in {"user", "result"} /\ Gap(e, j, i)
    <3>1. PICK j \in 1..(i - 1) : c[j].role \in {"user", "result"} /\ Gap(c, j, i)
      BY <1>3, <2>1 DEF Settled, Follows
    <3> QED BY <1>3, <1>6, <1>8, <3>1
  <2>2. ASSUME NEW i \in 1..N, e[M + i].role = "assistant"
        PROVE  \E j \in 1..((M + i) - 1) : e[j].role \in {"user", "result"} /\ Gap(e, j, M + i)
    <3>1. PICK j \in 1..(i - 1) : d[j].role \in {"user", "result"} /\ Gap(d, j, i)
      BY <1>4, <2>2 DEF Settled, Follows
    <3> QED BY <1>4, <1>7, <1>9, <3>1
  <2> HIDE DEF M, N
  <2>3. ASSUME NEW i \in 1..(M + N), e[i].role = "assistant"
        PROVE  \E j \in 1..(i - 1) : e[j].role \in {"user", "result"} /\ Gap(e, j, i)
    <3>1. CASE i \in 1..M
      BY <2>1, <2>3, <3>1
    <3>2. CASE \E k \in 1..N : i = M + k
      BY <2>2, <2>3, <3>2
    <3> QED BY <1>5, <3>1, <3>2
  <2> QED BY <1>2, <2>3 DEF Follows
<1>12. Owned(e)
  <2>1. ASSUME NEW j \in 1..M, e[j].role = "result"
        PROVE  \E i \in 1..(j - 1) : Owns(e, i, j)
    <3>1. PICK i \in 1..(j - 1) : Owns(c, i, j)
      BY <1>3, <2>1 DEF Settled, Owned
    <3>2. i \in 1..M
      BY <1>8
    <3> HIDE DEF M, N
    <3>3. ASSUME NEW k \in 1..(M + N), InGroup(e, i, k), k # j
          PROVE  e[k].results \cap e[j].results = {}
      <4>1. CASE k \in 1..M
        BY <1>3, <1>6, <3>1, <3>2, <3>3, <4>1 DEF Owns, M
      <4>2. CASE \E l \in 1..N : k = M + l
        <5>1. PICK l \in 1..N : k = M + l
          BY <4>2
        <5>2. d[l].role = "result"
          BY <1>4, <3>3, <5>1 DEF InGroup
        <5> QED BY <1>10, <3>2, <3>3, <5>1, <5>2
      <4> QED BY <1>5, <4>1, <4>2
    <3> QED BY <1>2, <1>3, <1>6, <3>1, <3>2, <3>3 DEF Owns
  <2>2. ASSUME NEW j \in 1..N, e[M + j].role = "result"
        PROVE  \E i \in 1..((M + j) - 1) : Owns(e, i, M + j)
    <3>1. PICK i \in 1..(j - 1) : Owns(d, i, j)
      BY <1>4, <2>2 DEF Settled, Owned
    <3>2. i \in 1..N /\ M + i \in 1..((M + j) - 1)
      BY <1>9
    <3>3. ASSUME NEW k \in 1..(M + N), InGroup(e, M + i, k), k # M + j
          PROVE  e[k].results \cap e[M + j].results = {}
      <4>1. k \notin 1..M
        BY <1>1, <3>2, <3>3 DEF InGroup
      <4>2. PICK l \in 1..N : k = M + l
        BY <1>5, <4>1
      <4>3. InGroup(d, i, l) /\ l # j
        BY <1>7, <3>2, <3>3, <4>2
      <4> QED BY <1>4, <3>1, <4>2, <4>3 DEF Owns
    <3> HIDE DEF M, N
    <3>4. Owns(e, M + i, M + j)
      BY <1>2, <1>4, <1>7, <3>1, <3>2, <3>3 DEF Owns
    <3> QED BY <3>2, <3>4
  <2> HIDE DEF M, N
  <2>3. ASSUME NEW j \in 1..(M + N), e[j].role = "result"
        PROVE  \E i \in 1..(j - 1) : Owns(e, i, j)
    <3>1. CASE j \in 1..M
      BY <2>1, <2>3, <3>1
    <3>2. CASE \E k \in 1..N : j = M + k
      BY <2>2, <2>3, <3>2
    <3> QED BY <1>5, <3>1, <3>2
  <2> QED BY <1>2, <2>3 DEF Owned
<1>13. Met(e, {}, 0)
  <2>1. ASSUME NEW i \in 1..M, NEW id \in e[i].calls
        PROVE  \E j \in 1..(M + N) : InGroup(e, i, j) /\ id \in e[j].results
    <3>1. PICK j \in 1..M : InGroup(c, i, j) /\ id \in c[j].results
      BY <1>3, <2>1 DEF Settled, Met
    <3> QED BY <1>3, <1>6, <3>1
  <2>2. ASSUME NEW i \in 1..N, NEW id \in e[M + i].calls
        PROVE  \E j \in 1..(M + N) : InGroup(e, M + i, j) /\ id \in e[j].results
    <3>1. PICK j \in 1..N : InGroup(d, i, j) /\ id \in d[j].results
      BY <1>4, <2>2 DEF Settled, Met
    <3> QED BY <1>4, <1>7, <3>1
  <2> HIDE DEF M, N
  <2> QED BY <1>2, <1>5, <2>1, <2>2 DEF Met
<1> QED BY <1>11, <1>12, <1>13 DEF Settled, e

\* Pinned payloads alone are settled, and so is a chain without those it starts
\* with.
LEMMA PinnedPrefix ==
    ASSUME NEW W, NEW c \in Chains(W), NEW n \in 0..Len(c), \A k \in 1..n : IsPinned(c[k])
    PROVE  /\ Settled(SubSeq(c, 1, n))
           /\ Settled(c) => Settled(SubSeq(c, n + 1, Len(c)))
<1> DEFINE a == SubSeq(c, 1, n)
           b == SubSeq(c, n + 1, Len(c))
           N == Len(c) - n
<1>1. Len(c) \in Nat /\ N \in Nat /\ \A i \in 1..Len(c) : c[i] \in Lines(W)
  BY ChainFacts
<1>2. a \in Chains(W) /\ Len(a) = n /\ \A k \in 1..n : a[k] = c[k]
  <2>1. \A i \in 1..n : c[i] \in Lines(W)
    BY <1>1
  <2>2. /\ a \in Seq(Lines(W)) /\ Len(a) = (IF 1 <= n THEN n - 1 + 1 ELSE 0)
        /\ \A k \in 1..(n - 1 + 1) : a[k] = c[1 + k - 1]
    BY <1>1, <2>1, SubSeqProperties
  <2> HIDE DEF a
  <2> QED BY <1>1, <2>2 DEF Chains
<1>3. b \in Chains(W) /\ Len(b) = N /\ \A k \in 1..N : b[k] = c[n + k]
  <2>1. \A i \in (n + 1)..Len(c) : c[i] \in Lines(W)
    BY <1>1
  <2>2. /\ b \in Seq(Lines(W))
        /\ Len(b) = (IF n + 1 <= Len(c) THEN Len(c) - (n + 1) + 1 ELSE 0)
        /\ \A k \in 1..(Len(c) - (n + 1) + 1) : b[k] = c[(n + 1) + k - 1]
    BY <1>1, <2>1, SubSeqProperties
  <2> HIDE DEF b
  <2>3. \A k \in 1..N : k \in 1..(Len(c) - (n + 1) + 1) /\ (n + 1) + k - 1 = n + k
    BY <1>1
  <2> HIDE DEF b
  <2>4. b \in Chains(W)
    BY <2>2 DEF Chains
  <2>5. Len(b) = N
    BY <1>1, <2>2
  <2>6. \A k \in 1..N : b[k] = c[n + k]
    <3>1. \A k \in 1..N : b[k] = c[(n + 1) + k - 1]
      BY <2>2, <2>3
    <3>2. \A k \in 1..N : (n + 1) + k - 1 = n + k
      BY <1>1
    <3> QED BY <3>1, <3>2
  <2> QED BY <2>4, <2>5, <2>6
<1> HIDE DEF a, b
<1>4. Settled(a)
  <2>1. ASSUME NEW i \in 1..n
        PROVE  a[i].role \notin {"assistant", "result"} /\ a[i].calls = {}
    <3>1. IsPinned(a[i])
      BY <1>2
    <3> QED BY <1>2, <3>1, LineFacts DEF IsPinned
  <2> QED BY <1>2, <2>1 DEF Settled, Follows, Owned, Met
<1>5. ASSUME Settled(c) PROVE Settled(b)
  <2>1. \A i \in 1..N : n + i \in 1..Len(c)
    BY <1>1
  <2>2. \A i \in 1..Len(c) : ~IsPinned(c[i]) => i - n \in 1..N /\ n + (i - n) = i
    BY <1>1
  <2>3. ASSUME NEW i \in 1..N, NEW j \in 1..N
        PROVE  (InGroup(b, i, j) <=> InGroup(c, n + i, n + j)) /\ (Gap(b, i, j) <=> Gap(c, n + i, n + j))
    <3>1. \A k \in (i + 1)..j : k \in 1..N /\ n + k \in ((n + i) + 1)..(n + j)
      BY <1>1
    <3>2. \A k \in ((n + i) + 1)..(n + j) : k - n \in (i + 1)..j /\ n + (k - n) = k
      BY <1>1
    <3>3. \A k \in (i + 1)..(j - 1) : k \in 1..N /\ n + k \in ((n + i) + 1)..((n + j) - 1)
      BY <1>1
    <3>4. \A k \in ((n + i) + 1)..((n + j) - 1) : k - n \in (i + 1)..(j - 1) /\ n + (k - n) = k
      BY <1>1
    <3>5. i < j <=> n + i < n + j
      BY <1>1
    <3> HIDE DEF N
    <3>6. (\A k \in ((n + i) + 1)..(n + j) : Continues(c[k])) <=> \A k \in (i + 1)..j : Continues(b[k])
      BY <1>3, <3>1, <3>2
    <3>7. Gap(b, i, j) <=> Gap(c, n + i, n + j)
      BY <1>3, <3>3, <3>4 DEF Gap
    <3> QED BY <1>3, <3>5, <3>6, <3>7 DEF InGroup
  <2>4. ASSUME NEW i \in 1..N, NEW j \in 1..((n + i) - 1), ~IsPinned(c[j])
        PROVE  j - n \in 1..(i - 1) /\ j - n \in 1..N /\ n + (j - n) = j
    BY <1>1, <2>4
  <2>5. Follows(b)
    <3> SUFFICES ASSUME NEW i \in 1..N, b[i].role = "assistant"
                 PROVE  \E j \in 1..(i - 1) : b[j].role \in {"user", "result"} /\ Gap(b, j, i)
      BY <1>3 DEF Follows
    <3>1. PICK j \in 1..((n + i) - 1) : c[j].role \in {"user", "result"} /\ Gap(c, j, n + i)
      BY <1>3, <1>5, <2>1 DEF Settled, Follows
    <3>2. j - n \in 1..(i - 1) /\ j - n \in 1..N /\ n + (j - n) = j
      BY <2>4, <3>1 DEF IsPinned
    <3> HIDE DEF N
    <3> QED BY <1>3, <2>3, <3>1, <3>2
  <2>6. Owned(b)
    <3> SUFFICES ASSUME NEW j \in 1..N, b[j].role = "result"
                 PROVE  \E i \in 1..(j - 1) : Owns(b, i, j)
      BY <1>3 DEF Owned
    <3>1. PICK i \in 1..((n + j) - 1) : Owns(c, i, n + j)
      BY <1>3, <1>5, <2>1 DEF Settled, Owned
    <3>2. i - n \in 1..(j - 1) /\ i - n \in 1..N /\ n + (i - n) = i
      BY <2>4, <3>1 DEF IsPinned, Owns
    <3>3. ASSUME NEW k \in 1..N, InGroup(b, i - n, k), k # j
          PROVE  b[k].results \cap b[j].results = {}
      <4>1. InGroup(c, i, n + k) /\ n + k # n + j /\ n + k \in 1..Len(c)
        BY <1>1, <2>1, <2>3, <3>2, <3>3
      <4> QED BY <1>3, <3>1, <4>1 DEF Owns
    <3> HIDE DEF N
    <3>4. Owns(b, i - n, j)
      BY <1>3, <2>3, <3>1, <3>2, <3>3 DEF Owns
    <3> QED BY <3>2, <3>4
  <2>7. Met(b, {}, 0)
    <3> SUFFICES ASSUME NEW i \in 1..N, NEW id \in b[i].calls
                 PROVE  \E j \in 1..N : InGroup(b, i, j) /\ id \in b[j].results
      BY <1>3 DEF Met
    <3>1. PICK j \in 1..Len(c) : InGroup(c, n + i, j) /\ id \in c[j].results
      BY <1>3, <1>5, <2>1 DEF Settled, Met
    <3>2. j - n \in 1..N /\ n + (j - n) = j
      BY <2>2, <3>1 DEF InGroup, IsPinned
    <3> HIDE DEF N
    <3> QED BY <1>3, <2>3, <3>1, <3>2
  <2> QED BY <2>5, <2>6, <2>7 DEF Settled
<1> QED BY <1>4, <1>5 DEF a, b

\* The history put in after the pinned payloads leaves a settled chain.
LEMMA InjectSettles ==
    ASSUME NEW W, NEW c \in Chains(W), NEW d \in Chains(W), Settled(c), Settled(d)
    PROVE  Settled(Inject(c, d))
<1> DEFINE rest  == {i \in DOMAIN c : ~IsPinned(c[i])}
           first == CHOOSE i \in rest : \A j \in rest : i <= j
           split == IF rest = {} THEN Len(c) ELSE first - 1
           a     == SubSeq(c, 1, split)
           b     == SubSeq(c, split + 1, Len(c))
<1>1. Len(c) \in Nat /\ rest \in SUBSET (1..Len(c)) /\ \A i \in 1..Len(c) : i \in rest <=> ~IsPinned(c[i])
  BY ChainFacts
<1>2. Inject(c, d) = a \o d \o b
  BY DEF Inject
<1> HIDE DEF rest
<1>3. rest # {} => first \in rest /\ \A j \in rest : first <= j
  BY <1>1, EndFacts
<1>4. split \in 0..Len(c) /\ \A k \in 1..split : IsPinned(c[k])
  <2> HIDE DEF first
  <2>1. CASE rest = {}
    BY <1>1, <2>1
  <2>2. CASE rest # {}
    <3>1. first \in 1..Len(c) /\ split = first - 1
      BY <1>1, <1>3, <2>2
    <3>2. \A k \in 1..split : k \in 1..Len(c) /\ ~(first <= k)
      BY <1>1, <3>1
    <3> QED BY <1>1, <1>3, <2>2, <3>1, <3>2
  <2> QED BY <2>1, <2>2
<1> HIDE DEF split, first
<1>5. Settled(a) /\ Settled(b)
  BY <1>4, PinnedPrefix
<1>6. a \in Chains(W)
  BY <1>4, PartFacts
<1>7. b \in Chains(W)
  <2>1. split + 1 \in Nat \ {0} /\ Len(c) \in 0..Len(c)
    BY <1>1, <1>4
  <2> QED BY <2>1, PartFacts
<1> HIDE DEF a, b
<1>8. a \o d \in Chains(W) /\ Settled(a \o d)
  BY <1>5, <1>6, PartFacts, ConcatSettles
<1>9. Settled((a \o d) \o b)
  BY <1>5, <1>7, <1>8, ConcatSettles
<1> QED BY <1>2, <1>9

\* Leaving out the markers of a settled chain leaves it settled.
LEMMA UnmarkedSettles ==
    ASSUME NEW W, NEW c \in Chains(W), Settled(c)
    PROVE  Settled(Those(c, LAMBDA p : ~IsSuspend(p)))
<1> DEFINE I == {i \in DOMAIN c : ~IsSuspend(c[i])}
           e == Only(c, I)
<1>1. Len(c) \in Nat /\ DOMAIN c = 1..Len(c) /\ c \in Seq(Lines(W))
  BY ChainFacts
<1>2. Those(c, LAMBDA p : ~IsSuspend(p)) = e
  BY DEF Those
<1>3. I \in SUBSET (1..Len(c)) /\ \A i \in 1..Len(c) : i \in I <=> ~IsSuspend(c[i])
  BY <1>1
<1> HIDE DEF I
<1>4. e \in Seq(Lines(W)) /\ \E at : Picked(e, c, I, at)
  BY <1>1, <1>3, OnlyPicks
<1> HIDE DEF e
<1>5. PICK at : Picked(e, c, I, at)
  BY <1>4
<1>6. Len(e) \in Nat /\ DOMAIN e = 1..Len(e)
  BY <1>4, LenProperties
<1>7. \A n \in 1..Len(e) : at[n] \in 1..Len(c) /\ ~IsSuspend(c[at[n]]) /\ e[n] = c[at[n]]
  BY <1>3, <1>5 DEF Picked
<1>8. \A m, n \in 1..Len(e) : m < n <=> at[m] < at[n]
  <2>1. \A m, n \in 1..Len(e) : m < n => at[m] < at[n]
    BY <1>5 DEF Picked
  <2>2. ASSUME NEW m \in 1..Len(e), NEW n \in 1..Len(e), at[m] < at[n] PROVE m < n
    <3>1. ~(n < m) /\ n # m
      BY <1>7, <2>1, <2>2
    <3> QED BY <1>6, <3>1
  <2> QED BY <2>1, <2>2
<1>9. \A i \in 1..Len(c) : ~IsSuspend(c[i]) => \E n \in 1..Len(e) : at[n] = i
  BY <1>3, <1>5 DEF Picked
<1>10. ASSUME NEW m \in 1..Len(e), NEW n \in 1..Len(e)
       PROVE  /\ InGroup(c, at[m], at[n]) => InGroup(e, m, n)
              /\ Gap(c, at[m], at[n]) => Gap(e, m, n)
  <2>1. ASSUME NEW k \in (m + 1)..n
        PROVE  k \in 1..Len(e) /\ at[k] \in (at[m] + 1)..at[n]
    <3>1. k \in 1..Len(e) /\ m < k /\ ~(n < k)
      BY <1>6
    <3>2. at[m] < at[k] /\ ~(at[n] < at[k])
      BY <1>8, <3>1
    <3> QED BY <1>7, <3>1, <3>2
  <2>2. ASSUME NEW k \in (m + 1)..(n - 1)
        PROVE  k \in 1..Len(e) /\ at[k] \in (at[m] + 1)..(at[n] - 1)
    <3>1. k \in 1..Len(e) /\ m < k /\ k < n
      BY <1>6
    <3>2. at[m] < at[k] /\ at[k] < at[n]
      BY <1>8, <3>1
    <3> QED BY <1>7, <3>1, <3>2
  <2>3. ASSUME InGroup(c, at[m], at[n]) PROVE InGroup(e, m, n)
    <3>1. \A k \in (m + 1)..n : Continues(e[k])
      BY <1>7, <2>1, <2>3 DEF InGroup
    <3> QED BY <1>7, <1>8, <2>3, <3>1 DEF InGroup
  <2>4. ASSUME Gap(c, at[m], at[n]) PROVE Gap(e, m, n)
    BY <1>7, <2>2, <2>4 DEF Gap
  <2> QED BY <2>3, <2>4
<1>11. \A i \in 1..Len(c), j \in 1..Len(c) : Owns(c, i, j) => ~IsSuspend(c[i])
  BY DEF Owns, IsSuspend, HasCalls
<1>12. \A i \in 1..Len(c) : c[i].role \in {"user", "result"} => ~IsSuspend(c[i])
  BY DEF IsSuspend
<1>13. \A i \in 1..Len(c) : \A j \in 1..(i - 1) : j \in 1..Len(c)
  BY <1>1
<1>14. ASSUME NEW n \in 1..Len(e), e[n].role = "result"
       PROVE  \E m \in 1..(n - 1) : m \in 1..Len(e) /\ Owns(c, at[m], at[n])
  <2>1. PICK i \in 1..(at[n] - 1) : Owns(c, i, at[n])
    BY <1>7, <1>14 DEF Settled, Owned
  <2>2. i \in 1..Len(c)
    BY <1>7, <1>13
  <2>3. PICK m \in 1..Len(e) : at[m] = i
    BY <1>7, <1>9, <1>11, <2>1, <2>2
  <2>4. m < n
    BY <1>7, <1>8, <2>3
  <2> QED BY <1>6, <2>1, <2>3, <2>4
<1>15. ASSUME NEW m \in 1..Len(e), NEW n \in 1..Len(e), e[m].role = "assistant", InGroup(e, m, n)
       PROVE  InGroup(c, at[m], at[n])
  <2>1. PICK x \in 1..(n - 1) : x \in 1..Len(e) /\ Owns(c, at[x], at[n])
    BY <1>14, <1>15 DEF InGroup
  <2>2. c[at[x]].role = "assistant" /\ InGroup(c, at[x], at[n])
    BY <2>1 DEF Owns
  <2>3. InGroup(e, x, n) /\ e[x].role = "assistant"
    BY <1>7, <1>10, <2>1, <2>2
  <2>4. e \in Chains(W)
    BY <1>4 DEF Chains
  <2>5. x = m
    BY <1>15, <2>1, <2>3, <2>4, OneOwner
  <2> QED BY <2>2, <2>5
<1>16. Follows(e)
  <2> SUFFICES ASSUME NEW n \in 1..Len(e), e[n].role = "assistant"
               PROVE  \E j \in 1..(n - 1) : e[j].role \in {"user", "result"} /\ Gap(e, j, n)
    BY DEF Follows
  <2>1. PICK j \in 1..(at[n] - 1) : c[j].role \in {"user", "result"} /\ Gap(c, j, at[n])
    BY <1>7 DEF Settled, Follows
  <2>2. j \in 1..Len(c)
    BY <1>7, <1>13
  <2>3. PICK m \in 1..Len(e) : at[m] = j
    BY <1>9, <1>12, <2>1, <2>2
  <2>4. m < n
    BY <1>7, <1>8, <2>3
  <2>5. m \in 1..(n - 1)
    BY <1>6, <2>4
  <2> QED BY <1>7, <1>10, <2>1, <2>3, <2>5
<1>17. Owned(e)
  <2> SUFFICES ASSUME NEW n \in 1..Len(e), e[n].role = "result"
               PROVE  \E m \in 1..(n - 1) : Owns(e, m, n)
    BY DEF Owned
  <2>1. PICK m \in 1..(n - 1) : m \in 1..Len(e) /\ Owns(c, at[m], at[n])
    BY <1>14
  <2>2. e[m].role = "assistant" /\ InGroup(e, m, n)
        /\ e[n].results # {} /\ e[n].results \subseteq e[m].calls
    BY <1>7, <1>10, <2>1 DEF Owns
  <2>3. ASSUME NEW k \in 1..Len(e), InGroup(e, m, k), k # n
        PROVE  e[k].results \cap e[n].results = {}
    <3>1. InGroup(c, at[m], at[k])
      BY <1>15, <2>1, <2>2, <2>3
    <3>2. at[k] # at[n]
      <4>1. k < n \/ n < k
        BY <1>6, <2>3
      <4> QED BY <1>7, <1>8, <4>1
    <3> QED BY <1>7, <2>1, <3>1, <3>2 DEF Owns
  <2> QED BY <2>2, <2>3 DEF Owns
<1>18. Met(e, {}, 0)
  <2> SUFFICES ASSUME NEW n \in 1..Len(e), NEW id \in e[n].calls
               PROVE  \E m \in 1..Len(e) : InGroup(e, n, m) /\ id \in e[m].results
    BY DEF Met
  <2>1. PICK j \in 1..Len(c) : InGroup(c, at[n], j) /\ id \in c[j].results
    BY <1>7 DEF Settled, Met
  <2>2. PICK m \in 1..Len(e) : at[m] = j
    BY <1>9, <1>12, <2>1 DEF InGroup
  <2> QED BY <1>7, <1>10, <2>1, <2>2
<1> QED BY <1>2, <1>16, <1>17, <1>18 DEF Settled

\* Lists of one element, one after the other.
LEMMA FlattenSingles ==
    ASSUME NEW S, NEW s \in Seq(S), NEW q, q = [j \in 1..Len(s) |-> <<s[j]>>]
    PROVE  FlattenSeq(q) = s
<1> DEFINE N == Len(s)
           Flattening(f) == f = [n \in 1..N |-> IF n = 1 THEN q[n] ELSE f[n - 1] \o q[n]]
           flat == CHOOSE f : Flattening(f)
           grown == [n \in 1..N |-> SubSeq(s, 1, n)]
<1>1. N \in Nat /\ \A n \in 1..N : s[n] \in S /\ q[n] = <<s[n]>>
  BY LenProperties, ElementOfSeq
<1>2. q \in Seq(Seq(S)) /\ Len(q) = N
  <2>1. \A n \in 1..N : <<s[n]>> \in Seq(S)
    BY <1>1
  <2> QED BY <1>1, <2>1
<1>3. CASE N = 0
  <2>1. q = <<>> /\ s = <<>>
    BY <1>2, <1>3, EmptySeq
  <2> QED BY <1>2, <1>3, <2>1 DEF FlattenSeq
<1>4. CASE N # 0
  <2>1. ASSUME NEW n \in 1..N
        PROVE  grown[n] = IF n = 1 THEN q[n] ELSE grown[n - 1] \o q[n]
    <3>1. CASE n = 1
      <4>1. SubSeq(s, 1, 1) = <<s[1]>>
        <5>1. \A i \in 1..1 : s[i] \in S
          BY <1>1, <3>1
        <5>2. /\ SubSeq(s, 1, 1) \in Seq(S) /\ Len(SubSeq(s, 1, 1)) = 1
              /\ \A i \in 1..1 : SubSeq(s, 1, 1)[i] = s[i]
          BY <5>1, SubSeqProperties
        <5>3. <<s[1]>> \in Seq(S) /\ Len(<<s[1]>>) = 1 /\ <<s[1]>>[1] = s[1]
          BY <5>1
        <5>4. \A i \in 1..Len(SubSeq(s, 1, 1)) : SubSeq(s, 1, 1)[i] = <<s[1]>>[i]
          BY <5>2, <5>3
        <5> QED BY <5>2, <5>3, <5>4, SeqEqual
      <4> QED BY <1>1, <3>1, <4>1
    <3>2. CASE n # 1
      <4>1. n - 1 \in 1..N /\ 1 \in 1..Len(s) /\ n \in 1..Len(s)
        BY <1>1, <3>2
      <4>2. SubSeq(s, 1, n) = SubSeq(s, 1, n - 1) \o <<s[n]>>
        BY <4>1, SubSeqRecursiveSecond
      <4> QED BY <1>1, <3>2, <4>1, <4>2
    <3> QED BY <3>1, <3>2
  <2>2. Flattening(grown)
    BY <2>1
  <2> HIDE DEF grown
  <2>3. Flattening(flat)
    BY <2>2
  <2>4. FlattenSeq(q) = flat[N]
    BY <1>2, <1>4 DEF FlattenSeq
  <2> HIDE DEF flat
  <2> DEFINE T == {n \in 0..N : n # 0 => flat[n] = grown[n]}
  <2>5. 0 \in T
    BY <1>1
  <2>6. ASSUME NEW n \in 0..(N - 1), n \in T PROVE n + 1 \in T
    <3>1. n + 1 \in 1..N /\ (n + 1) - 1 = n /\ n + 1 \in 0..N /\ (n # 0 => n + 1 # 1)
      BY <1>1
    <3>2. flat[n + 1] = IF n + 1 = 1 THEN q[n + 1] ELSE flat[n] \o q[n + 1]
      BY <2>3, <3>1
    <3>3. grown[n + 1] = IF n + 1 = 1 THEN q[n + 1] ELSE grown[n] \o q[n + 1]
      BY <2>1, <3>1
    <3> QED BY <2>6, <3>1, <3>2, <3>3
  <2>7. 0..N \subseteq T
    <3> HIDE DEF N, T
    <3> QED BY <1>1, <2>5, <2>6, SetInduction
  <2>8. flat[N] = grown[N]
    BY <1>1, <1>4, <2>7
  <2>9. grown[N] = s
    <3>1. N \in 1..N
      BY <1>1, <1>4
    <3> QED BY <3>1, SubSeqFull DEF grown
  <2> QED BY <2>4, <2>8, <2>9
<1> QED BY <1>3, <1>4

\* There is nothing to heal in a settled chain.
LEMMA SettledHealed ==
    ASSUME NEW W, NEW c \in Chains(W), Settled(c)
    PROVE  Heal(c) = c
<1> DEFINE N == Len(c)
<1>1. N \in Nat /\ DOMAIN c = 1..N /\ c \in Seq(Lines(W)) /\ \A i \in 1..N : c[i] \in Lines(W)
  BY ChainFacts
<1>2. ASSUME NEW i \in 1..N, c[i].role = "assistant" PROVE Missing(c, i) = {}
  <2>1. Ids(c[i]) = c[i].calls
    BY LineFacts DEF Ids
  <2>2. ASSUME NEW id \in c[i].calls PROVE \E j \in GroupOf(c, i) : id \in c[j].results
    <3>1. PICK j \in 1..N : InGroup(c, i, j) /\ id \in c[j].results
      BY <2>2 DEF Settled, Met
    <3>2. j \in (i + 1)..N
      BY <1>1, <3>1 DEF InGroup
    <3> QED BY <3>1, <3>2 DEF GroupOf, InGroup
  <2> QED BY <2>1, <2>2 DEF Missing, Matched
<1>3. ASSUME NEW i \in 1..N, c[i].role = "assistant" PROVE ~Broken(c, i) /\ ~Partial(c, i)
  BY <1>2, <1>3 DEF Broken, Partial
<1>4. ASSUME NEW j \in 1..N, Caller(c, j) # 0
      PROVE  /\ Caller(c, j) \in 1..(j - 1) /\ c[Caller(c, j)].role = "assistant"
             /\ \A k \in (Caller(c, j) + 1)..j : Continues(c[k])
  <2> DEFINE before == {i \in 1..(j - 1) : /\ c[i].role = "assistant" /\ Ids(c[i]) # {}
                                           /\ \A k \in (i + 1)..j : Continues(c[k])}
  <2>1. Caller(c, j) = IF before = {} THEN 0 ELSE CHOOSE i \in before : TRUE
    BY DEF Caller
  <2>2. Caller(c, j) \in before
    <3> HIDE DEF before
    <3> QED BY <1>4, <2>1
  <2> QED BY <2>2
<1>5. ASSUME NEW j \in 1..N PROVE HealedAt(c, j) = <<c[j]>>
  <2> DEFINE p == c[j]
             i == Caller(c, j)
  <2>1. p.role \in Roles /\ p \in Lines(W)
    BY <1>1, LineFacts
  <2>2. i # 0 => ~Broken(c, i)
    <3>1. \A k \in 1..(j - 1) : k \in 1..N
      BY <1>1
    <3> HIDE DEF i
    <3> QED BY <1>3, <1>4, <3>1 DEF i
  <2>3. CASE p.role = "assistant" /\ HasCalls(p)
    <3>1. Ids(p) # {}
      BY <2>3, LineFacts DEF Ids, HasCalls
    <3>2. ~Broken(c, j) /\ ~Partial(c, j)
      BY <1>3, <2>3
    <3> QED BY <2>3, <3>1, <3>2 DEF HealedAt, IsPinned
  <2>4. CASE p.role = "result"
    <3>1. PICK g \in 1..(j - 1) : Owns(c, g, j)
      BY <2>4 DEF Settled, Owned
    <3>2. g \in 1..N /\ Ids(c[g]) = c[g].calls /\ Ids(c[g]) # {}
      <4>1. g \in 1..N
        BY <1>1
      <4>2. c[g].calls # {} /\ NoId \notin c[g].calls
        BY <3>1, <4>1, LineFacts DEF Owns
      <4> QED BY <4>1, <4>2 DEF Ids
    <3>3. i # 0
      <4> DEFINE before == {k \in 1..(j - 1) : /\ c[k].role = "assistant" /\ Ids(c[k]) # {}
                                               /\ \A l \in (k + 1)..j : Continues(c[l])}
      <4>1. g \in before
        BY <3>1, <3>2 DEF Owns, InGroup
      <4>2. 0 \notin before
        OBVIOUS
      <4>3. Caller(c, j) = IF before = {} THEN 0 ELSE CHOOSE k \in before : TRUE
        BY DEF Caller
      <4> HIDE DEF before
      <4> QED BY <4>1, <4>2, <4>3
    <3>4. i = g
      <4>1. i \in 1..(j - 1) /\ c[i].role = "assistant" /\ \A k \in (i + 1)..j : Continues(c[k])
        BY <1>4, <3>3
      <4> HIDE DEF i
      <4>2. i \in 1..N /\ InGroup(c, i, j)
        BY <1>1, <2>4, <4>1 DEF InGroup
      <4> QED BY <3>1, <3>2, <4>1, <4>2, OneOwner DEF Owns
    <3>5. FirstAnswers(c, i, j) = p.results
      <4>1. p.results \subseteq Ids(c[g])
        BY <3>1, <3>2 DEF Owns
      <4>2. ASSUME NEW k \in GroupOf(c, g), k < j PROVE c[k].results \cap p.results = {}
        <5>1. k \in 1..N /\ g < k /\ \A l \in (g + 1)..k : Continues(c[l])
          BY <1>1, <3>2 DEF GroupOf
        <5>2. CASE c[k].role = "result"
          <6>1. InGroup(c, g, k) /\ k # j
            BY <4>2, <5>1, <5>2 DEF InGroup
          <6> QED BY <3>1, <5>1, <6>1 DEF Owns
        <5>3. CASE c[k].role # "result"
          BY <5>1, <5>3, LineFacts
        <5> QED BY <5>2, <5>3
      <4> HIDE DEF p
      <4> QED BY <3>4, <4>1, <4>2 DEF FirstAnswers, p
    <3>6. p.results # {}
      BY <3>1 DEF Owns
    <3>7. [p EXCEPT !.results = p.results] = p
      BY <2>1 DEF Lines
    <3>8. HealedAt(c, j) = <<[p EXCEPT !.results = FirstAnswers(c, i, j)]>>
      BY <2>2, <2>4, <3>3, <3>5, <3>6 DEF HealedAt, IsPinned
    <3> HIDE DEF i, p
    <3> QED BY <3>5, <3>7, <3>8 DEF p
  <2>5. CASE ~(p.role = "assistant" /\ HasCalls(p)) /\ p.role # "result"
    BY <2>2, <2>5 DEF HealedAt
  <2> QED BY <2>3, <2>4, <2>5
<1>6. [j \in DOMAIN c |-> HealedAt(c, j)] = [j \in 1..Len(c) |-> <<c[j]>>]
  BY <1>1, <1>5
<1>7. FlattenSeq([j \in DOMAIN c |-> HealedAt(c, j)]) = c
  BY <1>1, <1>6, FlattenSingles
<1> QED BY <1>7 DEF Heal

\* There is nobody to part in a settled chain.
LEMMA SettledRejoined ==
    ASSUME NEW W, Words \subseteq W, NEW c \in Chains(W), Settled(c)
    PROVE  Folded(Rejoin, <<>>, c) = c
<1> DEFINE N == Len(c)
<1>1. N \in Nat /\ c \in Seq(Lines(W)) /\ <<>> \in Chains(W) /\ \A n \in 1..N : c[n] \in Lines(W)
  BY ChainFacts
<1>2. PICK f \in [0..N -> Chains(W)] : Rejoining(f, <<>>, c) /\ Folded(Rejoin, <<>>, c) = f[N]
  BY <1>1, RejoinRuns
<1> DEFINE T == {n \in 0..N : f[n] = SubSeq(c, 1, n)}
<1>3. 0 \in T
  <2>1. SubSeq(c, 1, 0) = <<>>
    BY SubSeqEmpty
  <2>2. f[0] = <<>>
    BY <1>1, <1>2 DEF Rejoining
  <2> QED BY <1>1, <2>1, <2>2
<1>4. ASSUME NEW n \in 0..(N - 1), n \in T PROVE n + 1 \in T
  <2> DEFINE s == SubSeq(c, 1, n)
             p == c[n + 1]
  <2>1. n + 1 \in 0..N /\ n + 1 # 0 /\ (n + 1) - 1 = n /\ n + 1 \in 1..N /\ n \in 0..N
    BY <1>1
  <2>2. f[n + 1] = Rejoin(s, p)
    <3>1. f[n + 1] = Rejoin(f[n], p)
      BY <1>2, <2>1 DEF Rejoining
    <3> QED BY <1>4, <3>1
  <2>3. s \in Chains(W) /\ Len(s) = n /\ \A k \in 1..n : s[k] = c[k]
    <3>1. \A i \in 1..n : c[i] \in Lines(W)
      BY <1>1
    <3>2. /\ s \in Seq(Lines(W)) /\ Len(s) = (IF 1 <= n THEN n - 1 + 1 ELSE 0)
          /\ \A k \in 1..(n - 1 + 1) : s[k] = c[1 + k - 1]
      BY <1>1, <3>1, SubSeqProperties
    <3> HIDE DEF s
    <3> QED BY <1>1, <3>2 DEF Chains
  <2>4. p.role # "assistant" \/ LastRole(s) # "assistant"
    <3> SUFFICES ASSUME p.role = "assistant" PROVE LastRole(s) # "assistant"
      OBVIOUS
    <3>1. PICK j \in 1..((n + 1) - 1) : c[j].role \in {"user", "result"} /\ Gap(c, j, n + 1)
      BY <2>1 DEF Settled, Follows
    <3>2. j \in 1..n /\ s[j] = c[j] /\ ~IsPinned(s[j])
      BY <2>1, <2>3, <3>1 DEF IsPinned
    <3> HIDE DEF s, p
    <3>3. \A k \in (j + 1)..Len(s) : IsPinned(s[k])
      <4>1. \A k \in (j + 1)..n : k \in (j + 1)..((n + 1) - 1) /\ k \in 1..n
        BY <1>1
      <4> QED BY <2>3, <3>1, <4>1 DEF Gap
    <3>4. LastRole(s) = s[j].role
      BY <2>3, <3>2, <3>3, LastOf
    <3> QED BY <3>1, <3>2, <3>4
  <2>5. Rejoin(s, p) = Append(s, p)
    BY <2>4 DEF Rejoin
  <2>6. Append(s, p) = SubSeq(c, 1, n + 1)
    <3>1. SubSeq(c, 1, n + 1) = SubSeq(c, 1, (n + 1) - 1) \o <<c[n + 1]>>
      <4>1. 1 \in 1..Len(c) /\ n + 1 \in 1..Len(c)
        BY <1>1, <2>1
      <4> QED BY <1>1, <4>1, SubSeqRecursiveSecond
    <3>2. Append(s, p) = s \o <<p>>
      <4>1. p \in Lines(W)
        BY <1>1, <2>1
      <4> HIDE DEF s, p
      <4> QED BY <2>3, <4>1, AppendIsConcat DEF Chains
    <3> QED BY <2>1, <3>1, <3>2
  <2> QED BY <2>1, <2>2, <2>5, <2>6
<1>5. 0..N \subseteq T
  <2> HIDE DEF T, N
  <2> QED BY <1>1, <1>3, <1>4, SetInduction
<1>6. f[N] = SubSeq(c, 1, N)
  BY <1>1, <1>5
<1> QED BY <1>1, <1>2, <1>6, SubSeqFull

\* So the repair before a request takes the markers out and changes nothing else.
LEMMA SettledRepaired ==
    ASSUME NEW W, Words \subseteq W, NEW c \in Chains(W), Settled(c)
    PROVE  /\ Repair(c) = Those(c, LAMBDA p : ~IsSuspend(p))
           /\ Settled(Repair(c))
<1> DEFINE d == Those(c, LAMBDA p : ~IsSuspend(p))
<1>1. d \in Chains(W)
  BY ThoseFacts
<1>2. Settled(d)
  BY UnmarkedSettles
<1>3. Repair(c) = Folded(Rejoin, <<>>, Heal(d))
  BY DEF Repair
<1> HIDE DEF d
<1>4. Repair(c) = d
  BY <1>1, <1>2, <1>3, SettledHealed, SettledRejoined
<1> QED BY <1>2, <1>4 DEF d

\* What is restored from a snapshot is settled.
LEMMA RestoreSettles ==
    ASSUME NEW W, Words \subseteq W, NEW c \in Chains(W)
    PROVE  Settled(Restore(c))
<1> DEFINE turns == RestoredTurns(c)
           users == {i \in DOMAIN turns : turns[i].role = "user"}
           from  == CHOOSE i \in users : \A j \in users : i <= j
           tail  == SubSeq(turns, from, Len(turns))
<1>1. turns \in Chains(W)
  BY TurnsFacts
<1>2. Restore(c) = IF users = {} THEN <<>> ELSE Prepare(tail)
  BY DEF Restore
<1> HIDE DEF turns
<1>3. Len(turns) \in Nat /\ users \in SUBSET (1..Len(turns))
  BY <1>1, ChainFacts
<1>4. CASE users = {}
  <2>1. Settled(<<>>)
    BY DEF Settled, Follows, Owned, Met
  <2> QED BY <1>2, <1>4, <2>1
<1>5. CASE users # {}
  <2> HIDE DEF users
  <2>1. from \in users
    BY <1>3, <1>5, EndFacts
  <2> HIDE DEF from
  <2>2. from \in Nat \ {0} /\ Len(turns) \in 0..Len(turns)
    BY <1>3, <2>1
  <2>3. tail \in Chains(W)
    BY <1>1, <2>2, PartFacts
  <2> HIDE DEF tail
  <2>4. Settled(Prepare(tail))
    BY <2>3, HealFacts, SanitizeSettles DEF Prepare
  <2> QED BY <1>2, <1>5, <2>4
<1> QED BY <1>4, <1>5

\* Of the first elements of a list, one after the other, its first part is made.
LEMMA OnlyPrefix ==
    ASSUME NEW S, NEW s \in Seq(S), NEW n \in 0..Len(s)
    PROVE  Only(s, 1..n) = SubSeq(s, 1, n)
<1> DEFINE N == Len(s)
           I == 1..n
           Cut(k) == SubSeq(s, 1, IF k <= n THEN k ELSE n)
<1>1. N \in Nat /\ n \in Nat /\ n <= N
  OBVIOUS
<1>2. PICK t \in [0..N -> Seq(S)] : Taking(t, s, I) /\ Only(s, I) = t[N]
  BY OnlyUnfolds
<1> DEFINE T == {k \in 0..N : t[k] = Cut(k)}
<1>3. 0 \in T
  <2>1. Cut(0) = <<>>
    BY <1>1, SubSeqEmpty
  <2>2. t[0] = <<>>
    BY <1>1, <1>2 DEF Taking
  <2> QED BY <1>1, <2>1, <2>2
<1>4. ASSUME NEW k \in 0..(N - 1), k \in T PROVE k + 1 \in T
  <2>1. k + 1 \in 0..N /\ k + 1 # 0 /\ (k + 1) - 1 = k /\ s[k + 1] \in S /\ k + 1 \in 1..N
    BY <1>1, ElementOfSeq
  <2>2. t[k + 1] = IF k + 1 \in I THEN Append(t[k], s[k + 1]) ELSE t[k]
    BY <1>2, <2>1 DEF Taking
  <2>3. t[k] = Cut(k)
    BY <1>4
  <2>4. CASE k + 1 <= n
    <3>1. k <= n /\ k + 1 \in I
      BY <1>1, <2>1, <2>4
    <3>2. t[k] = SubSeq(s, 1, k) /\ t[k] \in Seq(S)
      BY <1>2, <2>1, <2>3, <3>1
    <3>3. SubSeq(s, 1, k + 1) = SubSeq(s, 1, (k + 1) - 1) \o <<s[k + 1]>>
      <4>1. 1 \in 1..Len(s) /\ k + 1 \in 1..Len(s)
        BY <1>1, <2>1
      <4> QED BY <1>1, <4>1, SubSeqRecursiveSecond
    <3>4. Append(t[k], s[k + 1]) = t[k] \o <<s[k + 1]>>
      BY <2>1, <3>2, AppendIsConcat
    <3> QED BY <2>1, <2>2, <2>4, <3>1, <3>2, <3>3, <3>4
  <2>5. CASE ~(k + 1 <= n)
    <3>1. k + 1 \notin I
      BY <1>1, <2>1, <2>5
    <3>2. Cut(k) = Cut(k + 1)
      <4>1. k <= n => k = n
        BY <1>1, <2>1, <2>5
      <4> QED BY <2>5, <4>1
    <3> QED BY <2>1, <2>2, <2>3, <3>1, <3>2
  <2> QED BY <2>4, <2>5
<1>5. 0..N \subseteq T
  <2> HIDE DEF T, N
  <2> QED BY <1>1, <1>3, <1>4, SetInduction
<1>6. t[N] = Cut(N)
  BY <1>1, <1>5
<1>7. Cut(N) = SubSeq(s, 1, n)
  <2>1. N <= n => N = n
    BY <1>1
  <2> QED BY <2>1
<1> QED BY <1>2, <1>6, <1>7

\* One more element is taken or it is not; the choice from the others stays.
LEMMA OnlyAppend ==
    ASSUME NEW S, NEW s \in Seq(S), NEW p \in S, NEW I, NEW J,
           J \cap (1..Len(s)) = I \cap (1..Len(s))
    PROVE  Only(Append(s, p), J) = IF Len(s) + 1 \in J THEN Append(Only(s, I), p) ELSE Only(s, I)
<1> DEFINE N == Len(s)
           d == Append(s, p)
<1>1. N \in Nat /\ d \in Seq(S) /\ Len(d) = N + 1 /\ d[N + 1] = p /\ \A k \in 1..N : d[k] = s[k]
  BY AppendProperties, LenProperties
<1>2. PICK t \in [0..N -> Seq(S)] : Taking(t, s, I) /\ Only(s, I) = t[N]
  BY OnlyUnfolds
<1> HIDE DEF d
<1>3. PICK u \in [0..Len(d) -> Seq(S)] : Taking(u, d, J) /\ Only(d, J) = u[Len(d)]
  BY <1>1, OnlyUnfolds
<1> DEFINE T == {k \in 0..N : u[k] = t[k]}
<1>4. 0 \in T
  BY <1>1, <1>2, <1>3 DEF Taking
<1>5. ASSUME NEW k \in 0..(N - 1), k \in T PROVE k + 1 \in T
  <2>1. k + 1 \in 0..N /\ k + 1 # 0 /\ (k + 1) - 1 = k /\ k + 1 \in 1..N /\ k + 1 \in 0..Len(d)
    BY <1>1
  <2>2. t[k + 1] = IF k + 1 \in I THEN Append(t[k], s[k + 1]) ELSE t[k]
    BY <1>2, <2>1 DEF Taking
  <2>3. u[k + 1] = IF k + 1 \in J THEN Append(u[k], d[k + 1]) ELSE u[k]
    BY <1>3, <2>1 DEF Taking
  <2>4. k + 1 \in I <=> k + 1 \in J
    BY <2>1
  <2>5. u[k] = t[k] /\ d[k + 1] = s[k + 1]
    BY <1>1, <1>5, <2>1
  <2> QED BY <2>1, <2>2, <2>3, <2>4, <2>5
<1>6. 0..N \subseteq T
  <2> HIDE DEF T, N
  <2> QED BY <1>1, <1>4, <1>5, SetInduction
<1>7. u[N] = t[N]
  BY <1>1, <1>6
<1>8. u[N + 1] = IF N + 1 \in J THEN Append(u[N], d[N + 1]) ELSE u[N]
  <2>1. N + 1 \in 0..Len(d) /\ N + 1 # 0 /\ (N + 1) - 1 = N
    BY <1>1
  <2> QED BY <1>3, <2>1 DEF Taking
<1> QED BY <1>1, <1>2, <1>3, <1>7, <1>8 DEF d

\* Lists of one element or none, one after the other.
LEMMA FlattenOnly ==
    ASSUME NEW S, NEW x \in Seq(S), NEW I, NEW q,
           q = [j \in 1..Len(x) |-> IF j \in I THEN <<x[j]>> ELSE <<>>]
    PROVE  FlattenSeq(q) = Only(x, I)
<1> DEFINE N == Len(x)
           Flattening(f) == f = [n \in 1..N |-> IF n = 1 THEN q[n] ELSE f[n - 1] \o q[n]]
           flat == CHOOSE f : Flattening(f)
<1>1. N \in Nat /\ \A n \in 1..N : x[n] \in S /\ q[n] = IF n \in I THEN <<x[n]>> ELSE <<>>
  BY LenProperties, ElementOfSeq
<1>2. q \in Seq(Seq(S)) /\ Len(q) = N
  <2>1. \A n \in 1..N : q[n] \in Seq(S)
    BY <1>1
  <2> QED BY <1>1, <2>1
<1>3. PICK t \in [0..N -> Seq(S)] : Taking(t, x, I) /\ Only(x, I) = t[N]
  BY OnlyUnfolds
<1>4. CASE N = 0
  <2>1. q = <<>> /\ t[0] = <<>>
    <3>1. 0 \in 0..N
      BY <1>1
    <3> QED BY <1>2, <1>3, <1>4, <3>1, EmptySeq DEF Taking
  <2> QED BY <1>2, <1>3, <1>4, <2>1 DEF FlattenSeq
<1>5. CASE N # 0
  <2> DEFINE grown == [n \in 1..N |-> t[n]]
  <2>1. ASSUME NEW n \in 1..N
        PROVE  grown[n] = IF n = 1 THEN q[n] ELSE grown[n - 1] \o q[n]
    <3>1. n \in 0..N /\ n # 0 /\ n - 1 \in 0..N
      BY <1>1
    <3>6. t[n - 1] \in Seq(S)
      BY <1>3, <3>1
    <3>2. t[n] = IF n \in I THEN Append(t[n - 1], x[n]) ELSE t[n - 1]
      BY <1>3, <3>1 DEF Taking
    <3>3. t[n] = t[n - 1] \o q[n]
      <4>1. CASE n \in I
        BY <1>1, <3>2, <3>6, <4>1, AppendIsConcat
      <4>2. CASE n \notin I
        BY <1>1, <3>2, <3>6, <4>2, ConcatEmptySeq
      <4> QED BY <4>1, <4>2
    <3>4. CASE n = 1
      <4>1. n - 1 = 0 /\ 0 \in 0..N
        BY <1>1, <3>4
      <4>2. t[0] = <<>>
        BY <1>3, <4>1 DEF Taking
      <4>3. t[n] = <<>> \o q[n] /\ q[n] \in Seq(S)
        BY <1>1, <3>3, <4>1, <4>2
      <4>4. t[n] = q[n]
        BY <4>3, ConcatEmptySeq
      <4> QED BY <3>4, <4>4
    <3>5. CASE n # 1
      <4>1. n - 1 \in 1..N
        BY <1>1, <3>5
      <4> QED BY <3>3, <3>5, <4>1
    <3> QED BY <3>4, <3>5
  <2>2. Flattening(grown)
    BY <2>1
  <2> HIDE DEF grown
  <2>3. Flattening(flat)
    BY <2>2
  <2>4. FlattenSeq(q) = flat[N]
    BY <1>2, <1>5 DEF FlattenSeq
  <2> HIDE DEF flat
  <2> DEFINE T == {n \in 0..N : n # 0 => flat[n] = grown[n]}
  <2>5. 0 \in T
    BY <1>1
  <2>6. ASSUME NEW n \in 0..(N - 1), n \in T PROVE n + 1 \in T
    <3>1. n + 1 \in 1..N /\ (n + 1) - 1 = n /\ n + 1 \in 0..N /\ (n # 0 => n + 1 # 1)
      BY <1>1
    <3>2. flat[n + 1] = IF n + 1 = 1 THEN q[n + 1] ELSE flat[n] \o q[n + 1]
      BY <2>3, <3>1
    <3>3. grown[n + 1] = IF n + 1 = 1 THEN q[n + 1] ELSE grown[n] \o q[n + 1]
      BY <2>1, <3>1
    <3> QED BY <2>6, <3>1, <3>2, <3>3
  <2>7. 0..N \subseteq T
    <3> HIDE DEF N, T
    <3> QED BY <1>1, <2>5, <2>6, SetInduction
  <2>8. flat[N] = grown[N]
    BY <1>1, <1>5, <2>7
  <2>9. grown[N] = t[N]
    <3>1. N \in 1..N
      BY <1>1, <1>5
    <3> QED BY <3>1 DEF grown
  <2> QED BY <1>3, <2>4, <2>8, <2>9
<1> QED BY <1>4, <1>5

\* A chain without some payloads that neither call nor answer.
LEMMA ThinFacts ==
    ASSUME NEW W, NEW c \in Chains(W), Owned(c), Met(c, {}, 0), NEW I \in SUBSET (1..Len(c)),
           \A i \in (1..Len(c)) \ I : c[i].role # "result" /\ c[i].calls = {}
    PROVE  /\ Owned(Only(c, I)) /\ Met(Only(c, I), {}, 0)
           /\ Follows(c) /\ (\A i \in (1..Len(c)) \ I : c[i].role # "user") => Follows(Only(c, I))
<1> DEFINE e == Only(c, I)
<1>1. Len(c) \in Nat /\ DOMAIN c = 1..Len(c) /\ c \in Seq(Lines(W))
  BY ChainFacts
<1>2. e \in Seq(Lines(W)) /\ \E at : Picked(e, c, I, at)
  BY <1>1, OnlyPicks
<1> HIDE DEF e
<1>3. PICK at : Picked(e, c, I, at)
  BY <1>2
<1>4. Len(e) \in Nat /\ DOMAIN e = 1..Len(e)
  BY <1>2, LenProperties
<1>5. \A n \in 1..Len(e) : at[n] \in 1..Len(c) /\ e[n] = c[at[n]]
  BY <1>3 DEF Picked
<1>6. \A m, n \in 1..Len(e) : m < n <=> at[m] < at[n]
  <2>1. \A m, n \in 1..Len(e) : m < n => at[m] < at[n]
    BY <1>3 DEF Picked
  <2>2. ASSUME NEW m \in 1..Len(e), NEW n \in 1..Len(e), at[m] < at[n] PROVE m < n
    <3>1. ~(n < m) /\ n # m
      BY <1>5, <2>1, <2>2
    <3> QED BY <1>4, <3>1
  <2> QED BY <2>1, <2>2
<1>7. \A i \in 1..Len(c) : i \in I => \E n \in 1..Len(e) : at[n] = i
  BY <1>3 DEF Picked
<1>8. ASSUME NEW m \in 1..Len(e), NEW n \in 1..Len(e)
       PROVE  /\ InGroup(c, at[m], at[n]) => InGroup(e, m, n)
              /\ Gap(c, at[m], at[n]) => Gap(e, m, n)
  <2>1. ASSUME NEW k \in (m + 1)..n
        PROVE  k \in 1..Len(e) /\ at[k] \in (at[m] + 1)..at[n]
    <3>1. k \in 1..Len(e) /\ m < k /\ ~(n < k)
      BY <1>4
    <3>2. at[m] < at[k] /\ ~(at[n] < at[k])
      BY <1>6, <3>1
    <3> QED BY <1>5, <3>1, <3>2
  <2>2. ASSUME NEW k \in (m + 1)..(n - 1)
        PROVE  k \in 1..Len(e) /\ at[k] \in (at[m] + 1)..(at[n] - 1)
    <3>1. k \in 1..Len(e) /\ m < k /\ k < n
      BY <1>4
    <3>2. at[m] < at[k] /\ at[k] < at[n]
      BY <1>6, <3>1
    <3> QED BY <1>5, <3>1, <3>2
  <2>3. ASSUME InGroup(c, at[m], at[n]) PROVE InGroup(e, m, n)
    <3>1. \A k \in (m + 1)..n : Continues(e[k])
      BY <1>5, <2>1, <2>3 DEF InGroup
    <3> QED BY <1>5, <1>6, <2>3, <3>1 DEF InGroup
  <2>4. ASSUME Gap(c, at[m], at[n]) PROVE Gap(e, m, n)
    BY <1>5, <2>2, <2>4 DEF Gap
  <2> QED BY <2>3, <2>4
<1>9. \A i \in 1..Len(c), j \in 1..Len(c) : Owns(c, i, j) => i \in I
  BY DEF Owns
<1>10. \A i \in 1..Len(c) : c[i].role = "result" => i \in I
  OBVIOUS
<1>11. \A i \in 1..Len(c) : \A j \in 1..(i - 1) : j \in 1..Len(c)
  BY <1>1
<1>12. ASSUME NEW n \in 1..Len(e), e[n].role = "result"
       PROVE  \E m \in 1..(n - 1) : m \in 1..Len(e) /\ Owns(c, at[m], at[n])
  <2>1. PICK i \in 1..(at[n] - 1) : Owns(c, i, at[n])
    BY <1>5, <1>12 DEF Owned
  <2>2. i \in 1..Len(c)
    BY <1>5, <1>11
  <2>3. PICK m \in 1..Len(e) : at[m] = i
    BY <1>5, <1>7, <1>9, <2>1, <2>2
  <2>4. m < n
    BY <1>5, <1>6, <2>3
  <2> QED BY <1>4, <2>1, <2>3, <2>4
<1>13. ASSUME NEW m \in 1..Len(e), NEW n \in 1..Len(e), e[m].role = "assistant", InGroup(e, m, n)
       PROVE  InGroup(c, at[m], at[n])
  <2>1. PICK x \in 1..(n - 1) : x \in 1..Len(e) /\ Owns(c, at[x], at[n])
    BY <1>12, <1>13 DEF InGroup
  <2>2. c[at[x]].role = "assistant" /\ InGroup(c, at[x], at[n])
    BY <2>1 DEF Owns
  <2>3. InGroup(e, x, n) /\ e[x].role = "assistant"
    BY <1>5, <1>8, <2>1, <2>2
  <2>4. e \in Chains(W)
    BY <1>2 DEF Chains
  <2>5. x = m
    BY <1>13, <2>1, <2>3, <2>4, OneOwner
  <2> QED BY <2>2, <2>5
<1>14. ASSUME Follows(c), \A i \in (1..Len(c)) \ I : c[i].role # "user"
       PROVE  Follows(e)
  <2> SUFFICES ASSUME NEW n \in 1..Len(e), e[n].role = "assistant"
               PROVE  \E j \in 1..(n - 1) : e[j].role \in {"user", "result"} /\ Gap(e, j, n)
    BY DEF Follows
  <2>1. PICK j \in 1..(at[n] - 1) : c[j].role \in {"user", "result"} /\ Gap(c, j, at[n])
    BY <1>5, <1>14 DEF Follows
  <2>2. j \in 1..Len(c) /\ j \in I
    BY <1>5, <1>10, <1>11, <1>14, <2>1
  <2>3. PICK m \in 1..Len(e) : at[m] = j
    BY <1>7, <2>2
  <2>4. m < n
    BY <1>5, <1>6, <2>3
  <2>5. m \in 1..(n - 1)
    BY <1>4, <2>4
  <2> QED BY <1>5, <1>8, <2>1, <2>3, <2>5
<1>15. Owned(e)
  <2> SUFFICES ASSUME NEW n \in 1..Len(e), e[n].role = "result"
               PROVE  \E m \in 1..(n - 1) : Owns(e, m, n)
    BY DEF Owned
  <2>1. PICK m \in 1..(n - 1) : m \in 1..Len(e) /\ Owns(c, at[m], at[n])
    BY <1>12
  <2>2. e[m].role = "assistant" /\ InGroup(e, m, n)
        /\ e[n].results # {} /\ e[n].results \subseteq e[m].calls
    BY <1>5, <1>8, <2>1 DEF Owns
  <2>3. ASSUME NEW k \in 1..Len(e), InGroup(e, m, k), k # n
        PROVE  e[k].results \cap e[n].results = {}
    <3>1. InGroup(c, at[m], at[k])
      BY <1>13, <2>1, <2>2, <2>3
    <3>2. at[k] # at[n]
      <4>1. k < n \/ n < k
        BY <1>4, <2>3
      <4> QED BY <1>5, <1>6, <4>1
    <3> QED BY <1>5, <2>1, <3>1, <3>2 DEF Owns
  <2> QED BY <2>2, <2>3 DEF Owns
<1>16. Met(e, {}, 0)
  <2> SUFFICES ASSUME NEW n \in 1..Len(e), NEW id \in e[n].calls
               PROVE  \E m \in 1..Len(e) : InGroup(e, n, m) /\ id \in e[m].results
    BY DEF Met
  <2>1. PICK j \in 1..Len(c) : InGroup(c, at[n], j) /\ id \in c[j].results
    BY <1>5 DEF Met
  <2>2. PICK m \in 1..Len(e) : at[m] = j
    BY <1>7, <1>10, <2>1 DEF InGroup
  <2> QED BY <1>5, <1>8, <2>1, <2>2
<1> QED BY <1>14, <1>15, <1>16 DEF e

\* c is d with more of the results that answer none of d's calls.
Fuller(c, d) ==
    /\ \A k \in 1..Len(d) : c[k].role # "result" => d[k] = c[k]
    /\ \A k \in 1..Len(d) : c[k].role = "result" => d[k] = [c[k] EXCEPT !.results = d[k].results]
    /\ \A i, j \in 1..Len(d) : Owns(d, i, j) => c[j].results \cap d[i].calls = d[j].results

\* The payloads of such a chain are healed to those of the other, in which every
\* result has its call and every call its result.
LEMMA HealedLike ==
    ASSUME NEW W, NEW c \in Chains(W), NEW d \in Chains(W), Len(d) <= Len(c),
           Owned(d), NEW open, Met(d, open, Len(d)), open # {} => Len(c) = Len(d),
           Fuller(c, d), NEW j \in 1..Len(d)
    PROVE  HealedAt(c, j) = <<d[j]>>
<1> SUFFICES ASSUME \A k \in 1..Len(d) : c[k].role # "result" => d[k] = c[k],
                    \A k \in 1..Len(d) : c[k].role = "result" =>
                        d[k] = [c[k] EXCEPT !.results = d[k].results],
                    \A g, k \in 1..Len(d) : Owns(d, g, k) =>
                        c[k].results \cap d[g].calls = d[k].results
             PROVE  HealedAt(c, j) = <<d[j]>>
  BY DEF Fuller
<1> DEFINE N == Len(d)
<1>1. /\ N \in Nat /\ DOMAIN d = 1..N /\ \A i \in 1..N : d[i] \in Lines(W)
      /\ Len(c) \in Nat /\ \A i \in 1..Len(c) : c[i] \in Lines(W)
      /\ \A i \in 1..N : i \in 1..Len(c)
  <2>1. N \in Nat /\ DOMAIN d = 1..N /\ \A i \in 1..N : d[i] \in Lines(W)
    BY ChainFacts
  <2>2. Len(c) \in Nat /\ \A i \in 1..Len(c) : c[i] \in Lines(W)
    BY ChainFacts
  <2> HIDE DEF N
  <2>3. N <= Len(c)
    BY DEF N
  <2> QED BY <2>1, <2>2, <2>3
<1>2. \A k \in 1..N : d[k].role = c[k].role /\ d[k].calls = c[k].calls /\ d[k].text = c[k].text
  <2>1. ASSUME NEW k \in 1..N, c[k].role = "result"
        PROVE  d[k].role = c[k].role /\ d[k].calls = c[k].calls /\ d[k].text = c[k].text
    <3>1. c[k] \in Lines(W) /\ d[k] = [c[k] EXCEPT !.results = d[k].results]
      BY <1>1, <2>1
    <3> DEFINE r == d[k].results
    <3> HIDE DEF r
    <3>2. d[k] = [c[k] EXCEPT !.results = r]
      BY <3>1 DEF r
    <3> QED BY <3>1, <3>2 DEF Lines
  <2> QED BY <2>1
<1>3. \A k \in 1..N : Continues(d[k]) <=> Continues(c[k])
  BY <1>2 DEF Continues, IsPinned
<1>4. \A i, k \in 1..N : InGroup(d, i, k) <=> InGroup(c, i, k)
  <2>1. ASSUME NEW i \in 1..N, NEW k \in 1..N PROVE \A l \in (i + 1)..k : l \in 1..N
    BY <1>1
  <2> QED BY <1>2, <1>3, <2>1 DEF InGroup
<1>5. ASSUME NEW i \in 1..N, NEW k \in 1..N, d[i].role = "assistant", InGroup(d, i, k)
      PROVE  Owns(d, i, k)
  <2>1. PICK g \in 1..(k - 1) : Owns(d, g, k)
    BY <1>5 DEF Owned, InGroup
  <2>2. g \in 1..N
    BY <1>1
  <2>3. g = i
    BY <1>5, <2>1, <2>2, OneOwner DEF Owns
  <2> QED BY <2>1, <2>3
<1>6. ASSUME NEW i \in 1..N, c[i].role = "assistant", i < N \/ open = {} PROVE Missing(c, i) = {}
  <2>1. Ids(c[i]) = c[i].calls
    BY <1>1, LineFacts DEF Ids
  <2>2. ASSUME NEW id \in c[i].calls PROVE \E k \in GroupOf(c, i) : id \in c[k].results
    <3>1. PICK k \in 1..N : InGroup(d, i, k) /\ id \in d[k].results
      BY <1>1, <1>2, <1>6, <2>2 DEF Met
    <3>2. InGroup(c, i, k)
      BY <1>4, <3>1
    <3>3. id \in c[k].results
      BY <1>2, <1>5, <1>6, <3>1
    <3>4. k \in (i + 1)..Len(c)
      BY <1>1, <3>1 DEF InGroup
    <3> QED BY <3>2, <3>3, <3>4 DEF GroupOf, InGroup
  <2> QED BY <2>1, <2>2 DEF Missing, Matched
<1>7. ASSUME NEW i \in 1..N, c[i].role = "assistant" PROVE ~Broken(c, i) /\ ~Partial(c, i)
  <2>1. CASE i < N \/ open = {}
    BY <1>6, <1>7, <2>1 DEF Broken, Partial
  <2>2. CASE ~(i < N \/ open = {})
    <3>1. i = Len(c)
      BY <1>1, <2>2
    <3>2. \A k \in (i + 1)..Len(c) : FALSE
      BY <1>1, <3>1
    <3>3. IsTail(c, i) /\ GroupOf(c, i) = {}
      BY <3>2 DEF IsTail, GroupOf
    <3>4. Matched(c, i) = {}
      BY <3>3 DEF Matched
    <3> QED BY <3>3, <3>4 DEF Broken, Partial
  <2> QED BY <2>1, <2>2
<1> DEFINE p == c[j]
           i == Caller(c, j)
           before == {k \in 1..(j - 1) : /\ c[k].role = "assistant" /\ Ids(c[k]) # {}
                                          /\ \A l \in (k + 1)..j : Continues(c[l])}
<1>8. i = IF before = {} THEN 0 ELSE CHOOSE k \in before : TRUE
  BY DEF Caller
<1>9. i # 0 => /\ i \in 1..(j - 1) /\ c[i].role = "assistant"
               /\ \A k \in (i + 1)..j : Continues(c[k])
  <2>1. i # 0 => i \in before
    <3> HIDE DEF before, i
    <3> QED BY <1>8
  <2> HIDE DEF i
  <2> QED BY <2>1
<1>10. p.role \in Roles /\ p \in Lines(W) /\ (p.calls # {} => Ids(p) # {})
  BY <1>1, LineFacts DEF Ids
<1>11. i # 0 => i \in 1..N /\ ~Broken(c, i)
  <2>1. \A k \in 1..(j - 1) : k \in 1..N
    BY <1>1
  <2> HIDE DEF i
  <2> QED BY <1>7, <1>9, <2>1
<1>12. CASE p.role = "assistant" /\ HasCalls(p)
  <2>1. ~Broken(c, j) /\ ~Partial(c, j) /\ Ids(p) # {}
    BY <1>7, <1>10, <1>12 DEF HasCalls
  <2>2. d[j] = p
    BY <1>12
  <2> QED BY <1>12, <2>1, <2>2 DEF HealedAt, IsPinned
<1>13. CASE p.role = "result"
  <2>1. PICK g \in 1..(j - 1) : Owns(d, g, j)
    BY <1>2, <1>13 DEF Owned
  <2>2. g \in 1..N /\ c[g].role = "assistant" /\ InGroup(c, g, j) /\ InGroup(d, g, j)
    <3>1. g \in 1..N
      BY <1>1
    <3> QED BY <1>2, <1>4, <2>1, <3>1 DEF Owns
  <2>3. Ids(c[g]) = d[g].calls /\ d[g].calls # {}
    <3>1. c[g].calls = d[g].calls /\ NoId \notin c[g].calls
      BY <1>1, <1>2, <2>2, LineFacts
    <3>2. d[g].calls # {}
      BY <2>1 DEF Owns
    <3> QED BY <3>1, <3>2 DEF Ids
  <2>4. i = g
    <3>1. g \in before
      BY <2>1, <2>2, <2>3 DEF InGroup
    <3>2. 0 \notin before
      OBVIOUS
    <3>3. i # 0
      <4> HIDE DEF before, i
      <4> QED BY <1>8, <3>1, <3>2
    <3> HIDE DEF i, before
    <3>4. i \in 1..N /\ i < j
      BY <1>1, <1>9, <3>3
    <3>5. InGroup(c, i, j)
      BY <1>9, <1>13, <3>3, <3>4 DEF InGroup
    <3> QED BY <1>1, <1>9, <2>2, <3>3, <3>4, <3>5, OneOwner
  <2>5. FirstAnswers(c, g, j) = d[j].results
    <3>1. c[j].results \cap Ids(c[g]) = d[j].results
      BY <2>1, <2>2, <2>3
    <3>2. ASSUME NEW k \in GroupOf(c, g), k < j PROVE c[k].results \cap d[j].results = {}
      <4>1. k \in 1..N /\ g < k /\ \A l \in (g + 1)..k : Continues(c[l])
        BY <1>1, <2>2, <3>2 DEF GroupOf
      <4>2. CASE c[k].role = "result"
        <5>1. InGroup(d, g, k)
          <6>1. InGroup(c, g, k)
            BY <4>1, <4>2 DEF InGroup
          <6> QED BY <1>4, <2>2, <4>1, <6>1
        <5>2. Owns(d, g, k)
          BY <1>2, <1>5, <2>2, <4>1, <5>1
        <5>3. c[k].results \cap d[g].calls = d[k].results
          BY <2>2, <4>1, <5>2
        <5>4. d[k].results \cap d[j].results = {} /\ d[j].results \subseteq d[g].calls
          BY <2>1, <3>2, <4>1, <5>1 DEF Owns
        <5> QED BY <5>3, <5>4
      <4>3. CASE c[k].role # "result"
        BY <1>1, <4>1, <4>3, LineFacts
      <4> QED BY <4>2, <4>3
    <3> QED BY <3>1, <3>2 DEF FirstAnswers
  <2>6. d[j].results # {}
    BY <2>1 DEF Owns
  <2>7. HealedAt(c, j) = <<[p EXCEPT !.results = FirstAnswers(c, i, j)]>>
    <3>1. FirstAnswers(c, i, j) # {} /\ i # 0
      BY <2>1, <2>4, <2>5, <2>6
    <3> QED BY <1>11, <1>13, <3>1 DEF HealedAt, IsPinned
  <2>8. d[j] = [p EXCEPT !.results = d[j].results]
    BY <1>13
  <2> HIDE DEF i, p
  <2> QED BY <2>4, <2>5, <2>7, <2>8
<1>14. CASE ~(p.role = "assistant" /\ HasCalls(p)) /\ p.role # "result"
  <2>1. d[j] = p
    BY <1>14
  <2> QED BY <1>11, <1>14, <2>1 DEF HealedAt
<1> QED BY <1>12, <1>13, <1>14

\* Who speaks last when a payload is added,
LEMMA LastAppend ==
    ASSUME NEW W, NEW c \in Chains(W), NEW p \in Lines(W)
    PROVE  LastRole(Append(c, p)) = IF IsPinned(p) THEN LastRole(c) ELSE p.role
<1> DEFINE d == Append(c, p)
           n == Len(c)
<1>1. n \in Nat /\ d \in Chains(W) /\ Len(d) = n + 1 /\ d[n + 1] = p /\ \A k \in 1..n : d[k] = c[k]
  BY AppendGroups
<1> HIDE DEF d
<1>2. CASE ~IsPinned(p)
  <2>1. n + 1 \in 1..Len(d) /\ \A j \in (n + 1 + 1)..Len(d) : IsPinned(d[j])
    BY <1>1
  <2> QED BY <1>1, <1>2, <2>1, LastOf DEF d
<1>3. CASE IsPinned(p)
  <2>1. CASE LastRole(c) = "none"
    <3>1. \A k \in 1..n : IsPinned(c[k])
      BY <2>1, RoleFacts
    <3>2. \A k \in 1..Len(d) : IsPinned(d[k])
      BY <1>1, <1>3, <3>1
    <3>3. LastRole(d) = "none"
      BY <1>1, <3>2, RoleFacts
    <3> QED BY <1>3, <2>1, <3>3 DEF d
  <2>2. CASE LastRole(c) # "none"
    <3> DEFINE l == LastIndex(c)
    <3>1. l \in 1..n /\ ~IsPinned(c[l]) /\ c[l].role = LastRole(c)
          /\ \A j \in (l + 1)..n : IsPinned(c[j])
      BY <2>2, RoleFacts
    <3> HIDE DEF l
    <3>2. l \in 1..Len(d) /\ ~IsPinned(d[l]) /\ d[l].role = LastRole(c)
      BY <1>1, <3>1
    <3>3. \A j \in (l + 1)..Len(d) : IsPinned(d[j])
      BY <1>1, <1>3, <3>1
    <3>4. LastRole(d) = d[l].role
      BY <1>1, <3>2, <3>3, LastOf
    <3> QED BY <1>3, <3>2, <3>4 DEF d
  <2> QED BY <2>1, <2>2
<1> QED BY <1>2, <1>3

\* or when only something else than roles changes.
LEMMA LastSame ==
    ASSUME NEW W, NEW c \in Chains(W), NEW d \in Chains(W), Len(d) = Len(c),
           \A k \in 1..Len(c) : d[k].role = c[k].role
    PROVE  LastRole(d) = LastRole(c)
<1>1. \A k \in 1..Len(c) : IsPinned(d[k]) <=> IsPinned(c[k])
  BY DEF IsPinned
<1>2. CASE LastRole(c) = "none"
  <2>1. \A k \in 1..Len(d) : IsPinned(d[k])
    BY <1>1, <1>2, RoleFacts
  <2>2. LastRole(d) = "none"
    BY <2>1, RoleFacts
  <2> QED BY <1>2, <2>2
<1>3. CASE LastRole(c) # "none"
  <2> DEFINE l == LastIndex(c)
  <2>1. l \in 1..Len(c) /\ ~IsPinned(c[l]) /\ c[l].role = LastRole(c)
        /\ \A j \in (l + 1)..Len(c) : IsPinned(c[j])
    BY <1>3, RoleFacts
  <2> HIDE DEF l
  <2>2. \A j \in (l + 1)..Len(c) : j \in 1..Len(c)
    BY <2>1, ChainFacts
  <2>3. LastRole(d) = d[l].role
    BY <1>1, <2>1, <2>2, LastOf
  <2> QED BY <2>1, <2>3
<1> QED BY <1>2, <1>3

\* The calls of the group under way after n payloads that are not answered yet.
Unmet(c, n) ==
    {id \in CallIds : \E i \in 1..n :
        /\ c[i].role = "assistant" /\ id \in c[i].calls
        /\ \A k \in (i + 1)..n : Continues(c[k]) /\ id \notin c[k].results}

\* Somebody spoke to the model before it answered.
Greeted(c) ==
    \A i \in 1..Len(c) : c[i].role = "assistant" => \E j \in 1..(i - 1) : c[j].role = "user"

\* When every result has its call and every call its result, no call is open
\* where another speaks, and a result answers some of those that are.
LEMMA UnmetStep ==
    ASSUME NEW W, NEW c \in Chains(W), Owned(c), Met(c, {}, 0), NEW n \in 0..(Len(c) - 1)
    PROVE  LET p == c[n + 1]
           IN  /\ ~Continues(p) => Unmet(c, n) = {}
               /\ IsPinned(p) => Unmet(c, n + 1) = Unmet(c, n)
               /\ p.role = "user" => Unmet(c, n + 1) = {}
               /\ p.role = "assistant" => Unmet(c, n + 1) = p.calls
               /\ p.role = "result" =>
                    /\ p.results # {} /\ p.results \subseteq Unmet(c, n)
                    /\ Unmet(c, n + 1) = Unmet(c, n) \ p.results
<1> DEFINE p == c[n + 1]
           Hangs(i, id, m) == /\ c[i].role = "assistant" /\ id \in c[i].calls
                              /\ \A k \in (i + 1)..m : Continues(c[k]) /\ id \notin c[k].results
<1>1. /\ Len(c) \in Nat /\ n \in Nat /\ n + 1 \in 1..Len(c)
      /\ \A i \in 1..n : i \in 1..Len(c) /\ i < n + 1
      /\ \A i \in 1..(n + 1) : i \in 1..n \/ i = n + 1
  <2>1. Len(c) \in Nat
    BY ChainFacts
  <2> QED BY <2>1
<1>2. \A i \in 1..Len(c) : c[i].calls \in SUBSET CallIds /\ c[i].results \in SUBSET CallIds
                           /\ (c[i].results # {} => c[i].role = "result")
                           /\ (c[i].calls # {} => c[i].role = "assistant")
  BY LineFacts
<1>3. \A id : id \in Unmet(c, n) <=> id \in CallIds /\ \E i \in 1..n : Hangs(i, id, n)
  BY DEF Unmet
<1>4. \A id : id \in Unmet(c, n + 1) <=> id \in CallIds /\ \E i \in 1..(n + 1) : Hangs(i, id, n + 1)
  BY DEF Unmet
<1>5. \A i \in 1..n : \A id :
         Hangs(i, id, n + 1) <=> Hangs(i, id, n) /\ Continues(p) /\ id \notin p.results
  <2>1. ASSUME NEW i \in 1..n
        PROVE  /\ n + 1 \in (i + 1)..(n + 1)
               /\ \A k \in (i + 1)..n : k \in (i + 1)..(n + 1)
               /\ \A k \in (i + 1)..(n + 1) : k \in (i + 1)..n \/ k = n + 1
    BY <1>1
  <2> QED BY <2>1
<1>6. \A id : Hangs(n + 1, id, n + 1) <=> p.role = "assistant" /\ id \in p.calls
  <2>1. \A k \in (n + 1 + 1)..(n + 1) : FALSE
    BY <1>1
  <2> QED BY <2>1
<1>7. ASSUME NEW i \in 1..n, NEW id, Hangs(i, id, n) PROVE Continues(p)
  <2>1. PICK j \in 1..Len(c) : InGroup(c, i, j) /\ id \in c[j].results
    BY <1>1, <1>7 DEF Met
  <2>2. ~(j \in (i + 1)..n)
    BY <1>7, <2>1
  <2>3. n + 1 \in (i + 1)..j
    BY <1>1, <2>1, <2>2 DEF InGroup
  <2> QED BY <2>1, <2>3 DEF InGroup
<1> HIDE DEF Hangs
<1>8. ~Continues(p) => Unmet(c, n) = {}
  BY <1>3, <1>7
<1>9. \A id : id \in Unmet(c, n + 1) <=>
         \/ id \in Unmet(c, n) /\ Continues(p) /\ id \notin p.results
         \/ p.role = "assistant" /\ id \in p.calls
  <2>1. p.calls \in SUBSET CallIds
    BY <1>1, <1>2
  <2>2. n + 1 \in 1..(n + 1) /\ \A i \in 1..n : i \in 1..(n + 1)
    BY <1>1
  <2> QED BY <1>1, <1>3, <1>4, <1>5, <1>6, <2>1, <2>2
<1>10. IsPinned(p) => Unmet(c, n + 1) = Unmet(c, n)
  <2> SUFFICES ASSUME IsPinned(p) PROVE Unmet(c, n + 1) = Unmet(c, n)
    OBVIOUS
  <2>1. Continues(p) /\ p.results = {} /\ p.role # "assistant"
    BY <1>1, <1>2 DEF IsPinned, Continues
  <2> QED BY <1>9, <2>1
<1>11. p.role = "user" => Unmet(c, n + 1) = {}
  BY <1>9 DEF Continues, IsPinned
<1>12. p.role = "assistant" => Unmet(c, n + 1) = p.calls
  BY <1>9 DEF Continues, IsPinned
<1>13. ASSUME p.role = "result"
       PROVE  /\ p.results # {} /\ p.results \subseteq Unmet(c, n)
              /\ Unmet(c, n + 1) = Unmet(c, n) \ p.results
  <2>1. PICK i \in 1..((n + 1) - 1) : Owns(c, i, n + 1)
    BY <1>1, <1>13 DEF Owned
  <2>2. i \in 1..n
    BY <1>1
  <2>3. \A k \in (i + 1)..n : k \in (i + 1)..(n + 1) /\ k \in 1..Len(c) /\ k # n + 1 /\ i < k
    BY <1>1
  <2>4. ASSUME NEW id \in p.results PROVE Hangs(i, id, n)
    <3>1. c[i].role = "assistant" /\ id \in c[i].calls /\ \A k \in (i + 1)..n : Continues(c[k])
      BY <2>1, <2>3 DEF Owns, InGroup
    <3>2. ASSUME NEW k \in (i + 1)..n, id \in c[k].results PROVE FALSE
      <4>1. c[k].role = "result"
        BY <1>2, <2>3, <3>2
      <4>2. \A l \in (i + 1)..k : l \in (i + 1)..n
        BY <1>1, <2>2, <3>2
      <4>3. InGroup(c, i, k)
        BY <2>3, <3>1, <4>1, <4>2 DEF InGroup
      <4> QED BY <2>1, <2>3, <3>2, <4>3 DEF Owns
    <3> QED BY <3>1, <3>2 DEF Hangs
  <2>5. p.results # {} /\ p.results \in SUBSET CallIds
    BY <1>1, <1>2, <2>1 DEF Owns
  <2>6. p.results \subseteq Unmet(c, n)
    BY <1>3, <2>2, <2>4, <2>5
  <2>7. Continues(p)
    BY <1>13 DEF Continues
  <2> QED BY <1>9, <1>13, <2>5, <2>6, <2>7
<1> QED BY <1>8, <1>10, <1>11, <1>12, <1>13

\* At its end there is none either.
LEMMA UnmetEnds ==
    ASSUME NEW W, NEW c \in Chains(W), Met(c, {}, 0)
    PROVE  Unmet(c, 0) = {} /\ Unmet(c, Len(c)) = {}
<1>1. Len(c) \in Nat /\ \A i \in 1..0 : FALSE
  BY ChainFacts
<1>2. Unmet(c, 0) = {}
  BY <1>1 DEF Unmet
<1>3. ASSUME NEW i \in 1..Len(c), NEW id \in c[i].calls,
             \A k \in (i + 1)..Len(c) : id \notin c[k].results
      PROVE  FALSE
  <2>1. PICK j \in 1..Len(c) : InGroup(c, i, j) /\ id \in c[j].results
    BY <1>1, <1>3 DEF Met
  <2>2. j \in (i + 1)..Len(c)
    BY <1>1, <2>1 DEF InGroup
  <2> QED BY <1>3, <2>1, <2>2
<1> QED BY <1>2, <1>3 DEF Unmet
\* Then the repair of adjacent assistants does what the sanitizer does.
LEMMA RejoinSanitizes ==
    ASSUME NEW W, Words \subseteq W, NEW c \in Chains(W), Owned(c), Met(c, {}, 0), Greeted(c)
    PROVE  /\ Folded(Rejoin, <<>>, c) = Sanitize(c)
           /\ LET end == Folded(SanitizeStep, [out |-> <<>>, pending |-> {}, at |-> 0], c)
              IN  end.out = Sanitize(c) /\ end.pending = {}
<1> DEFINE N == Len(c)
           b == [out |-> <<>>, pending |-> {}, at |-> 0]
<1>1. N \in Nat /\ <<>> \in Chains(W) /\ \A n \in 1..N : c[n] \in Lines(W)
  BY ChainFacts
<1>2. b \in Passes(W) /\ Sound(b)
  BY <1>1 DEF Passes, Sound, Follows, Owned, Met
<1>3. PICK f \in [0..N -> Chains(W)] : Rejoining(f, <<>>, c) /\ Folded(Rejoin, <<>>, c) = f[N]
  BY <1>1, RejoinRuns
<1> HIDE DEF b
<1>4. PICK g \in [0..N -> Passes(W)] : Sanitizing(g, b, c) /\ Folded(SanitizeStep, b, c) = g[N]
  BY <1>1, <1>2, SanitizeRuns
<1> DEFINE T == {n \in 0..N : /\ Sound(g[n]) /\ g[n].out = f[n] /\ g[n].pending = Unmet(c, n)
                              /\ (\E j \in 1..n : c[j].role = "user") => LastRole(f[n]) # "none"}
<1>5. 0 \in T
  <2>1. g[0] = b /\ f[0] = <<>> /\ Unmet(c, 0) = {} /\ \A j \in 1..0 : FALSE
    BY <1>1, <1>3, <1>4, UnmetEnds DEF Rejoining, Sanitizing
  <2> QED BY <1>1, <1>2, <2>1 DEF b
<1>6. ASSUME NEW n \in 0..(N - 1), n \in T PROVE n + 1 \in T
  <2> DEFINE p == c[n + 1]
             a == g[n]
             next == SanitizeStep(a, p)
  <2>1. n + 1 \in 0..N /\ n + 1 # 0 /\ (n + 1) - 1 = n /\ n + 1 \in 1..N /\ n \in 0..N
    BY <1>1
  <2>2. g[n + 1] = next /\ f[n + 1] = Rejoin(f[n], p)
    BY <1>3, <1>4, <2>1 DEF Rejoining, Sanitizing
  <2>3. /\ a \in Passes(W) /\ Sound(a) /\ a.out = f[n] /\ a.pending = Unmet(c, n)
        /\ (\E j \in 1..n : c[j].role = "user") => LastRole(f[n]) # "none"
        /\ f[n] \in Chains(W) /\ p \in Lines(W) /\ p.role \in Roles
    <3>1. p \in Lines(W) /\ p.role \in Roles
      BY <1>1, <2>1, ChangedFacts
    <3> QED BY <1>3, <1>4, <1>6, <2>1, <3>1
  <2>4. /\ ~Continues(p) => Unmet(c, n) = {}
        /\ IsPinned(p) => Unmet(c, n + 1) = Unmet(c, n)
        /\ p.role = "user" => Unmet(c, n + 1) = {}
        /\ p.role = "assistant" => Unmet(c, n + 1) = p.calls
        /\ p.role = "result" =>
             /\ p.results # {} /\ p.results \subseteq Unmet(c, n)
             /\ Unmet(c, n + 1) = Unmet(c, n) \ p.results
    BY UnmetStep
  <2>5. Sound(next)
    BY <2>3, StepSound
  <2>6. (\E j \in 1..(n + 1) : c[j].role = "user")
           <=> p.role = "user" \/ \E j \in 1..n : c[j].role = "user"
    <3>1. \A j \in 1..(n + 1) : j \in 1..n \/ j = n + 1
      BY <2>1
    <3>2. n + 1 \in 1..(n + 1) /\ \A j \in 1..n : j \in 1..(n + 1)
      BY <2>1
    <3> QED BY <3>1, <3>2
  <2>7. a \in [out : Chains(W), pending : SUBSET CallIds, at : Nat]
    BY <2>3 DEF Passes
  <2> HIDE DEF a, p
  <2>8. /\ next.out = Rejoin(f[n], p) /\ next.pending = Unmet(c, n + 1)
        /\ (\E j \in 1..(n + 1) : c[j].role = "user") => LastRole(Rejoin(f[n], p)) # "none"
    <3>1. LastRole(Append(f[n], p)) = IF IsPinned(p) THEN LastRole(f[n]) ELSE p.role
      BY <2>3, LastAppend
    <3>2. CASE IsPinned(p)
      <4>1. next = Keep(a, p) /\ Rejoin(f[n], p) = Append(f[n], p) /\ p.role # "user"
        BY <3>2 DEF SanitizeStep, Rejoin, IsPinned
      <4> QED BY <2>3, <2>4, <2>6, <2>7, <3>1, <3>2, <4>1 DEF Keep
    <3>3. CASE p.role = "user"
      <4>1. ~Continues(p) /\ ~IsPinned(p)
        BY <3>3 DEF Continues, IsPinned
      <4>2. DropPending(a) = a
        BY <2>3, <2>4, <4>1 DEF DropPending
      <4>3. next = Keep(a, p) /\ Rejoin(f[n], p) = Append(f[n], p)
        BY <3>3, <4>1, <4>2 DEF SanitizeStep, Rejoin
      <4> QED BY <2>3, <2>4, <2>7, <3>1, <3>3, <4>1, <4>3 DEF Keep
    <3>4. CASE p.role = "result"
      <4> DEFINE hit == p.results \cap a.pending
      <4>1. ~IsPinned(p)
        BY <3>4 DEF IsPinned
      <4>2. next = AddResult(a, p) /\ Rejoin(f[n], p) = Append(f[n], p)
        BY <3>4, <4>1 DEF SanitizeStep, Rejoin
      <4>3. hit = p.results /\ hit # {}
        BY <2>3, <2>4, <3>4
      <4>4. Result(p.results) = p
        BY <2>3, <3>4 DEF Lines, Result, Payload
      <4>5. AddResult(a, p) = [a EXCEPT !.out = Append(@, p), !.pending = @ \ p.results]
        BY <4>3, <4>4 DEF AddResult
      <4> QED BY <2>3, <2>4, <2>7, <3>1, <3>4, <4>1, <4>2, <4>5
    <3>5. CASE p.role = "assistant"
      <4> DEFINE i == LastIndex(f[n])
                 m == MergeText(f[n], i, p)
      <4>1. ~Continues(p) /\ ~IsPinned(p)
        BY <3>5 DEF Continues, IsPinned
      <4>2. a.pending = {} /\ DropPending(a) = a
        BY <2>3, <2>4, <4>1 DEF DropPending
      <4>3. next = AddAssistant(a, p)
        BY <3>5, <4>1, <4>2 DEF SanitizeStep
      <4>4. LastRole(f[n]) # "none"
        <5>1. PICK j \in 1..((n + 1) - 1) : c[j].role = "user"
          BY <2>1, <3>5 DEF Greeted, p
        <5> QED BY <2>1, <2>3, <5>1
      <4>5. Ids(p) = p.calls
        <5>1. NoId \notin p.calls
          BY <2>3, PayloadsAssumption DEF Lines
        <5> QED BY <5>1 DEF Ids
      <4>6. CASE LastRole(f[n]) # "assistant"
        <5>1. next = Open(a, p) /\ Rejoin(f[n], p) = Append(f[n], p)
          BY <2>3, <4>3, <4>4, <4>6 DEF AddAssistant, Rejoin
        <5> QED BY <2>3, <2>4, <3>1, <3>5, <4>1, <4>5, <5>1 DEF Open
      <4>7. CASE LastRole(f[n]) = "assistant"
        <5>1. i \in 1..Len(f[n]) /\ f[n][i].role = "assistant" /\ Len(f[n]) \in Nat
              /\ \A j \in (i + 1)..Len(f[n]) : IsPinned(f[n][j])
          BY <2>3, <4>7, RoleFacts, ChainFacts
        <5> HIDE DEF i
        <5>2. f[n][i].calls = {}
          <6> SUFFICES ASSUME NEW id \in f[n][i].calls PROVE FALSE
            OBVIOUS
          <6>1. Met(f[n], {}, a.at)
            BY <2>3, <4>2 DEF Sound
          <6>2. PICK j \in 1..Len(f[n]) : InGroup(f[n], i, j) /\ id \in f[n][j].results
            BY <5>1, <6>1 DEF Met
          <6>3. j \in (i + 1)..Len(f[n]) /\ f[n][j].role = "result"
            BY <5>1, <6>2 DEF InGroup
          <6> QED BY <5>1, <6>3 DEF IsPinned
        <5>3. CASE HasCalls(p)
          <6>1. next = Open(Keep(a, Bridge), p)
            BY <2>3, <4>3, <4>7, <5>3 DEF AddAssistant, i
          <6>2. Rejoin(f[n], p) = f[n] \o <<Bridge, p>>
            BY <3>5, <4>7, <5>3 DEF Rejoin, i
          <6>3. Bridge \in Lines(W)
            BY MadeFacts
          <6>4. f[n] \o <<Bridge, p>> = Append(Append(f[n], Bridge), p)
            <7>1. f[n] \in Seq(Lines(W))
              BY <2>3 DEF Chains
            <7> QED BY <2>3, <6>3, <7>1
          <6>5. Append(f[n], Bridge) \in Chains(W)
            BY <2>3, <6>3, ChainFacts
          <6>6. LastRole(Append(Append(f[n], Bridge), p)) = "assistant"
            BY <2>3, <3>5, <4>1, <6>5, LastAppend
          <6>7. next.out = Append(Append(f[n], Bridge), p) /\ next.pending = Ids(p)
            BY <2>3, <2>7, <6>1 DEF Open, Keep
          <6> QED BY <2>4, <3>5, <4>5, <6>2, <6>4, <6>6, <6>7
        <5>4. CASE ~HasCalls(p)
          <6>1. p.calls = {} /\ ~HasCalls(f[n][i])
            BY <5>2, <5>4 DEF HasCalls
          <6>2. Rejoin(f[n], p) = m
            BY <3>5, <4>7, <6>1 DEF Rejoin, i, HasCalls
          <6>3. next = IF p.text = {} THEN a ELSE [a EXCEPT !.out = m]
            BY <2>3, <4>3, <4>7, <6>1 DEF AddAssistant, i, HasCalls
          <6> DEFINE line == [f[n][i] EXCEPT !.text = @ \cup p.text]
          <6>4. m = [f[n] EXCEPT ![i] = line]
            <7>1. DOMAIN f[n] = 1..Len(f[n])
              BY <2>3, ChainFacts
            <7> QED BY <5>1, <7>1 DEF MergeText
          <6>5. f[n][i] \in Lines(W)
            BY <2>3, <5>1, ChainFacts
          <6>6. line.role = "assistant" /\ (p.text = {} => line = f[n][i])
            BY <5>1, <6>5 DEF Lines
          <6>7. m \in Chains(W)
            BY <2>3, <3>5, <5>1, MergeFacts
          <6> HIDE DEF m, line
          <6>8. Len(m) = Len(f[n]) /\ \A k \in 1..Len(f[n]) : m[k] = IF k = i THEN line ELSE f[n][k]
            <7>1. DOMAIN f[n] = 1..Len(f[n]) /\ DOMAIN m = 1..Len(m)
              <8>1. DOMAIN f[n] = 1..Len(f[n])
                BY <2>3, ChainFacts
              <8>2. DOMAIN m = 1..Len(m)
                BY <6>7, ChainFacts
              <8> QED BY <8>1, <8>2
            <7>2. f[n] \in Seq(Lines(W)) /\ m \in Seq(Lines(W))
              BY <2>3, <6>7 DEF Chains
            <7>3. DOMAIN m = DOMAIN f[n]
              BY <6>4
            <7>4. Len(m) = Len(f[n])
              BY <7>2, <7>3, LenProperties
            <7> QED BY <6>4, <7>1, <7>4
          <6>9. LastRole(m) = "assistant"
            <7>1. \A k \in 1..Len(f[n]) : m[k].role = f[n][k].role
              BY <5>1, <6>6, <6>8
            <7> QED BY <2>3, <4>7, <6>7, <6>8, <7>1, LastSame
          <6>10. p.text = {} => m = f[n]
            <7>1. DOMAIN f[n] = 1..Len(f[n]) /\ f[n] = [k \in DOMAIN f[n] |-> f[n][k]]
              BY <2>3, ChainFacts DEF Chains
            <7> QED BY <6>4, <6>6, <7>1
          <6>11. next.out = m /\ next.pending = a.pending
            BY <2>3, <2>7, <6>3, <6>10
          <6> QED BY <2>4, <3>5, <4>2, <6>1, <6>2, <6>9, <6>11
        <5> QED BY <5>3, <5>4
      <4> QED BY <4>6, <4>7
    <3> QED BY <2>3, <3>2, <3>3, <3>4, <3>5 DEF Roles, IsPinned
  <2> HIDE DEF next
  <2> QED BY <2>1, <2>2, <2>5, <2>8
<1>7. 0..N \subseteq T
  <2> HIDE DEF T, N
  <2> QED BY <1>1, <1>5, <1>6, SetInduction
<1>8. g[N].out = f[N] /\ g[N].pending = {}
  <2>1. N \in T
    BY <1>1, <1>7
  <2> QED BY <2>1, UnmetEnds
<1>9. Sanitize(c) = DropPending(g[N]).out
  BY <1>4 DEF Sanitize, b
<1>10. Sanitize(c) = g[N].out
  BY <1>8, <1>9 DEF DropPending
<1> QED BY <1>3, <1>4, <1>8, <1>10 DEF b

\* In a settled chain the model was always greeted.
LEMMA SettledGreeted ==
    ASSUME NEW W, NEW c \in Chains(W), Settled(c)
    PROVE  /\ Greeted(c)
           /\ \A i \in 1..Len(c) : ~IsPinned(c[i]) =>
                 \E j \in 1..i : c[j].role = "user" /\ \A k \in 1..(j - 1) : IsPinned(c[k])
<1> DEFINE I == {i \in 1..Len(c) : ~IsPinned(c[i])}
           first == CHOOSE i \in I : \A j \in I : i <= j
<1>1. Len(c) \in Nat /\ I \in SUBSET (1..Len(c)) /\ \A i \in 1..Len(c) : c[i].role \in Roles
  <2>1. Len(c) \in Nat
    BY ChainFacts
  <2>2. \A i \in 1..Len(c) : c[i].role \in Roles
    BY LineFacts
  <2> QED BY <2>1, <2>2
<1>2. ASSUME NEW i \in 1..Len(c), ~IsPinned(c[i])
      PROVE  \E j \in 1..i : c[j].role = "user" /\ \A k \in 1..(j - 1) : IsPinned(c[k])
  <2>1. i \in I
    BY <1>2
  <2> HIDE DEF I
  <2>2. first \in I /\ \A j \in I : first <= j
    BY <1>1, <2>1, EndFacts
  <2> HIDE DEF first
  <2>3. first \in 1..i /\ first \in 1..Len(c) /\ ~IsPinned(c[first])
    BY <1>1, <2>1, <2>2 DEF I
  <2>4. \A k \in 1..(first - 1) : k \in 1..Len(c) /\ IsPinned(c[k])
    BY <1>1, <2>2, <2>3 DEF I
  <2>5. c[first].role # "assistant"
    BY <2>3, <2>4 DEF Settled, Follows, IsPinned
  <2>6. c[first].role # "result"
    BY <2>3, <2>4 DEF Settled, Owned, Owns, IsPinned
  <2>7. c[first].role = "user"
    BY <1>1, <2>3, <2>5, <2>6 DEF Roles, IsPinned
  <2> QED BY <2>3, <2>4, <2>7
<1>3. Greeted(c)
  <2> SUFFICES ASSUME NEW i \in 1..Len(c), c[i].role = "assistant"
               PROVE  \E j \in 1..(i - 1) : c[j].role = "user"
    BY DEF Greeted
  <2>1. ~IsPinned(c[i])
    BY DEF IsPinned
  <2>2. PICK j \in 1..i : c[j].role = "user"
    BY <1>2, <2>1
  <2>3. j # i
    BY <2>2
  <2> QED BY <1>1, <2>2, <2>3
<1> QED BY <1>2, <1>3

\* The sanitizers leave a settled chain as it is, so that a chain that is prepared
\* again and again, before each request and after each turn, stays the same and
\* the provider's cache of its prefix stays valid.
LEMMA SettledPrepared ==
    ASSUME NEW W, Words \subseteq W, NEW c \in Chains(W), Settled(c)
    PROVE  Sanitize(c) = c /\ Prepare(c) = c
<1>1. Owned(c) /\ Met(c, {}, 0) /\ Greeted(c)
  BY SettledGreeted DEF Settled
<1>2. Sanitize(c) = c
  BY <1>1, RejoinSanitizes, SettledRejoined
<1>3. Heal(c) = c
  BY SettledHealed
<1> QED BY <1>2, <1>3 DEF Prepare

\* Preparing a chain twice is preparing it once.
THEOREM PreparedOnce ==
    ASSUME NEW W, Words \subseteq W, NEW c \in Chains(W)
    PROVE  Prepare(Prepare(c)) = Prepare(c)
<1>1. Settled(Prepare(c)) /\ Prepare(c) \in Chains(W)
  BY PrepareFacts, HealFacts, SanitizeSettles DEF Prepare
<1> QED BY <1>1, SettledPrepared
-----------------------------------------------------------------------------
(* The order of a chain                                                    *)

\* The pinned payloads come first,
Fronted(c) ==
    \A i, j \in 1..Len(c) : i < j /\ IsPinned(c[j]) => IsPinned(c[i])

\* somebody speaks,
HasUser(c) == \E i \in 1..Len(c) : c[i].role = "user"

\* and who speaks first is a user who says nothing of w.
Greets(c, w) ==
    \E i \in 1..Len(c) : /\ c[i].role = "user" /\ c[i].text \cap w = {}
                         /\ \A k \in 1..(i - 1) : IsPinned(c[k])

\* None is pinned.
Loose(c) == \A i \in 1..Len(c) : ~IsPinned(c[i])

\* d has the order of c, and users or pinned payloads only as c has.
InOrder(c, d) ==
    /\ Fronted(c) => Fronted(d)
    /\ HasUser(c) => HasUser(d)
    /\ Loose(c) => Loose(d)

\* The same roles are in the same order.
LEMMA SameOrder ==
    ASSUME NEW W, NEW c \in Chains(W), NEW d \in Chains(W), Len(d) = Len(c),
           \A k \in 1..Len(c) : d[k].role = c[k].role
    PROVE  InOrder(c, d)
BY DEF InOrder, Fronted, HasUser, Loose, IsPinned

\* A chain with one more,
LEMMA AppendOrder ==
    ASSUME NEW W, NEW c \in Chains(W), NEW p \in Lines(W)
    PROVE  /\ ~IsPinned(p) => InOrder(c, Append(c, p))
           /\ HasUser(c) \/ p.role = "user" => HasUser(Append(c, p))
           /\ \A w : Greets(c, w) => Greets(Append(c, p), w)
<1> DEFINE d == Append(c, p)
           n == Len(c)
<1>1. n \in Nat /\ d \in Chains(W) /\ Len(d) = n + 1 /\ d[n + 1] = p /\ \A k \in 1..n : d[k] = c[k]
  BY AppendGroups
<1> HIDE DEF d
<1>2. \A k \in 1..n : k \in 1..Len(d)
  BY <1>1
<1>3. ASSUME ~IsPinned(p), Fronted(c) PROVE Fronted(d)
  <2> SUFFICES ASSUME NEW i \in 1..Len(d), NEW j \in 1..Len(d), i < j, IsPinned(d[j])
               PROVE  IsPinned(d[i])
    BY DEF Fronted
  <2>1. i \in 1..n
    BY <1>1
  <2>2. CASE j \in 1..n
    BY <1>1, <1>3, <2>1, <2>2 DEF Fronted
  <2>3. CASE j = n + 1
    BY <1>1, <1>3, <2>1, <2>3
  <2> QED BY <1>1, <2>2, <2>3
<1>4. HasUser(c) => HasUser(d)
  BY <1>1, <1>2 DEF HasUser
<1>5. p.role = "user" => HasUser(d)
  BY <1>1 DEF HasUser
<1>6. ASSUME NEW w, Greets(c, w) PROVE Greets(d, w)
  <2>1. PICK i \in 1..n : /\ c[i].role = "user" /\ c[i].text \cap w = {}
                          /\ \A k \in 1..(i - 1) : IsPinned(c[k])
    BY <1>6 DEF Greets
  <2>2. \A k \in 1..(i - 1) : k \in 1..n
    BY <1>1
  <2> QED BY <1>1, <1>2, <2>1, <2>2 DEF Greets
<1>7. ~IsPinned(p) /\ Loose(c) => Loose(d)
  <2>1. \A k \in 1..Len(d) : k \in 1..n \/ k = n + 1
    BY <1>1
  <2> QED BY <1>1, <2>1 DEF Loose
<1> QED BY <1>3, <1>4, <1>5, <1>6, <1>7 DEF d, InOrder

\* one with one less,
LEMMA RemoveOrder ==
    ASSUME NEW W, NEW c \in Chains(W), NEW x \in 1..Len(c), c[x].role # "user"
    PROVE  InOrder(c, RemoveAt(c, x))
<1> DEFINE d == RemoveAt(c, x)
           at(k) == IF k < x THEN k ELSE k + 1
<1>1. Len(c) \in Nat
  BY ChainFacts
<1>2. /\ d \in Chains(W) /\ Len(d) = Len(c) - 1
      /\ \A k \in 1..(x - 1) : d[k] = c[k]
      /\ \A k \in x..(Len(c) - 1) : d[k] = c[k + 1]
  BY GapFacts
<1> HIDE DEF d
<1>3. \A k \in 1..Len(d) : at(k) \in 1..Len(c) /\ d[k] = c[at(k)]
  BY <1>1, <1>2
<1>4. \A j, k \in 1..Len(d) : j < k => at(j) < at(k)
  BY <1>1, <1>2
<1>5. \A i \in 1..Len(c) : i # x => \E k \in 1..Len(d) : at(k) = i
  <2> SUFFICES ASSUME NEW i \in 1..Len(c), i # x PROVE \E k \in 1..Len(d) : at(k) = i
    OBVIOUS
  <2>1. CASE i < x
    <3>1. i \in 1..Len(d) /\ at(i) = i
      BY <1>1, <1>2, <2>1
    <3> QED BY <3>1
  <2>2. CASE i > x
    <3>1. i - 1 \in 1..Len(d) /\ at(i - 1) = i
      BY <1>1, <1>2, <2>2
    <3> QED BY <3>1
  <2> QED BY <1>1, <2>1, <2>2
<1> HIDE DEF at
<1>6. Fronted(c) => Fronted(d)
  BY <1>3, <1>4 DEF Fronted
<1>7. HasUser(c) => HasUser(d)
  BY <1>3, <1>5 DEF HasUser
<1>8. Loose(c) => Loose(d)
  BY <1>3 DEF Loose
<1> QED BY <1>6, <1>7, <1>8 DEF InOrder, d

\* one with another in a place,
LEMMA ReplaceOrder ==
    ASSUME NEW W, NEW c \in Chains(W), NEW x \in 1..Len(c), NEW p \in Lines(W), p.role = c[x].role
    PROVE  InOrder(c, ReplaceAt(c, x, p))
<1> DEFINE d == ReplaceAt(c, x, p)
<1>1. d \in Chains(W) /\ Len(d) = Len(c) /\ \A k \in 1..Len(c) : d[k] = IF k = x THEN p ELSE c[k]
  BY ChainFacts, ExceptSeq DEF ReplaceAt, Chains
<1> HIDE DEF d
<1>2. \A k \in 1..Len(c) : d[k].role = c[k].role
  BY <1>1
<1>3. InOrder(c, d)
  BY <1>1, <1>2, SameOrder
<1> QED BY <1>3 DEF d

\* and a part of one.
LEMMA OnlyOrder ==
    ASSUME NEW W, NEW c \in Chains(W), NEW I \in SUBSET (1..Len(c))
    PROVE  /\ Fronted(c) => Fronted(Only(c, I))
           /\ Loose(c) => Loose(Only(c, I))
           /\ (\E i \in I : c[i].role = "user") => HasUser(Only(c, I))
           /\ \A w : (\E i \in I : /\ c[i].role = "user" /\ c[i].text \cap w = {}
                                    /\ \A k \in 1..(i - 1) : IsPinned(c[k]))
                => Greets(Only(c, I), w)
           /\ (\A i \in (1..Len(c)) \ I : c[i].role = "assistant") /\ LastRole(c) \in {"user", "result"}
                => LastRole(Only(c, I)) = LastRole(c)
<1> DEFINE e == Only(c, I)
<1>1. Len(c) \in Nat /\ DOMAIN c = 1..Len(c) /\ c \in Seq(Lines(W)) /\ e \in Chains(W)
  BY ChainFacts
<1>2. \E at : Picked(e, c, I, at)
  BY <1>1, OnlyPicks
<1> HIDE DEF e
<1>3. PICK at : Picked(e, c, I, at)
  BY <1>2
<1>4. Len(e) \in Nat
  BY <1>1, ChainFacts
<1>5. \A n \in 1..Len(e) : at[n] \in 1..Len(c) /\ at[n] \in I /\ e[n] = c[at[n]]
  BY <1>3 DEF Picked
<1>6. \A m, n \in 1..Len(e) : m < n => at[m] < at[n]
  BY <1>3 DEF Picked
<1>7. \A i \in I : \E n \in 1..Len(e) : at[n] = i
  BY <1>3 DEF Picked
<1>8. Fronted(c) => Fronted(e)
  BY <1>5, <1>6 DEF Fronted
<1>9. (\E i \in I : c[i].role = "user") => HasUser(e)
  BY <1>5, <1>7 DEF HasUser
<1>10. ASSUME NEW w, NEW i \in I, c[i].role = "user", c[i].text \cap w = {},
              \A k \in 1..(i - 1) : IsPinned(c[k])
       PROVE  Greets(e, w)
  <2>1. PICK n \in 1..Len(e) : at[n] = i
    BY <1>7
  <2>2. ASSUME NEW k \in 1..(n - 1) PROVE IsPinned(e[k])
    <3>1. k \in 1..Len(e) /\ k < n
      BY <1>4
    <3>2. at[k] \in 1..(i - 1)
      BY <1>1, <1>5, <1>6, <2>1, <3>1
    <3> QED BY <1>5, <1>10, <3>1, <3>2
  <2> QED BY <1>5, <1>10, <2>1, <2>2 DEF Greets
<1>11. ASSUME \A i \in (1..Len(c)) \ I : c[i].role = "assistant", LastRole(c) \in {"user", "result"}
       PROVE  LastRole(e) = LastRole(c)
  <2> DEFINE l == LastIndex(c)
  <2>1. l \in 1..Len(c) /\ ~IsPinned(c[l]) /\ c[l].role = LastRole(c)
        /\ \A j \in (l + 1)..Len(c) : IsPinned(c[j])
    BY <1>11, RoleFacts
  <2> HIDE DEF l
  <2>2. PICK n \in 1..Len(e) : at[n] = l
    BY <1>7, <1>11, <2>1
  <2>3. ASSUME NEW k \in (n + 1)..Len(e) PROVE IsPinned(e[k])
    <3>1. k \in 1..Len(e) /\ n < k
      BY <1>4
    <3>2. at[k] \in (l + 1)..Len(c)
      BY <1>1, <1>5, <1>6, <2>1, <2>2, <3>1
    <3> QED BY <1>5, <2>1, <3>1, <3>2
  <2>4. LastRole(e) = e[n].role
    BY <1>1, <1>5, <2>1, <2>2, <2>3, LastOf
  <2> QED BY <1>5, <2>1, <2>2, <2>4
<1>12. Loose(c) => Loose(e)
  BY <1>5 DEF Loose
<1> QED BY <1>8, <1>9, <1>10, <1>11, <1>12 DEF e

\* What healing leaves: users as they are, and some of the others.
LEMMA HealShape ==
    ASSUME NEW W, NEW c \in Chains(W)
    PROVE  \E x \in Chains(W), I \in SUBSET (1..Len(c)) :
              /\ Heal(c) = Only(x, I) /\ Len(x) = Len(c)
              /\ \A j \in 1..Len(c) : x[j].role = c[j].role
              /\ \A j \in 1..Len(c) : c[j].role = "user" => j \in I /\ x[j] = c[j]
              /\ \A j \in 1..Len(c) : HealedAt(c, j) = IF j \in I THEN <<x[j]>> ELSE <<>>
<1> DEFINE N == Len(c)
           q == [j \in 1..N |-> HealedAt(c, j)]
           I == {j \in 1..N : HealedAt(c, j) # <<>>}
           x == [j \in 1..N |-> IF j \in I THEN HealedAt(c, j)[1] ELSE c[j]]
<1>1. N \in Nat /\ DOMAIN c = 1..N /\ \A j \in 1..N : c[j] \in Lines(W)
  BY ChainFacts
<1>2. ASSUME NEW j \in 1..N
      PROVE  /\ HealedAt(c, j) \in Chains(W)
             /\ j \in I => HealedAt(c, j) = <<x[j]>>
             /\ x[j] \in Lines(W) /\ x[j].role = c[j].role
             /\ c[j].role = "user" => j \in I /\ x[j] = c[j]
  <2> DEFINE p == c[j]
             i == Caller(c, j)
             calling   == [p EXCEPT !.calls = Matched(c, j)]
             answering == [p EXCEPT !.results = FirstAnswers(c, i, j)]
  <2>1. HealedAt(c, j) \in {<<>>, <<p>>, <<calling>>, <<answering>>}
    BY DEF HealedAt
  <2>2. p.role = "user" => HealedAt(c, j) = <<p>>
    BY DEF HealedAt, IsPinned
  <2>3. p \in Lines(W)
    BY <1>1
  <2>4. calling.role = p.role /\ answering.role = p.role
    <3>1. p = [role |-> p.role, text |-> p.text, calls |-> p.calls, results |-> p.results]
      BY <2>3 DEF Lines
    <3> HIDE DEF p, i
    <3> QED BY <3>1
  <2>5. HealedAt(c, j) \in Chains(W)
    BY HealedAtFacts
  <2> HIDE DEF calling, answering, p
  <2>6. \A y : <<y>> # <<>> /\ <<y>>[1] = y /\ Len(<<y>>) = 1
    OBVIOUS
  <2>7. j \in I => \E y \in {p, calling, answering} : HealedAt(c, j) = <<y>> /\ x[j] = y
    BY <2>1, <2>6
  <2>8. j \notin I => x[j] = p
    BY DEF p
  <2>9. p.role = "user" => j \in I /\ x[j] = p
    BY <2>2, <2>6
  <2>10. j \in I => x[j] \in Lines(W)
    <3> SUFFICES ASSUME j \in I PROVE x[j] \in Lines(W)
      OBVIOUS
    <3>1. HealedAt(c, j) = <<x[j]>> /\ Len(HealedAt(c, j)) = 1
      BY <2>6, <2>7
    <3>2. HealedAt(c, j)[1] \in Lines(W)
      <4>1. 1 \in 1..Len(HealedAt(c, j))
        BY <3>1
      <4> QED BY <2>5, <4>1, ChainFacts
    <3> QED BY <2>6, <3>1, <3>2
  <2> HIDE DEF I, x
  <2> QED BY <2>3, <2>4, <2>5, <2>7, <2>8, <2>9, <2>10 DEF p
<1>3. x \in Seq(Lines(W)) /\ Len(x) = N
  <2>1. \A j \in 1..N : x[j] \in Lines(W)
    BY <1>2
  <2> QED BY <1>1, <2>1
<1>4. q = [j \in 1..N |-> IF j \in I THEN <<x[j]>> ELSE <<>>]
  <2> DEFINE y == x
  <2>1. \A j \in 1..N : HealedAt(c, j) = IF j \in I THEN <<y[j]>> ELSE <<>>
    BY <1>2
  <2> HIDE DEF x, y
  <2>2. \A j \in 1..N : q[j] = IF j \in I THEN <<y[j]>> ELSE <<>>
    BY <2>1
  <2> QED BY <2>2 DEF y
<1>5. Heal(c) = FlattenSeq(q)
  BY <1>1 DEF Heal
<1>6. I \in SUBSET (1..N)
  OBVIOUS
<1>7. \A j \in 1..N : x[j].role = c[j].role /\ (c[j].role = "user" => j \in I /\ x[j] = c[j])
  BY <1>2
<1>8. \A j \in 1..N : HealedAt(c, j) = IF j \in I THEN <<x[j]>> ELSE <<>>
  BY <1>2
<1> HIDE DEF q, I, x
<1>9. Heal(c) = Only(x, I)
  <2>1. q = [j \in 1..Len(x) |-> IF j \in I THEN <<x[j]>> ELSE <<>>]
    BY <1>3, <1>4
  <2> QED BY <1>3, <1>5, <2>1, FlattenOnly
<1>10. x \in Chains(W)
  BY <1>3 DEF Chains
<1> QED BY <1>3, <1>6, <1>7, <1>9, <1>10, <1>8

\* Healing a chain keeps its order,
LEMMA HealOrder ==
    ASSUME NEW W, NEW c \in Chains(W)
    PROVE  InOrder(c, Heal(c))
<1>1. PICK x \in Chains(W), I \in SUBSET (1..Len(c)) :
         /\ Heal(c) = Only(x, I) /\ Len(x) = Len(c)
         /\ \A j \in 1..Len(c) : x[j].role = c[j].role
         /\ \A j \in 1..Len(c) : c[j].role = "user" => j \in I /\ x[j] = c[j]
  BY HealShape
<1>2. InOrder(c, x)
  BY <1>1, SameOrder
<1>3. (Fronted(x) => Fronted(Only(x, I))) /\ (Loose(x) => Loose(Only(x, I)))
  BY <1>1, OnlyOrder
<1>4. HasUser(x) => HasUser(Only(x, I))
  <2>1. HasUser(x) => \E i \in I : x[i].role = "user"
    BY <1>1 DEF HasUser
  <2> QED BY <1>1, <2>1, OnlyOrder
<1> QED BY <1>1, <1>2, <1>3, <1>4 DEF InOrder

\* dropping the open calls as well,
LEMMA DropOrder ==
    ASSUME NEW W, NEW a \in Passes(W), Sound(a)
    PROVE  InOrder(a.out, DropPending(a).out)
<1> DEFINE left == [a.out[a.at] EXCEPT !.calls = @ \ a.pending]
<1>1. a.out \in Chains(W)
  BY DEF Passes
<1>2. CASE a.pending = {}
  BY <1>2 DEF DropPending, InOrder
<1>3. CASE a.pending # {}
  <2>1. a.at \in 1..Len(a.out) /\ a.out[a.at].role = "assistant"
    BY <1>3 DEF Passes, Sound
  <2>2. left \in Lines(W) /\ left.role = a.out[a.at].role
    <3>1. a.out[a.at] \in Lines(W)
      BY <1>1, <2>1, ChainFacts
    <3>2. left \in Lines(W)
      BY <3>1, ChangedFacts
    <3> QED BY <3>1, <3>2 DEF Lines
  <2> HIDE DEF left
  <2>3. InOrder(a.out, RemoveAt(a.out, a.at))
    BY <1>1, <2>1, RemoveOrder
  <2>4. InOrder(a.out, ReplaceAt(a.out, a.at, left))
    BY <1>1, <2>1, <2>2, ReplaceOrder
  <2>5. DropPending(a).out \in {RemoveAt(a.out, a.at), ReplaceAt(a.out, a.at, left)}
    BY <1>3 DEF DropPending, left
  <2> QED BY <2>3, <2>4, <2>5
<1> QED BY <1>2, <1>3

\* and each step of the pass: with a pinned payload if only such were before it.
LEMMA StepOrder ==
    ASSUME NEW W, Words \subseteq W, NEW a \in Passes(W), Sound(a), NEW p \in Lines(W)
    PROVE  LET d == SanitizeStep(a, p).out
               pinned(c) == \A k \in 1..Len(c) : IsPinned(c[k])
           IN  /\ ~IsPinned(p) => InOrder(a.out, d)
               /\ IsPinned(p) /\ pinned(a.out) => pinned(d)
               /\ HasUser(a.out) \/ p.role = "user" => HasUser(d)
<1> DEFINE d == SanitizeStep(a, p).out
           pinned(c) == \A k \in 1..Len(c) : IsPinned(c[k])
           b == DropPending(a)
<1>1. /\ a.out \in Chains(W) /\ p.role \in Roles
      /\ b \in Passes(W) /\ b.out \in Chains(W) /\ Sound(b) /\ b.pending = {}
      /\ InOrder(a.out, b.out)
  <2>1. p.role \in Roles
    BY ChangedFacts
  <2>2. b \in Passes(W) /\ Sound(b) /\ b.pending = {} /\ InOrder(a.out, b.out)
    BY DropFacts, DropSound, DropOrder
  <2> HIDE DEF b
  <2> QED BY <2>1, <2>2 DEF Passes
<1>2. a \in [out : Chains(W), pending : SUBSET CallIds, at : Nat]
      /\ b \in [out : Chains(W), pending : SUBSET CallIds, at : Nat]
  BY <1>1 DEF Passes
<1> HIDE DEF b
<1>3. CASE IsPinned(p)
  <2>1. d = Append(a.out, p) /\ p.role # "user"
    BY <1>2, <1>3 DEF SanitizeStep, Keep, IsPinned
  <2>2. HasUser(a.out) => HasUser(d)
    BY <1>1, <2>1, AppendOrder
  <2>3. pinned(a.out) => pinned(d)
    <3>1. /\ Len(a.out) \in Nat /\ Len(d) = Len(a.out) + 1 /\ d[Len(a.out) + 1] = p
          /\ \A k \in 1..Len(a.out) : d[k] = a.out[k]
      BY <1>1, <2>1, AppendGroups
    <3> HIDE DEF d
    <3> QED BY <1>3, <3>1
  <2> HIDE DEF d
  <2> QED BY <1>3, <2>1, <2>2, <2>3 DEF d
<1>4. CASE p.role = "user"
  <2>1. d = Append(b.out, p) /\ ~IsPinned(p)
    BY <1>2, <1>4 DEF SanitizeStep, Keep, IsPinned, b
  <2>2. InOrder(b.out, d) /\ HasUser(d)
    BY <1>1, <1>4, <2>1, AppendOrder
  <2> HIDE DEF d
  <2> QED BY <1>1, <2>1, <2>2 DEF d, InOrder
<1>5. CASE p.role = "result"
  <2> DEFINE hit == p.results \cap a.pending
  <2>1. ~IsPinned(p)
    BY <1>5 DEF IsPinned
  <2>2. d \in {a.out, Append(a.out, Result(hit))}
    <3>1. SanitizeStep(a, p) = AddResult(a, p)
      BY <1>5, <2>1 DEF SanitizeStep
    <3> QED BY <1>2, <3>1 DEF AddResult
  <2>3. Result(hit) \in Lines(W) /\ ~IsPinned(Result(hit))
    <3>1. hit \in SUBSET CallIds
      BY <1>2
    <3> QED BY <3>1, MadeFacts DEF IsPinned, Result, Payload
  <2> HIDE DEF hit
  <2>4. InOrder(a.out, Append(a.out, Result(hit)))
    BY <1>1, <2>3, AppendOrder
  <2>5. InOrder(a.out, a.out)
    BY DEF InOrder
  <2> HIDE DEF d
  <2> QED BY <1>5, <2>1, <2>2, <2>4, <2>5 DEF d, InOrder
<1>6. CASE p.role = "assistant"
  <2> DEFINE i == LastIndex(b.out)
             m == MergeText(b.out, i, p)
             parted == Append(Append(b.out, Bridge), p)
  <2>1. ~IsPinned(p) /\ SanitizeStep(a, p) = AddAssistant(b, p)
    BY <1>6 DEF SanitizeStep, IsPinned, b
  <2>2. d \in {b.out, Append(b.out, p), parted} \/ (d = m /\ LastRole(b.out) = "assistant")
    <3> HIDE DEF i, m
    <3> QED BY <1>2, <2>1 DEF AddAssistant, Open, Keep, i, m
  <2>3. InOrder(b.out, b.out)
    BY DEF InOrder
  <2>4. InOrder(b.out, Append(b.out, p))
    BY <1>1, <2>1, AppendOrder
  <2>5. InOrder(b.out, parted)
    <3>1. Bridge \in Lines(W) /\ ~IsPinned(Bridge)
      BY MadeFacts DEF Bridge, User, Payload, IsPinned
    <3>2. Append(b.out, Bridge) \in Chains(W) /\ InOrder(b.out, Append(b.out, Bridge))
      BY <1>1, <3>1, AppendOrder, ChainFacts
    <3>3. InOrder(Append(b.out, Bridge), parted)
      BY <2>1, <3>2, AppendOrder
    <3> HIDE DEF parted
    <3> QED BY <3>2, <3>3 DEF InOrder
  <2>6. LastRole(b.out) = "assistant" => InOrder(b.out, m)
    <3> SUFFICES ASSUME LastRole(b.out) = "assistant" PROVE InOrder(b.out, m)
      OBVIOUS
    <3>1. i \in 1..Len(b.out) /\ b.out[i].role = "assistant"
      BY <1>1, RoleFacts
    <3> HIDE DEF i
    <3> DEFINE line == [b.out[i] EXCEPT !.text = @ \cup p.text]
    <3>2. DOMAIN b.out = 1..Len(b.out) /\ b.out[i] \in Lines(W)
      BY <1>1, <3>1, ChainFacts
    <3>3. m = ReplaceAt(b.out, i, line)
      BY <3>1, <3>2 DEF MergeText, ReplaceAt
    <3>4. line.role = b.out[i].role
      BY <3>2 DEF Lines
    <3>5. line \in Lines(W)
      <4>1. /\ b.out[i].text \in SUBSET W /\ p.text \in SUBSET W
            /\ b.out[i].text \subseteq Words /\ p.text \subseteq Words
        BY <1>6, <3>1, <3>2, ChangedFacts
      <4>2. b.out[i].text \cup p.text \in SUBSET W /\ b.out[i].text \cup p.text \subseteq Words
        BY <4>1
      <4>3. line = [b.out[i] EXCEPT !.text = b.out[i].text \cup p.text]
        OBVIOUS
      <4> HIDE DEF line
      <4> QED BY <3>1, <3>2, <4>2, <4>3, ChangedFacts
    <3> HIDE DEF line
    <3> QED BY <1>1, <3>1, <3>3, <3>4, <3>5, ReplaceOrder
  <2> HIDE DEF m, parted, d
  <2>7. InOrder(b.out, d)
    BY <2>2, <2>3, <2>4, <2>5, <2>6
  <2> QED BY <1>1, <1>6, <2>1, <2>7 DEF d, InOrder
<1> HIDE DEF d, pinned
<1> QED BY <1>1, <1>3, <1>4, <1>5, <1>6 DEF Roles, d, pinned, IsPinned

\* so that the sanitizers do.
LEMMA SanitizeOrder ==
    ASSUME NEW W, Words \subseteq W, NEW c \in Chains(W)
    PROVE  InOrder(c, Sanitize(c))
<1> DEFINE b == [out |-> <<>>, pending |-> {}, at |-> 0]
           N == Len(c)
           pinned(s) == \A k \in 1..Len(s) : IsPinned(s[k])
<1>1. b \in Passes(W) /\ N \in Nat /\ \A n \in 1..N : c[n] \in Lines(W)
  BY ChainFacts DEF Passes
<1>2. Sound(b) /\ Fronted(b.out) /\ pinned(b.out) /\ Loose(b.out)
  BY DEF Sound, Follows, Owned, Met, Fronted, Loose
<1> HIDE DEF b
<1>3. PICK f \in [0..N -> Passes(W)] :
         Sanitizing(f, b, c) /\ Folded(SanitizeStep, b, c) = f[N]
  BY <1>1, SanitizeRuns
<1> DEFINE T == {n \in 0..N : /\ Sound(f[n])
                              /\ Fronted(c) => Fronted(f[n].out)
                              /\ (\A k \in 1..n : IsPinned(c[k])) => pinned(f[n].out)
                              /\ (\E k \in 1..n : c[k].role = "user") => HasUser(f[n].out)
                              /\ Loose(c) => Loose(f[n].out)}
<1>4. 0 \in T
  <2>1. f[0] = b /\ \A k \in 1..0 : FALSE
    BY <1>1, <1>3 DEF Sanitizing
  <2> QED BY <1>1, <1>2, <2>1
<1>5. ASSUME NEW n \in 0..(N - 1), n \in T PROVE n + 1 \in T
  <2> DEFINE p == c[n + 1]
             a == f[n]
             d == f[n + 1].out
  <2>1. n + 1 \in 0..N /\ n + 1 # 0 /\ (n + 1) - 1 = n /\ n + 1 \in 1..N /\ n \in 0..N
    BY <1>1
  <2>2. f[n + 1] = SanitizeStep(a, p)
    BY <1>3, <2>1 DEF Sanitizing
  <2>3. a \in Passes(W) /\ Sound(a) /\ p \in Lines(W)
    BY <1>1, <1>3, <1>5, <2>1
  <2>4. /\ ~IsPinned(p) => InOrder(a.out, d)
        /\ IsPinned(p) /\ pinned(a.out) => pinned(d)
        /\ HasUser(a.out) \/ p.role = "user" => HasUser(d)
    <3> HIDE DEF a, p
    <3> QED BY <2>2, <2>3, StepOrder
  <2>5. Sound(f[n + 1])
    BY <2>2, <2>3, StepSound
  <2>6. /\ Fronted(c) => Fronted(a.out)
        /\ (\A k \in 1..n : IsPinned(c[k])) => pinned(a.out)
        /\ (\E k \in 1..n : c[k].role = "user") => HasUser(a.out)
        /\ Loose(c) => Loose(a.out)
    BY <1>5
  <2>7. \A k \in 1..(n + 1) : k \in 1..n \/ k = n + 1
    BY <2>1
  <2>8. Fronted(c) /\ IsPinned(p) => \A k \in 1..n : IsPinned(c[k])
    <3>1. \A k \in 1..n : k \in 1..N /\ k < n + 1
      BY <1>1, <2>1
    <3> QED BY <2>1, <3>1 DEF Fronted
  <2>9. n + 1 \in 1..(n + 1) /\ \A k \in 1..n : k \in 1..(n + 1)
    BY <2>1
  <2>10. Fronted(c) => Fronted(d)
    <3>1. pinned(d) => Fronted(d)
      <4> HIDE DEF d
      <4> QED BY DEF Fronted
    <3> HIDE DEF a, d, p, pinned
    <3> QED BY <2>4, <2>6, <2>8, <3>1 DEF InOrder
  <2> HIDE DEF a, d, pinned
  <2>11. (\A k \in 1..(n + 1) : IsPinned(c[k])) => pinned(d)
    BY <2>4, <2>6, <2>9
  <2>12. (\E k \in 1..(n + 1) : c[k].role = "user") => HasUser(d)
    BY <2>4, <2>6, <2>7
  <2>13. Loose(c) => Loose(d)
    <3>1. Loose(c) => ~IsPinned(p)
      BY <2>1 DEF Loose
    <3> HIDE DEF p
    <3> QED BY <2>4, <2>6, <3>1 DEF InOrder
  <2> QED BY <2>1, <2>5, <2>10, <2>11, <2>12, <2>13 DEF d
<1>6. 0..N \subseteq T
  <2> HIDE DEF T, N
  <2> QED BY <1>1, <1>4, <1>5, SetInduction
<1>7. f[N] \in Passes(W) /\ Sound(f[N]) /\ InOrder(c, f[N].out)
  <2>1. N \in 0..N
    BY <1>1
  <2>2. N \in T
    BY <1>6, <2>1
  <2> QED BY <1>3, <2>1, <2>2 DEF InOrder, HasUser
<1>8. Sanitize(c) = DropPending(f[N]).out
  BY <1>3 DEF Sanitize, b
<1> QED BY <1>7, <1>8, DropOrder DEF InOrder

\* What becomes of a chain that is prepared.
LEMMA PrepareOrder ==
    ASSUME NEW W, Words \subseteq W, NEW c \in Chains(W)
    PROVE  /\ Prepare(c) \in Chains(W) /\ Settled(Prepare(c)) /\ InOrder(c, Prepare(c))
<1>1. Heal(c) \in Chains(W) /\ InOrder(c, Heal(c))
  BY HealFacts, HealOrder
<1>2. InOrder(Heal(c), Prepare(c))
  BY <1>1, SanitizeOrder DEF Prepare
<1>3. Settled(Prepare(c)) /\ Prepare(c) \in Chains(W)
  BY <1>1, PrepareFacts, SanitizeSettles DEF Prepare
<1> QED BY <1>1, <1>2, <1>3 DEF InOrder

\* Calls that go leave the others in order,
LEMMA RemoveCallsOrder ==
    ASSUME NEW W, NEW c \in Chains(W), NEW ids
    PROVE  InOrder(c, RemoveCalls(c, ids))
<1> DEFINE makers == {i \in DOMAIN c : c[i].role = "assistant" /\ c[i].calls \cap ids # {}}
           i      == CHOOSE i \in makers : \A j \in makers : j <= i
           left   == [c[i] EXCEPT !.calls = @ \ ids]
<1>1. Len(c) \in Nat /\ makers \in SUBSET (1..Len(c))
      /\ \A j \in makers : c[j].role = "assistant"
  BY ChainFacts
<1>2. makers # {} => i \in 1..Len(c) /\ c[i].role = "assistant"
  <2> HIDE DEF makers
  <2>1. makers # {} => i \in makers
    BY <1>1, EndFacts
  <2> HIDE DEF i
  <2> QED BY <1>1, <2>1
<1>3. RemoveCalls(c, ids) = IF makers = {} THEN c
                            ELSE IF left.text = {} /\ left.calls = {} THEN RemoveAt(c, i)
                            ELSE ReplaceAt(c, i, left)
  BY DEF RemoveCalls
<1> HIDE DEF makers, i
<1>4. CASE makers = {}
  BY <1>3, <1>4 DEF InOrder
<1>5. CASE makers # {}
  <2>1. c[i] \in Lines(W) /\ i \in 1..Len(c) /\ c[i].role = "assistant"
    BY <1>2, <1>5, ChainFacts
  <2>2. left \in Lines(W) /\ left.role = c[i].role
    <3>1. left \in Lines(W)
      BY <2>1, ChangedFacts
    <3> QED BY <2>1, <3>1 DEF Lines
  <2> HIDE DEF left
  <2>3. InOrder(c, RemoveAt(c, i))
    BY <2>1, RemoveOrder
  <2>4. InOrder(c, ReplaceAt(c, i, left))
    BY <2>1, <2>2, ReplaceOrder
  <2> QED BY <1>3, <1>5, <2>3, <2>4
<1> QED BY <1>4, <1>5

\* and so does an empty reply.
LEMMA PurgeOrder ==
    ASSUME NEW W, NEW c \in Chains(W), NEW ids
    PROVE  PurgeReply(c, ids) \in Chains(W) /\ (Fronted(c) => Fronted(PurgeReply(c, ids)))
<1> DEFINE makers == {i \in DOMAIN c : c[i].role = "assistant" /\ c[i].calls \cap ids # {}}
           i      == CHOOSE i \in makers : \A j \in makers : j <= i
           purged == [j \in DOMAIN c |-> IF j \in GroupOf(c, i)
                                         THEN [c[j] EXCEPT !.results = @ \ ids] ELSE c[j]]
           e      == RemoveCalls(purged, ids)
           I      == {k \in DOMAIN e : e[k].role = "result" => e[k].results # {}}
<1>1. Len(c) \in Nat /\ DOMAIN c = 1..Len(c) /\ \A j \in 1..Len(c) : c[j] \in Lines(W)
  BY ChainFacts
<1>2. PurgeReply(c, ids) = IF makers = {} THEN c ELSE Only(e, I)
  BY DEF PurgeReply, Those
<1> HIDE DEF makers, i
<1>3. purged \in Chains(W) /\ Len(purged) = Len(c) /\ \A k \in 1..Len(c) : purged[k].role = c[k].role
  <2>1. \A j \in 1..Len(c) : /\ [c[j] EXCEPT !.results = @ \ ids] \in Lines(W)
                             /\ [c[j] EXCEPT !.results = @ \ ids].role = c[j].role
    <3> SUFFICES ASSUME NEW j \in 1..Len(c)
                 PROVE  /\ [c[j] EXCEPT !.results = @ \ ids] \in Lines(W)
                        /\ [c[j] EXCEPT !.results = @ \ ids].role = c[j].role
      OBVIOUS
    <3>1. c[j] \in Lines(W)
      BY <1>1
    <3>2. [c[j] EXCEPT !.results = @ \ ids] \in Lines(W)
      BY <3>1, ChangedFacts
    <3> QED BY <3>1, <3>2 DEF Lines
  <2>2. \A j \in 1..Len(c) : purged[j] \in Lines(W) /\ purged[j].role = c[j].role
    BY <1>1, <2>1
  <2>3. purged = [j \in 1..Len(c) |-> purged[j]]
    BY <1>1
  <2> HIDE DEF purged
  <2>4. purged \in Seq(Lines(W)) /\ Len(purged) = Len(c)
    BY <1>1, <2>2, <2>3
  <2> QED BY <2>2, <2>4 DEF Chains
<1> HIDE DEF purged
<1>4. e \in Chains(W) /\ InOrder(purged, e)
  BY <1>3, RemoveFacts, RemoveCallsOrder
<1>5. InOrder(c, purged)
  BY <1>3, SameOrder
<1> HIDE DEF e
<1>6. I \in SUBSET (1..Len(e)) /\ I \in SUBSET (DOMAIN e)
  BY <1>4, ChainFacts
<1> HIDE DEF I
<1>7. Fronted(e) => Fronted(Only(e, I))
  BY <1>4, <1>6, OnlyOrder
<1>8. PurgeReply(c, ids) \in Chains(W)
  BY PurgeFacts
<1> QED BY <1>2, <1>4, <1>5, <1>7, <1>8 DEF InOrder

\* Nothing pinned is restored,
LEMMA RestoreLoose ==
    ASSUME NEW W, NEW a \in Restores(W), Loose(a.out), NEW p \in Lines(W)
    PROVE  Loose(RestoreStep(a, p).out)
<1> DEFINE cut  == Upto(a.out, a.rollback)
           back == IF a.pending = {} THEN a ELSE [a EXCEPT !.out = cut, !.pending = {}]
           hit  == p.results \cap a.pending
           done == Append(a.out, Result(hit))
           out  == Append(back.out, p)
           r    == RestoreStep(a, p)
<1>1. a.out \in Chains(W) /\ a.rollback \in Nat /\ a.pending \in SUBSET CallIds
  BY DEF Restores
<1>2. cut \in Chains(W) /\ Loose(cut)
  <2> DEFINE s == a.out
             m == IF a.rollback <= Len(s) THEN a.rollback ELSE Len(s)
  <2>1. s \in Seq(Lines(W)) /\ Len(s) \in Nat
    BY <1>1, ChainFacts
  <2>2. cut = SubSeq(s, 1, m) /\ m \in 0..Len(s)
    BY <1>1, <2>1 DEF Upto
  <2>3. Loose(s)
    OBVIOUS
  <2> HIDE DEF cut, m, s
  <2>4. cut \in Chains(W) /\ Len(cut) = m /\ \A k \in 1..m : cut[k] = s[k]
    <3>1. cut \in Chains(W)
      BY <1>1, PartFacts DEF cut
    <3> QED BY <2>1, <2>2, <3>1
  <2> QED BY <2>1, <2>2, <2>3, <2>4 DEF Loose
<1> HIDE DEF cut
<1>3. back.out \in Chains(W) /\ Loose(back.out)
  BY <1>1, <1>2 DEF Restores
<1> HIDE DEF back
<1>4. CASE p.role = "user" \/ p.role = "assistant"
  <2>1. ~IsPinned(p) /\ p.role # "result" /\ p.role # "system"
    BY <1>4 DEF IsPinned
  <2>2. Loose(out)
    BY <1>3, <2>1, AppendOrder DEF InOrder
  <2>3. r.out = out \/ r = a
    BY <1>4, <2>1, <1>1, <1>3 DEF RestoreStep, back, cut, Restores
  <2> QED BY <2>2, <2>3
<1>5. CASE p.role = "result" /\ hit # {}
  <2>1. Result(hit) \in Lines(W) /\ ~IsPinned(Result(hit))
    <3>1. hit \in SUBSET CallIds
      BY <1>1
    <3> QED BY <3>1, MadeFacts DEF IsPinned, Result, Payload
  <2> HIDE DEF hit
  <2>2. Loose(done)
    BY <1>1, <2>1, AppendOrder DEF InOrder
  <2> USE DEF hit
  <2>3. r.out = done
    BY <1>5 DEF RestoreStep, Restores
  <2> QED BY <2>2, <2>3
<1>6. CASE p.role \notin {"user", "assistant"} /\ ~(p.role = "result" /\ hit # {})
  <2>1. r = a
    BY <1>6 DEF RestoreStep
  <2> QED BY <2>1
<1> QED BY <1>4, <1>5, <1>6

\* so that it starts with a user.
LEMMA RestoreOrder ==
    ASSUME NEW W, Words \subseteq W, NEW c \in Chains(W)
    PROVE  /\ Restore(c) \in Chains(W) /\ Loose(Restore(c))
           /\ Restore(c) # <<>> => Restore(c)[1].role = "user"
<1> DEFINE b == [out |-> <<>>, pending |-> {}, safe |-> 0, start |-> 0, rollback |-> 0]
           turns == RestoredTurns(c)
           end == Folded(RestoreStep, b, c)
           users == {i \in DOMAIN turns : turns[i].role = "user"}
           from  == CHOOSE i \in users : \A j \in users : i <= j
           tail  == SubSeq(turns, from, Len(turns))
           r == Restore(c)
<1>1. b \in Restores(W) /\ Loose(b.out)
  BY ChainFacts DEF Restores, Loose
<1>2. turns = IF end.pending = {} THEN end.out ELSE Upto(end.out, end.rollback)
  BY DEF RestoredTurns
<1>3. r = IF users = {} THEN <<>> ELSE Prepare(tail)
  BY DEF Restore
<1>4. turns \in Chains(W)
  BY TurnsFacts
<1>5. r \in Chains(W) /\ Settled(r)
  BY RestoreFacts, RestoreSettles
<1> HIDE DEF turns, r
<1>6. end \in Restores(W) /\ Loose(end.out)
  <2> HIDE DEF b
  <2>1. PICK f \in [0..Len(c) -> Restores(W)] : Restoring(f, b, c) /\ end = f[Len(c)]
    BY <1>1, RestoreRuns
  <2> HIDE DEF end
  <2> DEFINE N == Len(c)
             T == {n \in 0..N : Loose(f[n].out)}
  <2>2. N \in Nat /\ \A n \in 1..N : c[n] \in Lines(W)
    BY ChainFacts
  <2>3. f[0] = b
    BY <2>1, <2>2 DEF Restoring
  <2>4. 0 \in T
    BY <1>1, <2>2, <2>3
  <2>5. ASSUME NEW n \in 0..(N - 1), n \in T PROVE n + 1 \in T
    <3>1. n + 1 \in 0..N /\ n + 1 # 0 /\ (n + 1) - 1 = n /\ n + 1 \in 1..N
      BY <2>2
    <3>2. f[n + 1] = RestoreStep(f[n], c[n + 1])
      BY <2>1, <3>1 DEF Restoring
    <3>3. f[n] \in Restores(W) /\ Loose(f[n].out) /\ c[n + 1] \in Lines(W)
      BY <2>2, <2>5, <3>1
    <3>4. Loose(RestoreStep(f[n], c[n + 1]).out)
      BY <3>3, RestoreLoose
    <3> QED BY <3>1, <3>2, <3>4
  <2> HIDE DEF T
  <2>6. 0..N \subseteq T
    BY <2>2, <2>4, <2>5, SetInduction
  <2> QED BY <2>1, <2>2, <2>6 DEF T
<1> HIDE DEF end
<1>7. Loose(turns)
  <2> DEFINE s == end.out
             m == IF end.rollback <= Len(s) THEN end.rollback ELSE Len(s)
  <2>1. s \in Chains(W) /\ end.rollback \in Nat
    BY <1>6 DEF Restores
  <2>2. s \in Seq(Lines(W)) /\ Len(s) \in Nat
    BY <2>1, ChainFacts
  <2>3. Upto(s, end.rollback) = SubSeq(s, 1, m) /\ m \in 0..Len(s)
    BY <2>1, <2>2 DEF Upto
  <2>4. Loose(s)
    BY <1>6
  <2> HIDE DEF s, m
  <2>5. Len(SubSeq(s, 1, m)) = m /\ \A k \in 1..m : SubSeq(s, 1, m)[k] = s[k]
    BY <2>2, <2>3
  <2>6. Loose(SubSeq(s, 1, m))
    BY <2>2, <2>3, <2>4, <2>5 DEF Loose
  <2> QED BY <1>2, <2>3, <2>4, <2>6 DEF s
<1>8. Loose(r)
  <2>1. CASE users = {}
    BY <1>3, <2>1 DEF Loose
  <2>2. CASE users # {}
    <3>1. Len(turns) \in Nat /\ users \in SUBSET (1..Len(turns)) /\ turns \in Seq(Lines(W))
      BY <1>4, ChainFacts
    <3> HIDE DEF users
    <3>2. from \in users
      BY <2>2, <3>1, EndFacts
    <3> HIDE DEF from
    <3>3. from \in Nat \ {0} /\ from \in 1..Len(turns) /\ Len(turns) \in 0..Len(turns)
      BY <3>1, <3>2
    <3>4. tail \in Chains(W)
      BY <1>4, <3>3, PartFacts
    <3>5. Len(tail) = (Len(turns) - from) + 1 /\ \A k \in 1..Len(tail) : tail[k] = turns[(k + from) - 1]
      BY <3>1, <3>3
    <3>6. Loose(tail)
      BY <1>7, <3>1, <3>3, <3>5 DEF Loose
    <3> HIDE DEF tail
    <3>7. InOrder(tail, Prepare(tail))
      BY <3>4, PrepareOrder
    <3> QED BY <1>3, <2>2, <3>6, <3>7 DEF InOrder
  <2> QED BY <2>1, <2>2
<1>9. r # <<>> => r[1].role = "user"
  <2> SUFFICES ASSUME r # <<>> PROVE r[1].role = "user"
    OBVIOUS
  <2>1. Len(r) \in Nat /\ r \in Seq(Lines(W))
    BY <1>5, ChainFacts
  <2>2. 1 \in 1..Len(r) /\ ~IsPinned(r[1])
    BY <1>8, <2>1 DEF Loose
  <2>3. PICK j \in 1..1 : r[j].role = "user"
    BY <1>5, <2>2, SettledGreeted
  <2> QED BY <2>3
<1> QED BY <1>5, <1>8, <1>9 DEF r
-----------------------------------------------------------------------------
(* What a request is, and what becomes of the answer to it                 *)

\* r is c with d put in at n, after the payloads c starts with, which are pinned.
PutIn(r, c, d, n) ==
    /\ \A k \in 1..n : IsPinned(c[k])
    /\ n < Len(c) => ~IsPinned(c[n + 1])
    /\ Len(r) = Len(c) + Len(d)
    /\ \A k \in 1..n : r[k] = c[k]
    /\ \A k \in 1..Len(d) : r[n + k] = d[k]
    /\ \A k \in (n + 1)..Len(c) : r[Len(d) + k] = c[k]

\* That is where the history is put in.
LEMMA InjectAt ==
    ASSUME NEW W, NEW c \in Chains(W), NEW d \in Chains(W)
    PROVE  Inject(c, d) \in Chains(W) /\ \E n \in 0..Len(c) : PutIn(Inject(c, d), c, d, n)
<1> DEFINE rest  == {i \in DOMAIN c : ~IsPinned(c[i])}
           first == CHOOSE i \in rest : \A j \in rest : i <= j
           split == IF rest = {} THEN Len(c) ELSE first - 1
           a     == SubSeq(c, 1, split)
           b     == SubSeq(c, split + 1, Len(c))
           r     == Inject(c, d)
<1>1. Len(c) \in Nat /\ rest \in SUBSET (1..Len(c)) /\ c \in Seq(Lines(W))
      /\ \A i \in 1..Len(c) : i \in rest <=> ~IsPinned(c[i])
  BY ChainFacts
<1>2. r = (a \o d) \o b
  BY DEF Inject
<1>3. r \in Chains(W)
  BY InjectFacts
<1> HIDE DEF rest, r
<1>4. rest # {} => first \in rest /\ \A j \in rest : first <= j
  BY <1>1, EndFacts
<1>5. split \in 0..Len(c) /\ (\A k \in 1..split : IsPinned(c[k]))
      /\ (split < Len(c) => ~IsPinned(c[split + 1]))
  <2> HIDE DEF first
  <2>1. CASE rest = {}
    BY <1>1, <2>1
  <2>2. CASE rest # {}
    <3>1. first \in 1..Len(c) /\ split = first - 1
      BY <1>1, <1>4, <2>2
    <3>2. \A k \in 1..split : k \in 1..Len(c) /\ ~(first <= k)
      BY <1>1, <3>1
    <3>3. first = split + 1
      BY <1>1, <3>1
    <3>4. ~IsPinned(c[first])
      BY <1>1, <1>4, <2>2
    <3> QED BY <1>1, <1>4, <2>2, <3>1, <3>2, <3>3, <3>4
  <2> QED BY <2>1, <2>2
<1> HIDE DEF split, first
<1>6. a \in Seq(Lines(W)) /\ Len(a) = split /\ \A k \in 1..split : a[k] = c[k]
  BY <1>1, <1>5
<1>7. b \in Seq(Lines(W)) /\ Len(b) = Len(c) - split /\ \A k \in 1..(Len(c) - split) : b[k] = c[k + split]
  BY <1>1, <1>5
<1>8. d \in Seq(Lines(W)) /\ Len(d) \in Nat
  BY ChainFacts
<1> HIDE DEF a, b
<1>9. Len(r) = Len(c) + Len(d)
  <2> DEFINE x == a \o d
  <2>1. x \in Seq(Lines(W)) /\ Len(x) = Len(a) + Len(d)
    BY <1>6, <1>8
  <2>2. r = x \o b
    BY <1>2
  <2> HIDE DEF x
  <2>3. Len(r) = Len(x) + Len(b)
    <3>1. b \in Seq(Lines(W)) /\ x \in Seq(Lines(W))
      BY <1>7, <2>1
    <3> QED BY <2>2, <3>1, ConcatProperties
  <2> QED BY <1>1, <1>5, <1>6, <1>7, <1>8, <2>1, <2>3
<1>10. \A k \in 1..split : r[k] = c[k]
  BY <1>1, <1>2, <1>5, <1>6, <1>7, <1>8
<1>11. \A k \in 1..Len(d) : r[split + k] = d[k]
  BY <1>1, <1>2, <1>5, <1>6, <1>7, <1>8
<1>12. ASSUME NEW k \in (split + 1)..Len(c) PROVE r[Len(d) + k] = c[k]
  <2>1. k - split \in 1..(Len(c) - split) /\ (k - split) + split = k
    BY <1>1, <1>5
  <2>2. b[k - split] = c[k]
    BY <1>7, <2>1
  <2>3. r[Len(d) + k] = b[k - split]
    BY <1>1, <1>2, <1>5, <1>6, <1>7, <1>8, <2>1
  <2> QED BY <2>2, <2>3
<1>13. PutIn(r, c, d, split)
  BY <1>5, <1>9, <1>10, <1>11, <1>12 DEF PutIn
<1> QED BY <1>3, <1>5, <1>13 DEF r

\* It comes before the conversation it belongs to.
LEMMA InjectOrder ==
    ASSUME NEW W, NEW c \in Chains(W), NEW d \in Chains(W), NEW w, Fronted(c), Loose(d), Greets(c, w),
           d # <<>> => d[1].role = "user" /\ d[1].text \cap w = {}
    PROVE  LET r == Inject(c, d)
           IN  Fronted(r) /\ Greets(r, w) /\ LastRole(r) = LastRole(c)
<1> DEFINE r == Inject(c, d)
           m == Len(d)
<1>0. r \in Chains(W) /\ \E n \in 0..Len(c) : PutIn(r, c, d, n)
  BY InjectAt
<1> HIDE DEF r
<1>1. PICK n \in 0..Len(c) :
             /\ \A k \in 1..n : IsPinned(c[k])
             /\ n < Len(c) => ~IsPinned(c[n + 1])
             /\ r \in Chains(W) /\ Len(r) = Len(c) + m
             /\ \A k \in 1..n : r[k] = c[k]
             /\ \A k \in 1..m : r[n + k] = d[k]
             /\ \A k \in (n + 1)..Len(c) : r[m + k] = c[k]
  BY <1>0 DEF PutIn
<1>2. Len(c) \in Nat
  BY ChainFacts
<1>3. m \in Nat /\ d \in Seq(Lines(W))
  BY ChainFacts
<1>4. PICK g \in 1..Len(c) : c[g].role = "user" /\ c[g].text \cap w = {} /\ \A k \in 1..(g - 1) : IsPinned(c[k])
  BY DEF Greets
<1>5. Fronted(r)
  <2> SUFFICES ASSUME NEW i \in 1..Len(r), NEW j \in 1..Len(r), i < j, IsPinned(r[j]) PROVE IsPinned(r[i])
    BY DEF Fronted
  <2>1. j <= n
    <3> SUFFICES ASSUME j > n PROVE FALSE
      BY <1>2
    <3>1. CASE j <= n + m
      <4>1. j - n \in 1..m /\ n + (j - n) = j
        BY <1>2, <1>3, <3>1
      <4>2. r[j] = d[j - n]
        BY <1>1, <4>1
      <4> QED BY <4>1, <4>2 DEF Loose
    <3>2. CASE j > n + m
      <4>1. j - m \in (n + 1)..Len(c) /\ m + (j - m) = j /\ n < Len(c) /\ n + 1 \in 1..Len(c)
            /\ j - m \in 1..Len(c)
        BY <1>1, <1>2, <1>3, <3>2
      <4>2. IsPinned(c[j - m])
        BY <1>1, <4>1
      <4>3. IsPinned(c[n + 1])
        <5>1. n + 1 < j - m \/ n + 1 = j - m
          BY <1>1, <1>2, <1>3, <4>1
        <5> QED BY <4>1, <4>2, <5>1 DEF Fronted
      <4> QED BY <1>1, <4>1, <4>3
    <3> QED BY <1>2, <1>3, <3>1, <3>2
  <2>2. i \in 1..n
    BY <1>2, <2>1
  <2> QED BY <1>1, <2>2
<1>6. g > n /\ g = n + 1
  <2>1. ~IsPinned(c[g])
    BY <1>4 DEF IsPinned
  <2>2. g > n
    BY <1>1, <1>2, <2>1
  <2>3. n < Len(c) /\ ~(n + 1 \in 1..(g - 1))
    BY <1>1, <1>2, <1>4, <2>2
  <2> QED BY <1>2, <2>2, <2>3
<1>7. Greets(r, w)
  <2>1. n + 1 \in 1..Len(r)
    BY <1>1, <1>2, <1>3, <1>6
  <2>2. \A k \in 1..n : IsPinned(r[k])
    BY <1>1
  <2>3. (n + 1) - 1 = n
    BY <1>2
  <2>4. r[n + 1].role = "user" /\ r[n + 1].text \cap w = {}
    <3>1. CASE d = <<>>
      <4>1. m = 0 /\ n + 1 \in (n + 1)..Len(c)
        BY <1>2, <1>6, <3>1
      <4>2. r[0 + (n + 1)] = c[n + 1] /\ 0 + (n + 1) = n + 1
        BY <1>1, <1>2, <4>1
      <4> QED BY <1>4, <1>6, <4>2
    <3>2. CASE d # <<>>
      <4>1. 1 \in 1..m
        BY <1>3, <3>2
      <4> QED BY <1>1, <3>2, <4>1
    <3> QED BY <3>1, <3>2
  <2> QED BY <2>1, <2>2, <2>3, <2>4 DEF Greets
<1>8. LastRole(r) = LastRole(c)
  <2> DEFINE l == LastIndex(c)
  <2>0. ~IsPinned(c[g])
    BY <1>4 DEF IsPinned
  <2>1. l \in 1..Len(c) /\ ~IsPinned(c[l]) /\ c[l].role = LastRole(c) /\ \A j \in (l + 1)..Len(c) : IsPinned(c[j])
    BY <2>0, RoleFacts
  <2> HIDE DEF l
  <2>2. l \in (n + 1)..Len(c) /\ m + l \in 1..Len(r)
    BY <1>1, <1>2, <1>3, <2>1
  <2>3. r[m + l] = c[l]
    BY <1>1, <2>2
  <2>4. ASSUME NEW j \in ((m + l) + 1)..Len(r) PROVE IsPinned(r[j])
    <3>1. j - m \in (l + 1)..Len(c) /\ j - m \in (n + 1)..Len(c) /\ m + (j - m) = j
      BY <1>1, <1>2, <1>3, <2>2
    <3> QED BY <1>1, <2>1, <3>1
  <2>5. LastRole(r) = r[m + l].role
    BY <1>1, <2>1, <2>2, <2>3, <2>4, LastOf
  <2> QED BY <2>1, <2>3, <2>5
<1> QED BY <1>5, <1>7, <1>8 DEF r

\* What a request has to be so that the provider takes it, and so that a note can
\* be taken out of the answer to it.
Ready(c, w) ==
    Settled(c) /\ Fronted(c) /\ Greets(c, w) /\ LastRole(c) \in {"user", "result"}

\* A chain where a user speaks first.
LEMMA GreetsFacts ==
    ASSUME NEW W, NEW c \in Chains(W)
    PROVE  /\ \A w : Greets(c, w) => Greets(c, {}) /\ Greeted(c) /\ HasUser(c)
           /\ Settled(c) /\ HasUser(c) => Greets(c, {})
<1>1. Len(c) \in Nat
  BY ChainFacts
<1>2. ASSUME NEW w, Greets(c, w) PROVE Greets(c, {}) /\ Greeted(c) /\ HasUser(c)
  <2>1. PICK g \in 1..Len(c) : c[g].role = "user" /\ \A k \in 1..(g - 1) : IsPinned(c[k])
    BY <1>2 DEF Greets
  <2>2. ASSUME NEW i \in 1..Len(c), c[i].role = "assistant"
        PROVE  \E j \in 1..(i - 1) : c[j].role = "user"
    <3>1. i # g /\ ~(i \in 1..(g - 1))
      BY <2>1, <2>2 DEF IsPinned
    <3>2. g \in 1..(i - 1)
      BY <1>1, <3>1
    <3> QED BY <2>1, <3>2
  <2> QED BY <2>1, <2>2 DEF Greets, Greeted, HasUser
<1>3. ASSUME Settled(c), HasUser(c) PROVE Greets(c, {})
  <2>1. PICK i \in 1..Len(c) : c[i].role = "user"
    BY <1>3 DEF HasUser
  <2>2. ~IsPinned(c[i])
    BY <2>1 DEF IsPinned
  <2>3. PICK j \in 1..i : c[j].role = "user" /\ \A k \in 1..(j - 1) : IsPinned(c[k])
    BY <1>3, <2>2, SettledGreeted
  <2>4. j \in 1..Len(c)
    BY <1>1
  <2> QED BY <2>3, <2>4 DEF Greets
<1> QED BY <1>2, <1>3

\* The repair of adjacent assistants takes the last payload last, whatever it is.
LEMMA RejoinLast ==
    ASSUME NEW W, Words \subseteq W, NEW c \in Chains(W), NEW p
    PROVE  Folded(Rejoin, <<>>, Append(c, p)) = Rejoin(Folded(Rejoin, <<>>, c), p)
<1> DEFINE d == Append(c, p)
           N == Len(c)
           S == Lines(W) \cup {p}
           F == CHOOSE f : Rejoining(f, <<>>, d)
<1>1. N \in Nat /\ <<>> \in Chains(W) /\ c \in Seq(S)
  BY ChainFacts
<1>2. d \in Seq(S) /\ Len(d) = N + 1 /\ d[N + 1] = p /\ \A k \in 1..N : d[k] = c[k]
  <2>1. p \in S
    OBVIOUS
  <2> HIDE DEF S
  <2> QED BY <1>1, <2>1, AppendProperties
<1> HIDE DEF d, S
<1>3. PICK f \in [0..Len(c) -> Chains(W)] :
              Rejoining(f, <<>>, c) /\ Folded(Rejoin, <<>>, c) = f[Len(c)]
  BY <1>1, RejoinRuns
<1> DEFINE g == [n \in 0..(N + 1) |-> IF n = N + 1 THEN Rejoin(f[N], p) ELSE f[n]]
<1>4. Rejoining(g, <<>>, d)
  <2>1. ASSUME NEW n \in 0..(N + 1)
        PROVE  g[n] = IF n = 0 THEN <<>> ELSE Rejoin(g[n - 1], d[n])
    <3>1. CASE n = N + 1
      <4>1. n # 0 /\ n - 1 = N /\ N \in 0..(N + 1) /\ N # N + 1
        BY <1>1, <3>1
      <4>2. g[n] = Rejoin(f[N], p) /\ g[N] = f[N]
        BY <3>1, <4>1
      <4> QED BY <1>2, <3>1, <4>1, <4>2
    <3>2. CASE n = 0
      <4>1. g[0] = f[0] /\ f[0] = <<>>
        BY <1>1, <1>3, <3>2 DEF Rejoining
      <4> QED BY <3>2, <4>1
    <3>3. CASE n # N + 1 /\ n # 0
      <4>1. n \in 1..N /\ n \in 0..N /\ n - 1 \in 0..N /\ n - 1 \in 0..(N + 1) /\ n - 1 # N + 1
        BY <1>1, <3>3
      <4>2. g[n] = f[n] /\ g[n - 1] = f[n - 1] /\ d[n] = c[n]
        BY <1>2, <3>3, <4>1
      <4>3. f[n] = Rejoin(f[n - 1], c[n])
        BY <1>3, <3>3, <4>1 DEF Rejoining
      <4> QED BY <3>3, <4>2, <4>3
    <3> QED BY <3>1, <3>2, <3>3
  <2>2. g = [n \in 0..(N + 1) |-> g[n]]
    OBVIOUS
  <2> HIDE DEF g
  <2> QED BY <1>2, <2>1, <2>2 DEF Rejoining
<1> HIDE DEF g
<1>5. Rejoining(F, <<>>, d)
  BY <1>4
<1>6. Folded(Rejoin, <<>>, d) = F[N + 1]
  BY <1>2 DEF Folded, Rejoining
<1> HIDE DEF F
<1> DEFINE T == {n \in 0..N : F[n] = f[n]}
<1>7. 0 \in T
  <2>1. 0 \in 0..Len(d) /\ 0 \in 0..Len(c) /\ 0 \in 0..N
    BY <1>1, <1>2
  <2> QED BY <1>3, <1>5, <2>1 DEF Rejoining
<1>8. ASSUME NEW n \in 0..(N - 1), n \in T PROVE n + 1 \in T
  <2>1. n + 1 \in 0..N /\ n + 1 \in 0..Len(d) /\ n + 1 # 0 /\ (n + 1) - 1 = n /\ n + 1 \in 1..N
    BY <1>1, <1>2
  <2>2. f[n + 1] = Rejoin(f[n], c[n + 1])
    BY <1>3, <2>1 DEF Rejoining
  <2>3. F[n + 1] = Rejoin(F[n], d[n + 1])
    BY <1>5, <2>1 DEF Rejoining
  <2>4. F[n] = f[n] /\ d[n + 1] = c[n + 1]
    BY <1>2, <1>8, <2>1
  <2> QED BY <2>1, <2>2, <2>3, <2>4
<1> HIDE DEF T
<1>9. 0..N \subseteq T
  BY <1>1, <1>7, <1>8, SetInduction
<1>10. F[N] = f[N]
  BY <1>1, <1>9 DEF T
<1>11. F[N + 1] = Rejoin(F[N], d[N + 1])
  <2>1. N + 1 \in 0..Len(d) /\ N + 1 # 0 /\ (N + 1) - 1 = N
    BY <1>1, <1>2
  <2> QED BY <1>5, <2>1 DEF Rejoining
<1> QED BY <1>2, <1>3, <1>6, <1>10, <1>11 DEF d

\* A chain without the markers, and one without the payloads that say something of w.
Unmarked(c)   == Only(c, {i \in DOMAIN c : ~IsSuspend(c[i])})
Without(c, w) == Only(c, {i \in DOMAIN c : c[i].text \cap w = {}})

\* One without the markers in which whoever spoke twice in a row is taken apart.
Cleaned(c) == Folded(Rejoin, <<>>, Unmarked(c))

\* A chain that is in order but for the ends of its turns, and the answer to it,
\* are repaired to the sanitized chain and the answer.
LEMMA RepairAppend ==
    ASSUME NEW W, Words \subseteq W, NEW c \in Chains(W), Owned(c), Met(c, {}, 0), Fronted(c),
           Greets(c, {}), NEW p \in Lines(W), p.role = "assistant", ~IsSuspend(p)
    PROVE  \E z \in Chains(W) : /\ Settled(z) /\ Fronted(z) /\ Greets(z, {})
                                /\ Repair(Append(c, p)) = Rejoin(z, p)
                                /\ z = Cleaned(c)
<1> DEFINE a == Append(c, p)
           I == {i \in DOMAIN c : ~IsSuspend(c[i])}
           J == {i \in DOMAIN a : ~IsSuspend(a[i])}
           q == Only(c, I)
           b == Append(q, p)
           z == Sanitize(q)
<1>1. Len(c) \in Nat /\ DOMAIN c = 1..Len(c) /\ c \in Seq(Lines(W)) /\ I \in SUBSET (1..Len(c))
  BY ChainFacts
<1>2. a \in Chains(W) /\ Len(a) = Len(c) + 1 /\ a[Len(c) + 1] = p /\ \A k \in 1..Len(c) : a[k] = c[k]
  BY AppendGroups
<1>3. DOMAIN a = 1..Len(a)
  BY <1>2, ChainFacts
<1>4. Repair(a) = Folded(Rejoin, <<>>, Heal(Only(a, J)))
  BY DEF Repair, Those
<1>5. Only(a, J) = b
  <2>1. J \cap (1..Len(c)) = I \cap (1..Len(c)) /\ Len(c) + 1 \in J
    BY <1>1, <1>2, <1>3
  <2> HIDE DEF I, J
  <2> QED BY <1>1, <2>1, OnlyAppend
<1>6. ASSUME NEW i \in (1..Len(c)) \ I PROVE c[i].role = "assistant" /\ c[i].calls = {}
  BY <1>1, <1>6 DEF IsSuspend, HasCalls
<1>7. PICK g \in 1..Len(c) : c[g].role = "user" /\ \A k \in 1..(g - 1) : IsPinned(c[k])
  BY DEF Greets
<1>8. g \in I
  BY <1>1, <1>7 DEF IsSuspend
<1> HIDE DEF a, I, J
<1>9. q \in Chains(W)
  BY <1>1, ThoseFacts
<1>10. Owned(q) /\ Met(q, {}, 0)
  <2>1. \A i \in (1..Len(c)) \ I : c[i].role # "result" /\ c[i].calls = {}
    BY <1>6
  <2> QED BY <1>1, <2>1, ThinFacts
<1>11. Fronted(q)
  BY <1>1, OnlyOrder
<1>12. Greets(q, {})
  <2>1. c[g].text \cap {} = {}
    OBVIOUS
  <2> QED BY <1>1, <1>7, <1>8, <2>1, OnlyOrder
<1> HIDE DEF q
<1>13. Greeted(q) /\ HasUser(q)
  BY <1>9, <1>12, GreetsFacts
<1>14. b \in Chains(W) /\ Len(b) = Len(q) + 1 /\ Len(q) \in Nat
  <2>1. Len(q) \in Nat
    BY <1>9, ChainFacts
  <2> QED BY <1>9, <2>1, AppendGroups
<1>15. Owned(b) /\ Met(b, p.calls, Len(q) + 1)
  <2>1. p.role # "result"
    OBVIOUS
  <2> QED BY <1>9, <1>10, <2>1, AppendSettles
<1> HIDE DEF b
<1>16. Heal(b) = b
  <2>1. ASSUME NEW j \in 1..Len(b) PROVE HealedAt(b, j) = <<b[j]>>
    <3>1. Len(b) <= Len(b)
      BY <1>14
    <3>2. \A k \in 1..Len(b) : b[k] = [b[k] EXCEPT !.results = b[k].results]
      <4>1. \A k \in 1..Len(b) : b[k] \in Lines(W)
        BY <1>14, ChainFacts
      <4> QED BY <4>1 DEF Lines
    <3>3. Fuller(b, b)
      BY <3>2 DEF Fuller, Owns
    <3>4. b \in Chains(W) /\ Owned(b) /\ Met(b, p.calls, Len(b))
      BY <1>14, <1>15
    <3>5. p.calls # {} => Len(b) = Len(b)
      OBVIOUS
    <3> QED BY <3>1, <3>3, <3>4, <3>5, HealedLike
  <2>2. DOMAIN b = 1..Len(b) /\ b \in Seq(Lines(W))
    BY <1>14, ChainFacts
  <2>3. [j \in DOMAIN b |-> HealedAt(b, j)] = [j \in 1..Len(b) |-> <<b[j]>>]
    BY <2>1, <2>2
  <2> QED BY <2>2, <2>3, FlattenSingles DEF Heal
<1>17. Repair(a) = Rejoin(z, p) /\ z = Folded(Rejoin, <<>>, q)
  <2>1. Folded(Rejoin, <<>>, b) = Rejoin(Folded(Rejoin, <<>>, q), p)
    BY <1>9, RejoinLast DEF b
  <2>2. Folded(Rejoin, <<>>, q) = z
    BY <1>9, <1>10, <1>13, RejoinSanitizes
  <2> QED BY <1>4, <1>5, <1>16, <2>1, <2>2
<1>18. z \in Chains(W) /\ Settled(z)
  BY <1>9, SanitizeFacts, SanitizeSettles
<1>19. InOrder(q, z)
  BY <1>9, SanitizeOrder
<1> HIDE DEF z
<1>20. z = Cleaned(c)
  BY <1>17 DEF q, I, Cleaned, Unmarked
<1>21. Fronted(z) /\ HasUser(z)
  BY <1>11, <1>13, <1>19 DEF InOrder
<1>22. Greets(z, {})
  BY <1>18, <1>21, GreetsFacts
<1> QED BY <1>17, <1>18, <1>20, <1>21, <1>22 DEF a

\* The last payload of a chain whose pinned ones come first.
LEMMA FrontedLast ==
    ASSUME NEW W, NEW c \in Chains(W), Fronted(c), Greets(c, {})
    PROVE  /\ Len(c) \in 1..Len(c) /\ ~IsPinned(c[Len(c)])
           /\ LastIndex(c) = Len(c) /\ LastRole(c) = c[Len(c)].role
           /\ LastRole(c) \in {"user", "assistant", "result"}
<1>1. Len(c) \in Nat
  BY ChainFacts
<1>2. PICK g \in 1..Len(c) : c[g].role = "user"
  BY DEF Greets
<1>3. ~IsPinned(c[g])
  BY <1>2 DEF IsPinned
<1> DEFINE l == LastIndex(c)
<1>4. l \in 1..Len(c) /\ ~IsPinned(c[l]) /\ c[l].role = LastRole(c) /\ \A j \in (l + 1)..Len(c) : IsPinned(c[j])
  BY <1>3, RoleFacts
<1> HIDE DEF l
<1>5. l = Len(c)
  <2> SUFFICES ASSUME l # Len(c) PROVE FALSE
    OBVIOUS
  <2>1. Len(c) \in (l + 1)..Len(c) /\ l < Len(c) /\ Len(c) \in 1..Len(c)
    BY <1>1, <1>4
  <2> QED BY <1>4, <2>1 DEF Fronted
<1>6. c[Len(c)].role \in Roles
  BY <1>4, <1>5, LineFacts
<1>7. LastRole(c) \in {"user", "assistant", "result"}
  BY <1>4, <1>5, <1>6 DEF Roles, IsPinned
<1> QED BY <1>4, <1>5, <1>7 DEF l

\* Calls that are rejoined come after a user or a result,
LEMMA RejoinCalls ==
    ASSUME NEW W, Words \subseteq W, NEW c \in Chains(W), Settled(c), Fronted(c), Greets(c, {}),
           NEW p \in Lines(W), p.role = "assistant", HasCalls(p)
    PROVE  \E y \in Chains(W) : /\ Ready(y, {}) /\ Rejoin(c, p) = Append(y, p)
                                /\ y \in {c, Append(c, Bridge)}
<1>1. LastRole(c) \in {"user", "assistant", "result"}
  BY FrontedLast
<1>2. CASE LastRole(c) # "assistant"
  BY <1>1, <1>2 DEF Ready, Rejoin
<1>3. CASE LastRole(c) = "assistant"
  <2> DEFINE y == Append(c, Bridge)
  <2>1. c \in Seq(Lines(W)) /\ Bridge \in Lines(W)
    BY ChainFacts, MadeFacts
  <2>2. c \o <<Bridge, p>> = Append(y, p)
    <3> HIDE DEF Bridge
    <3> QED BY <2>1
  <2>3. Rejoin(c, p) = Append(y, p)
    BY <1>3, <2>2 DEF Rejoin
  <2>4. Bridge.role = "user" /\ Bridge.calls = {} /\ ~IsPinned(Bridge)
    BY DEF Bridge, User, Payload, IsPinned
  <2> HIDE DEF Bridge
  <2>5. y \in Chains(W)
    BY <2>1, ChainFacts
  <2>6. Follows(y) /\ Owned(y) /\ Met(y, {}, 0)
    BY <2>1, <2>4, AppendSettles DEF Settled
  <2>7. InOrder(c, y) /\ Greets(y, {})
    BY <2>1, <2>4, AppendOrder
  <2>8. LastRole(y) = "user"
    BY <2>1, <2>4, LastAppend
  <2> QED BY <2>3, <2>5, <2>6, <2>7, <2>8 DEF Ready, Settled, InOrder
<1> QED BY <1>2, <1>3

\* The model has the last word, and it is one of its own.
Spoke(c) ==
    /\ Settled(c) /\ Fronted(c) /\ Greets(c, {})
    /\ c[Len(c)].role = "assistant" /\ "said" \in c[Len(c)].text

\* A text after a settled chain,
LEMMA AppendSaid ==
    ASSUME NEW W, NEW c \in Chains(W), Ready(c, {}), NEW p \in Lines(W), p.role = "assistant",
           p.calls = {}, "said" \in p.text
    PROVE  Append(c, p) \in Chains(W) /\ Spoke(Append(c, p))
<1>1. ~IsPinned(p) /\ p.role # "result"
  BY DEF IsPinned
<1>2. Follows(Append(c, p)) /\ Owned(Append(c, p)) /\ Met(Append(c, p), {}, 0)
  BY <1>1, AppendSettles DEF Ready, Settled
<1>3. InOrder(c, Append(c, p)) /\ Greets(Append(c, p), {})
  BY <1>1, AppendOrder DEF Ready
<1>4. Append(c, p) \in Chains(W) /\ Append(c, p)[Len(Append(c, p))] = p
  BY AppendGroups
<1> QED BY <1>2, <1>3, <1>4 DEF Ready, Spoke, Settled, InOrder

\* and one that is rejoined.
LEMMA RejoinSaid ==
    ASSUME NEW W, Words \subseteq W, NEW c \in Chains(W), Settled(c), Fronted(c), Greets(c, {}),
           NEW p \in Lines(W), p.role = "assistant", p.calls = {}, "said" \in p.text
    PROVE  Rejoin(c, p) \in Chains(W) /\ Spoke(Rejoin(c, p))
<1> DEFINE n == Len(c)
<1>1. /\ n \in 1..n /\ ~IsPinned(c[n]) /\ LastIndex(c) = n /\ LastRole(c) = c[n].role
      /\ LastRole(c) \in {"user", "assistant", "result"}
  BY FrontedLast
<1>2. CASE LastRole(c) # "assistant"
  <2>1. Ready(c, {}) /\ Rejoin(c, p) = Append(c, p)
    BY <1>1, <1>2 DEF Ready, Rejoin
  <2> QED BY <2>1, AppendSaid
<1>3. CASE LastRole(c) = "assistant" /\ HasCalls(c[n])
  <2>1. c \in Seq(Lines(W)) /\ Bridge \in Lines(W)
    BY ChainFacts, MadeFacts
  <2>2. Rejoin(c, p) = c \o <<Bridge, p>>
    BY <1>1, <1>3 DEF Rejoin
  <2>3. Bridge.role = "user" /\ Bridge.calls = {} /\ ~IsPinned(Bridge)
    BY DEF Bridge, User, Payload, IsPinned
  <2> DEFINE y == Append(c, Bridge)
  <2> HIDE DEF Bridge
  <2>4. c \o <<Bridge, p>> = Append(y, p)
    BY <2>1
  <2>5. y \in Chains(W)
    BY <2>1, ChainFacts
  <2>6. Follows(y) /\ Owned(y) /\ Met(y, {}, 0)
    BY <2>1, <2>3, AppendSettles DEF Settled
  <2>7. InOrder(c, y) /\ Greets(y, {})
    BY <2>1, <2>3, AppendOrder
  <2>8. LastRole(y) = "user"
    BY <2>1, <2>3, LastAppend
  <2>9. Ready(y, {})
    BY <2>6, <2>7, <2>8 DEF Ready, Settled, InOrder
  <2> QED BY <2>2, <2>4, <2>5, <2>9, AppendSaid
<1>4. CASE LastRole(c) = "assistant" /\ ~HasCalls(c[n])
  <2> DEFINE d == MergeText(c, n, p)
  <2>1. Rejoin(c, p) = d
    BY <1>1, <1>4 DEF Rejoin, HasCalls
  <2>2. d \in Chains(W)
    BY <1>1, <1>4, MergeFacts
  <2>3. Len(c) \in Nat /\ DOMAIN c = 1..Len(c) /\ \A i \in 1..Len(c) : c[i] \in Lines(W)
    BY ChainFacts
  <2>4. c \in Seq(Lines(W))
    BY ChainFacts
  <2> DEFINE line == [c[n] EXCEPT !.text = @ \cup p.text]
  <2>5. d = [c EXCEPT ![n] = line]
    BY <1>1, <2>3 DEF MergeText
  <2>6. c[n] \in Lines(W)
    BY <1>1, <2>3
  <2>7. /\ line.role = c[n].role /\ line.calls = c[n].calls /\ line.results = c[n].results
        /\ line.text = c[n].text \cup p.text
    BY <2>6 DEF Lines
  <2> HIDE DEF line
  <2>8. line \in Lines(W)
    <3>1. c[n].text \cup p.text \in SUBSET W /\ c[n].text \cup p.text \subseteq Words
      BY <1>1, <1>4, <2>6 DEF Lines
    <3>2. line = [c[n] EXCEPT !.text = c[n].text \cup p.text]
      BY DEF line
    <3> QED BY <1>1, <1>4, <2>6, <3>1, <3>2, ChangedFacts
  <2> HIDE DEF d
  <2>9. Len(d) = Len(c) /\ \A j \in 1..Len(c) : d[j] = IF j = n THEN line ELSE c[j]
    BY <1>1, <2>4, <2>5, <2>8, ExceptSeq DEF Chains
  <2>10. Alike(c, d, Len(c))
    BY <2>7, <2>9 DEF Alike
  <2>11. Settled(d)
    BY <2>2, <2>9, <2>10, AlikeSettled DEF Settled
  <2>12. InOrder(c, d)
    BY <2>2, <2>9, <2>10, SameOrder DEF Alike
  <2>13. HasUser(c)
    BY GreetsFacts
  <2>14. Fronted(d) /\ Greets(d, {})
    BY <2>2, <2>11, <2>12, <2>13, GreetsFacts DEF InOrder
  <2>15. d[Len(d)].role = "assistant" /\ "said" \in d[Len(d)].text
    BY <1>1, <1>4, <2>7, <2>9
  <2> QED BY <2>1, <2>2, <2>11, <2>14, <2>15 DEF Spoke
<1> QED BY <1>2, <1>3, <1>4

\* A repair does not take it out.
LEMMA RepairSaid ==
    ASSUME NEW W, Words \subseteq W, NEW c \in Chains(W), Spoke(c)
    PROVE  Repair(c) \in Chains(W) /\ Spoke(Repair(c))
<1> DEFINE I == {i \in DOMAIN c : ~IsSuspend(c[i])}
           n == Len(c)
           r == Repair(c)
           s == SubSeq(c, 1, n - 1)
<1>1. r = Only(c, I) /\ Settled(r)
  BY SettledRepaired DEF Spoke, Those
<1>2. r \in Chains(W)
  BY RepairFacts
<1>3. DOMAIN c = 1..n /\ I \in SUBSET (1..n) /\ n \in Nat /\ c \in Seq(Lines(W))
  BY ChainFacts
<1>4. n \in 1..n /\ n \in I
  <2>1. n \in 1..n
    BY FrontedLast DEF Spoke
  <2> QED BY <1>3, <2>1 DEF Spoke, IsSuspend
<1>5. PICK g \in 1..n : c[g].role = "user" /\ c[g].text \cap {} = {} /\ \A k \in 1..(g - 1) : IsPinned(c[k])
  BY DEF Spoke, Greets
<1>6. g \in I
  BY <1>3, <1>5 DEF IsSuspend
<1> HIDE DEF I, r
<1>7. Fronted(r)
  BY <1>1, <1>3, OnlyOrder DEF Spoke
<1>8. Greets(r, {})
  BY <1>1, <1>3, <1>5, <1>6, OnlyOrder
<1>9. s \in Seq(Lines(W)) /\ Len(s) + 1 = n /\ c[n] \in Lines(W) /\ c = Append(s, c[n])
  <2>1. n - 1 \in Nat /\ \A i \in 1..n : c[i] \in Lines(W)
    BY <1>3, <1>4
  <2>2. s \in Seq(Lines(W)) /\ Len(s) = n - 1 /\ \A i \in 1..(n - 1) : s[i] = c[i]
    BY <1>3, <1>4
  <2> HIDE DEF s, n
  <2>3. Append(s, c[n]) \in Seq(Lines(W)) /\ Len(Append(s, c[n])) = n
        /\ \A i \in 1..n : Append(s, c[n])[i] = c[i]
    BY <1>4, <2>1, <2>2
  <2>4. c = Append(s, c[n])
    <3>1. c \in Seq(Lines(W)) /\ Len(c) = n
      BY <1>3 DEF n
    <3> QED BY <2>3, <3>1, SeqEqual
  <2> QED BY <1>3, <1>4, <2>1, <2>2, <2>4
<1> HIDE DEF s
<1>10. Only(Append(s, c[n]), I) = Append(Only(s, I), c[n])
  <2>1. I \cap (1..Len(s)) = I \cap (1..Len(s))
    OBVIOUS
  <2> QED BY <1>4, <1>9, <2>1, OnlyAppend
<1>11. r[Len(r)] = c[n]
  <2> DEFINE o == Only(s, I)
             J == I \cap (1..Len(s))
  <2>1. o \in Seq(Lines(W))
    BY <1>9, OnlyUnfolds
  <2> HIDE DEF o
  <2>2. r = Append(o, c[n])
    BY <1>1, <1>9, <1>10 DEF o
  <2> QED BY <1>9, <2>1, <2>2
<1> QED BY <1>1, <1>2, <1>7, <1>8, <1>11 DEF r, Spoke

\* The note is taken out of a request and of the answer to it.
LEMMA StripAppend ==
    ASSUME NEW W, Words \subseteq W, NEW w, w \cap Words = {}, NEW c \in Chains(W), Ready(c, w),
           NEW p \in Lines(W), p.role = "assistant", p.text \cap w = {}, ~IsSuspend(p)
    PROVE  \E z \in Chains(W) : /\ Settled(z) /\ Fronted(z) /\ Greets(z, {})
                                /\ Strip(Append(c, p), w) = Rejoin(z, p)
                                /\ z = Cleaned(Without(c, w))
<1> DEFINE a == Append(c, p)
           I == {i \in DOMAIN c : c[i].text \cap w = {}}
           J == {i \in DOMAIN a : a[i].text \cap w = {}}
           q == Only(c, I)
<1>1. Len(c) \in Nat /\ DOMAIN c = 1..Len(c) /\ c \in Seq(Lines(W)) /\ I \in SUBSET (1..Len(c))
  BY ChainFacts
<1>2. a \in Chains(W) /\ Len(a) = Len(c) + 1 /\ a[Len(c) + 1] = p /\ \A k \in 1..Len(c) : a[k] = c[k]
  BY AppendGroups
<1>3. DOMAIN a = 1..Len(a)
  BY <1>2, ChainFacts
<1>4. Strip(a, w) = Repair(Only(a, J))
  BY DEF Strip, Those
<1>5. Only(a, J) = Append(q, p)
  <2>1. J \cap (1..Len(c)) = I \cap (1..Len(c)) /\ Len(c) + 1 \in J
    BY <1>1, <1>2, <1>3
  <2> HIDE DEF I, J
  <2> QED BY <1>1, <2>1, OnlyAppend
<1>6. ASSUME NEW i \in (1..Len(c)) \ I PROVE c[i].role # "result" /\ c[i].calls = {}
  <2>1. c[i] \in Lines(W) /\ c[i].text \cap w # {}
    BY <1>1, <1>6, ChainFacts
  <2> QED BY <2>1 DEF Lines
<1>7. PICK g \in 1..Len(c) : /\ c[g].role = "user" /\ c[g].text \cap w = {}
                             /\ \A k \in 1..(g - 1) : IsPinned(c[k])
  BY DEF Ready, Greets
<1>8. g \in I
  BY <1>1, <1>7
<1> HIDE DEF a, I, J
<1>9. q \in Chains(W)
  BY <1>1, ThoseFacts
<1>10. Owned(q) /\ Met(q, {}, 0)
  <2>1. Owned(c) /\ Met(c, {}, 0)
    BY DEF Ready, Settled
  <2> QED BY <1>1, <1>6, <2>1, ThinFacts
<1>11. Fronted(q)
  BY <1>1, OnlyOrder DEF Ready
<1>12. Greets(q, {})
  <2>1. c[g].text \cap {} = {}
    OBVIOUS
  <2> QED BY <1>1, <1>7, <1>8, <2>1, OnlyOrder
<1> HIDE DEF q
<1>13. PICK z \in Chains(W) : /\ Settled(z) /\ Fronted(z) /\ Greets(z, {})
                              /\ Repair(Append(q, p)) = Rejoin(z, p)
                              /\ z = Cleaned(q)
  BY <1>9, <1>10, <1>11, <1>12, RepairAppend
<1> QED BY <1>4, <1>5, <1>13 DEF a, q, I, Without

\* The end of a round: the calls that are left, if any, and what answered them.
Round(c, ids, done) ==
    LET a == IF ids = {} THEN c ELSE Append(c, Assistant({}, ids))
    IN IF done = {} THEN a ELSE Append(a, Result(done))

\* Each part of it.
LEMMA RoundFacts ==
    ASSUME NEW W, NEW c \in Chains(W), NEW ids \in SUBSET CallIds, NEW done \in SUBSET CallIds
    PROVE  /\ Assistant({}, ids) \in Lines(W) /\ Result(done) \in Lines(W)
           /\ Round(c, ids, done) \in Chains(W) /\ InOrder(c, Round(c, ids, done))
<1> DEFINE p == Assistant({}, ids)
           r == Result(done)
           a == IF ids = {} THEN c ELSE Append(c, p)
           d == Round(c, ids, done)
<1>1. p \in Lines(W) /\ ~IsPinned(p)
  <2>1. {} \in SUBSET W /\ {} \subseteq Words
    OBVIOUS
  <2>2. p \in Lines(W)
    BY <2>1, MadeFacts
  <2> QED BY <2>2 DEF Assistant, Payload, IsPinned
<1>2. r \in Lines(W) /\ ~IsPinned(r)
  <2>1. r \in Lines(W)
    BY MadeFacts
  <2> QED BY <2>1 DEF Result, Payload, IsPinned
<1>3. d = IF done = {} THEN a ELSE Append(a, r)
  BY DEF Round
<1> HIDE DEF p, r, d
<1>4. a \in Chains(W) /\ InOrder(c, a)
  <2>1. Append(c, p) \in Chains(W)
    BY <1>1, ChainFacts
  <2>2. InOrder(c, Append(c, p))
    BY <1>1, AppendOrder
  <2> QED BY <2>1, <2>2 DEF InOrder
<1> HIDE DEF a
<1>5. Append(a, r) \in Chains(W)
  BY <1>2, <1>4, ChainFacts
<1>6. InOrder(a, Append(a, r))
  BY <1>2, <1>4, AppendOrder
<1> QED BY <1>1, <1>2, <1>3, <1>4, <1>5, <1>6 DEF InOrder, p, r, d

\* Calls that are removed go from the round they are in.
LEMMA RoundRemoves ==
    ASSUME NEW W, NEW c \in Chains(W), NEW ids \in SUBSET CallIds, NEW done \in SUBSET CallIds,
           NEW gone \in SUBSET ids
    PROVE  RemoveCalls(Round(c, ids, done), gone) = Round(c, ids \ gone, done)
<1> DEFINE d == Round(c, ids, done)
           e == Round(c, ids \ gone, done)
           makers == {i \in DOMAIN d : d[i].role = "assistant" /\ d[i].calls \cap gone # {}}
           i == CHOOSE i \in makers : \A j \in makers : j <= i
           left == [d[i] EXCEPT !.calls = @ \ gone]
           n == Len(c) + 1
           p == Assistant({}, ids)
           new == Assistant({}, ids \ gone)
           r == Result(done)
<1>1. d \in Chains(W) /\ p \in Lines(W) /\ r \in Lines(W)
  BY RoundFacts
<1>2. e \in Chains(W) /\ new \in Lines(W)
  BY RoundFacts
<1>3. RemoveCalls(d, gone) = IF makers = {} THEN d
                             ELSE IF left.text = {} /\ left.calls = {} THEN RemoveAt(d, i)
                             ELSE ReplaceAt(d, i, left)
  BY DEF RemoveCalls
<1>4. d = IF done = {} THEN IF ids = {} THEN c ELSE Append(c, p)
          ELSE Append(IF ids = {} THEN c ELSE Append(c, p), r)
  BY DEF Round
<1>5. e = IF done = {} THEN IF ids \ gone = {} THEN c ELSE Append(c, new)
          ELSE Append(IF ids \ gone = {} THEN c ELSE Append(c, new), r)
  BY DEF Round
<1>6. CASE gone = {}
  <2>1. ids \ gone = ids /\ makers = {}
    BY <1>6
  <2> QED BY <1>3, <2>1
<1>7. CASE gone # {}
  <2>1. ids # {}
    BY <1>7
  <2>2. /\ p.role = "assistant" /\ p.calls = ids /\ r.role = "result" /\ r.calls = {}
        /\ p.text = {} /\ new = [p EXCEPT !.calls = @ \ gone]
    BY DEF Assistant, Result, Payload
  <2>3. c \in Seq(Lines(W)) /\ Len(c) \in Nat /\ d \in Seq(Lines(W)) /\ DOMAIN d = 1..Len(d)
        /\ e \in Seq(Lines(W)) /\ Len(d) \in Nat
    <3>1. c \in Seq(Lines(W)) /\ Len(c) \in Nat
      BY ChainFacts
    <3>2. d \in Seq(Lines(W)) /\ Len(d) \in Nat /\ DOMAIN d = 1..Len(d)
      BY <1>1, ChainFacts
    <3>3. e \in Seq(Lines(W))
      BY <1>2 DEF Chains
    <3> QED BY <3>1, <3>2, <3>3
  <2> HIDE DEF d, e, p, r, new
  <2>4. /\ Len(d) = IF done = {} THEN n ELSE n + 1
        /\ d[n] = p /\ (\A k \in 1..Len(c) : d[k] = c[k]) /\ (done # {} => d[n + 1] = r)
    BY <1>1, <1>4, <2>1, <2>3
  <2>5. ids \ gone # {} => /\ Len(e) = Len(d) /\ e[n] = new /\ \A k \in 1..Len(c) : e[k] = c[k]
                           /\ done # {} => e[n + 1] = r
    BY <1>1, <1>2, <1>5, <2>3, <2>4
  <2>6. ids \ gone = {} => /\ Len(e) = Len(d) - 1 /\ \A k \in 1..Len(c) : e[k] = c[k]
                           /\ done # {} => e[n] = r
    BY <1>1, <1>5, <2>3, <2>4
  <2>7. n \in makers /\ \A j \in makers : j <= n
    <3>1. n \in DOMAIN d
      BY <2>3, <2>4
    <3>2. p.calls \cap gone # {}
      BY <1>7, <2>2
    <3>3. \A j \in DOMAIN d : j > n => d[j] = r
      BY <2>3, <2>4
    <3>4. \A j \in makers : j \in DOMAIN d /\ ~(j > n)
      BY <2>2, <3>3
    <3> QED BY <2>2, <2>3, <2>4, <3>1, <3>2, <3>4
  <2>8. i = n
    <3>1. makers \in SUBSET (1..Len(d)) /\ makers # {}
      BY <2>3, <2>7
    <3> HIDE DEF makers
    <3>2. i \in makers /\ n <= i
      BY <2>3, <2>7, <3>1, EndFacts
    <3> HIDE DEF i
    <3> QED BY <2>3, <2>7, <3>1, <3>2
  <2>9. makers # {}
    BY <2>7
  <2> HIDE DEF makers, i
  <2>10. left = new
    BY <2>2, <2>4, <2>8
  <2>11. left.text = {} /\ left.calls = ids \ gone
    BY <2>10 DEF new, Assistant, Payload
  <2> HIDE DEF left
  <2>12. n \in 1..Len(d)
    BY <2>3, <2>4
  <2>13. CASE ids \ gone = {}
    <3> DEFINE o == RemoveAt(d, n)
    <3>1. /\ o \in Chains(W) /\ Len(o) = Len(d) - 1
          /\ \A k \in 1..(n - 1) : o[k] = d[k]
          /\ \A k \in n..(Len(d) - 1) : o[k] = d[k + 1]
      BY <1>1, <2>12, GapFacts
    <3> HIDE DEF o
    <3>2. ASSUME NEW k \in 1..Len(o) PROVE o[k] = e[k]
      <4>1. CASE k <= n - 1
        <5>1. k \in 1..(n - 1) /\ k \in 1..Len(c)
          BY <2>3, <4>1
        <5> QED BY <2>4, <2>6, <2>13, <3>1, <5>1
      <4>2. CASE ~(k <= n - 1)
        <5>1. k = n /\ done # {} /\ k \in n..(Len(d) - 1)
          BY <2>3, <2>4, <3>1, <4>2
        <5> QED BY <2>4, <2>6, <2>13, <3>1, <5>1
      <4> QED BY <4>1, <4>2
    <3>3. o \in Seq(Lines(W)) /\ Len(o) = Len(e)
      BY <2>6, <2>13, <3>1 DEF Chains
    <3>4. o = e
      BY <2>3, <3>2, <3>3, SeqEqual
    <3> QED BY <1>3, <2>8, <2>9, <2>11, <2>13, <3>4 DEF d, e, o
  <2>14. CASE ids \ gone # {}
    <3> DEFINE o == [d EXCEPT ![n] = new]
    <3>1. /\ o \in Seq(Lines(W)) /\ Len(o) = Len(d)
          /\ \A k \in 1..Len(d) : o[k] = IF k = n THEN new ELSE d[k]
      BY <1>2, <2>3, <2>12, ExceptSeq
    <3> HIDE DEF o
    <3>2. ASSUME NEW k \in 1..Len(o) PROVE o[k] = e[k]
      <4>1. k \in 1..Len(c) \/ k = n \/ (k = n + 1 /\ done # {})
        BY <2>3, <2>4, <3>1
      <4> QED BY <2>3, <2>4, <2>5, <2>14, <3>1, <4>1
    <3>3. o = e
      BY <2>3, <2>5, <2>14, <3>1, <3>2, SeqEqual
    <3> QED BY <1>3, <2>8, <2>9, <2>10, <2>11, <2>14, <3>3 DEF ReplaceAt, o, d, e
  <2> QED BY <2>13, <2>14
<1> QED BY <1>6, <1>7

\* Results that nobody asked for go when the chain is prepared,
LEMMA StrayHealed ==
    ASSUME NEW W, NEW c \in Chains(W), Settled(c), NEW p \in Lines(W), p.role = "result"
    PROVE  Heal(Append(c, p)) = c
<1> DEFINE d == Append(c, p)
           n == Len(c) + 1
<1>1. /\ d \in Chains(W) /\ Len(d) = n /\ d[n] = p /\ n \in Nat
      /\ \A k \in 1..Len(c) : d[k] = c[k]
      /\ \A i, j \in 1..Len(c) : InGroup(d, i, j) <=> InGroup(c, i, j)
  BY AppendGroups
<1>2. Len(c) \in Nat /\ c \in Seq(Lines(W)) /\ DOMAIN c = 1..Len(c)
  BY ChainFacts
<1>3. DOMAIN d = 1..Len(d) /\ d \in Seq(Lines(W))
  BY <1>1, ChainFacts
<1> HIDE DEF d
<1>4. ASSUME NEW j \in 1..Len(c) PROVE HealedAt(d, j) = <<d[j]>>
  <2>1. Owned(c) /\ Met(c, {}, 0)
    BY DEF Settled
  <2>2. Met(c, {}, Len(c)) /\ Len(c) <= Len(d)
    BY <1>1, <1>2, <2>1 DEF Met
  <2>3. \A k \in 1..Len(c) : d[k].role # "result" => c[k] = d[k]
    BY <1>1
  <2>4. \A k \in 1..Len(c) : c[k] \in Lines(W)
    BY ChainFacts
  <2>5. \A k \in 1..Len(c) : d[k].role = "result" => c[k] = [d[k] EXCEPT !.results = c[k].results]
    BY <1>1, <2>4 DEF Lines
  <2>6. \A i, k \in 1..Len(c) : Owns(c, i, k) => d[k].results \cap c[i].calls = c[k].results
    BY <1>1 DEF Owns
  <2>7. {} # {} => Len(d) = Len(c)
    OBVIOUS
  <2>8. d \in Chains(W) /\ Owned(c) /\ Fuller(d, c)
    BY <1>1, <2>1, <2>3, <2>5, <2>6 DEF Fuller
  <2>9. HealedAt(d, j) = <<c[j]>>
    BY <2>2, <2>7, <2>8, HealedLike
  <2> QED BY <1>1, <2>9
<1>5. HealedAt(d, n) = <<>>
  <2> DEFINE i == Caller(d, n)
             before == {k \in 1..(n - 1) : /\ d[k].role = "assistant" /\ Ids(d[k]) # {}
                                           /\ \A m \in (k + 1)..n : Continues(d[m])}
  <2>1. d[n].role = "result" /\ ~IsPinned(d[n])
    BY <1>1 DEF IsPinned
  <2>2. i = IF before = {} THEN 0 ELSE CHOOSE k \in before : TRUE
    BY DEF Caller
  <2>3. i # 0 => i \in before
    BY <2>2
  <2> HIDE DEF i
  <2>4. ASSUME i # 0 PROVE FirstAnswers(d, i, n) = {}
    <3>1. i \in 1..Len(c) /\ d[i].role = "assistant"
      BY <1>1, <1>2, <2>3, <2>4
    <3>2. ASSUME NEW id \in d[i].calls PROVE \E k \in GroupOf(d, i) : k < n /\ id \in d[k].results
      <4>1. id \in c[i].calls
        BY <1>1, <3>1, <3>2
      <4>2. PICK k \in 1..Len(c) : InGroup(c, i, k) /\ id \in c[k].results
        BY <3>1, <4>1 DEF Settled, Met
      <4>3. InGroup(d, i, k) /\ id \in d[k].results
        BY <1>1, <3>1, <4>2
      <4>4. k \in (i + 1)..Len(d) /\ k < n
        BY <1>1, <1>2, <3>1, <4>3 DEF InGroup
      <4> QED BY <4>3, <4>4 DEF GroupOf, InGroup
    <3>3. Ids(d[i]) \subseteq d[i].calls
      BY DEF Ids
    <3> QED BY <3>2, <3>3 DEF FirstAnswers
  <2>5. ~(d[n].role = "assistant" /\ HasCalls(d[n]))
    BY <2>1
  <2> QED BY <2>1, <2>4, <2>5 DEF HealedAt, i
<1> DEFINE I == 1..Len(c)
           q == [j \in DOMAIN d |-> HealedAt(d, j)]
<1>6. q = [j \in 1..Len(d) |-> IF j \in I THEN <<d[j]>> ELSE <<>>]
  <2>1. \A j \in 1..Len(d) : HealedAt(d, j) = IF j \in I THEN <<d[j]>> ELSE <<>>
    <3>1. \A j \in 1..Len(d) : j \in I \/ (j = n /\ j \notin I)
      BY <1>1, <1>2
    <3> QED BY <1>4, <1>5, <3>1
  <2> QED BY <1>3, <2>1
<1>7. Heal(d) = FlattenSeq(q)
  BY DEF Heal
<1> HIDE DEF q
<1>8. FlattenSeq(q) = Only(d, I)
  <2> HIDE DEF I
  <2> QED BY <1>3, <1>6, FlattenOnly
<1>9. Only(d, I) = SubSeq(d, 1, Len(c))
  <2>1. Len(c) \in 0..Len(d)
    BY <1>1, <1>2
  <2> QED BY <1>3, <2>1, OnlyPrefix
<1>10. SubSeq(d, 1, Len(c)) = c
  <2> DEFINE s == SubSeq(d, 1, Len(c))
  <2>1. s \in Seq(Lines(W)) /\ Len(s) = Len(c) /\ \A k \in 1..Len(s) : s[k] = c[k]
    BY <1>1, <1>2, <1>3
  <2> HIDE DEF s
  <2>2. s = c
    BY <1>2, <2>1, SeqEqual
  <2> QED BY <2>2 DEF s
<1> QED BY <1>7, <1>8, <1>9, <1>10 DEF d

\* and the others stay: after a round the results have the last word.
LEMMA RoundPrepared ==
    ASSUME NEW W, Words \subseteq W, NEW c \in Chains(W), Ready(c, {}),
           NEW done \in SUBSET CallIds, NEW ids \in SUBSET done
    PROVE  LastRole(Prepare(Round(c, ids, done))) \in {"user", "result"}
<1> DEFINE p == Assistant({}, ids)
           r == Result(done)
           t == Result(ids)
           e == Round(c, ids, done)
<1>1. ids \in SUBSET CallIds
  OBVIOUS
<1>2. p \in Lines(W) /\ r \in Lines(W)
  BY <1>1, RoundFacts
<1>3. t \in Lines(W)
  BY <1>1, MadeFacts
<1>4. Settled(c) /\ LastRole(c) \in {"user", "result"} /\ Prepare(c) = c /\ Sanitize(c) = c
  BY SettledPrepared DEF Ready
<1>5. CASE done = {}
  <2>1. e = c
    BY <1>5 DEF Round
  <2> QED BY <1>4, <2>1
<1>6. CASE done # {} /\ ids = {}
  <2>1. e = Append(c, r) /\ r.role = "result"
    BY <1>6 DEF Round, Result, Payload
  <2> HIDE DEF r, e
  <2>2. Heal(e) = c
    BY <1>2, <1>4, <2>1, StrayHealed
  <2>3. Prepare(e) = c
    BY <1>4, <2>2 DEF Prepare
  <2> QED BY <1>4, <2>3 DEF e
<1>7. CASE done # {} /\ ids # {}
  <2> DEFINE y == Append(c, p)
             d == Append(y, t)
             n == Len(c) + 1
             a == [out |-> c, pending |-> {}, at |-> 0]
             b == [out |-> y, pending |-> ids, at |-> n]
  <2>1. e = Append(y, r)
    BY <1>7 DEF Round
  <2>2. /\ p.role = "assistant" /\ p.calls = ids /\ r.role = "result" /\ t.role = "result"
        /\ t.results = ids /\ r.results = done /\ t = [r EXCEPT !.results = ids]
        /\ Ids(p) = ids
    <3>1. NoId \notin ids
      BY PayloadsAssumption
    <3> QED BY <3>1 DEF Assistant, Result, Payload, Ids
  <2>3. t = Result(ids)
    OBVIOUS
  <2> HIDE DEF p, r, t, e
  <2>4. y \in Chains(W) /\ Len(y) = n /\ y[n] = p /\ n \in Nat /\ n > 0
    <3>1. y \in Chains(W) /\ Len(y) = n /\ y[n] = p /\ n \in Nat
      BY <1>2, AppendGroups
    <3>2. Len(c) \in Nat
      BY ChainFacts
    <3> QED BY <3>1, <3>2
  <2> HIDE DEF y, n
  <2>5. d \in Chains(W) /\ Len(d) = n + 1 /\ d[n + 1] = t /\ \A k \in 1..n : d[k] = y[k]
    BY <1>3, <2>4, AppendGroups
  <2>6. e \in Chains(W) /\ Len(e) = n + 1 /\ e[n + 1] = r /\ \A k \in 1..n : e[k] = y[k]
    <3> DEFINE x == Append(y, r)
    <3>1. x \in Chains(W) /\ Len(x) = n + 1 /\ x[n + 1] = r /\ \A k \in 1..n : x[k] = y[k]
      BY <1>2, <2>4, AppendGroups
    <3> HIDE DEF d
    <3> QED BY <2>1, <3>1
  <2> HIDE DEF d
  <2>7. Settled(d)
    <3>1. a \in Passes(W) /\ a.pending = {} /\ a.out = c
      BY DEF Passes
    <3>2. Sound(a)
      BY <1>4 DEF Sound, Settled
    <3>3. Open(a, p) = b
      BY <2>2 DEF Open, y, n
    <3> HIDE DEF a
    <3>4. Sound(b)
      BY <1>2, <1>4, <2>2, <3>1, <3>2, <3>3, OpenSound
    <3>5. b \in Passes(W)
      BY <1>2, <3>1, <3>3, OpenFacts
    <3>6. AddResult(b, t) = [out |-> d, pending |-> {}, at |-> n]
      <4>1. t.results \cap b.pending = ids /\ b.pending \ ids = {}
        BY <2>2
      <4>2. AddResult(b, t) = [b EXCEPT !.out = Append(@, t), !.pending = @ \ ids]
        BY <1>7, <2>3, <4>1 DEF AddResult
      <4> QED BY <4>1, <4>2 DEF d
    <3> HIDE DEF b
    <3>7. Sound(AddResult(b, t))
      BY <1>3, <3>4, <3>5, ResultSound
    <3>8. Follows(d) /\ Owned(d) /\ Met(d, {}, n)
      BY <3>6, <3>7 DEF Sound
    <3>9. Met(d, {}, 0)
      BY <3>8 DEF Met
    <3> QED BY <3>8, <3>9 DEF Settled
  <2>8. ASSUME NEW j \in 1..Len(d) PROVE HealedAt(e, j) = <<d[j]>>
    <3>1. Owned(d) /\ Met(d, {}, Len(d)) /\ Len(d) <= Len(e)
      BY <2>4, <2>5, <2>6, <2>7 DEF Settled, Met
    <3>2. \A k \in 1..Len(d) : k \in 1..n \/ k = n + 1
      BY <2>4, <2>5
    <3>3. \A k \in 1..Len(d) : e[k].role # "result" => d[k] = e[k]
      BY <2>2, <2>5, <2>6, <3>2
    <3>4. \A k \in 1..Len(d) : d[k] \in Lines(W)
      BY <2>5, ChainFacts
    <3>5. ASSUME NEW k \in 1..Len(d), e[k].role = "result"
          PROVE  d[k] = [e[k] EXCEPT !.results = d[k].results]
      <4>1. CASE k \in 1..n
        <5>1. d[k] = e[k]
          BY <2>5, <2>6, <4>1
        <5> QED BY <3>4, <5>1 DEF Lines
      <4>2. CASE k = n + 1
        BY <2>2, <2>5, <2>6, <4>2
      <4> QED BY <3>2, <4>1, <4>2
    <3>6. ASSUME NEW i \in 1..Len(d), NEW k \in 1..Len(d), Owns(d, i, k)
          PROVE  e[k].results \cap d[i].calls = d[k].results
      <4>1. CASE k \in 1..n
        <5>1. d[k] = e[k]
          BY <2>5, <2>6, <4>1
        <5> QED BY <3>6, <5>1 DEF Owns
      <4>2. CASE k = n + 1
        <5>1. n \in 1..Len(d) /\ n + 1 \in 1..Len(d)
          BY <2>4, <2>5
        <5>2. d[n] = p
          BY <2>4, <2>5
        <5>3. InGroup(d, n, n + 1)
          <6>1. d[n + 1].role = "result" /\ n < n + 1
            BY <2>2, <2>4, <2>5
          <6>2. \A m \in (n + 1)..(n + 1) : m = n + 1
            BY <2>4
          <6> QED BY <6>1, <6>2 DEF InGroup, Continues
        <5>4. d[i].role = "assistant" /\ InGroup(d, i, n + 1)
          BY <3>6, <4>2 DEF Owns
        <5>5. i = n
          BY <2>2, <2>5, <5>1, <5>2, <5>3, <5>4, OneOwner
        <5> QED BY <2>2, <2>5, <2>6, <4>2, <5>2, <5>5
      <4> QED BY <3>2, <4>1, <4>2
    <3>7. {} # {} => Len(e) = Len(d)
      OBVIOUS
    <3>8. d \in Chains(W) /\ e \in Chains(W)
      BY <2>5, <2>6
    <3>9. Fuller(e, d)
      BY <3>3, <3>5, <3>6 DEF Fuller
    <3> QED BY <3>1, <3>7, <3>8, <3>9, HealedLike
  <2>9. Heal(e) = d
    <3>1. DOMAIN e = 1..Len(d) /\ d \in Seq(Lines(W))
      <4>1. DOMAIN e = 1..Len(e)
        BY <2>6, ChainFacts
      <4> QED BY <2>5, <2>6, <4>1 DEF Chains
    <3>2. [j \in DOMAIN e |-> HealedAt(e, j)] = [j \in 1..Len(d) |-> <<d[j]>>]
      BY <2>8, <3>1
    <3> QED BY <3>1, <3>2, FlattenSingles DEF Heal
  <2>10. Sanitize(d) = d
    BY <2>5, <2>7, SettledPrepared
  <2>11. LastRole(d) = "result"
    <3>1. ~IsPinned(t)
      BY <2>2 DEF IsPinned
    <3>2. LastRole(Append(y, t)) = t.role
      BY <1>3, <2>4, <3>1, LastAppend
    <3> QED BY <2>2, <3>2 DEF d
  <2>12. Prepare(e) = d
    BY <2>9, <2>10 DEF Prepare
  <2> QED BY <2>11, <2>12 DEF e
<1> QED BY <1>5, <1>6, <1>7

\* A user's payload after a settled chain makes it ready to be sent,
LEMMA UserReady ==
    ASSUME NEW W, NEW c \in Chains(W), Settled(c), Fronted(c), NEW text \in (SUBSET W) \ {{}}
    PROVE  LET d == Append(c, User(text))
           IN  /\ d \in Chains(W) /\ Ready(d, {})
               /\ \A w : Greets(c, w) => Ready(d, w)
<1> DEFINE u == User(text)
           d == Append(c, u)
<1>1. u \in Lines(W) /\ u.role = "user" /\ u.calls = {} /\ ~IsPinned(u)
  <2>1. u \in Lines(W)
    BY MadeFacts
  <2> QED BY <2>1 DEF User, Payload, IsPinned
<1> HIDE DEF u
<1>2. d \in Chains(W)
  BY <1>1, ChainFacts
<1>3. Follows(d) /\ Owned(d) /\ Met(d, {}, 0)
  BY <1>1, AppendSettles DEF Settled
<1>4. InOrder(c, d) /\ HasUser(d) /\ \A w : Greets(c, w) => Greets(d, w)
  BY <1>1, AppendOrder
<1>5. LastRole(d) = "user"
  BY <1>1, LastAppend
<1> HIDE DEF d
<1>6. Settled(d) /\ Fronted(d)
  BY <1>3, <1>4 DEF Settled, InOrder
<1>7. Greets(d, {})
  BY <1>2, <1>4, <1>6, GreetsFacts
<1> QED BY <1>2, <1>4, <1>5, <1>6, <1>7 DEF Ready, d, u

\* The marker of a wait comes after a result.
LEMMA SuspendReady ==
    ASSUME NEW W, Words \subseteq W, NEW c \in Chains(W), Settled(c), Fronted(c), HasUser(c)
    PROVE  LET d == WithSuspend(c)
           IN  d \in Chains(W) /\ Settled(d) /\ Fronted(d) /\ Greets(d, {})
<1> DEFINE d == WithSuspend(c)
<1>1. d \in Chains(W) /\ Suspend \in Lines(W)
  BY SuspendFacts, MadeFacts
<1>2. Greets(c, {})
  BY GreetsFacts
<1>3. LastRole(c) = c[Len(c)].role
  BY <1>2, FrontedLast
<1>4. CASE c # <<>> /\ c[Len(c)].role = "result"
  <2>1. d = Append(c, Suspend)
    BY <1>4 DEF WithSuspend, Last
  <2>2. Suspend.role = "assistant" /\ Suspend.calls = {} /\ ~IsPinned(Suspend)
    BY DEF Suspend, Assistant, Payload, IsPinned
  <2> HIDE DEF d
  <2>3. Follows(d) /\ Owned(d) /\ Met(d, {}, 0)
    BY <1>1, <1>3, <1>4, <2>1, <2>2, AppendSettles DEF Settled
  <2>4. InOrder(c, d) /\ Greets(d, {})
    BY <1>1, <1>2, <2>1, <2>2, AppendOrder
  <2> QED BY <1>1, <2>3, <2>4 DEF Settled, InOrder, d
<1>5. CASE ~(c # <<>> /\ c[Len(c)].role = "result")
  <2>1. d = c
    BY <1>5 DEF WithSuspend, Last
  <2> QED BY <1>1, <1>2, <2>1
<1> QED BY <1>4, <1>5

\* It leaves the pinned payloads first and the users there, whatever the chain.
LEMMA SuspendOrder ==
    ASSUME NEW W, Words \subseteq W, NEW c \in Chains(W)
    PROVE  InOrder(c, WithSuspend(c))
<1>1. Suspend \in Lines(W) /\ ~IsPinned(Suspend)
  BY MadeFacts DEF Suspend, Assistant, Payload, IsPinned
<1>2. InOrder(c, Append(c, Suspend))
  BY <1>1, AppendOrder
<1> QED BY <1>2 DEF WithSuspend, InOrder

\* A text that is sent back is a draft, and the prompt comes after it.
LEMMA DraftAppended ==
    ASSUME NEW W, Words \subseteq W, NEW c \in Chains(W)
    PROVE  /\ WithDraft(Append(c, Assistant({"said"}, {})))
                = Append(Append(c, Assistant({"draft"}, {})), User({"followup"}))
           /\ Assistant({"draft"}, {}) \in Lines(W) /\ User({"followup"}) \in Lines(W)
<1> DEFINE p == Assistant({"said"}, {})
           q == Assistant({"draft"}, {})
           a == Append(c, p)
           b == Append(c, q)
           n == Len(a)
           u == User({"followup"})
<1>1. p \in Lines(W) /\ q \in Lines(W) /\ q = [p EXCEPT !.text = {"draft"}]
  <2>1. /\ {"said"} \in SUBSET W /\ {"said"} \subseteq Words /\ {} \in SUBSET CallIds
        /\ {"draft"} \in SUBSET W /\ {"draft"} \subseteq Words
    BY DEF Words
  <2>2. p \in Lines(W) /\ q \in Lines(W)
    BY <2>1, MadeFacts
  <2> QED BY <2>2 DEF Assistant, Payload
<1>2. u \in Lines(W)
  <2>1. {"followup"} \in (SUBSET W) \ {{}}
    BY DEF Words
  <2> QED BY <2>1, MadeFacts
<1> HIDE DEF p, q
<1>3. /\ a \in Chains(W) /\ n = Len(c) + 1 /\ a[Len(c) + 1] = p
      /\ \A k \in 1..Len(c) : a[k] = c[k]
  BY <1>1, AppendGroups
<1>4. /\ b \in Chains(W) /\ Len(b) = Len(c) + 1 /\ b[Len(c) + 1] = q
      /\ \A k \in 1..Len(c) : b[k] = c[k]
  BY <1>1, AppendGroups
<1>5. Len(c) \in Nat
  BY ChainFacts
<1>6. a \in Seq(Lines(W)) /\ b \in Seq(Lines(W)) /\ DOMAIN a = 1..n
  BY <1>3, <1>4, ChainFacts
<1> HIDE DEF a, b
<1>7. [a EXCEPT ![n].text = {"draft"}] = b
  <2> DEFINE d == [a EXCEPT ![n] = q]
  <2>1. n \in 1..n /\ a[n] = p
    BY <1>3, <1>5
  <2>2. [a EXCEPT ![n].text = {"draft"}] = d
    BY <1>1, <1>6, <2>1
  <2> HIDE DEF n
  <2>3. d \in Seq(Lines(W)) /\ Len(d) = Len(a) /\ \A j \in 1..n : d[j] = IF j = n THEN q ELSE a[j]
    BY <1>1, <1>6, <2>1, ExceptSeq DEF n
  <2> HIDE DEF d
  <2>4. \A j \in 1..n : d[j] = b[j]
    <3>1. \A j \in 1..n : j = n \/ j \in 1..Len(c)
      BY <1>3, <1>5 DEF n
    <3>2. n = Len(c) + 1
      BY <1>3 DEF n
    <3> QED BY <1>3, <1>4, <2>3, <3>1, <3>2
  <2>5. Len(d) = Len(b) /\ Len(d) = n
    BY <1>3, <1>4, <2>3 DEF n
  <2>6. d = b
    BY <1>6, <2>3, <2>4, <2>5, SeqEqual
  <2> QED BY <2>2, <2>6
<1>8. WithDraft(a) = Append(b, u)
  <2>1. WithDraft(a) = b \o <<u>>
    BY <1>7 DEF WithDraft
  <2> HIDE DEF u
  <2> QED BY <1>6, <2>1
<1> QED BY <1>1, <1>2, <1>8 DEF a, b, p, q

\* That is ready to be sent as well.
LEMMA DraftReady ==
    ASSUME NEW W, Words \subseteq W, NEW c \in Chains(W), NEW w, Ready(c, w)
    PROVE  Ready(WithDraft(Append(c, Assistant({"said"}, {}))), w)
<1> DEFINE q == Assistant({"draft"}, {})
           b == Append(c, q)
<1>1. q \in Lines(W) /\ WithDraft(Append(c, Assistant({"said"}, {}))) = Append(b, User({"followup"}))
  BY DraftAppended
<1>2. q.role = "assistant" /\ q.calls = {} /\ ~IsPinned(q)
  BY DEF Assistant, Payload, IsPinned
<1>3. {"followup"} \in (SUBSET W) \ {{}}
  BY DEF Words
<1> HIDE DEF q
<1>4. b \in Chains(W)
  BY <1>1, ChainFacts
<1>5. Follows(b) /\ Owned(b) /\ Met(b, {}, 0)
  BY <1>1, <1>2, AppendSettles DEF Ready, Settled
<1>6. InOrder(c, b) /\ Greets(b, w)
  BY <1>1, <1>2, AppendOrder DEF Ready
<1> HIDE DEF b
<1>7. Settled(b) /\ Fronted(b)
  BY <1>5, <1>6 DEF Settled, Ready, InOrder
<1>8. Ready(Append(b, User({"followup"})), w)
  BY <1>3, <1>4, <1>6, <1>7, UserReady
<1> QED BY <1>1, <1>8

\* What a chain's users say is in its vocabulary.
LEMMA SaidFacts ==
    ASSUME NEW W, NEW c \in Chains(W)
    PROVE  Said(c) \subseteq W
<1>1. \A i \in DOMAIN c : c[i] \in Lines(W)
  BY ChainFacts
<1>2. \A i \in DOMAIN c : c[i].text \in SUBSET W
  BY <1>1, ChangedFacts
<1> QED BY <1>2 DEF Said

\* One chain after the other, payload by payload.
LEMMA JoinFacts ==
    ASSUME NEW W, NEW c \in Chains(W), NEW d \in Chains(W)
    PROVE  /\ Len(c \o d) = Len(c) + Len(d) /\ Len(d) \in Nat
           /\ \A i \in 1..(Len(c) + Len(d)) :
                (c \o d)[i] = IF i <= Len(c) THEN c[i] ELSE d[i - Len(c)]
<1> DEFINE S == Lines(W)
<1>1. c \in Seq(S) /\ d \in Seq(S)
  BY DEF Chains
<1> HIDE DEF S
<1>2. /\ Len(c \o d) = Len(c) + Len(d)
      /\ \A i \in 1..(Len(c) + Len(d)) : (c \o d)[i] = IF i <= Len(c) THEN c[i] ELSE d[i - Len(c)]
  BY <1>1, ConcatProperties
<1>3. Len(d) \in Nat
  BY <1>1, LenProperties
<1> QED BY <1>2, <1>3

\* A chain, payload by payload.
LEMMA PrefixStep ==
    ASSUME NEW W, NEW c \in Chains(W), NEW n \in 0..(Len(c) - 1)
    PROVE  /\ SubSeq(c, 1, n) \in Chains(W) /\ Len(SubSeq(c, 1, n)) = n
           /\ \A k \in 1..n : SubSeq(c, 1, n)[k] = c[k]
           /\ n + 1 \in 1..Len(c) /\ c[n + 1] \in Lines(W)
           /\ SubSeq(c, 1, n + 1) = Append(SubSeq(c, 1, n), c[n + 1])
<1> DEFINE s == SubSeq(c, 1, n)
           p == c[n + 1]
<1>1. /\ Len(c) \in Nat /\ c \in Seq(Lines(W)) /\ n \in Nat /\ n + 1 \in 1..Len(c)
      /\ \A i \in 1..Len(c) : c[i] \in Lines(W)
  <2>1. Len(c) \in Nat /\ c \in Seq(Lines(W)) /\ \A i \in 1..Len(c) : c[i] \in Lines(W)
    BY ChainFacts
  <2> QED BY <2>1
<1>2. s \in Chains(W) /\ Len(s) = n /\ \A k \in 1..n : s[k] = c[k]
  <2>1. \A i \in 1..n : c[i] \in Lines(W)
    BY <1>1
  <2>2. /\ s \in Seq(Lines(W)) /\ Len(s) = (IF 1 <= n THEN n - 1 + 1 ELSE 0)
        /\ \A k \in 1..(n - 1 + 1) : s[k] = c[1 + k - 1]
    BY <1>1, <2>1, SubSeqProperties
  <2> HIDE DEF s
  <2> QED BY <1>1, <2>2 DEF Chains
<1>3. Append(s, p) = SubSeq(c, 1, n + 1)
  <2>1. SubSeq(c, 1, n + 1) = SubSeq(c, 1, (n + 1) - 1) \o <<c[n + 1]>>
    <3>1. 1 \in 1..Len(c) /\ n + 1 \in 1..Len(c) /\ 1 <= n + 1
      BY <1>1
    <3> QED BY <1>1, <3>1, SubSeqRecursiveSecond
  <2>2. Append(s, p) = s \o <<p>>
    <3>1. p \in Lines(W)
      BY <1>1
    <3> HIDE DEF s, p
    <3> QED BY <1>2, <3>1, AppendIsConcat DEF Chains
  <2>3. (n + 1) - 1 = n
    BY <1>1
  <2> QED BY <2>1, <2>2, <2>3
<1> QED BY <1>1, <1>2, <1>3

-----------------------------------------------------------------------------
(* The turns of a chain                                                    *)

\* A turn all of whose calls were answered.
Group(p) == [calls |-> p.calls, answered |-> p.calls]
Closed   == [calls : SUBSET CallIds, answered : SUBSET CallIds]

\* The turns of a chain in which every call is answered.
Groups(c) == Only([i \in DOMAIN c |-> Group(c[i])], {i \in DOMAIN c : HasCalls(c[i])})

\* Of a payload more,
LEMMA GroupsAppend ==
    ASSUME NEW W, NEW c \in Chains(W), NEW p \in Lines(W)
    PROVE  /\ Groups(c) \in Seq(Closed) /\ Group(p) \in Closed /\ Groups(<<>>) = <<>>
           /\ Groups(Append(c, p)) = IF HasCalls(p) THEN Append(Groups(c), Group(p))
                                     ELSE Groups(c)
<1> DEFINE d == Append(c, p)
           s == [i \in DOMAIN c |-> Group(c[i])]
           t == [i \in DOMAIN d |-> Group(d[i])]
           I == {i \in DOMAIN c : HasCalls(c[i])}
           J == {i \in DOMAIN d : HasCalls(d[i])}
<1>1. /\ Len(c) \in Nat /\ DOMAIN c = 1..Len(c) /\ c \in Seq(Lines(W))
      /\ \A i \in 1..Len(c) : c[i] \in Lines(W)
      /\ d \in Seq(Lines(W)) /\ Len(d) = Len(c) + 1 /\ DOMAIN d = 1..(Len(c) + 1)
      /\ d[Len(c) + 1] = p /\ \A k \in 1..Len(c) : d[k] = c[k]
  <2>1. /\ Len(c) \in Nat /\ DOMAIN c = 1..Len(c) /\ c \in Seq(Lines(W))
        /\ \A i \in 1..Len(c) : c[i] \in Lines(W)
    BY ChainFacts
  <2>2. /\ d \in Seq(Lines(W)) /\ Len(d) = Len(c) + 1
        /\ d[Len(c) + 1] = p /\ \A k \in 1..Len(c) : d[k] = c[k]
    BY <2>1, AppendProperties
  <2> QED BY <2>1, <2>2, LenProperties
<1>2. \A q \in Lines(W) : Group(q) \in Closed
  BY DEF Lines, Group, Closed
<1> HIDE DEF d
<1>3. s \in Seq(Closed) /\ Len(s) = Len(c)
  <2>1. s \in [1..Len(c) -> Closed]
    BY <1>1, <1>2
  <2> HIDE DEF s
  <2> QED BY <1>1, <2>1
<1>4. t \in Seq(Closed) /\ Len(t) = Len(c) + 1
  <2>1. \A i \in 1..(Len(c) + 1) : d[i] \in Lines(W)
    BY <1>1, ElementOfSeq
  <2>2. t \in [1..(Len(c) + 1) -> Closed]
    BY <1>1, <1>2, <2>1
  <2> HIDE DEF t
  <2> QED BY <1>1, <2>2
<1>5. t = Append(s, Group(p))
  <2>1. /\ Append(s, Group(p)) \in Seq(Closed) /\ Len(Append(s, Group(p))) = Len(c) + 1
        /\ Append(s, Group(p))[Len(c) + 1] = Group(p)
        /\ \A k \in 1..Len(c) : Append(s, Group(p))[k] = s[k]
    <3> HIDE DEF s
    <3> QED BY <1>2, <1>3, AppendProperties
  <2>2. \A k \in 1..(Len(c) + 1) : t[k] = Append(s, Group(p))[k]
    <3>1. ASSUME NEW k \in 1..(Len(c) + 1) PROVE t[k] = Append(s, Group(p))[k]
      <4>1. CASE k = Len(c) + 1
        BY <1>1, <2>1, <4>1
      <4>2. CASE k \in 1..Len(c)
        BY <1>1, <2>1, <4>2
      <4> QED BY <1>1, <4>1, <4>2
    <3> QED BY <3>1
  <2> HIDE DEF s, t
  <2> QED BY <1>4, <2>1, <2>2, SeqEqual
<1>6. J \cap (1..Len(s)) = I \cap (1..Len(s)) /\ (Len(s) + 1 \in J <=> HasCalls(p))
  BY <1>1, <1>3
<1>7. Groups(c) = Only(s, I) /\ Groups(d) = Only(t, J)
  BY DEF Groups
<1>8. I \in SUBSET (1..Len(s))
  BY <1>1, <1>3
<1>9. Groups(<<>>) = <<>>
  <2> DEFINE e == [i \in {} |-> Group(<<>>[i])]
  <2>1. Groups(<<>>) = Only([i \in DOMAIN <<>> |-> Group(<<>>[i])],
                           {i \in DOMAIN <<>> : HasCalls(<<>>[i])})
    BY DEF Groups
  <2>2. [i \in DOMAIN <<>> |-> Group(<<>>[i])] = <<>>
    OBVIOUS
  <2>3. \A K : Only(<<>>, K) = <<>>
    <3>1. <<>> \in Seq({}) /\ Len(<<>>) = 0
      OBVIOUS
    <3>2. ASSUME NEW K PROVE Only(<<>>, K) = <<>>
      <4>1. PICK u \in [0..Len(<<>>) -> Seq({})] :
                 Taking(u, <<>>, K) /\ Only(<<>>, K) = u[Len(<<>>)]
        BY <3>1, OnlyUnfolds
      <4> QED BY <3>1, <4>1 DEF Taking
    <3> QED BY <3>2
  <2> QED BY <2>1, <2>2, <2>3
<1> HIDE DEF s, t, I, J
<1>10. Only(s, I) \in Seq(Closed)
  BY <1>3, <1>8, OnlyFacts
<1>11. Only(Append(s, Group(p)), J) =
          IF Len(s) + 1 \in J THEN Append(Only(s, I), Group(p)) ELSE Only(s, I)
  BY <1>2, <1>3, <1>6, OnlyAppend
<1> QED BY <1>2, <1>5, <1>6, <1>7, <1>9, <1>10, <1>11 DEF d

\* of some payloads, all that call among them,
LEMMA GroupsOnly ==
    ASSUME NEW W, NEW c \in Chains(W), NEW I \in SUBSET (1..Len(c)),
           \A i \in (1..Len(c)) \ I : c[i].calls = {}
    PROVE  Groups(Only(c, I)) = Groups(c)
<1> DEFINE N == Len(c)
<1>1. N \in Nat /\ c \in Seq(Lines(W))
  BY ChainFacts
<1>2. PICK t \in [0..N -> Seq(Lines(W))] : Taking(t, c, I) /\ Only(c, I) = t[N]
  BY <1>1, OnlyUnfolds
<1> DEFINE T == {n \in 0..N : Groups(t[n]) = Groups(SubSeq(c, 1, n))}
<1>3. 0 \in T
  <2>1. SubSeq(c, 1, 0) = <<>>
    BY SubSeqEmpty
  <2>2. t[0] = <<>> /\ 0 \in 0..N
    BY <1>1, <1>2 DEF Taking
  <2> QED BY <2>1, <2>2
<1>4. ASSUME NEW n \in 0..(N - 1), n \in T PROVE n + 1 \in T
  <2>1. n + 1 \in 0..N /\ n + 1 # 0 /\ (n + 1) - 1 = n /\ n + 1 \in 1..N /\ n \in 0..N
    BY <1>1
  <2>2. t[n + 1] = IF n + 1 \in I THEN Append(t[n], c[n + 1]) ELSE t[n]
    BY <1>2, <2>1 DEF Taking
  <2>3. t[n] \in Chains(W)
    BY <1>2, <2>1 DEF Chains
  <2>4. /\ SubSeq(c, 1, n) \in Chains(W) /\ c[n + 1] \in Lines(W)
        /\ SubSeq(c, 1, n + 1) = Append(SubSeq(c, 1, n), c[n + 1])
    BY PrefixStep
  <2>5. n + 1 \notin I => ~HasCalls(c[n + 1])
    BY <2>1 DEF HasCalls
  <2>6. Groups(Append(t[n], c[n + 1])) = IF HasCalls(c[n + 1])
            THEN Append(Groups(t[n]), Group(c[n + 1])) ELSE Groups(t[n])
    BY <2>3, <2>4, GroupsAppend
  <2>7. Groups(SubSeq(c, 1, n + 1)) = IF HasCalls(c[n + 1])
            THEN Append(Groups(SubSeq(c, 1, n)), Group(c[n + 1])) ELSE Groups(SubSeq(c, 1, n))
    BY <2>4, GroupsAppend
  <2>8. Groups(t[n]) = Groups(SubSeq(c, 1, n))
    BY <1>4
  <2>9. Groups(t[n + 1]) = Groups(SubSeq(c, 1, n + 1))
    BY <2>2, <2>5, <2>6, <2>7, <2>8
  <2> QED BY <2>1, <2>9
<1>5. 0..N \subseteq T
  <2> HIDE DEF T, N
  <2> QED BY <1>1, <1>3, <1>4, SetInduction
<1>6. Groups(t[N]) = Groups(SubSeq(c, 1, N))
  BY <1>1, <1>5
<1> QED BY <1>1, <1>2, <1>6, SubSeqFull

\* of one chain after the other,
LEMMA GroupsConcat ==
    ASSUME NEW W, NEW c \in Chains(W), NEW d \in Chains(W)
    PROVE  Groups(c \o d) = Groups(c) \o Groups(d)
<1> DEFINE N == Len(d)
           T == {n \in 0..N : Groups(c \o SubSeq(d, 1, n)) = Groups(c) \o Groups(SubSeq(d, 1, n))}
<1>1. N \in Nat /\ c \in Seq(Lines(W)) /\ d \in Seq(Lines(W))
  BY ChainFacts
<1>2. Groups(c) \in Seq(Closed) /\ Groups(<<>>) = <<>>
  <2>1. System \in Lines(W)
    BY MadeFacts
  <2> QED BY <2>1, GroupsAppend
<1>3. 0 \in T
  <2>1. SubSeq(d, 1, 0) = <<>>
    BY SubSeqEmpty
  <2>2. c \o <<>> = c /\ Groups(c) \o <<>> = Groups(c)
    BY <1>1, <1>2, ConcatEmptySeq
  <2>3. Groups(c \o <<>>) = Groups(c) \o Groups(<<>>) /\ 0 \in 0..N
    BY <1>1, <1>2, <2>2
  <2> QED BY <2>1, <2>3
<1>4. ASSUME NEW n \in 0..(N - 1), n \in T PROVE n + 1 \in T
  <2> DEFINE s == SubSeq(d, 1, n)
             p == d[n + 1]
  <2>1. n + 1 \in 0..N /\ Groups(c \o s) = Groups(c) \o Groups(s)
    BY <1>1, <1>4
  <2>2. s \in Chains(W) /\ p \in Lines(W) /\ SubSeq(d, 1, n + 1) = Append(s, p)
    BY PrefixStep
  <2> HIDE DEF s, p
  <2>3. c \o Append(s, p) = Append(c \o s, p) /\ c \o s \in Chains(W)
    <3>1. c \o s \in Chains(W)
      BY <2>2, PartFacts
    <3>2. s \in Seq(Lines(W))
      BY <2>2, ChainFacts
    <3> QED BY <1>1, <2>2, <3>1, <3>2, AppendToConcat
  <2>4. Groups(Append(c \o s, p)) = IF HasCalls(p) THEN Append(Groups(c \o s), Group(p))
                                    ELSE Groups(c \o s)
    BY <2>2, <2>3, GroupsAppend
  <2>5. /\ Groups(Append(s, p)) = IF HasCalls(p) THEN Append(Groups(s), Group(p)) ELSE Groups(s)
        /\ Groups(s) \in Seq(Closed) /\ Group(p) \in Closed
    BY <2>2, GroupsAppend
  <2>6. Groups(c) \o Append(Groups(s), Group(p)) = Append(Groups(c) \o Groups(s), Group(p))
    BY <1>2, <2>5, AppendToConcat
  <2>7. Groups(c \o Append(s, p)) = Groups(c) \o Groups(Append(s, p))
    BY <2>1, <2>3, <2>4, <2>5, <2>6
  <2> QED BY <2>1, <2>2, <2>7
<1>5. 0..N \subseteq T
  <2> HIDE DEF T, N
  <2> QED BY <1>1, <1>3, <1>4, SetInduction
<1>6. N \in T
  BY <1>1, <1>5
<1> QED BY <1>1, <1>6, SubSeqFull

\* of one with the same calls,
LEMMA GroupsSame ==
    ASSUME NEW W, NEW c \in Chains(W), NEW d \in Chains(W), Len(d) = Len(c),
           \A k \in 1..Len(c) : d[k].calls = c[k].calls
    PROVE  Groups(d) = Groups(c)
<1>1. DOMAIN c = 1..Len(c) /\ DOMAIN d = 1..Len(c)
  BY ChainFacts
<1>2. [i \in DOMAIN d |-> Group(d[i])] = [i \in DOMAIN c |-> Group(c[i])]
  BY <1>1 DEF Group
<1>3. {i \in DOMAIN d : HasCalls(d[i])} = {i \in DOMAIN c : HasCalls(c[i])}
  BY <1>1 DEF HasCalls
<1> QED BY <1>2, <1>3 DEF Groups

\* and of one whose calls all have their results.
LEMMA MetTurns ==
    ASSUME NEW W, NEW c \in Chains(W), Met(c, {}, 0)
    PROVE  Turns(c) = Groups(c)
<1> DEFINE k == Conversation(c)
           J == {i \in DOMAIN c : ~IsPinned(c[i])}
           g == [i \in DOMAIN k |-> [calls |-> k[i].calls, answered |-> k[i].calls \cap Answered(k, i)]]
<1>1. \A i \in DOMAIN k : k[i].calls \subseteq Answered(k, i)
  <2>1. k \in Seq(Lines(W))
    BY ConversationPlaced
  <2>2. \A i \in 1..Len(k) : k[i].calls \subseteq Answered(k, i)
    BY MetAnswered
  <2> QED BY <2>1, <2>2, LenProperties
<1>2. k = Only(c, J)
  BY DEF Conversation, Those
<1>3. J \in SUBSET (1..Len(c)) /\ \A i \in (1..Len(c)) \ J : c[i].calls = {}
  <2>1. DOMAIN c = 1..Len(c) /\ \A i \in 1..Len(c) : c[i] \in Lines(W)
    BY ChainFacts
  <2>2. \A p \in Lines(W) : IsPinned(p) => p.calls = {}
    BY DEF Lines, IsPinned
  <2> QED BY <2>1, <2>2
<1> HIDE DEF k
<1>4. g = [i \in DOMAIN k |-> Group(k[i])]
  <2>1. \A i \in DOMAIN k : k[i].calls \cap Answered(k, i) = k[i].calls
    BY <1>1
  <2> QED BY <2>1 DEF Group
<1>5. Turns(c) = Only(g, {i \in DOMAIN g : HasCalls(g[i])})
  BY DEF Turns, Those, k
<1>6. DOMAIN g = DOMAIN k /\ \A i \in DOMAIN k : HasCalls(g[i]) <=> HasCalls(k[i])
  BY DEF HasCalls
<1>7. {i \in DOMAIN g : HasCalls(g[i])} = {i \in DOMAIN k : HasCalls(k[i])}
  BY <1>6
<1> HIDE DEF g, J
<1>8. Turns(c) = Groups(k)
  BY <1>4, <1>5, <1>7 DEF Groups
<1> QED BY <1>2, <1>3, <1>8, GroupsOnly

\* as is so of one that can be sent.
LEMMA SettledTurns ==
    ASSUME NEW W, NEW c \in Chains(W), Settled(c)
    PROVE  Turns(c) = Groups(c)
  BY MetTurns DEF Settled

-----------------------------------------------------------------------------
(* What the snapshot brings back                                           *)

\* What users say stays when others go.
LEMMA SaidOnly ==
    ASSUME NEW W, NEW c \in Chains(W), NEW I \in SUBSET (1..Len(c)),
           \A i \in (1..Len(c)) \ I : c[i].role # "user"
    PROVE  Said(Only(c, I)) = Said(c)
<1> DEFINE d == Only(c, I)
<1>1. d \in Chains(W) /\ DOMAIN c = 1..Len(c) /\ c \in Seq(Lines(W))
  BY ChainFacts
<1>2. /\ \A k \in 1..Len(d) : \E i \in I : d[k] = c[i]
      /\ \A i \in I : \E k \in 1..Len(d) : d[k] = c[i]
  BY <1>1, OnlyFacts
<1> HIDE DEF d
<1>3. DOMAIN d = 1..Len(d)
  BY <1>1, ChainFacts
<1>4. \A x : x \in Said(c) <=> \E i \in 1..Len(c) : c[i].role = "user" /\ x \in c[i].text
  BY <1>1 DEF Said
<1>5. \A x : x \in Said(d) <=> \E k \in 1..Len(d) : d[k].role = "user" /\ x \in d[k].text
  BY <1>3 DEF Said
<1>6. ASSUME NEW x PROVE x \in Said(c) <=> x \in Said(d)
  <2>1. ASSUME x \in Said(c) PROVE x \in Said(d)
    <3>1. PICK i \in 1..Len(c) : c[i].role = "user" /\ x \in c[i].text
      BY <1>4, <2>1
    <3>2. i \in I
      BY <3>1
    <3>3. PICK k \in 1..Len(d) : d[k] = c[i]
      BY <1>2, <3>2
    <3> QED BY <1>5, <3>1, <3>3
  <2>2. ASSUME x \in Said(d) PROVE x \in Said(c)
    <3>1. PICK k \in 1..Len(d) : d[k].role = "user" /\ x \in d[k].text
      BY <1>5, <2>2
    <3>2. PICK i \in I : d[k] = c[i]
      BY <1>2, <3>1
    <3>3. i \in 1..Len(c)
      BY <3>2
    <3> QED BY <1>4, <3>1, <3>2, <3>3
  <2> QED BY <2>1, <2>2
<1> QED BY <1>6 DEF d

\* What is captured of a settled chain is as settled, says as much and has the
\* same turns.
LEMMA CaptureSettled ==
    ASSUME NEW W, NEW c \in Chains(W), Settled(c)
    PROVE  LET d == Capture(c)
           IN  d \in Chains(W) /\ Settled(d) /\ Said(d) = Said(c) /\ Groups(d) = Groups(c)
<1> DEFINE taken(p) == /\ p.role # "tool" /\ ~IsSuspend(p)
                       /\ p.role \in {"user", "assistant"} => p.text # {} \/ HasCalls(p)
           I == {i \in DOMAIN c : taken(c[i])}
<1>1. DOMAIN c = 1..Len(c) /\ \A i \in 1..Len(c) : c[i] \in Lines(W)
  BY ChainFacts
<1>2. Capture(c) = Only(c, I)
  BY DEF Capture, Those
<1>3. \A p \in Lines(W) : ~taken(p) => p.role \notin {"user", "result"} /\ p.calls = {}
  BY DEF Lines, IsSuspend, HasCalls, Roles
<1>4. I \in SUBSET (1..Len(c)) /\ \A i \in (1..Len(c)) \ I : ~taken(c[i])
  BY <1>1
<1>5. \A i \in (1..Len(c)) \ I :
         c[i].role # "result" /\ c[i].role # "user" /\ c[i].calls = {}
  BY <1>1, <1>3, <1>4
<1> HIDE DEF I
<1>6. Settled(Only(c, I))
  <2>1. Owned(c) /\ Met(c, {}, 0) /\ Follows(c)
    BY DEF Settled
  <2>2. Owned(Only(c, I)) /\ Met(Only(c, I), {}, 0) /\ Follows(Only(c, I))
    BY <1>4, <1>5, <2>1, ThinFacts
  <2> QED BY <2>2 DEF Settled
<1>7. Said(Only(c, I)) = Said(c) /\ Groups(Only(c, I)) = Groups(c)
  BY <1>4, <1>5, SaidOnly, GroupsOnly
<1> QED BY <1>2, <1>6, <1>7, CaptureFacts

\* One step of the restoring: where the calls under way are those that were not
\* answered yet, what is said is kept and nothing is taken back.
LEMMA RestoreKeeps ==
    ASSUME NEW W, NEW a \in Restores(W), NEW p \in Lines(W),
           ~Continues(p) => a.pending = {},
           p.role = "assistant" => a.out # <<>>,
           p.role = "result" => p.results # {} /\ p.results \subseteq a.pending
    PROVE  LET b == RestoreStep(a, p)
           IN  /\ b.out = IF IsPinned(p) THEN a.out ELSE Append(a.out, p)
               /\ IsPinned(p) => b.pending = a.pending
               /\ p.role = "user" => b.pending = {}
               /\ p.role = "assistant" => b.pending = p.calls
               /\ p.role = "result" => b.pending = a.pending \ p.results
<1> DEFINE b == RestoreStep(a, p)
           hit == p.results \cap a.pending
<1>1. /\ p.role \in {"system", "tool", "user", "assistant", "result"}
      /\ p.role = "result" => p = Result(p.results)
      /\ p.calls \in SUBSET CallIds
  <2>1. p \in Lines(W)
    OBVIOUS
  <2>2. p = [role |-> p.role, text |-> p.text, calls |-> p.calls, results |-> p.results]
    BY <2>1 DEF Lines
  <2>3. p.role = "result" => p.text = {} /\ p.calls = {}
    BY <2>1 DEF Lines
  <2> QED BY <2>1, <2>2, <2>3 DEF Lines, Roles, Result, Payload
<1>2. Ids(p) = p.calls
  BY <1>1, PayloadsAssumption DEF Ids
<1>3. a = [out |-> a.out, pending |-> a.pending, safe |-> a.safe, start |-> a.start,
           rollback |-> a.rollback]
  BY DEF Restores
<1>4. CASE IsPinned(p)
  BY <1>4 DEF RestoreStep, IsPinned
<1>5. CASE p.role = "user"
  <2>1. a.pending = {} /\ ~IsPinned(p)
    BY <1>5 DEF Continues, IsPinned
  <2>2. b = [a EXCEPT !.out = Append(a.out, p), !.start = a.safe]
    BY <1>5, <2>1 DEF RestoreStep
  <2> HIDE DEF b
  <2>3. b.out = Append(a.out, p) /\ b.pending = a.pending
    BY <1>3, <2>2
  <2> QED BY <1>5, <2>1, <2>3 DEF b
<1>6. CASE p.role = "assistant"
  <2>1. a.pending = {} /\ a.out # <<>> /\ ~IsPinned(p)
    BY <1>6 DEF Continues, IsPinned
  <2> DEFINE out == Append(a.out, p)
  <2>2. b = [a EXCEPT !.out = out, !.pending = Ids(p),
                      !.safe = IF Ids(p) = {} THEN Len(out) ELSE a.safe,
                      !.rollback = IF Ids(p) = {} THEN a.rollback ELSE a.start]
    BY <1>6, <2>1 DEF RestoreStep
  <2> HIDE DEF b, out
  <2>3. b.out = out /\ b.pending = Ids(p)
    BY <1>3, <2>2
  <2> QED BY <1>2, <1>6, <2>1, <2>3 DEF b, out
<1>7. CASE p.role = "result"
  <2>1. hit = p.results /\ hit # {} /\ ~IsPinned(p)
    BY <1>7 DEF IsPinned
  <2> DEFINE done == Append(a.out, Result(hit))
  <2>2. b = [a EXCEPT !.out = done, !.pending = a.pending \ hit,
                      !.safe = IF a.pending \ hit = {} THEN Len(done) ELSE a.safe]
    BY <1>7, <2>1 DEF RestoreStep
  <2>3. done = Append(a.out, p)
    BY <1>1, <1>7, <2>1
  <2> HIDE DEF b, done, hit
  <2>4. b.out = done /\ b.pending = a.pending \ hit
    BY <1>3, <2>2
  <2> QED BY <1>7, <2>1, <2>3, <2>4 DEF b
<1> QED BY <1>1, <1>4, <1>5, <1>6, <1>7 DEF IsPinned

\* So all turns of a settled chain come back.
LEMMA SettledTurnsRestored ==
    ASSUME NEW W, NEW c \in Chains(W), Settled(c)
    PROVE  RestoredTurns(c) = Conversation(c)
<1> DEFINE N == Len(c)
           J == {i \in DOMAIN c : ~IsPinned(c[i])}
           b == [out |-> <<>>, pending |-> {}, safe |-> 0, start |-> 0, rollback |-> 0]
           end == Folded(RestoreStep, b, c)
<1>1. /\ N \in Nat /\ c \in Seq(Lines(W)) /\ DOMAIN c = 1..N /\ b \in Restores(W)
      /\ \A n \in 1..N : c[n] \in Lines(W)
  BY ChainFacts DEF Restores
<1>2. Conversation(c) = Only(c, J)
  BY DEF Conversation, Those
<1>3. RestoredTurns(c) = IF end.pending = {} THEN end.out ELSE Upto(end.out, end.rollback)
  BY DEF RestoredTurns
<1>4. \A n \in 1..N : n \in J <=> ~IsPinned(c[n])
  BY <1>1
<1>5. b.out = <<>> /\ b.pending = {}
  OBVIOUS
<1> HIDE DEF b, J
<1>6. PICK f \in [0..N -> Restores(W)] : Restoring(f, b, c) /\ end = f[N]
  BY <1>1, RestoreRuns
<1>7. PICK t \in [0..N -> Seq(Lines(W))] : Taking(t, c, J) /\ Only(c, J) = t[N]
  BY <1>1, OnlyUnfolds
<1> HIDE DEF end
<1>8. Owned(c) /\ Met(c, {}, 0) /\ Greeted(c)
  BY SettledGreeted DEF Settled
<1> DEFINE T == {n \in 0..N : /\ f[n].out = t[n] /\ f[n].pending = Unmet(c, n)
                              /\ (\E j \in 1..n : c[j].role = "user") => t[n] # <<>>}
<1>9. 0 \in T
  <2>1. f[0] = b /\ t[0] = <<>> /\ 0 \in 0..N
    BY <1>1, <1>6, <1>7 DEF Restoring, Taking
  <2>2. Unmet(c, 0) = {}
    BY <1>8, UnmetEnds
  <2> QED BY <1>5, <2>1, <2>2
<1>10. ASSUME NEW n \in 0..(N - 1), n \in T PROVE n + 1 \in T
  <2> DEFINE p == c[n + 1]
             a == f[n]
             r == RestoreStep(a, p)
  <2>1. n + 1 \in 0..N /\ n + 1 # 0 /\ (n + 1) - 1 = n /\ n + 1 \in 1..N /\ n \in 0..N
    BY <1>1
  <2>2. f[n + 1] = r
    BY <1>6, <2>1 DEF Restoring
  <2>3. t[n + 1] = IF IsPinned(p) THEN t[n] ELSE Append(t[n], p)
    BY <1>4, <1>7, <2>1 DEF Taking
  <2>4. a \in Restores(W) /\ p \in Lines(W) /\ t[n] \in Seq(Lines(W))
    BY <1>1, <1>6, <1>7, <2>1
  <2>5. a.out = t[n] /\ a.pending = Unmet(c, n)
        /\ ((\E j \in 1..n : c[j].role = "user") => t[n] # <<>>)
    BY <1>10
  <2>6. /\ ~Continues(p) => Unmet(c, n) = {}
        /\ IsPinned(p) => Unmet(c, n + 1) = Unmet(c, n)
        /\ p.role = "user" => Unmet(c, n + 1) = {}
        /\ p.role = "assistant" => Unmet(c, n + 1) = p.calls
        /\ p.role = "result" =>
             /\ p.results # {} /\ p.results \subseteq Unmet(c, n)
             /\ Unmet(c, n + 1) = Unmet(c, n) \ p.results
    BY <1>8, UnmetStep
  <2>7. p.role = "assistant" => a.out # <<>>
    <3> SUFFICES ASSUME p.role = "assistant" PROVE \E j \in 1..n : c[j].role = "user"
      BY <2>5
    <3>1. PICK j \in 1..((n + 1) - 1) : c[j].role = "user"
      BY <1>8, <2>1 DEF Greeted
    <3> QED BY <2>1, <3>1
  <2>8. p.role \in {"system", "tool", "user", "assistant", "result"}
    BY <2>4 DEF Lines, Roles
  <2> HIDE DEF a, p
  <2>9. /\ r.out = IF IsPinned(p) THEN a.out ELSE Append(a.out, p)
        /\ IsPinned(p) => r.pending = a.pending
        /\ p.role = "user" => r.pending = {}
        /\ p.role = "assistant" => r.pending = p.calls
        /\ p.role = "result" => r.pending = a.pending \ p.results
    BY <2>4, <2>5, <2>6, <2>7, RestoreKeeps
  <2> HIDE DEF r
  <2>10. r.out = t[n + 1]
    BY <2>3, <2>5, <2>9
  <2>11. r.pending = Unmet(c, n + 1)
    BY <2>5, <2>6, <2>8, <2>9 DEF IsPinned
  <2>12. (\E j \in 1..(n + 1) : c[j].role = "user") => t[n + 1] # <<>>
    <3> SUFFICES ASSUME NEW j \in 1..(n + 1), c[j].role = "user" PROVE t[n + 1] # <<>>
      OBVIOUS
    <3>1. Append(t[n], p) # <<>>
      BY <2>4, AppendProperties
    <3>2. CASE j = n + 1
      BY <2>3, <3>1, <3>2 DEF p, IsPinned
    <3>3. CASE j \in 1..n
      BY <2>3, <2>5, <3>1, <3>3
    <3> QED BY <2>1, <3>2, <3>3
  <2> QED BY <2>1, <2>2, <2>10, <2>11, <2>12
<1>11. 0..N \subseteq T
  <2> HIDE DEF T, N
  <2> QED BY <1>1, <1>9, <1>10, SetInduction
<1>12. f[N].out = t[N] /\ f[N].pending = Unmet(c, N)
  BY <1>1, <1>11
<1>13. Unmet(c, N) = {}
  BY <1>8, UnmetEnds
<1> QED BY <1>2, <1>3, <1>6, <1>7, <1>12, <1>13

\* A settled chain comes back whole, but for the pinned payloads:
LEMMA RestoredWhole ==
    ASSUME NEW W, Words \subseteq W, NEW c \in Chains(W), Settled(c)
    PROVE  Restore(c) = Conversation(c)
<1> DEFINE J == {i \in DOMAIN c : ~IsPinned(c[i])}
           r == Only(c, J)
           users == {i \in DOMAIN r : r[i].role = "user"}
           from  == CHOOSE i \in users : \A j \in users : i <= j
<1>1. DOMAIN c = 1..Len(c) /\ \A i \in 1..Len(c) : c[i] \in Lines(W)
  BY ChainFacts
<1>2. RestoredTurns(c) = r /\ Conversation(c) = r
  BY SettledTurnsRestored DEF Conversation, Those
<1>3. Restore(c) = IF users = {} THEN <<>> ELSE Prepare(SubSeq(r, from, Len(r)))
  BY <1>2 DEF Restore
<1>4. J \in SUBSET (1..Len(c)) /\ \A i \in 1..Len(c) : i \in J <=> ~IsPinned(c[i])
  BY <1>1
<1>5. \A i \in (1..Len(c)) \ J :
         c[i].role # "result" /\ c[i].role # "user" /\ c[i].calls = {}
  <2>1. \A p \in Lines(W) : IsPinned(p) => p.role \notin {"user", "result"} /\ p.calls = {}
    BY DEF Lines, IsPinned
  <2> QED BY <1>1, <1>4, <2>1
<1> HIDE DEF J
<1>6. r \in Chains(W) /\ Loose(r)
  <2>1. r \in Chains(W) /\ c \in Seq(Lines(W))
    BY <1>4, ChainFacts
  <2>2. \A k \in 1..Len(r) : \E i \in J : r[k] = c[i]
    BY <1>4, <2>1, OnlyFacts
  <2> HIDE DEF r
  <2>3. \A k \in 1..Len(r) : ~IsPinned(r[k])
    BY <1>4, <2>2
  <2> QED BY <2>1, <2>3 DEF Loose
<1>7. Settled(r)
  <2>1. Owned(c) /\ Met(c, {}, 0) /\ Follows(c)
    BY DEF Settled
  <2>2. Owned(r) /\ Met(r, {}, 0) /\ Follows(r)
    BY <1>4, <1>5, <2>1, ThinFacts
  <2> QED BY <2>2 DEF Settled
<1> HIDE DEF r
<1>8. Len(r) \in Nat /\ DOMAIN r = 1..Len(r) /\ r \in Seq(Lines(W))
  BY <1>6, ChainFacts
<1>9. Restore(c) = r
  <2>1. CASE r = <<>>
    <3>1. users = {}
      BY <1>8, <2>1
    <3> QED BY <1>3, <2>1, <3>1
  <2>2. CASE r # <<>>
    <3>1. 1 \in 1..Len(r) /\ ~IsPinned(r[1])
      BY <1>6, <1>8, <2>2 DEF Loose
    <3>2. PICK j \in 1..1 : r[j].role = "user"
      BY <1>6, <1>7, <3>1, SettledGreeted
    <3>3. 1 \in users /\ users \in SUBSET (1..Len(r)) /\ users # {}
      BY <1>8, <3>1, <3>2
    <3> HIDE DEF users
    <3>4. from \in users /\ \A k \in users : from <= k
      BY <1>8, <3>3, EndFacts
    <3> HIDE DEF from
    <3>5. from = 1
      BY <1>8, <3>3, <3>4
    <3>6. SubSeq(r, 1, Len(r)) = r
      BY <1>8, SubSeqFull
    <3>7. Prepare(r) = r
      BY <1>6, <1>7, SettledPrepared
    <3> QED BY <1>3, <3>3, <3>5, <3>6, <3>7
  <2> QED BY <2>1, <2>2
<1> QED BY <1>2, <1>9

\* so nothing of it is missing.
LEMMA SettledRestored ==
    ASSUME NEW W, Words \subseteq W, NEW c \in Chains(W), Settled(c)
    PROVE  LET r == Restore(c)
           IN  Said(r) = Said(c) /\ Groups(r) = Groups(c)
<1> DEFINE J == {i \in DOMAIN c : ~IsPinned(c[i])}
<1>1. DOMAIN c = 1..Len(c) /\ \A i \in 1..Len(c) : c[i] \in Lines(W)
  BY ChainFacts
<1>2. Restore(c) = Only(c, J)
  BY RestoredWhole DEF Conversation, Those
<1>3. J \in SUBSET (1..Len(c)) /\ \A i \in 1..Len(c) : i \in J <=> ~IsPinned(c[i])
  BY <1>1
<1>4. \A i \in (1..Len(c)) \ J :
         c[i].role # "result" /\ c[i].role # "user" /\ c[i].calls = {}
  <2>1. \A p \in Lines(W) : IsPinned(p) => p.role \notin {"user", "result"} /\ p.calls = {}
    BY DEF Lines, IsPinned
  <2> QED BY <1>1, <1>3, <2>1
<1> HIDE DEF J
<1>5. Said(Only(c, J)) = Said(c) /\ Groups(Only(c, J)) = Groups(c)
  BY <1>3, <1>4, SaidOnly, GroupsOnly
<1> QED BY <1>2, <1>5

\* Nothing of a chain that can be sent is lost in the snapshot of it: what comes
\* back says all that was said in it and has all its turns.
THEOREM CapturedIsRestored ==
    ASSUME NEW W, Words \subseteq W, NEW c \in Chains(W), Settled(c)
    PROVE  LET r == Restore(Capture(c))
           IN  Said(r) = Said(c) /\ Turns(r) = Turns(c)
<1> DEFINE d == Capture(c)
           r == Restore(d)
<1>1. d \in Chains(W) /\ Settled(d) /\ Said(d) = Said(c) /\ Groups(d) = Groups(c)
  BY CaptureSettled
<1> HIDE DEF d
<1>2. Said(r) = Said(d) /\ Groups(r) = Groups(d)
  BY <1>1, SettledRestored
<1>3. r \in Chains(W) /\ Settled(r)
  BY <1>1, RestoreFacts, RestoreSettles
<1> HIDE DEF r
<1>4. Turns(r) = Groups(r)
  BY <1>3, SettledTurns
<1>5. Turns(c) = Groups(c)
  BY SettledTurns
<1> QED BY <1>1, <1>2, <1>4, <1>5 DEF r, d

-----------------------------------------------------------------------------
(* What is said and called in the chains that are made of others           *)

\* Where nothing is said nothing is open.
LEMMA EmptySettled == Settled(<<>>)
BY DEF Settled, Follows, Owned, Met

\* What users say, payload by payload,
LEMMA SaidIn ==
    ASSUME NEW W, NEW c \in Chains(W)
    PROVE  \A x : x \in Said(c) <=> \E i \in 1..Len(c) : c[i].role = "user" /\ x \in c[i].text
<1>1. DOMAIN c = 1..Len(c)
  BY ChainFacts
<1> QED BY <1>1 DEF Said

\* with one more,
LEMMA SaidAppend ==
    ASSUME NEW W, NEW c \in Chains(W), NEW p \in Lines(W)
    PROVE  Said(Append(c, p)) = Said(c) \cup (IF p.role = "user" THEN p.text ELSE {})
<1> DEFINE a == Append(c, p)
           t == IF p.role = "user" THEN p.text ELSE {}
<1>1. /\ a \in Chains(W) /\ Len(a) = Len(c) + 1 /\ a[Len(c) + 1] = p
      /\ \A k \in 1..Len(c) : a[k] = c[k]
  BY AppendGroups
<1>2. Len(c) \in Nat
  BY ChainFacts
<1> HIDE DEF a
<1>3. \A x : x \in Said(c) <=> \E i \in 1..Len(c) : c[i].role = "user" /\ x \in c[i].text
  BY SaidIn
<1>4. \A x : x \in Said(a) <=> \E i \in 1..Len(a) : a[i].role = "user" /\ x \in a[i].text
  BY <1>1, SaidIn
<1>5. \A i : i \in 1..Len(a) <=> i \in 1..Len(c) \/ i = Len(c) + 1
  BY <1>1, <1>2
<1>6. ASSUME NEW x PROVE x \in Said(a) <=> x \in Said(c) \/ x \in t
  BY <1>1, <1>3, <1>4, <1>5
<1> QED BY <1>6 DEF a

\* with another one after it,
LEMMA SaidConcat ==
    ASSUME NEW W, NEW c \in Chains(W), NEW d \in Chains(W)
    PROVE  Said(c \o d) = Said(c) \cup Said(d)
<1> DEFINE a == c \o d
<1>1. /\ Len(a) = Len(c) + Len(d) /\ Len(d) \in Nat
      /\ \A i \in 1..(Len(c) + Len(d)) : a[i] = IF i <= Len(c) THEN c[i] ELSE d[i - Len(c)]
  BY JoinFacts
<1>2. Len(c) \in Nat
  BY ChainFacts
<1>3. a \in Chains(W)
  BY PartFacts
<1> HIDE DEF a
<1>4. \A x : x \in Said(c) <=> \E i \in 1..Len(c) : c[i].role = "user" /\ x \in c[i].text
  BY SaidIn
<1>5. \A x : x \in Said(d) <=> \E i \in 1..Len(d) : d[i].role = "user" /\ x \in d[i].text
  BY SaidIn
<1>6. \A x : x \in Said(a) <=> \E i \in 1..Len(a) : a[i].role = "user" /\ x \in a[i].text
  BY <1>3, SaidIn
<1>7. \A i \in 1..Len(c) : i \in 1..Len(a) /\ a[i] = c[i]
  BY <1>1, <1>2
<1>8. \A i \in 1..Len(d) : Len(c) + i \in 1..Len(a) /\ a[Len(c) + i] = d[i]
  <2>1. ASSUME NEW i \in 1..Len(d)
        PROVE  /\ Len(c) + i \in 1..(Len(c) + Len(d)) /\ ~(Len(c) + i <= Len(c))
               /\ (Len(c) + i) - Len(c) = i
    BY <1>1, <1>2
  <2> QED BY <1>1, <2>1
<1>9. \A i \in 1..Len(a) : i \in 1..Len(c) \/ \E j \in 1..Len(d) : i = Len(c) + j
  <2>1. ASSUME NEW i \in 1..Len(a), i \notin 1..Len(c)
        PROVE  i - Len(c) \in 1..Len(d) /\ i = Len(c) + (i - Len(c))
    BY <1>1, <1>2, <2>1
  <2> QED BY <2>1
<1>10. ASSUME NEW x PROVE x \in Said(a) <=> x \in Said(c) \/ x \in Said(d)
  <2>1. ASSUME x \in Said(c) PROVE x \in Said(a)
    BY <1>4, <1>6, <1>7, <2>1
  <2>2. ASSUME x \in Said(d) PROVE x \in Said(a)
    BY <1>5, <1>6, <1>8, <2>2
  <2>3. ASSUME x \in Said(a) PROVE x \in Said(c) \/ x \in Said(d)
    <3>1. PICK i \in 1..Len(a) : a[i].role = "user" /\ x \in a[i].text
      BY <1>6, <2>3
    <3>2. CASE i \in 1..Len(c)
      BY <1>4, <1>7, <3>1, <3>2
    <3>3. CASE \E j \in 1..Len(d) : i = Len(c) + j
      BY <1>5, <1>8, <3>1, <3>3
    <3> QED BY <1>9, <3>2, <3>3
  <2> QED BY <2>1, <2>2, <2>3
<1> QED BY <1>10 DEF a

\* and with history put in: it comes first of what is said and called.
LEMMA InjectKeeps ==
    ASSUME NEW W, NEW c \in Chains(W), NEW d \in Chains(W)
    PROVE  /\ Said(Inject(c, d)) = Said(c) \cup Said(d)
           /\ Groups(Inject(c, d)) = Groups(d) \o Groups(c)
<1> DEFINE rest  == {i \in DOMAIN c : ~IsPinned(c[i])}
           first == CHOOSE i \in rest : \A j \in rest : i <= j
           split == IF rest = {} THEN Len(c) ELSE first - 1
           a     == SubSeq(c, 1, split)
           b     == SubSeq(c, split + 1, Len(c))
<1>1. Len(c) \in Nat /\ rest \in SUBSET (1..Len(c)) /\ c \in Seq(Lines(W))
      /\ \A i \in 1..Len(c) : i \in rest <=> ~IsPinned(c[i])
  BY ChainFacts
<1>2. Inject(c, d) = (a \o d) \o b
  BY DEF Inject
<1> HIDE DEF rest
<1>3. rest # {} => first \in rest /\ \A j \in rest : first <= j
  BY <1>1, EndFacts
<1>4. split \in 0..Len(c) /\ \A k \in 1..split : IsPinned(c[k])
  <2> HIDE DEF first
  <2>1. CASE rest = {}
    BY <1>1, <2>1
  <2>2. CASE rest # {}
    <3>1. first \in 1..Len(c) /\ split = first - 1
      BY <1>1, <1>3, <2>2
    <3>2. \A k \in 1..split : k \in 1..Len(c) /\ ~(first <= k)
      BY <1>1, <3>1
    <3> QED BY <1>1, <1>3, <2>2, <3>1, <3>2
  <2> QED BY <2>1, <2>2
<1> HIDE DEF split, first
<1>5. a \in Chains(W) /\ b \in Chains(W)
  <2>1. 1 \in Nat \ {0} /\ split + 1 \in Nat \ {0} /\ split \in 0..Len(c) /\ Len(c) \in 0..Len(c)
    BY <1>1, <1>4
  <2>2. a \in Chains(W)
    BY <2>1, PartFacts
  <2>3. b \in Chains(W)
    BY <2>1, PartFacts
  <2> QED BY <2>2, <2>3
<1>6. Len(a) = split /\ \A k \in 1..split : a[k] = c[k]
  BY <1>1, <1>4
<1>7. a \o b = c
  <2>1. CASE split = Len(c)
    <3>1. a = c
      BY <1>1, <2>1, SubSeqFull
    <3>2. b = <<>>
      <4>1. split + 1 > Len(c)
        BY <1>1, <2>1
      <4> QED BY <1>1, <4>1, <2>1, SubSeqEmpty
    <3> QED BY <1>1, <3>1, <3>2, ConcatEmptySeq
  <2>2. CASE split # Len(c)
    <3>1. b \in Seq(Lines(W)) /\ Len(b) = Len(c) - split
          /\ \A k \in 1..(Len(c) - split) : b[k] = c[k + split]
      BY <1>1, <1>4
    <3>2. a \in Seq(Lines(W))
      BY <1>5, ChainFacts
    <3> HIDE DEF a, b
    <3>3. a \o b \in Seq(Lines(W)) /\ Len(a \o b) = Len(a) + Len(b)
          /\ \A i \in 1..(Len(a) + Len(b)) : (a \o b)[i] = IF i <= Len(a) THEN a[i] ELSE b[i - Len(a)]
      BY <3>1, <3>2, ConcatProperties
    <3>4. Len(a) + Len(b) = Len(c)
      BY <1>1, <1>4, <1>6, <3>1
    <3>5. \A i \in 1..Len(c) : (a \o b)[i] = c[i]
      <4>1. ASSUME NEW i \in 1..Len(c), i <= split PROVE (a \o b)[i] = c[i]
        <5>1. i \in 1..split
          BY <4>1, <1>4
        <5> QED BY <1>6, <3>3, <3>4, <4>1, <5>1
      <4>2. ASSUME NEW i \in 1..Len(c), ~(i <= split) PROVE (a \o b)[i] = c[i]
        <5>1. i - split \in 1..(Len(c) - split) /\ (i - split) + split = i
          BY <1>1, <1>4, <4>2
        <5>2. (a \o b)[i] = b[i - split]
          BY <1>6, <3>3, <3>4, <4>2
        <5> QED BY <3>1, <5>1, <5>2
      <4> QED BY <4>1, <4>2
    <3> QED BY <1>1, <3>3, <3>4, <3>5, SeqEqual
  <2> QED BY <2>1, <2>2
<1>8. Groups(a) = <<>> /\ Said(a) = {}
  <2>1. \A k \in 1..Len(a) : a[k].calls = {} /\ a[k].role # "user"
    <3>1. \A k \in 1..Len(a) : a[k] \in Lines(W) /\ IsPinned(a[k])
      <4>1. \A k \in 1..Len(a) : a[k] \in Lines(W)
        BY <1>5, ChainFacts
      <4> QED BY <1>4, <1>6, <4>1
    <3> QED BY <3>1 DEF IsPinned, Lines
  <2>2. \A i \in (1..Len(a)) \ {} : a[i].calls = {}
    BY <2>1
  <2>3. Groups(Only(a, {})) = Groups(a)
    <3>1. {} \in SUBSET (1..Len(a))
      OBVIOUS
    <3> QED BY <1>5, <2>2, <3>1, GroupsOnly
  <2>4. Only(a, {}) = <<>>
    <3> DEFINE none == {}
    <3>1. a \in Seq(Lines(W)) /\ none \in SUBSET (1..Len(a))
      BY <1>5, ChainFacts
    <3> HIDE DEF none
    <3>2. /\ Only(a, none) \in Seq(Lines(W))
          /\ \A k \in 1..Len(Only(a, none)) : \E i \in none : Only(a, none)[k] = a[i]
      BY <3>1, OnlyFacts
    <3>3. Len(Only(a, none)) = 0
      <4>1. Len(Only(a, none)) \in Nat
        BY <3>2, LenProperties
      <4>2. ~(1 \in 1..Len(Only(a, none)))
        BY <3>2 DEF none
      <4> QED BY <4>1, <4>2
    <3> QED BY <3>2, <3>3, EmptySeq DEF none
  <2>5. Groups(<<>>) = <<>>
    <3>1. System \in Lines(W)
      BY MadeFacts
    <3> QED BY <1>5, <3>1, GroupsAppend
  <2>6. \A x : x \in Said(a) <=> \E i \in 1..Len(a) : a[i].role = "user" /\ x \in a[i].text
    BY <1>5, SaidIn
  <2> QED BY <2>1, <2>3, <2>4, <2>5, <2>6
<1> HIDE DEF a, b
<1>9. a \o d \in Chains(W)
  BY <1>5, PartFacts
<1>10. Said(c) = Said(a) \cup Said(b) /\ Said((a \o d) \o b) = (Said(a) \cup Said(d)) \cup Said(b)
  <2>1. Said(a \o b) = Said(a) \cup Said(b)
    BY <1>5, SaidConcat
  <2>2. Said(a \o d) = Said(a) \cup Said(d)
    BY <1>5, SaidConcat
  <2>3. Said((a \o d) \o b) = Said(a \o d) \cup Said(b)
    BY <1>5, <1>9, SaidConcat
  <2> QED BY <1>7, <2>1, <2>2, <2>3
<1>11. Groups(c) = Groups(a) \o Groups(b) /\ Groups((a \o d) \o b) = (Groups(a) \o Groups(d)) \o Groups(b)
  <2>1. Groups(a \o b) = Groups(a) \o Groups(b)
    BY <1>5, GroupsConcat
  <2>2. Groups(a \o d) = Groups(a) \o Groups(d)
    BY <1>5, GroupsConcat
  <2>3. Groups((a \o d) \o b) = Groups(a \o d) \o Groups(b)
    BY <1>5, <1>9, GroupsConcat
  <2> QED BY <1>7, <2>1, <2>2, <2>3
<1>12. <<>> \o Groups(b) = Groups(b) /\ <<>> \o Groups(d) = Groups(d)
  <2>1. System \in Lines(W)
    BY MadeFacts
  <2>2. Groups(b) \in Seq(Closed) /\ Groups(d) \in Seq(Closed)
    BY <1>5, <2>1, GroupsAppend
  <2> QED BY <2>2, ConcatEmptySeq
<1> QED BY <1>2, <1>8, <1>10, <1>11, <1>12

\* A text that is sent back adds no more than its prompt,
LEMMA DraftKeeps ==
    ASSUME NEW W, Words \subseteq W, NEW c \in Chains(W)
    PROVE  LET d == WithDraft(Append(c, Assistant({"said"}, {})))
           IN  /\ d \in Chains(W) /\ Groups(d) = Groups(c)
               /\ Said(d) = Said(c) \cup {"followup"}
<1> DEFINE q == Assistant({"draft"}, {})
           u == User({"followup"})
           b == Append(c, q)
<1>1. /\ WithDraft(Append(c, Assistant({"said"}, {}))) = Append(b, u)
      /\ q \in Lines(W) /\ u \in Lines(W)
  BY DraftAppended
<1>2. /\ q.role = "assistant" /\ ~HasCalls(q)
      /\ u.role = "user" /\ u.text = {"followup"} /\ ~HasCalls(u)
  BY DEF Assistant, User, Payload, HasCalls
<1> HIDE DEF q, u
<1>3. b \in Chains(W) /\ Append(b, u) \in Chains(W)
  <2>1. b \in Chains(W)
    BY <1>1, ChainFacts
  <2> QED BY <1>1, <2>1, ChainFacts
<1>4. Groups(b) = Groups(c) /\ Said(b) = Said(c)
  <2>1. Groups(b) = IF HasCalls(q) THEN Append(Groups(c), Group(q)) ELSE Groups(c)
    BY <1>1, GroupsAppend
  <2>2. Said(b) = Said(c) \cup (IF q.role = "user" THEN q.text ELSE {})
    BY <1>1, SaidAppend
  <2> QED BY <1>2, <2>1, <2>2
<1> HIDE DEF b
<1>5. Groups(Append(b, u)) = Groups(b) /\ Said(Append(b, u)) = Said(b) \cup {"followup"}
  <2>1. Groups(Append(b, u)) = IF HasCalls(u) THEN Append(Groups(b), Group(u)) ELSE Groups(b)
    BY <1>1, <1>3, GroupsAppend
  <2>2. Said(Append(b, u)) = Said(b) \cup (IF u.role = "user" THEN u.text ELSE {})
    BY <1>1, <1>3, SaidAppend
  <2> QED BY <1>2, <2>1, <2>2
<1> QED BY <1>1, <1>3, <1>4, <1>5

\* and the repair of a settled chain takes nothing that was said or called.
LEMMA SettledKeeps ==
    ASSUME NEW W, Words \subseteq W, NEW c \in Chains(W), Settled(c)
    PROVE  Said(Repair(c)) = Said(c) /\ Groups(Repair(c)) = Groups(c)
<1> DEFINE I == {i \in DOMAIN c : ~IsSuspend(c[i])}
<1>1. Repair(c) = Only(c, I)
  BY SettledRepaired DEF Those
<1>2. DOMAIN c = 1..Len(c)
  BY ChainFacts
<1>3. I \in SUBSET (1..Len(c)) /\ \A i \in (1..Len(c)) \ I : c[i].calls = {} /\ c[i].role # "user"
  BY <1>2 DEF IsSuspend, HasCalls
<1> HIDE DEF I
<1>4. Said(Only(c, I)) = Said(c)
  BY <1>3, SaidOnly
<1>5. Groups(Only(c, I)) = Groups(c)
  BY <1>3, GroupsOnly
<1> QED BY <1>1, <1>4, <1>5

\* What comes first of a list is a prefix of it.
LEMMA PrefixFacts ==
    ASSUME NEW S, NEW s \in Seq(S)
    PROVE  /\ IsPrefix(<<>>, s) /\ IsPrefix(s, s)
           /\ \A t \in Seq(S) : IsPrefix(s, s \o t)
<1>1. Len(s) \in Nat /\ SubSeq(s, 1, Len(s)) = s
  BY LenProperties, SubSeqFull
<1>2. IsPrefix(s, s)
  BY <1>1 DEF IsPrefix
<1>3. IsPrefix(<<>>, s)
  BY <1>1, SubSeqEmpty DEF IsPrefix
<1>4. ASSUME NEW t \in Seq(S) PROVE IsPrefix(s, s \o t)
  <2>1. Len(s \o t) = Len(s) + Len(t) /\ Len(t) \in Nat
    BY ConcatProperties, LenProperties
  <2>2. SubSeq(s \o t, 1, Len(s)) = s
    BY SubSeqOfConcat1, <1>1
  <2> QED BY <1>1, <2>1, <2>2 DEF IsPrefix
<1> QED BY <1>2, <1>3, <1>4

-----------------------------------------------------------------------------
(* An answer after the request                                             *)

\* What becomes of a payload when a chain is healed does not depend on the texts
\* of the others, nor on the calls without an id.
LEMMA HealedSame ==
    ASSUME NEW d, NEW e, Len(e) = Len(d), Len(d) \in Nat,
           \A k \in 1..Len(d) : /\ e[k].role = d[k].role /\ Ids(e[k]) = Ids(d[k])
                                /\ e[k].results = d[k].results,
           NEW j \in 1..Len(d), e[j] = d[j]
    PROVE  HealedAt(e, j) = HealedAt(d, j)
<1> DEFINE N == Len(d)
           same(k) == /\ e[k].role = d[k].role /\ Ids(e[k]) = Ids(d[k])
                      /\ e[k].results = d[k].results
<1>1. \A k \in 1..N : same(k) /\ (Continues(e[k]) <=> Continues(d[k]))
  BY DEF Continues, IsPinned
<1>2. ASSUME NEW i \in 1..N
      PROVE  /\ GroupOf(e, i) = GroupOf(d, i) /\ GroupOf(d, i) \in SUBSET (1..N)
             /\ Matched(e, i) = Matched(d, i)
             /\ (Broken(e, i) <=> Broken(d, i)) /\ (Partial(e, i) <=> Partial(d, i))
  <2>1. \A m \in (i + 1)..N : \A k \in (i + 1)..m : k \in 1..N
    OBVIOUS
  <2>2. GroupOf(e, i) = GroupOf(d, i)
    BY <1>1, <2>1 DEF GroupOf
  <2>3. GroupOf(d, i) \in SUBSET (1..N)
    BY DEF GroupOf
  <2>4. Matched(e, i) = Matched(d, i)
    BY <1>1, <2>2, <2>3 DEF Matched
  <2>5. (IsTail(e, i) <=> IsTail(d, i)) /\ Missing(e, i) = Missing(d, i)
    BY <1>1, <2>2, <2>4 DEF IsTail, Missing
  <2> QED BY <2>2, <2>3, <2>4, <2>5 DEF Broken, Partial
<1>3. Caller(e, j) = Caller(d, j)
  <2>1. \A i \in 1..(j - 1) : i \in 1..N /\ \A k \in (i + 1)..j : k \in 1..N
    OBVIOUS
  <2> DEFINE be == {i \in 1..(j - 1) : /\ e[i].role = "assistant" /\ Ids(e[i]) # {}
                                       /\ \A k \in (i + 1)..j : Continues(e[k])}
             bd == {i \in 1..(j - 1) : /\ d[i].role = "assistant" /\ Ids(d[i]) # {}
                                       /\ \A k \in (i + 1)..j : Continues(d[k])}
  <2>2. ASSUME NEW i \in 1..(j - 1) PROVE i \in be <=> i \in bd
    <3>1. same(i) /\ \A k \in (i + 1)..j : Continues(e[k]) <=> Continues(d[k])
      BY <1>1, <2>1
    <3> QED BY <3>1
  <2>3. be \subseteq 1..(j - 1) /\ bd \subseteq 1..(j - 1)
    OBVIOUS
  <2>4. Caller(e, j) = IF be = {} THEN 0 ELSE CHOOSE i \in be : TRUE
    BY DEF Caller
  <2>5. Caller(d, j) = IF bd = {} THEN 0 ELSE CHOOSE i \in bd : TRUE
    BY DEF Caller
  <2> HIDE DEF be, bd
  <2>6. be = bd
    BY <2>2, <2>3
  <2> QED BY <2>4, <2>5, <2>6
<1>4. Caller(d, j) # 0 => Caller(d, j) \in 1..N
  <2> DEFINE before == {i \in 1..(j - 1) : /\ d[i].role = "assistant" /\ Ids(d[i]) # {}
                                           /\ \A k \in (i + 1)..j : Continues(d[k])}
  <2>1. Caller(d, j) = IF before = {} THEN 0 ELSE CHOOSE i \in before : TRUE
    BY DEF Caller
  <2>2. before \subseteq 1..N
    OBVIOUS
  <2> HIDE DEF before
  <2> QED BY <2>1, <2>2
<1>5. ASSUME NEW i \in 1..N PROVE FirstAnswers(e, i, j) = FirstAnswers(d, i, j)
  <2>1. GroupOf(e, i) = GroupOf(d, i) /\ GroupOf(d, i) \in SUBSET (1..N) /\ Ids(e[i]) = Ids(d[i])
    BY <1>1, <1>2
  <2>2. {e[k].results : k \in {k \in GroupOf(e, i) : k < j}}
        = {d[k].results : k \in {k \in GroupOf(d, i) : k < j}}
    BY <1>1, <2>1
  <2> QED BY <2>1, <2>2 DEF FirstAnswers
<1> DEFINE i == Caller(d, j)
<1>6. /\ (Broken(e, j) <=> Broken(d, j)) /\ (Partial(e, j) <=> Partial(d, j))
      /\ Matched(e, j) = Matched(d, j)
  BY <1>2
<1>7. i # 0 => /\ (Broken(e, i) <=> Broken(d, i))
               /\ FirstAnswers(e, i, j) = FirstAnswers(d, i, j)
  BY <1>2, <1>4, <1>5
<1> HIDE DEF i
<1> QED BY <1>3, <1>6, <1>7 DEF HealedAt, i

\* An answer to a settled chain is healed away when none of its calls has an id,
\* and else it stays as it is.
LEMMA AnswerHealed ==
    ASSUME NEW W, NEW c \in Chains(W), Settled(c),
           NEW ids \in SUBSET (CallIds \cup {NoId}), ids # {}
    PROVE  Heal(Append(c, Assistant({}, ids)))
               = IF ids = {NoId} THEN c ELSE Append(c, Assistant({}, ids))
<1> DEFINE p == Assistant({}, ids)
           q == Assistant({}, ids \ {NoId})
           d == Append(c, p)
           e == Append(c, q)
           N == Len(c)
           S == Lines(W) \cup {p}
<1>1. /\ p.role = "assistant" /\ p.calls = ids /\ p.results = {} /\ HasCalls(p)
      /\ Ids(p) = ids \ {NoId}
      /\ q.role = "assistant" /\ q.calls = ids \ {NoId} /\ q.results = {}
      /\ Ids(q) = ids \ {NoId}
  BY DEF Assistant, Payload, HasCalls, Ids
<1>2. q \in Lines(W)
  <2>1. {} \in SUBSET W /\ {} \subseteq Words /\ ids \ {NoId} \in SUBSET CallIds
    OBVIOUS
  <2> QED BY <2>1, MadeFacts
<1> HIDE DEF p, q
<1>3. N \in Nat /\ c \in Seq(Lines(W)) /\ c \in Seq(S)
  BY ChainFacts
<1>4. e \in Chains(W) /\ Len(e) = N + 1 /\ e[N + 1] = q /\ \A k \in 1..N : e[k] = c[k]
  BY <1>2, AppendGroups
<1>5. d \in Seq(S) /\ Len(d) = N + 1 /\ d[N + 1] = p /\ \A k \in 1..N : d[k] = c[k]
  <2>1. p \in S
    OBVIOUS
  <2> HIDE DEF S
  <2> QED BY <1>3, <2>1, AppendProperties
<1>6. Owned(e) /\ Met(e, q.calls, Len(e))
  <2>1. Owned(c) /\ Met(c, {}, 0) /\ q.role # "result"
    BY <1>1 DEF Settled
  <2>2. Owned(e) /\ Met(e, q.calls, N + 1)
    BY <1>2, <2>1, AppendSettles
  <2> QED BY <1>4, <2>2
<1> HIDE DEF d, e, S
<1>7. ASSUME NEW j \in 1..Len(e) PROVE HealedAt(e, j) = <<e[j]>>
  <2>1. Len(e) <= Len(e)
    BY <1>3, <1>4
  <2>2. \A k \in 1..Len(e) : e[k] = [e[k] EXCEPT !.results = e[k].results]
    <3>1. \A k \in 1..Len(e) : e[k] \in Lines(W)
      BY <1>4, ChainFacts
    <3> QED BY <3>1 DEF Lines
  <2>3. Fuller(e, e)
    BY <2>2 DEF Fuller, Owns
  <2>4. q.calls # {} => Len(e) = Len(e)
    OBVIOUS
  <2> QED BY <1>4, <1>6, <2>1, <2>3, <2>4, HealedLike
<1>8. ASSUME NEW j \in 1..N PROVE HealedAt(d, j) = <<d[j]>>
  <2>1. \A k \in 1..Len(e) : k \in 1..N \/ k = N + 1
    BY <1>3, <1>4
  <2>2. \A k \in 1..Len(e) : /\ d[k].role = e[k].role /\ Ids(d[k]) = Ids(e[k])
                             /\ d[k].results = e[k].results
    BY <1>1, <1>4, <1>5, <2>1
  <2>3. j \in 1..Len(e) /\ d[j] = e[j] /\ Len(d) = Len(e) /\ Len(e) \in Nat
    BY <1>3, <1>4, <1>5
  <2>4. HealedAt(d, j) = HealedAt(e, j)
    BY <2>2, <2>3, HealedSame
  <2> QED BY <1>7, <2>3, <2>4
<1>9. HealedAt(d, N + 1) = IF ids = {NoId} THEN <<>> ELSE <<p>>
  <2>1. GroupOf(d, N + 1) = {}
    BY <1>3, <1>5 DEF GroupOf
  <2>2. Matched(d, N + 1) = {} /\ IsTail(d, N + 1)
    BY <1>3, <1>5, <2>1 DEF Matched, IsTail
  <2>3. ~Broken(d, N + 1) /\ ~Partial(d, N + 1)
    BY <2>2 DEF Broken, Partial
  <2>4. d[N + 1].role = "assistant" /\ HasCalls(d[N + 1]) /\ (Ids(d[N + 1]) = {} <=> ids = {NoId})
    <3>1. ids \ {NoId} = {} <=> ids = {NoId}
      OBVIOUS
    <3> QED BY <1>1, <1>5, <3>1
  <2>5. HealedAt(d, N + 1) = IF Ids(d[N + 1]) = {} THEN <<>> ELSE <<d[N + 1]>>
    BY <2>3, <2>4 DEF HealedAt, IsPinned
  <2> QED BY <1>5, <2>4, <2>5
<1> DEFINE I == 1..(IF ids = {NoId} THEN N ELSE N + 1)
           r == [j \in DOMAIN d |-> HealedAt(d, j)]
<1>10. r = [j \in 1..Len(d) |-> IF j \in I THEN <<d[j]>> ELSE <<>>]
  <2>1. ASSUME NEW j \in 1..Len(d) PROVE HealedAt(d, j) = IF j \in I THEN <<d[j]>> ELSE <<>>
    <3>1. CASE j \in 1..N
      BY <1>3, <1>8, <3>1
    <3>2. CASE j = N + 1
      <4>1. N + 1 \in I <=> ids # {NoId}
        BY <1>3
      <4> HIDE DEF I
      <4> QED BY <1>5, <1>9, <3>2, <4>1
    <3> QED BY <1>3, <1>5, <3>1, <3>2
  <2>2. DOMAIN d = 1..Len(d)
    BY <1>5, LenProperties
  <2> QED BY <2>1, <2>2
<1>11. Heal(d) = FlattenSeq(r)
  BY DEF Heal
<1> HIDE DEF r
<1>12. FlattenSeq(r) = Only(d, I)
  <2> HIDE DEF I
  <2> QED BY <1>5, <1>10, FlattenOnly
<1>13. Only(d, I) = SubSeq(d, 1, IF ids = {NoId} THEN N ELSE N + 1)
  <2> DEFINE n == IF ids = {NoId} THEN N ELSE N + 1
  <2>1. n \in 0..Len(d) /\ I = 1..n
    BY <1>3, <1>5
  <2> HIDE DEF n
  <2> QED BY <1>5, <2>1, OnlyPrefix DEF n
<1>14. SubSeq(d, 1, N + 1) = d
  BY <1>5, SubSeqFull
<1>15. SubSeq(d, 1, N) = c
  <2> DEFINE s == SubSeq(d, 1, N)
  <2>1. s \in Seq(S) /\ Len(s) = N /\ \A k \in 1..N : s[k] = c[k]
    BY <1>3, <1>5
  <2> HIDE DEF s
  <2>2. s = c
    BY <1>3, <2>1, SeqEqual
  <2> QED BY <2>2 DEF s
<1> QED BY <1>11, <1>12, <1>13, <1>14, <1>15 DEF d, p

\* So the answer to a settled chain comes after its turns, if it is there at all.
LEMMA AnswerRepaired ==
    ASSUME NEW W, Words \subseteq W, NEW c \in Chains(W), Settled(c), Fronted(c), HasUser(c),
           NEW ids \in SUBSET (CallIds \cup {NoId}), ids # {}
    PROVE  LET a == Repair(Append(c, Assistant({}, ids)))
           IN  IF ids = {NoId} THEN a \in Chains(W) /\ Settled(a) /\ Fronted(a) /\ HasUser(a)
               ELSE \E y \in Chains(W) : /\ a = Append(y, Assistant({}, ids))
                                         /\ Ready(y, {}) /\ Groups(y) = Groups(c)
<1> DEFINE p == Assistant({}, ids)
           d == Append(c, p)
           S == Lines(W) \cup {p}
           I == {i \in DOMAIN c : ~IsSuspend(c[i])}
           J == {i \in DOMAIN d : ~IsSuspend(d[i])}
           z == Only(c, I)
<1>1. p.role = "assistant" /\ HasCalls(p) /\ ~IsSuspend(p)
  BY DEF Assistant, Payload, HasCalls, IsSuspend
<1>2. Len(c) \in Nat /\ DOMAIN c = 1..Len(c) /\ c \in Seq(Lines(W)) /\ I \in SUBSET (1..Len(c))
      /\ c \in Seq(S)
  <2>1. Len(c) \in Nat /\ DOMAIN c = 1..Len(c) /\ c \in Seq(Lines(W))
    BY ChainFacts
  <2>2. I \in SUBSET (1..Len(c))
    BY <2>1
  <2>3. c \in Seq(S)
    BY <2>1
  <2> HIDE DEF I, S
  <2> QED BY <2>1, <2>2, <2>3
<1>3. z \in Chains(W) /\ Settled(z) /\ Repair(c) = z
  <2>1. Repair(c) = z /\ Settled(Repair(c))
    BY SettledRepaired DEF Those
  <2> QED BY <2>1, RepairFacts
<1>4. Fronted(z) /\ HasUser(z)
  <2>1. \A i \in 1..Len(c) : c[i].role = "user" => i \in I
    BY <1>2 DEF IsSuspend
  <2>2. \E i \in I : c[i].role = "user"
    BY <2>1 DEF HasUser
  <2> HIDE DEF I
  <2> QED BY <1>2, <2>2, OnlyOrder
<1>5. Groups(z) = Groups(c)
  BY <1>3, SettledKeeps
<1>6. d \in Seq(S) /\ Len(d) = Len(c) + 1 /\ d[Len(c) + 1] = p /\ \A k \in 1..Len(c) : d[k] = c[k]
  <2>1. p \in S
    OBVIOUS
  <2> HIDE DEF S, p
  <2> QED BY <1>2, <2>1, AppendProperties
<1>7. Only(d, J) = Append(z, p)
  <2>1. DOMAIN d = 1..Len(d)
    BY <1>6, LenProperties
  <2>2. J \cap (1..Len(c)) = I \cap (1..Len(c)) /\ Len(c) + 1 \in J
    BY <1>1, <1>2, <1>6, <2>1
  <2>3. p \in S
    OBVIOUS
  <2> HIDE DEF I, J, S, p
  <2> QED BY <1>2, <2>2, <2>3, OnlyAppend
<1>8. Repair(d) = Folded(Rejoin, <<>>, Heal(Append(z, p)))
  BY <1>7 DEF Repair, Those
<1> HIDE DEF z, I, J, d
<1>9. Heal(Append(z, p)) = IF ids = {NoId} THEN z ELSE Append(z, p)
  BY <1>3, AnswerHealed
<1>10. Folded(Rejoin, <<>>, z) = z
  BY <1>3, SettledRejoined
<1> HIDE DEF p
<1>11. CASE ids = {NoId}
  BY <1>3, <1>4, <1>8, <1>9, <1>10, <1>11 DEF d, p
<1>12. CASE ids # {NoId}
  <2>1. Repair(d) = Rejoin(z, p)
    BY <1>3, <1>8, <1>9, <1>10, <1>12, RejoinLast
  <2>2. Greets(z, {})
    BY <1>3, <1>4, GreetsFacts
  <2>3. LastRole(z) \in {"user", "assistant", "result"}
    BY <1>3, <1>4, <2>2, FrontedLast
  <2>4. CASE LastRole(z) # "assistant"
    <3>1. Rejoin(z, p) = Append(z, p)
      BY <2>4 DEF Rejoin
    <3>2. Ready(z, {})
      BY <1>3, <1>4, <2>2, <2>3, <2>4 DEF Ready
    <3> QED BY <1>3, <1>5, <1>12, <2>1, <3>1, <3>2 DEF d, p
  <2>5. CASE LastRole(z) = "assistant"
    <3> DEFINE y == Append(z, Bridge)
    <3>1. Rejoin(z, p) = z \o <<Bridge, p>>
      BY <1>1, <2>5 DEF Rejoin
    <3>2. {"bridge"} \in (SUBSET W) \ {{}}
      BY DEF Words
    <3>3. y \in Chains(W) /\ Ready(y, {})
      BY <1>3, <1>4, <3>2, UserReady DEF Bridge
    <3>4. z \o <<Bridge, p>> = Append(y, p)
      <4>1. z \in Seq(Lines(W)) /\ z \in Seq(S)
        BY <1>3, ChainFacts
      <4>2. Bridge \in S /\ p \in S
        BY MadeFacts
      <4> HIDE DEF S
      <4>3. y \in Seq(S)
        BY <4>1, <4>2, AppendProperties
      <4> QED BY <4>1, <4>2, <4>3
    <3>5. Groups(y) = Groups(z)
      <4>1. Bridge \in Lines(W) /\ ~HasCalls(Bridge)
        BY MadeFacts DEF Bridge, User, Payload, HasCalls
      <4> QED BY <1>3, <4>1, GroupsAppend
    <3> HIDE DEF y
    <3> QED BY <1>5, <1>12, <2>1, <3>1, <3>3, <3>4, <3>5 DEF d, p
  <2> QED BY <2>4, <2>5
<1> QED BY <1>11, <1>12

\* The last of a list is put in the place of another.
LEMMA AppendExcept ==
    ASSUME NEW S, NEW s \in Seq(S), NEW p \in S, NEW q \in S
    PROVE  [Append(s, p) EXCEPT ![Len(s) + 1] = q] = Append(s, q)
<1> DEFINE a == Append(s, p)
           b == Append(s, q)
           n == Len(s) + 1
           e == [a EXCEPT ![n] = q]
<1>1. a \in Seq(S) /\ Len(a) = n /\ n \in 1..Len(a) /\ \A k \in 1..Len(s) : a[k] = s[k]
  BY AppendProperties
<1>2. b \in Seq(S) /\ Len(b) = n /\ b[n] = q /\ \A k \in 1..Len(s) : b[k] = s[k]
  BY AppendProperties
<1> HIDE DEF a, b
<1>3. e \in Seq(S) /\ Len(e) = Len(a) /\ \A k \in 1..Len(a) : e[k] = IF k = n THEN q ELSE a[k]
  BY <1>1, ExceptSeq
<1> HIDE DEF e
<1>4. \A k \in 1..Len(e) : e[k] = b[k]
  <2>1. Len(s) \in Nat
    OBVIOUS
  <2>2. \A k \in 1..n : k = n \/ k \in 1..Len(s)
    BY <2>1
  <2>3. \A k \in 1..Len(s) : k # n
    BY <2>1
  <2> HIDE DEF n
  <2> QED BY <1>1, <1>2, <1>3, <2>2, <2>3
<1>5. e = b
  BY <1>1, <1>2, <1>3, <1>4, SeqEqual
<1> QED BY <1>5 DEF e, a, b

\* What comes first of two lists.
LEMMA PrefixSame ==
    ASSUME NEW S, NEW s \in Seq(S), NEW t \in Seq(S), NEW m \in 0..Len(s), m <= Len(t),
           \A k \in 1..m : s[k] = t[k]
    PROVE  SubSeq(s, 1, m) = SubSeq(t, 1, m)
<1>1. /\ m \in Nat /\ 1 \in Nat \ {0} /\ m \in 0..Len(t) /\ Len(s) \in Nat /\ Len(t) \in Nat
      /\ 1 \in Int /\ m \in Int
  OBVIOUS
<1>2. (\A i \in 1..m : s[i] \in S) /\ \A i \in 1..m : t[i] \in S
  <2>1. \A i \in 1..m : i \in 1..Len(s) /\ i \in 1..Len(t)
    BY <1>1
  <2> QED BY <2>1
<1> DEFINE x == SubSeq(s, 1, m)
           y == SubSeq(t, 1, m)
<1>3. x \in Seq(S) /\ Len(x) = m /\ \A i \in 1..m : x[i] = s[i]
  <2>1. x \in Seq(S)
    BY <1>1, <1>2, SubSeqProperties
  <2>2. Len(x) = IF 1 <= m THEN m - 1 + 1 ELSE 0
    BY <1>1, <1>2, SubSeqProperties
  <2>3. \A i \in 1..(m - 1 + 1) : x[i] = s[1 + i - 1]
    BY <1>1, <1>2, SubSeqProperties
  <2> HIDE DEF x
  <2> QED BY <1>1, <2>1, <2>2, <2>3
<1>4. y \in Seq(S) /\ Len(y) = m /\ \A i \in 1..m : y[i] = t[i]
  <2>1. y \in Seq(S)
    BY <1>1, <1>2, SubSeqProperties
  <2>2. Len(y) = IF 1 <= m THEN m - 1 + 1 ELSE 0
    BY <1>1, <1>2, SubSeqProperties
  <2>3. \A i \in 1..(m - 1 + 1) : y[i] = t[1 + i - 1]
    BY <1>1, <1>2, SubSeqProperties
  <2> HIDE DEF y
  <2> QED BY <1>1, <2>1, <2>2, <2>3
<1> HIDE DEF x, y
<1>5. \A i \in 1..Len(x) : x[i] = y[i]
  BY <1>3, <1>4
<1>6. x = y
  BY <1>3, <1>4, <1>5, SeqEqual
<1> QED BY <1>6 DEF x, y

\* The turns at the start of a chain come first in it.
LEMMA GroupsPrefix ==
    ASSUME NEW W, NEW c \in Chains(W), NEW d \in Chains(W), NEW m \in 0..Len(c), m <= Len(d),
           \A k \in 1..m : d[k] = c[k]
    PROVE  IsPrefix(Groups(SubSeq(c, 1, m)), Groups(d))
<1>1. /\ c \in Seq(Lines(W)) /\ d \in Seq(Lines(W)) /\ Len(c) \in Nat /\ Len(d) \in Nat
      /\ m \in 0..Len(d) /\ m \in Nat
  BY ChainFacts
<1>2. SubSeq(d, 1, m) = SubSeq(c, 1, m)
  BY <1>1, PrefixSame
<1> DEFINE x == SubSeq(d, 1, m)
           y == SubSeq(d, m + 1, Len(d))
<1>3. 1 \in Nat \ {0} /\ m + 1 \in Nat \ {0} /\ Len(d) \in 0..Len(d)
  BY <1>1
<1>4. x \in Chains(W) /\ y \in Chains(W)
  BY <1>1, <1>3, PartFacts
<1>5. d = x \o y
  <2>1. /\ Len(x) = m /\ Len(y) = Len(d) - m
        /\ \A k \in 1..m : x[k] = d[k]
        /\ \A k \in 1..(Len(d) - m) : y[k] = d[m + k]
    BY <1>1
  <2> HIDE DEF x, y
  <2>2. x \o y \in Seq(Lines(W)) /\ Len(x \o y) = Len(d)
    <3>1. x \o y \in Chains(W)
      BY <1>4, PartFacts
    <3>2. Len(x \o y) = Len(x) + Len(y)
      BY <1>4, JoinFacts
    <3> QED BY <1>1, <2>1, <3>1, <3>2 DEF Chains
  <2>3. ASSUME NEW k \in 1..Len(d) PROVE d[k] = (x \o y)[k]
    <3>1. (x \o y)[k] = IF k <= Len(x) THEN x[k] ELSE y[k - Len(x)]
      BY <1>1, <1>4, <2>1, JoinFacts
    <3>2. CASE k <= m
      BY <1>1, <2>1, <3>1, <3>2
    <3>3. CASE k > m
      <4>1. k - m \in 1..(Len(d) - m) /\ m + (k - m) = k
        BY <1>1, <3>3
      <4>2. y[k - m] = d[m + (k - m)]
        BY <2>1, <4>1
      <4> QED BY <1>1, <2>1, <3>1, <3>3, <4>1, <4>2
    <3>4. k <= m \/ k > m
      BY <1>1
    <3> QED BY <3>2, <3>3, <3>4
  <2> QED BY <1>1, <2>2, <2>3, SeqEqual
<1> HIDE DEF x, y
<1>6. Groups(d) = Groups(x) \o Groups(y)
  BY <1>4, <1>5, GroupsConcat
<1>7. Groups(x) \in Seq(Closed) /\ Groups(y) \in Seq(Closed)
  <2>1. Tools \in Lines(W)
    BY MadeFacts
  <2> QED BY <1>4, <2>1, GroupsAppend
<1>8. IsPrefix(Groups(x), Groups(d))
  BY <1>6, <1>7, PrefixFacts
<1> QED BY <1>2, <1>8 DEF x

-----------------------------------------------------------------------------
(* What a chain starts with                                                *)

\* c starts with u.
Starts(u, c) == Len(u) <= Len(c) /\ \A k \in 1..Len(u) : c[k] = u[k]

\* A chain starts with itself, with nothing, and with what it is made longer from.
LEMMA StartsFacts ==
    ASSUME NEW W, NEW c \in Chains(W)
    PROVE  /\ Starts(c, c) /\ Starts(<<>>, c)
           /\ \A p \in Lines(W) : Starts(c, Append(c, p))
           /\ \A u \in Chains(W) : \A d : Starts(u, c) /\ Starts(c, d) => Starts(u, d)
<1>1. Len(c) \in Nat /\ Len(<<>>) = 0
  BY ChainFacts
<1>2. Starts(c, c) /\ Starts(<<>>, c)
  BY <1>1 DEF Starts
<1>3. ASSUME NEW p \in Lines(W) PROVE Starts(c, Append(c, p))
  BY <1>1, AppendGroups DEF Starts
<1>4. ASSUME NEW u \in Chains(W), NEW d, Starts(u, c), Starts(c, d) PROVE Starts(u, d)
  <2>1. Len(u) \in Nat /\ Len(u) <= Len(c) /\ Len(c) <= Len(d)
    BY <1>4, ChainFacts DEF Starts
  <2>2. ASSUME Len(d) \in Nat PROVE Starts(u, d)
    BY <1>1, <1>4, <2>1, <2>2 DEF Starts
  <2>3. \A k \in 1..Len(u) : k \in 1..Len(c) /\ d[k] = u[k]
    BY <1>1, <1>4, <2>1 DEF Starts
  <2> QED BY <1>1, <2>1, <2>3 DEF Starts
<1> QED BY <1>2, <1>3, <1>4

\* What is chosen at the start of a list is what the choice starts with.
LEMMA OnlyStarts ==
    ASSUME NEW S, NEW u \in Seq(S), NEW c \in Seq(S), Starts(u, c), NEW I, NEW J,
           J \cap (1..Len(u)) = I \cap (1..Len(u))
    PROVE  Starts(Only(u, J), Only(c, I))
<1> DEFINE M == Len(u)
           N == Len(c)
<1>1. M \in Nat /\ N \in Nat /\ M <= N /\ \A k \in 1..M : c[k] = u[k]
  BY LenProperties DEF Starts
<1>2. PICK t \in [0..N -> Seq(S)] : Taking(t, c, I) /\ Only(c, I) = t[N]
  BY OnlyUnfolds
<1>3. PICK v \in [0..M -> Seq(S)] : Taking(v, u, J) /\ Only(u, J) = v[M]
  BY OnlyUnfolds
<1> DEFINE T == {k \in 0..M : t[k] = v[k]}
<1>4. 0 \in T
  BY <1>1, <1>2, <1>3 DEF Taking
<1>5. ASSUME NEW k \in 0..(M - 1), k \in T PROVE k + 1 \in T
  <2>1. k + 1 \in 0..N /\ k + 1 # 0 /\ (k + 1) - 1 = k /\ k + 1 \in 1..M /\ k + 1 \in 0..M
    BY <1>1
  <2>2. t[k + 1] = IF k + 1 \in I THEN Append(t[k], c[k + 1]) ELSE t[k]
    BY <1>2, <2>1 DEF Taking
  <2>3. v[k + 1] = IF k + 1 \in J THEN Append(v[k], u[k + 1]) ELSE v[k]
    BY <1>3, <2>1 DEF Taking
  <2>4. k + 1 \in I <=> k + 1 \in J
    BY <2>1
  <2>5. t[k] = v[k] /\ c[k + 1] = u[k + 1]
    BY <1>1, <1>5, <2>1
  <2> QED BY <2>1, <2>2, <2>3, <2>4, <2>5
<1>6. 0..M \subseteq T
  <2> HIDE DEF T, M, N
  <2> QED BY <1>1, <1>4, <1>5, SetInduction
<1>7. t[M] = v[M]
  BY <1>1, <1>6
<1> DEFINE R == {k \in 0..(N - M) : Starts(v[M], t[M + k])}
<1>8. 0 \in R
  <2>1. M + 0 = M /\ 0 \in 0..(N - M) /\ v[M] \in Seq(S)
    BY <1>1, <1>3
  <2>2. Len(v[M]) \in Nat
    BY <2>1, LenProperties
  <2>3. Starts(v[M], v[M])
    BY <2>2 DEF Starts
  <2> QED BY <1>7, <2>1, <2>3
<1>9. ASSUME NEW k \in 0..((N - M) - 1), k \in R PROVE k + 1 \in R
  <2>1. /\ M + (k + 1) \in 0..N /\ M + (k + 1) # 0 /\ (M + (k + 1)) - 1 = M + k /\ k + 1 \in 0..(N - M)
        /\ M + (k + 1) \in 1..N /\ M + k \in 0..N
    BY <1>1
  <2>2. t[M + (k + 1)] = IF M + (k + 1) \in I THEN Append(t[M + k], c[M + (k + 1)]) ELSE t[M + k]
    BY <1>2, <2>1 DEF Taking
  <2> DEFINE a == t[M + k]
             e == c[M + (k + 1)]
  <2>3. a \in Seq(S) /\ e \in S /\ v[M] \in Seq(S) /\ Starts(v[M], a)
    BY <1>1, <1>2, <1>3, <1>9, <2>1
  <2> HIDE DEF a, e
  <2>4. Starts(v[M], Append(a, e))
    <3>1. Len(v[M]) \in Nat /\ Len(a) \in Nat /\ Len(Append(a, e)) = Len(a) + 1
          /\ \A j \in 1..Len(a) : Append(a, e)[j] = a[j]
      BY <2>3, LenProperties, AppendProperties
    <3>2. Len(v[M]) <= Len(a) /\ \A j \in 1..Len(v[M]) : j \in 1..Len(a) /\ a[j] = v[M][j]
      BY <2>3, <3>1 DEF Starts
    <3> QED BY <3>1, <3>2 DEF Starts
  <2> QED BY <2>1, <2>2, <2>3, <2>4 DEF a, e
<1>10. 0..(N - M) \subseteq R
  <2>1. N - M \in Nat
    BY <1>1
  <2> HIDE DEF R, M, N
  <2> QED BY <1>8, <1>9, <2>1, SetInduction
<1>11. N - M \in R /\ M + (N - M) = N
  <2>1. N - M \in 0..(N - M) /\ M + (N - M) = N
    BY <1>1
  <2> HIDE DEF R, M, N
  <2> QED BY <1>10, <2>1
<1> QED BY <1>2, <1>3, <1>11

\* The turns of what a chain starts with come first.
LEMMA GroupsStart ==
    ASSUME NEW W, NEW u \in Chains(W), NEW c \in Chains(W), Starts(u, c)
    PROVE  IsPrefix(Groups(u), Groups(c))
<1>1. Len(u) \in 0..Len(u) /\ Len(u) <= Len(c) /\ \A k \in 1..Len(u) : c[k] = u[k]
  BY ChainFacts DEF Starts
<1>2. SubSeq(u, 1, Len(u)) = u
  BY ChainFacts, SubSeqFull
<1> QED BY <1>1, <1>2, GroupsPrefix

\* Healing leaves what a chain starts with as it is, when all calls of that have
\* their results and all results their calls there: what comes after it belongs to
\* other turns.
LEMMA HealStarts ==
    ASSUME NEW W, NEW u \in Chains(W), NEW c \in Chains(W), Starts(u, c),
           Owned(u), Met(u, {}, 0)
    PROVE  Starts(u, Heal(c))
<1>1. Len(u) \in Nat /\ Len(c) \in Nat /\ Len(u) <= Len(c) /\ \A k \in 1..Len(u) : c[k] = u[k]
  BY ChainFacts DEF Starts
<1>2. PICK x \in Chains(W), I \in SUBSET (1..Len(c)) :
         /\ Heal(c) = Only(x, I) /\ Len(x) = Len(c)
         /\ \A j \in 1..Len(c) : HealedAt(c, j) = IF j \in I THEN <<x[j]>> ELSE <<>>
  BY HealShape
<1>3. ASSUME NEW j \in 1..Len(u) PROVE HealedAt(c, j) = <<u[j]>>
  <2>1. Met(u, {}, Len(u))
    BY DEF Met
  <2>2. \A k \in 1..Len(u) : u[k] = [c[k] EXCEPT !.results = u[k].results]
    <3>1. \A k \in 1..Len(u) : u[k] \in Lines(W)
      BY ChainFacts
    <3>2. \A p \in Lines(W) : p = [p EXCEPT !.results = p.results]
      BY DEF Lines
    <3> QED BY <1>1, <3>1, <3>2
  <2>3. \A i, k \in 1..Len(u) : Owns(u, i, k) => c[k].results \cap u[i].calls = u[k].results
    BY <1>1 DEF Owns
  <2>4. Fuller(c, u)
    BY <1>1, <2>2, <2>3 DEF Fuller
  <2>5. ({} # {}) => Len(c) = Len(u)
    OBVIOUS
  <2> QED BY <1>1, <2>1, <2>4, <2>5, HealedLike
<1>4. ASSUME NEW j \in 1..Len(u) PROVE j \in I /\ x[j] = u[j]
  <2>1. j \in 1..Len(c)
    BY <1>1
  <2>2. <<u[j]>> = IF j \in I THEN <<x[j]>> ELSE <<>>
    BY <1>2, <1>3, <2>1
  <2>3. \A y : <<y>> # <<>> /\ <<y>>[1] = y
    OBVIOUS
  <2> QED BY <2>2, <2>3
<1>5. Starts(u, x)
  BY <1>1, <1>2, <1>4 DEF Starts
<1>6. Only(u, 1..Len(u)) = u
  <2>1. u \in Seq(Lines(W)) /\ Len(u) \in 0..Len(u)
    BY <1>1, ChainFacts
  <2>2. Only(u, 1..Len(u)) = SubSeq(u, 1, Len(u))
    BY <2>1, OnlyPrefix
  <2> QED BY <2>1, <2>2, SubSeqFull
<1>7. (1..Len(u)) \cap (1..Len(u)) = I \cap (1..Len(u))
  BY <1>4
<1>8. u \in Seq(Lines(W)) /\ x \in Seq(Lines(W))
  BY ChainFacts
<1>9. Starts(Only(u, 1..Len(u)), Only(x, I))
  BY <1>5, <1>7, <1>8, OnlyStarts
<1> QED BY <1>2, <1>6, <1>9

-----------------------------------------------------------------------------
(* What the sanitizers keep                                                *)

\* Every user of c says as much in d, so all that is said is.
LEMMA SaidMoved ==
    ASSUME NEW W, NEW c \in Chains(W), NEW d \in Chains(W),
           \A k \in 1..Len(c) : c[k].role = "user" =>
              \E i \in 1..Len(d) : d[i].role = "user" /\ c[k].text \subseteq d[i].text
    PROVE  Said(c) \subseteq Said(d)
<1>1. \A x : x \in Said(c) => \E k \in 1..Len(c) : c[k].role = "user" /\ x \in c[k].text
  BY SaidIn
<1>2. \A x : (\E i \in 1..Len(d) : d[i].role = "user" /\ x \in d[i].text) => x \in Said(d)
  BY SaidIn
<1> QED BY <1>1, <1>2

\* Nothing is called.
Uncalled(c) == \A k \in 1..Len(c) : c[k].calls = {}

\* d is c with p, in some form, after it.
Extends(c, d, p) ==
    /\ Len(c) <= Len(d)
    /\ \A k \in 1..Len(c) : d[k].calls = c[k].calls /\ (c[k].role = "user" => d[k] = c[k])
    /\ \A k \in (Len(c) + 1)..Len(d) : d[k].calls \subseteq p.calls
    /\ p.role = "user" => \E k \in 1..Len(d) : d[k] = p

\* It says and calls what both do.
LEMMA ExtendsFacts ==
    ASSUME NEW W, NEW c \in Chains(W), NEW p \in Lines(W), NEW d \in Chains(W), Extends(c, d, p)
    PROVE  /\ Said(c) \subseteq Said(d) /\ Said(Append(c, p)) \subseteq Said(d)
           /\ Uncalled(c) /\ p.calls = {} => Uncalled(d)
<1>1. Len(c) \in Nat /\ Len(d) \in Nat /\ Len(c) <= Len(d)
  BY ChainFacts DEF Extends
<1>2. Said(c) \subseteq Said(d)
  <2>1. ASSUME NEW k \in 1..Len(c), c[k].role = "user"
        PROVE  \E i \in 1..Len(d) : d[i].role = "user" /\ c[k].text \subseteq d[i].text
    <3>1. k \in 1..Len(d) /\ d[k] = c[k]
      BY <1>1, <2>1 DEF Extends
    <3> QED BY <2>1, <3>1
  <2> QED BY <2>1, SaidMoved
<1>3. p.role = "user" => p.text \subseteq Said(d)
  <2> SUFFICES ASSUME p.role = "user" PROVE p.text \subseteq Said(d)
    OBVIOUS
  <2>1. PICK k \in 1..Len(d) : d[k] = p
    BY DEF Extends
  <2> QED BY <2>1, SaidIn
<1>4. Said(Append(c, p)) \subseteq Said(d)
  BY <1>2, <1>3, SaidAppend
<1>5. ASSUME Uncalled(c), p.calls = {} PROVE Uncalled(d)
  <2>1. ASSUME NEW k \in 1..Len(d) PROVE d[k].calls = {}
    <3>1. CASE k \in 1..Len(c)
      BY <1>5, <3>1 DEF Extends, Uncalled
    <3>2. CASE k \notin 1..Len(c)
      <4>1. k \in (Len(c) + 1)..Len(d)
        BY <1>1, <3>2
      <4>2. d[k].calls \subseteq p.calls
        BY <4>1 DEF Extends
      <4> QED BY <1>5, <4>2
    <3> QED BY <3>1, <3>2
  <2> QED BY <2>1 DEF Uncalled
<1> QED BY <1>2, <1>4, <1>5

\* A text that is merged changes nothing else.
LEMMA MergeAt ==
    ASSUME NEW W, NEW c \in Chains(W), NEW i \in 1..Len(c), NEW p \in Lines(W),
           c[i].role = "assistant", p.role = "assistant"
    PROVE  LET d == MergeText(c, i, p)
           IN  /\ d \in Chains(W) /\ Len(d) = Len(c)
               /\ \A k \in 1..Len(c) : k # i => d[k] = c[k]
               /\ \A k \in 1..Len(c) : d[k].role = c[k].role /\ d[k].calls = c[k].calls
                                       /\ d[k].results = c[k].results
<1> DEFINE line == [c[i] EXCEPT !.text = @ \cup p.text]
           d == MergeText(c, i, p)
<1>1. DOMAIN c = 1..Len(c) /\ c \in Seq(Lines(W)) /\ c[i] \in Lines(W) /\ Len(c) \in Nat
  BY ChainFacts
<1>2. d = [c EXCEPT ![i] = line]
  BY <1>1 DEF MergeText
<1>3. line.role = c[i].role /\ line.calls = c[i].calls /\ line.results = c[i].results
  BY <1>1 DEF Lines
<1>4. d \in Chains(W)
  BY MergeFacts
<1> HIDE DEF d, line
<1>5. DOMAIN d = DOMAIN c /\ \A k \in 1..Len(c) : d[k] = IF k = i THEN line ELSE c[k]
  BY <1>1, <1>2
<1>6. DOMAIN d = 1..Len(d) /\ Len(d) \in Nat
  BY <1>4, ChainFacts
<1>7. Len(d) = Len(c)
  BY <1>1, <1>5, <1>6
<1> QED BY <1>3, <1>4, <1>5, <1>7 DEF d

\* The ways a payload is added.
LEMMA ExtendsMade ==
    ASSUME NEW W, Words \subseteq W, NEW c \in Chains(W), NEW p \in Lines(W)
    PROVE  /\ Append(c, p) \in Chains(W) /\ Extends(c, Append(c, p), p)
           /\ p.role # "user" => Extends(c, c, p)
           /\ \A ids \in SUBSET CallIds : p.role # "user" =>
                 Append(c, Result(ids)) \in Chains(W) /\ Extends(c, Append(c, Result(ids)), p)
           /\ Append(Append(c, Bridge), p) \in Chains(W)
           /\ Extends(c, Append(Append(c, Bridge), p), p)
           /\ \A i \in 1..Len(c) : c[i].role = "assistant" /\ p.role = "assistant" =>
                 MergeText(c, i, p) \in Chains(W) /\ Extends(c, MergeText(c, i, p), p)
<1>1. Len(c) \in Nat /\ Bridge \in Lines(W) /\ \A ids \in SUBSET CallIds : Result(ids) \in Lines(W)
  BY ChainFacts, MadeFacts
<1>2. Bridge.calls = {} /\ \A ids : Result(ids).calls = {}
  BY DEF Bridge, User, Result, Payload
<1>3. ASSUME NEW x \in Lines(W), x.calls \subseteq p.calls, p.role = "user" => x = p
      PROVE  Append(c, x) \in Chains(W) /\ Extends(c, Append(c, x), p)
  <2> DEFINE d == Append(c, x)
  <2>1. d \in Chains(W) /\ Len(d) = Len(c) + 1 /\ d[Len(c) + 1] = x /\ \A k \in 1..Len(c) : d[k] = c[k]
    BY <1>3, AppendGroups
  <2> HIDE DEF d
  <2>2. \A k \in (Len(c) + 1)..Len(d) : k = Len(c) + 1
    BY <1>1, <2>1
  <2>3. Len(c) + 1 \in 1..Len(d) /\ Len(c) <= Len(d)
    BY <1>1, <2>1
  <2>4. Extends(c, d, p)
    BY <1>3, <2>1, <2>2, <2>3 DEF Extends
  <2> QED BY <2>1, <2>4 DEF d
<1>4. Append(c, p) \in Chains(W) /\ Extends(c, Append(c, p), p)
  BY <1>3
<1>5. ASSUME p.role # "user" PROVE Extends(c, c, p)
  <2>1. Len(c) <= Len(c) /\ \A k \in (Len(c) + 1)..Len(c) : FALSE
    BY <1>1
  <2> QED BY <1>5, <2>1 DEF Extends
<1>6. ASSUME NEW ids \in SUBSET CallIds, p.role # "user"
      PROVE  Append(c, Result(ids)) \in Chains(W) /\ Extends(c, Append(c, Result(ids)), p)
  <2> DEFINE r == Result(ids)
  <2>1. r \in Lines(W) /\ r.calls \subseteq p.calls
    BY <1>1, <1>2
  <2> HIDE DEF r
  <2>2. Append(c, r) \in Chains(W) /\ Extends(c, Append(c, r), p)
    BY <1>3, <1>6, <2>1
  <2> QED BY <2>2 DEF r
<1>7. Append(Append(c, Bridge), p) \in Chains(W) /\ Extends(c, Append(Append(c, Bridge), p), p)
  <2> DEFINE e == Append(c, Bridge)
             d == Append(e, p)
  <2> HIDE DEF Bridge
  <2>1. e \in Chains(W) /\ Len(e) = Len(c) + 1 /\ e[Len(c) + 1] = Bridge /\ \A k \in 1..Len(c) : e[k] = c[k]
    BY <1>1, AppendGroups
  <2> HIDE DEF e
  <2>2. d \in Chains(W) /\ Len(d) = Len(e) + 1 /\ d[Len(e) + 1] = p /\ \A k \in 1..Len(e) : d[k] = e[k]
    BY <2>1, AppendGroups
  <2> HIDE DEF d
  <2>3. Len(d) = Len(c) + 2 /\ d[Len(c) + 2] = p /\ Len(c) + 1 \in 1..Len(e)
    BY <1>1, <2>1, <2>2
  <2>4. \A k \in 1..Len(c) : k \in 1..Len(e) /\ d[k] = c[k]
    BY <1>1, <2>1, <2>2
  <2>5. d[Len(c) + 1].calls = {}
    BY <1>2, <2>1, <2>2, <2>3
  <2>6. \A k \in (Len(c) + 1)..Len(d) : k = Len(c) + 1 \/ k = Len(c) + 2
    BY <1>1, <2>3
  <2>7. Len(c) + 2 \in 1..Len(d) /\ Len(c) <= Len(d)
    BY <1>1, <2>3
  <2>8. \A k \in (Len(c) + 1)..Len(d) : d[k].calls \subseteq p.calls
    BY <2>3, <2>5, <2>6
  <2>9. Extends(c, d, p)
    BY <2>3, <2>4, <2>7, <2>8 DEF Extends
  <2> QED BY <2>2, <2>9 DEF d, e
<1>8. ASSUME NEW i \in 1..Len(c), c[i].role = "assistant", p.role = "assistant"
      PROVE  MergeText(c, i, p) \in Chains(W) /\ Extends(c, MergeText(c, i, p), p)
  <2> DEFINE d == MergeText(c, i, p)
  <2>1. /\ d \in Chains(W) /\ Len(d) = Len(c)
        /\ \A k \in 1..Len(c) : k # i => d[k] = c[k]
        /\ \A k \in 1..Len(c) : d[k].calls = c[k].calls
    BY <1>8, MergeAt
  <2> HIDE DEF d
  <2>2. \A k \in (Len(c) + 1)..Len(d) : FALSE
    BY <1>1, <2>1
  <2>3. Extends(c, d, p)
    BY <1>1, <1>8, <2>1, <2>2 DEF Extends
  <2> QED BY <2>1, <2>3 DEF d
<1> QED BY <1>4, <1>5, <1>6, <1>7, <1>8

\* The pass has all of u, and no call of it is open.
Holds(a, u) ==
    /\ Len(u) <= Len(a.out)
    /\ \A k \in 1..Len(u) : a.out[k].calls = u[k].calls
    /\ a.pending # {} => a.at > Len(u)

\* Dropping the open calls takes nothing else.
LEMMA DropHolds ==
    ASSUME NEW W, NEW a \in Passes(W), Sound(a)
    PROVE  LET b == DropPending(a)
           IN  /\ Said(a.out) \subseteq Said(b.out)
               /\ Uncalled(a.out) => Uncalled(b.out)
               /\ \A u \in Chains(W) : Holds(a, u) => Holds(b, u)
<1> DEFINE left == [a.out[a.at] EXCEPT !.calls = @ \ a.pending]
           b == DropPending(a)
           c == a.out
           x == a.at
<1>1. a.out \in Chains(W) /\ Len(a.out) \in Nat
  BY ChainFacts DEF Passes
<1>2. CASE a.pending = {}
  BY <1>2 DEF DropPending
<1>3. CASE a.pending # {}
  <2>1. x \in 1..Len(c) /\ c[x].role = "assistant" /\ c[x] \in Lines(W)
    BY <1>1, <1>3, ChainFacts DEF Passes, Sound
  <2>2. left \in Lines(W) /\ left.role = "assistant" /\ left.calls \subseteq c[x].calls
    <3>1. left \in Lines(W)
      BY <2>1, ChangedFacts
    <3> QED BY <2>1, <3>1 DEF Lines
  <2>3. b.out \in {RemoveAt(c, x), ReplaceAt(c, x, left)} /\ b.pending = {}
    BY <1>3 DEF DropPending
  <2> HIDE DEF left, b, c, x
  <2>4. c \in Chains(W) /\ Len(c) \in Nat
    BY <1>1 DEF c
  <2>5. ASSUME NEW u \in Chains(W), Holds(a, u)
        PROVE  Len(u) \in Nat /\ Len(u) < x /\ Len(u) <= Len(c) /\ \A k \in 1..Len(u) : c[k].calls = u[k].calls
    BY <1>3, <2>5, ChainFacts DEF Holds, c, x
  <2>6. CASE b.out = RemoveAt(c, x)
    <3> DEFINE d == RemoveAt(c, x)
    <3>1. /\ d \in Chains(W) /\ Len(d) = Len(c) - 1
          /\ \A k \in 1..(x - 1) : d[k] = c[k]
          /\ \A k \in x..(Len(c) - 1) : d[k] = c[k + 1]
      BY <2>1, <2>4, GapFacts
    <3> HIDE DEF d
    <3>2. ASSUME NEW k \in 1..Len(c), k # x PROVE \E i \in 1..Len(d) : d[i] = c[k]
      <4>1. CASE k < x
        <5>1. k \in 1..Len(d) /\ k \in 1..(x - 1)
          BY <2>1, <2>4, <3>1, <4>1
        <5> QED BY <3>1, <5>1
      <4>2. CASE x < k
        <5>1. k - 1 \in 1..Len(d) /\ k - 1 \in x..(Len(c) - 1) /\ (k - 1) + 1 = k
          BY <2>1, <2>4, <3>1, <4>2
        <5> QED BY <3>1, <5>1
      <4> QED BY <2>1, <3>2, <4>1, <4>2
    <3>3. Said(c) \subseteq Said(d)
      <4>1. ASSUME NEW k \in 1..Len(c), c[k].role = "user"
            PROVE  \E i \in 1..Len(d) : d[i].role = "user" /\ c[k].text \subseteq d[i].text
        <5>1. PICK i \in 1..Len(d) : d[i] = c[k]
          BY <2>1, <3>2, <4>1
        <5> QED BY <4>1, <5>1
      <4> QED BY <2>4, <3>1, <4>1, SaidMoved
    <3>4. ASSUME Uncalled(c) PROVE Uncalled(d)
      <4>1. ASSUME NEW k \in 1..Len(d) PROVE d[k].calls = {}
        <5>1. CASE k < x
          <6>1. k \in 1..(x - 1) /\ k \in 1..Len(c)
            BY <2>1, <2>4, <5>1
          <6> QED BY <3>1, <3>4, <6>1 DEF Uncalled
        <5>2. CASE ~(k < x)
          <6>1. k \in x..(Len(c) - 1) /\ k + 1 \in 1..Len(c)
            BY <2>1, <2>4, <3>1, <5>2
          <6> QED BY <3>1, <3>4, <6>1 DEF Uncalled
        <5> QED BY <5>1, <5>2
      <4> QED BY <4>1 DEF Uncalled
    <3>5. ASSUME NEW u \in Chains(W), Holds(a, u) PROVE Holds(b, u)
      <4>1. Len(u) \in Nat /\ Len(u) < x /\ Len(u) <= Len(c) /\ \A k \in 1..Len(u) : c[k].calls = u[k].calls
        BY <2>5, <3>5
      <4>2. Len(u) <= Len(d) /\ \A k \in 1..Len(u) : k \in 1..(x - 1)
        BY <2>1, <2>4, <3>1, <4>1
      <4>3. \A k \in 1..Len(u) : d[k].calls = u[k].calls
        BY <3>1, <4>1, <4>2
      <4> QED BY <2>3, <2>6, <4>2, <4>3 DEF Holds, d
    <3> QED BY <2>6, <3>3, <3>4, <3>5 DEF d, c, b
  <2>7. CASE b.out = ReplaceAt(c, x, left)
    <3> DEFINE d == ReplaceAt(c, x, left)
    <3>1. d = [c EXCEPT ![x] = left] /\ c \in Seq(Lines(W)) /\ DOMAIN c = 1..Len(c)
      BY <2>4, ChainFacts DEF ReplaceAt
    <3> HIDE DEF d
    <3>2. d \in Chains(W)
      <4>1. [c EXCEPT ![x] = left] \in Chains(W)
        BY <2>1, <2>2, <2>4, ChainFacts
      <4> QED BY <3>1, <4>1
    <3>3. DOMAIN d = 1..Len(d) /\ Len(d) \in Nat
      BY <3>2, ChainFacts
    <3>4. DOMAIN d = DOMAIN c /\ \A k \in 1..Len(c) : d[k] = IF k = x THEN left ELSE c[k]
      BY <3>1
    <3>5. Len(d) = Len(c)
      BY <2>4, <3>1, <3>3, <3>4
    <3>6. Said(c) \subseteq Said(d)
      <4>1. ASSUME NEW k \in 1..Len(c), c[k].role = "user"
            PROVE  \E i \in 1..Len(d) : d[i].role = "user" /\ c[k].text \subseteq d[i].text
        BY <2>1, <3>4, <3>5, <4>1
      <4> QED BY <2>4, <3>2, <4>1, SaidMoved
    <3>7. Uncalled(c) => Uncalled(d)
      BY <2>1, <2>2, <3>4, <3>5 DEF Uncalled
    <3>8. ASSUME NEW u \in Chains(W), Holds(a, u) PROVE Holds(b, u)
      <4>1. Len(u) \in Nat /\ Len(u) < x /\ Len(u) <= Len(c) /\ \A k \in 1..Len(u) : c[k].calls = u[k].calls
        BY <2>5, <3>8
      <4>2. \A k \in 1..Len(u) : k \in 1..Len(c) /\ k # x
        BY <2>1, <2>4, <4>1
      <4>3. \A k \in 1..Len(u) : d[k].calls = u[k].calls
        BY <3>4, <4>1, <4>2
      <4> QED BY <2>3, <2>7, <3>5, <4>1, <4>3 DEF Holds, d
    <3> QED BY <2>7, <3>6, <3>7, <3>8 DEF d, c, b
  <2> QED BY <2>3, <2>6, <2>7
<1> QED BY <1>2, <1>3

\* Each step of the pass adds one payload, in some form.
LEMMA StepHolds ==
    ASSUME NEW W, Words \subseteq W, NEW a \in Passes(W), Sound(a), NEW p \in Lines(W)
    PROVE  LET b == SanitizeStep(a, p)
           IN  /\ \A x \in Chains(W) : Said(x) \subseteq Said(a.out) =>
                     Said(Append(x, p)) \subseteq Said(b.out)
               /\ Uncalled(a.out) /\ p.calls = {} => Uncalled(b.out)
               /\ \A u \in Chains(W) : Holds(a, u) => Holds(b, u)
<1> DEFINE b == SanitizeStep(a, p)
           e == DropPending(a)
<1>1. /\ e \in Passes(W) /\ e.pending = {} /\ b \in Passes(W)
      /\ Said(a.out) \subseteq Said(e.out)
      /\ Uncalled(a.out) => Uncalled(e.out)
      /\ \A u \in Chains(W) : Holds(a, u) => Holds(e, u)
  BY DropFacts, DropHolds, SanitizeStepFacts
<1>2. /\ a \in [out : Chains(W), pending : SUBSET CallIds, at : Nat]
      /\ e \in [out : Chains(W), pending : SUBSET CallIds, at : Nat]
      /\ a.out \in Chains(W) /\ e.out \in Chains(W) /\ b.out \in Chains(W) /\ p.role \in Roles
  BY <1>1, ChangedFacts DEF Passes
<1> HIDE DEF e
<1>3. \/ Extends(a.out, b.out, p) /\ b.at = a.at /\ b.pending \subseteq a.pending
      \/ Extends(e.out, b.out, p) /\ (b.pending = {} \/ b.at > Len(e.out))
  <2>1. CASE IsPinned(p)
    <3>1. b = [a EXCEPT !.out = Append(a.out, p)]
      <4>1. b = Keep(a, p)
        BY <2>1 DEF SanitizeStep, IsPinned
      <4> HIDE DEF b
      <4> QED BY <4>1 DEF Keep
    <3> HIDE DEF b
    <3>2. b.out = Append(a.out, p) /\ b.at = a.at /\ b.pending = a.pending
      BY <1>2, <3>1
    <3> QED BY <1>2, <3>2, ExtendsMade
  <2>2. CASE p.role = "user"
    <3>1. b = [e EXCEPT !.out = Append(e.out, p)]
      BY <2>2 DEF SanitizeStep, Keep, IsPinned, e
    <3> HIDE DEF b
    <3>2. b.out = Append(e.out, p) /\ b.pending = e.pending
      BY <1>2, <3>1
    <3> QED BY <1>1, <1>2, <3>2, ExtendsMade
  <2>3. CASE p.role = "result"
    <3> DEFINE hit == p.results \cap a.pending
    <3>1. b = AddResult(a, p)
      BY <2>3 DEF SanitizeStep, IsPinned
    <3> HIDE DEF b
    <3>2. /\ b.out = a.out \/ b.out = Append(a.out, Result(hit))
          /\ b.at = a.at /\ b.pending \subseteq a.pending
      BY <1>2, <3>1 DEF AddResult
    <3>3. hit \in SUBSET CallIds /\ p.role # "user"
      BY <1>2, <2>3
    <3> HIDE DEF hit
    <3>4. Extends(a.out, a.out, p) /\ Extends(a.out, Append(a.out, Result(hit)), p)
      BY <1>2, <3>3, ExtendsMade
    <3> QED BY <3>2, <3>4
  <2>4. CASE p.role = "assistant"
    <3> DEFINE i == LastIndex(e.out)
               t == MergeText(e.out, i, p)
               parted == Append(Append(e.out, Bridge), p)
    <3>1. b = AddAssistant(e, p) /\ p.role # "user"
      BY <2>4 DEF SanitizeStep, IsPinned, e
    <3> HIDE DEF b
    <3>2. \/ b.out = e.out /\ b.pending = {}
          \/ b.out = Append(e.out, p) /\ b.at = Len(e.out) + 1
          \/ b.out = parted /\ b.at = Len(Append(e.out, Bridge)) + 1
          \/ b.out = t /\ b.pending = {} /\ LastRole(e.out) = "assistant"
      <4> HIDE DEF i, t
      <4> QED BY <1>1, <1>2, <3>1 DEF AddAssistant, Open, Keep, i, t
    <3>3. LastRole(e.out) = "assistant" => Extends(e.out, t, p)
      <4> SUFFICES ASSUME LastRole(e.out) = "assistant" PROVE Extends(e.out, t, p)
        OBVIOUS
      <4>1. i \in 1..Len(e.out) /\ e.out[i].role = "assistant"
        BY <1>2, RoleFacts
      <4> HIDE DEF i
      <4> QED BY <1>2, <2>4, <4>1, ExtendsMade
    <3>4. Extends(e.out, e.out, p) /\ Extends(e.out, Append(e.out, p), p) /\ Extends(e.out, parted, p)
      BY <1>2, <3>1, ExtendsMade
    <3>5. Len(e.out) + 1 > Len(e.out) /\ Len(Append(e.out, Bridge)) + 1 > Len(e.out)
      <4>1. Bridge \in Lines(W) /\ Len(e.out) \in Nat
        BY <1>2, MadeFacts, ChainFacts
      <4>2. Len(Append(e.out, Bridge)) = Len(e.out) + 1
        BY <1>2, <4>1, AppendGroups
      <4> QED BY <4>1, <4>2
    <3> HIDE DEF t, parted
    <3> QED BY <3>2, <3>3, <3>4, <3>5
  <2> QED BY <1>2, <2>1, <2>2, <2>3, <2>4 DEF Roles, IsPinned
<1>4. PICK o \in {a, e} : /\ Extends(o.out, b.out, p)
                          /\ b.pending = {} \/ b.at > Len(o.out) \/ (o.pending # {} /\ b.at = o.at)
  <2>1. b.pending \subseteq a.pending => b.pending = {} \/ a.pending # {}
    OBVIOUS
  <2> HIDE DEF b
  <2> QED BY <1>3, <2>1
<1> HIDE DEF b
<1>5. /\ o.out \in Chains(W) /\ Said(a.out) \subseteq Said(o.out) /\ (Uncalled(a.out) => Uncalled(o.out))
      /\ \A u \in Chains(W) : Holds(a, u) => Holds(o, u)
  BY <1>1, <1>2
<1>6. /\ Said(o.out) \subseteq Said(b.out) /\ Said(Append(o.out, p)) \subseteq Said(b.out)
      /\ Uncalled(o.out) /\ p.calls = {} => Uncalled(b.out)
  BY <1>2, <1>4, <1>5, ExtendsFacts
<1>7. ASSUME NEW x \in Chains(W), Said(x) \subseteq Said(a.out)
      PROVE  Said(Append(x, p)) \subseteq Said(b.out)
  <2>1. Said(Append(x, p)) = Said(x) \cup (IF p.role = "user" THEN p.text ELSE {})
    BY SaidAppend
  <2>2. Said(Append(o.out, p)) = Said(o.out) \cup (IF p.role = "user" THEN p.text ELSE {})
    BY <1>5, SaidAppend
  <2> QED BY <1>5, <1>6, <1>7, <2>1, <2>2
<1>8. ASSUME NEW u \in Chains(W), Holds(a, u) PROVE Holds(b, u)
  <2>1. Holds(o, u) /\ Len(u) \in Nat /\ Len(o.out) \in Nat /\ Len(b.out) \in Nat
    BY <1>2, <1>5, <1>8, ChainFacts
  <2>2. Len(u) <= Len(o.out) /\ Len(o.out) <= Len(b.out) /\ (o.pending # {} => o.at > Len(u))
    BY <1>4, <2>1 DEF Holds, Extends
  <2>3. \A k \in 1..Len(u) : k \in 1..Len(o.out) /\ o.out[k].calls = u[k].calls
    BY <2>1, <2>2 DEF Holds
  <2>4. \A k \in 1..Len(u) : b.out[k].calls = u[k].calls
    BY <1>4, <2>3 DEF Extends
  <2>5. b.at \in Nat
    BY <1>1 DEF b, Passes
  <2>6. b.pending # {} => b.at > Len(u)
    BY <1>4, <2>1, <2>2, <2>5
  <2> QED BY <2>1, <2>2, <2>4, <2>6 DEF Holds
<1> QED BY <1>5, <1>6, <1>7, <1>8 DEF b

\* The turns of what has the calls of u first start with those of u.
LEMMA CallsPrefix ==
    ASSUME NEW W, NEW u \in Chains(W), NEW d \in Chains(W), Len(u) <= Len(d),
           \A k \in 1..Len(u) : d[k].calls = u[k].calls
    PROVE  IsPrefix(Groups(u), Groups(d))
<1> DEFINE m == Len(u)
           e == SubSeq(d, 1, m)
<1>1. m \in Nat /\ Len(d) \in Nat /\ m \in 0..Len(d) /\ m <= Len(d)
  BY ChainFacts
<1>2. IsPrefix(Groups(e), Groups(d))
  <2>1. \A k \in 1..m : d[k] = d[k]
    OBVIOUS
  <2> QED BY <1>1, <2>1, GroupsPrefix
<1>3. e \in Chains(W) /\ Len(e) = m /\ \A k \in 1..m : e[k] = d[k]
  <2>1. d \in Seq(Lines(W)) /\ \A i \in 1..m : d[i] \in Lines(W)
    BY <1>1, ChainFacts
  <2>2. /\ e \in Seq(Lines(W)) /\ Len(e) = (IF 1 <= m THEN m - 1 + 1 ELSE 0)
        /\ \A k \in 1..(m - 1 + 1) : e[k] = d[1 + k - 1]
    BY <1>1, <2>1, SubSeqProperties
  <2> HIDE DEF e, m
  <2> QED BY <1>1, <2>2 DEF Chains
<1> HIDE DEF e
<1>4. Groups(e) = Groups(u)
  BY <1>3, GroupsSame
<1> QED BY <1>2, <1>4

\* The sanitizer keeps all that is said; it makes no call, and leaves those a chain
\* starts with where they are when these have their results.
LEMMA SanitizeKeeps ==
    ASSUME NEW W, Words \subseteq W, NEW c \in Chains(W)
    PROVE  /\ Said(c) \subseteq Said(Sanitize(c))
           /\ Uncalled(c) => Uncalled(Sanitize(c))
           /\ \A u \in Chains(W) : Settled(u) /\ Starts(u, c) =>
                 IsPrefix(Groups(u), Groups(Sanitize(c)))
<1> DEFINE b == [out |-> <<>>, pending |-> {}, at |-> 0]
           N == Len(c)
<1>1. b \in Passes(W) /\ N \in Nat /\ (\A n \in 1..N : c[n] \in Lines(W)) /\ <<>> \in Chains(W)
  BY ChainFacts DEF Passes
<1>2. Sound(b) /\ b.out = <<>>
  BY DEF Sound, Follows, Owned, Met
<1>3. Sanitize(c) = DropPending(Folded(SanitizeStep, b, c)).out
  BY DEF Sanitize
<1> HIDE DEF b
<1>4. PICK f \in [0..N -> Passes(W)] :
         Sanitizing(f, b, c) /\ Folded(SanitizeStep, b, c) = f[N]
  BY <1>1, SanitizeRuns
<1> DEFINE T == {n \in 0..N : /\ Sound(f[n]) /\ Said(SubSeq(c, 1, n)) \subseteq Said(f[n].out)
                              /\ Uncalled(c) => Uncalled(f[n].out)}
<1>5. 0 \in T
  <2>1. 0 \in 0..N /\ f[0] = b
    BY <1>1, <1>4 DEF Sanitizing
  <2>2. SubSeq(c, 1, 0) = <<>>
    OBVIOUS
  <2>3. Said(<<>>) = {} /\ Uncalled(<<>>)
    BY DEF Said, Uncalled
  <2> QED BY <1>2, <2>1, <2>2, <2>3
<1>6. ASSUME NEW n \in 0..(N - 1), n \in T PROVE n + 1 \in T
  <2> DEFINE x == SubSeq(c, 1, n)
             p == c[n + 1]
  <2>1. n + 1 \in 0..N /\ n + 1 # 0 /\ (n + 1) - 1 = n /\ n + 1 \in 1..N /\ n \in 0..N
    BY <1>1
  <2>2. f[n + 1] = SanitizeStep(f[n], p)
    BY <1>4, <2>1 DEF Sanitizing
  <2>3. /\ f[n] \in Passes(W) /\ Sound(f[n]) /\ p \in Lines(W)
        /\ Said(x) \subseteq Said(f[n].out) /\ (Uncalled(c) => Uncalled(f[n].out))
    BY <1>1, <1>4, <1>6, <2>1
  <2>4. x \in Chains(W) /\ SubSeq(c, 1, n + 1) = Append(x, p)
    BY PrefixStep
  <2>5. Uncalled(c) => p.calls = {}
    BY <2>1 DEF Uncalled
  <2> HIDE DEF x, p
  <2>6. Sound(f[n + 1])
    BY <2>2, <2>3, StepSound
  <2>7. /\ Said(Append(x, p)) \subseteq Said(SanitizeStep(f[n], p).out)
        /\ Uncalled(f[n].out) /\ p.calls = {} => Uncalled(SanitizeStep(f[n], p).out)
    BY <2>3, <2>4, StepHolds
  <2> QED BY <2>1, <2>2, <2>3, <2>4, <2>5, <2>6, <2>7
<1>7. 0..N \subseteq T
  <2> HIDE DEF T, N
  <2> QED BY <1>1, <1>5, <1>6, SetInduction
<1>8. \A n \in 0..N : Sound(f[n]) /\ f[n] \in Passes(W)
  BY <1>4, <1>7
<1> DEFINE done == DropPending(f[N])
<1>9. /\ N \in 0..N /\ Said(c) \subseteq Said(f[N].out) /\ (Uncalled(c) => Uncalled(f[N].out))
      /\ Sanitize(c) = done.out
  <2>1. SubSeq(c, 1, N) = c
    BY ChainFacts, SubSeqFull
  <2>2. N \in 0..N
    BY <1>1
  <2> QED BY <1>4, <1>7, <1>3, <2>1, <2>2
<1>10. /\ Said(f[N].out) \subseteq Said(done.out)
      /\ Uncalled(f[N].out) => Uncalled(done.out)
      /\ \A u \in Chains(W) : Holds(f[N], u) => Holds(done, u)
  BY <1>8, <1>9, DropHolds
<1> HIDE DEF done
<1>11. ASSUME NEW u \in Chains(W), Settled(u), Starts(u, c)
       PROVE  IsPrefix(Groups(u), Groups(Sanitize(c)))
  <2> DEFINE M == Len(u)
  <2>1. M \in Nat /\ M <= N /\ \A k \in 1..M : c[k] = u[k]
    BY <1>11, ChainFacts DEF Starts
  <2>2. PICK g \in [0..M -> Passes(W)] :
           Sanitizing(g, b, u) /\ Folded(SanitizeStep, b, u) = g[M]
    BY <1>1, SanitizeRuns
  <2>3. g[M].out = u /\ g[M].pending = {}
    <3>1. Owned(u) /\ Met(u, {}, 0) /\ Greeted(u)
      BY <1>11, SettledGreeted DEF Settled
    <3>2. Folded(SanitizeStep, b, u).out = Sanitize(u) /\ Folded(SanitizeStep, b, u).pending = {}
      BY <3>1, RejoinSanitizes DEF b
    <3>3. Sanitize(u) = u
      BY <1>11, SettledPrepared
    <3> QED BY <2>2, <3>2, <3>3
  <2> DEFINE Q == {n \in 0..M : f[n] = g[n]}
  <2>4. 0 \in Q
    BY <1>1, <1>4, <2>1, <2>2 DEF Sanitizing
  <2>5. ASSUME NEW n \in 0..(M - 1), n \in Q PROVE n + 1 \in Q
    <3>1. n + 1 \in 0..N /\ n + 1 \in 0..M /\ n + 1 # 0 /\ (n + 1) - 1 = n /\ n + 1 \in 1..M
      BY <1>1, <2>1
    <3>2. f[n + 1] = SanitizeStep(f[n], c[n + 1])
      BY <1>4, <3>1 DEF Sanitizing
    <3>3. g[n + 1] = SanitizeStep(g[n], u[n + 1])
      BY <2>2, <3>1 DEF Sanitizing
    <3>4. f[n] = g[n] /\ c[n + 1] = u[n + 1]
      BY <2>1, <2>5, <3>1
    <3> QED BY <3>1, <3>2, <3>3, <3>4
  <2>6. 0..M \subseteq Q
    <3> HIDE DEF Q, M, N
    <3> QED BY <2>1, <2>4, <2>5, SetInduction
  <2>7. f[M] = g[M]
    <3>1. M \in 0..M
      BY <2>1
    <3> QED BY <2>6, <3>1
  <2>8. Holds(f[M], u)
    <3>1. f[M].out = u /\ f[M].pending = {} /\ Len(u) <= Len(u)
      BY <2>1, <2>3, <2>7
    <3> QED BY <3>1 DEF Holds
  <2> DEFINE R == {k \in 0..(N - M) : Holds(f[M + k], u)}
  <2>9. 0 \in R
    <3>1. M + 0 = M /\ 0 \in 0..(N - M)
      BY <1>1, <2>1
    <3> QED BY <2>8, <3>1
  <2>10. ASSUME NEW k \in 0..((N - M) - 1), k \in R PROVE k + 1 \in R
    <3>1. /\ M + (k + 1) \in 0..N /\ M + (k + 1) # 0 /\ (M + (k + 1)) - 1 = M + k /\ k + 1 \in 0..(N - M)
          /\ M + (k + 1) \in 1..N /\ M + k \in 0..N
      BY <1>1, <2>1
    <3>2. f[M + (k + 1)] = SanitizeStep(f[M + k], c[M + (k + 1)])
      BY <1>4, <3>1 DEF Sanitizing
    <3>3. f[M + k] \in Passes(W) /\ Sound(f[M + k]) /\ c[M + (k + 1)] \in Lines(W) /\ Holds(f[M + k], u)
      BY <1>1, <1>8, <2>10, <3>1
    <3>4. Holds(SanitizeStep(f[M + k], c[M + (k + 1)]), u)
      BY <3>3, StepHolds
    <3> QED BY <3>1, <3>2, <3>4
  <2>11. 0..(N - M) \subseteq R
    <3>1. N - M \in Nat
      BY <1>1, <2>1
    <3> HIDE DEF R, M, N
    <3> QED BY <2>9, <2>10, <3>1, SetInduction
  <2>12. Holds(f[N], u)
    <3>1. N - M \in 0..(N - M) /\ M + (N - M) = N
      BY <1>1, <2>1
    <3> HIDE DEF M, N
    <3> QED BY <2>11, <3>1
  <2>13. Len(u) <= Len(done.out) /\ \A k \in 1..Len(u) : done.out[k].calls = u[k].calls
    <3>1. Holds(done, u)
      BY <1>10, <2>12
    <3> QED BY <3>1 DEF Holds
  <2>14. done.out \in Chains(W)
    BY <1>9, SanitizeFacts
  <2> QED BY <1>9, <2>13, <2>14, CallsPrefix
<1> QED BY <1>9, <1>10, <1>11

\* What healing keeps,
LEMMA HealKeeps ==
    ASSUME NEW W, NEW c \in Chains(W)
    PROVE  /\ Heal(c) \in Chains(W) /\ Said(Heal(c)) = Said(c)
           /\ Uncalled(c) => Uncalled(Heal(c))
<1>1. PICK x \in Chains(W), I \in SUBSET (1..Len(c)) :
         /\ Heal(c) = Only(x, I) /\ Len(x) = Len(c)
         /\ \A j \in 1..Len(c) : x[j].role = c[j].role
         /\ \A j \in 1..Len(c) : c[j].role = "user" => j \in I /\ x[j] = c[j]
         /\ \A j \in 1..Len(c) : HealedAt(c, j) = IF j \in I THEN <<x[j]>> ELSE <<>>
  BY HealShape
<1>2. Said(Only(x, I)) = Said(x)
  BY <1>1, SaidOnly
<1>3. Said(x) = Said(c)
  <2>1. Said(x) \subseteq Said(c)
    <3>1. \A k \in 1..Len(x) : x[k].role = "user" =>
             \E i \in 1..Len(c) : c[i].role = "user" /\ x[k].text \subseteq c[i].text
      BY <1>1
    <3> QED BY <3>1, SaidMoved
  <2>2. Said(c) \subseteq Said(x)
    <3>1. \A k \in 1..Len(c) : c[k].role = "user" =>
             \E i \in 1..Len(x) : x[i].role = "user" /\ c[k].text \subseteq x[i].text
      BY <1>1
    <3> QED BY <3>1, SaidMoved
  <2> QED BY <2>1, <2>2
<1>4. ASSUME Uncalled(c) PROVE Uncalled(Heal(c))
  <2>1. ASSUME NEW j \in I PROVE x[j].calls = {}
    <3>1. j \in 1..Len(c) /\ HealedAt(c, j) = <<x[j]>> /\ c[j].calls = {} /\ c[j] \in Lines(W)
      BY <1>1, <1>4, <2>1, ChainFacts DEF Uncalled
    <3>2. HealedAt(c, j) \in {<<>>, <<c[j]>>, <<[c[j] EXCEPT !.results = FirstAnswers(c, Caller(c, j), j)]>>}
      BY <3>1 DEF HealedAt, HasCalls
    <3>3. x[j] \in {c[j], [c[j] EXCEPT !.results = FirstAnswers(c, Caller(c, j), j)]}
      <4>1. \A y, z : <<y>> # <<>> /\ (<<y>> = <<z>> => y = z)
        OBVIOUS
      <4> QED BY <3>1, <3>2, <4>1
    <3>4. \A r : [c[j] EXCEPT !.results = r].calls = c[j].calls
      BY <3>1 DEF Lines
    <3> QED BY <3>1, <3>3, <3>4
  <2>2. x \in Seq(Lines(W)) /\ I \in SUBSET (1..Len(x))
    BY <1>1, ChainFacts
  <2>3. \A k \in 1..Len(Only(x, I)) : \E i \in I : Only(x, I)[k] = x[i]
    BY <2>2, OnlyFacts
  <2> QED BY <1>1, <2>1, <2>3 DEF Uncalled
<1> QED BY <1>1, <1>2, <1>3, <1>4, HealFacts

\* so what the two sanitizers do.
LEMMA PrepareKeeps ==
    ASSUME NEW W, Words \subseteq W, NEW c \in Chains(W)
    PROVE  /\ Prepare(c) \in Chains(W) /\ Settled(Prepare(c))
           /\ Said(c) \subseteq Said(Prepare(c))
           /\ Uncalled(c) => Uncalled(Prepare(c))
           /\ \A u \in Chains(W) : Settled(u) /\ Starts(u, c) =>
                 IsPrefix(Groups(u), Groups(Prepare(c)))
<1> DEFINE d == Heal(c)
<1>1. d \in Chains(W) /\ Said(d) = Said(c) /\ (Uncalled(c) => Uncalled(d))
  BY HealKeeps
<1>2. \A u \in Chains(W) : Settled(u) /\ Starts(u, c) => Starts(u, d)
  BY HealStarts DEF Settled
<1> HIDE DEF d
<1>3. /\ Said(d) \subseteq Said(Sanitize(d))
      /\ Uncalled(d) => Uncalled(Sanitize(d))
      /\ \A u \in Chains(W) : Settled(u) /\ Starts(u, d) => IsPrefix(Groups(u), Groups(Sanitize(d)))
  BY <1>1, SanitizeKeeps
<1>4. Prepare(c) = Sanitize(d)
  BY DEF Prepare, d
<1> QED BY <1>1, <1>2, <1>3, <1>4, PrepareOrder

\* A payload that is rejoined is heard and called as if it were appended,
LEMMA RejoinKeeps ==
    ASSUME NEW W, Words \subseteq W, NEW c \in Chains(W), NEW p \in Lines(W)
    PROVE  /\ Rejoin(c, p) \in Chains(W)
           /\ Said(Append(c, p)) \subseteq Said(Rejoin(c, p))
           /\ Groups(Rejoin(c, p)) = Groups(Append(c, p))
<1> DEFINE i == LastIndex(c)
<1>1. Bridge \in Lines(W) /\ ~HasCalls(Bridge)
  BY MadeFacts DEF HasCalls, Bridge, User, Payload
<1>2. CASE p.role # "assistant" \/ LastRole(c) # "assistant"
  <2>1. Rejoin(c, p) = Append(c, p)
    BY <1>2 DEF Rejoin
  <2>2. Append(c, p) \in Chains(W)
    BY ChainFacts
  <2> QED BY <2>1, <2>2
<1>3. CASE p.role = "assistant" /\ LastRole(c) = "assistant"
  <2>1. i \in 1..Len(c) /\ c[i].role = "assistant"
    BY <1>3, RoleFacts
  <2>2. CASE HasCalls(c[i]) \/ HasCalls(p)
    <3>1. Rejoin(c, p) = c \o <<Bridge, p>>
      BY <1>3, <2>2 DEF Rejoin
    <3>2. c \o <<Bridge, p>> = Append(Append(c, Bridge), p)
      <4>1. c \in Seq(Lines(W))
        BY ChainFacts
      <4> QED BY <1>1, <4>1
    <3>3. /\ Append(c, Bridge) \in Chains(W) /\ Append(Append(c, Bridge), p) \in Chains(W)
          /\ Extends(c, Append(Append(c, Bridge), p), p)
      <4>1. Append(c, Bridge) \in Chains(W)
        BY <1>1, ChainFacts
      <4> QED BY <4>1, ExtendsMade
    <3>4. Said(Append(c, p)) \subseteq Said(Append(Append(c, Bridge), p))
      BY <3>3, ExtendsFacts
    <3>5. Groups(Append(c, Bridge)) = Groups(c)
      BY <1>1, GroupsAppend
    <3>6. Groups(Append(Append(c, Bridge), p))
             = IF HasCalls(p) THEN Append(Groups(Append(c, Bridge)), Group(p))
               ELSE Groups(Append(c, Bridge))
      BY <3>3, GroupsAppend
    <3>7. Groups(Append(c, p)) = IF HasCalls(p) THEN Append(Groups(c), Group(p)) ELSE Groups(c)
      BY GroupsAppend
    <3>8. Groups(Append(Append(c, Bridge), p)) = Groups(Append(c, p))
      BY <3>5, <3>6, <3>7
    <3> HIDE DEF i
    <3> QED BY <3>1, <3>2, <3>3, <3>4, <3>8
  <2>3. CASE ~HasCalls(c[i]) /\ ~HasCalls(p)
    <3>1. Rejoin(c, p) = MergeText(c, i, p)
      BY <1>3, <2>3 DEF Rejoin
    <3> HIDE DEF i
    <3>2. MergeText(c, i, p) \in Chains(W) /\ Extends(c, MergeText(c, i, p), p)
      BY <1>3, <2>1, ExtendsMade
    <3>3. Said(Append(c, p)) \subseteq Said(MergeText(c, i, p))
      BY <3>2, ExtendsFacts
    <3>4. Len(MergeText(c, i, p)) = Len(c)
          /\ \A k \in 1..Len(c) : MergeText(c, i, p)[k].calls = c[k].calls
      BY <1>3, <2>1, MergeAt
    <3>5. Groups(MergeText(c, i, p)) = Groups(c)
      BY <3>2, <3>4, GroupsSame
    <3>6. Groups(Append(c, p)) = Groups(c)
      BY <2>3, GroupsAppend
    <3> QED BY <3>1, <3>2, <3>3, <3>5, <3>6
  <2> QED BY <2>2, <2>3
<1> QED BY <1>2, <1>3

\* so a chain whose payloads are rejoined, one after the other, is.
LEMMA RejoinedKeeps ==
    ASSUME NEW W, Words \subseteq W, NEW c \in Chains(W)
    PROVE  LET z == Folded(Rejoin, <<>>, c)
           IN  z \in Chains(W) /\ Said(c) \subseteq Said(z) /\ Groups(z) = Groups(c)
<1> DEFINE N == Len(c)
<1>1. N \in Nat /\ <<>> \in Chains(W)
  BY ChainFacts
<1>2. PICK f \in [0..N -> Chains(W)] : Rejoining(f, <<>>, c) /\ Folded(Rejoin, <<>>, c) = f[N]
  BY <1>1, RejoinRuns
<1> DEFINE T == {n \in 0..N : /\ Said(SubSeq(c, 1, n)) \subseteq Said(f[n])
                              /\ Groups(f[n]) = Groups(SubSeq(c, 1, n))}
<1>3. 0 \in T
  <2>1. 0 \in 0..N /\ f[0] = <<>>
    BY <1>1, <1>2 DEF Rejoining
  <2>2. SubSeq(c, 1, 0) = <<>>
    OBVIOUS
  <2> QED BY <2>1, <2>2
<1>4. ASSUME NEW n \in 0..(N - 1), n \in T PROVE n + 1 \in T
  <2> DEFINE x == SubSeq(c, 1, n)
             p == c[n + 1]
  <2>1. n + 1 \in 0..N /\ n + 1 # 0 /\ (n + 1) - 1 = n /\ n \in 0..N
    BY <1>1
  <2>2. f[n + 1] = Rejoin(f[n], p)
    BY <1>2, <2>1 DEF Rejoining
  <2>3. f[n] \in Chains(W) /\ Said(x) \subseteq Said(f[n]) /\ Groups(f[n]) = Groups(x)
    BY <1>2, <1>4, <2>1
  <2>4. x \in Chains(W) /\ p \in Lines(W) /\ SubSeq(c, 1, n + 1) = Append(x, p)
    BY PrefixStep
  <2> HIDE DEF x, p
  <2>5. /\ Said(Append(f[n], p)) \subseteq Said(Rejoin(f[n], p))
        /\ Groups(Rejoin(f[n], p)) = Groups(Append(f[n], p))
    BY <2>3, <2>4, RejoinKeeps
  <2>6. Said(Append(x, p)) \subseteq Said(Append(f[n], p))
    <3>1. Said(Append(f[n], p)) = Said(f[n]) \cup (IF p.role = "user" THEN p.text ELSE {})
      BY <2>3, <2>4, SaidAppend
    <3>2. Said(Append(x, p)) = Said(x) \cup (IF p.role = "user" THEN p.text ELSE {})
      BY <2>4, SaidAppend
    <3> QED BY <2>3, <3>1, <3>2
  <2>7. Groups(Append(f[n], p)) = Groups(Append(x, p))
    <3>1. Groups(Append(f[n], p)) = IF HasCalls(p) THEN Append(Groups(f[n]), Group(p)) ELSE Groups(f[n])
      BY <2>3, <2>4, GroupsAppend
    <3>2. Groups(Append(x, p)) = IF HasCalls(p) THEN Append(Groups(x), Group(p)) ELSE Groups(x)
      BY <2>4, GroupsAppend
    <3> QED BY <2>3, <3>1, <3>2
  <2> QED BY <2>1, <2>2, <2>4, <2>5, <2>6, <2>7
<1>5. 0..N \subseteq T
  <2> HIDE DEF T, N
  <2> QED BY <1>1, <1>3, <1>4, SetInduction
<1>6. N \in T /\ SubSeq(c, 1, N) = c /\ f[N] \in Chains(W)
  <2>1. SubSeq(c, 1, N) = c /\ N \in 0..N
    BY <1>1, ChainFacts, SubSeqFull
  <2> QED BY <1>2, <1>5, <2>1
<1> QED BY <1>2, <1>6

\* The markers call nothing and no user says them.
LEMMA UnmarkedKeeps ==
    ASSUME NEW W, NEW c \in Chains(W)
    PROVE  LET q == Unmarked(c)
           IN  q \in Chains(W) /\ Said(q) = Said(c) /\ Groups(q) = Groups(c)
<1> DEFINE I == {i \in DOMAIN c : ~IsSuspend(c[i])}
<1>1. I \in SUBSET (1..Len(c)) /\ I \in SUBSET (DOMAIN c)
  BY ChainFacts
<1>2. \A i \in (1..Len(c)) \ I : c[i].calls = {} /\ c[i].role # "user"
  BY ChainFacts DEF IsSuspend, HasCalls
<1> HIDE DEF I
<1>3. Only(c, I) \in Chains(W) /\ Said(Only(c, I)) = Said(c) /\ Groups(Only(c, I)) = Groups(c)
  BY <1>1, <1>2, ThoseFacts, SaidOnly, GroupsOnly
<1> QED BY <1>3 DEF I, Unmarked

\* A user who says something of w says nothing of m.
Bare(c, w, m) ==
    \A k \in 1..Len(c) : c[k].role = "user" /\ c[k].text \cap w # {} => c[k].text \cap m = {}

\* So it does not take what is told of m with it.
LEMMA BareKeeps ==
    ASSUME NEW W, NEW c \in Chains(W), NEW w, w \cap Words = {}, NEW m, Bare(c, w, m)
    PROVE  LET q == Without(c, w)
           IN  q \in Chains(W) /\ Said(c) \cap m \subseteq Said(q) /\ Groups(q) = Groups(c)
<1> DEFINE I == {i \in DOMAIN c : c[i].text \cap w = {}}
           q == Only(c, I)
<1>1. I \in SUBSET (1..Len(c)) /\ I \in SUBSET (DOMAIN c) /\ c \in Seq(Lines(W))
  BY ChainFacts
<1>2. \A i \in (1..Len(c)) \ I : c[i].calls = {} /\ c[i].role = "user"
  <2> SUFFICES ASSUME NEW i \in (1..Len(c)) \ I PROVE c[i].calls = {} /\ c[i].role = "user"
    OBVIOUS
  <2>1. c[i] \in Lines(W) /\ c[i].text \cap w # {}
    BY ChainFacts
  <2>2. c[i].role \in {"user", "assistant"} /\ (c[i].calls # {} => c[i].role = "assistant")
        /\ (c[i].role = "assistant" => c[i].text \subseteq Words)
    BY <2>1 DEF Lines
  <2> QED BY <2>1, <2>2
<1>3. ASSUME NEW x \in Said(c) \cap m PROVE x \in Said(q)
  <2>1. PICK i \in 1..Len(c) : c[i].role = "user" /\ x \in c[i].text
    BY <1>3, SaidIn
  <2>2. i \in I
    BY <1>3, <2>1, ChainFacts DEF Bare
  <2> HIDE DEF I
  <2>3. PICK k \in 1..Len(q) : q[k] = c[i]
    BY <1>1, <2>2, OnlyFacts
  <2>4. q \in Chains(W)
    BY <1>1, ThoseFacts
  <2> HIDE DEF q
  <2> QED BY <2>1, <2>3, <2>4, SaidIn
<1>4. q \in Chains(W) /\ Groups(q) = Groups(c)
  <2> HIDE DEF I
  <2> QED BY <1>1, <1>2, ThoseFacts, GroupsOnly
<1> QED BY <1>3, <1>4 DEF Without

\* A quiet chain has no turns.
LEMMA UncalledGroups ==
    ASSUME NEW W, NEW c \in Chains(W), Uncalled(c)
    PROVE  Groups(c) = <<>> /\ Met(c, {}, 0)
<1>1. Groups(Only(c, {})) = Groups(c)
  <2>1. \A i \in 1..Len(c) : c[i].calls = {}
    BY DEF Uncalled
  <2>2. \A i \in (1..Len(c)) \ {} : c[i].calls = {}
    BY <2>1
  <2> QED BY <2>2, GroupsOnly
<1>2. Only(c, {}) = <<>>
  <2>1. c \in Seq(Lines(W)) /\ Len(c) \in Nat
    BY ChainFacts
  <2>2. PICK at : Picked(Only(c, {}), c, {}, at)
    BY <2>1, OnlyPicks
  <2>3. Only(c, {}) \in Seq(Lines(W))
    BY <2>1, OnlyPicks
  <2>4. at \in [1..Len(Only(c, {})) -> {}]
    BY <2>2 DEF Picked
  <2>5. Len(Only(c, {})) \in Nat
    BY <2>3, LenProperties
  <2>6. ~(1 \in 1..Len(Only(c, {})))
    BY <2>4
  <2>7. Len(Only(c, {})) = 0
    BY <2>5, <2>6
  <2> QED BY <2>3, <2>7, EmptySeq
<1>3. Groups(<<>>) = <<>>
  <2>1. System \in Lines(W)
    BY MadeFacts
  <2> QED BY <2>1, GroupsAppend
<1>4. Met(c, {}, 0)
  BY DEF Uncalled, Met
<1> QED BY <1>1, <1>2, <1>3, <1>4

\* The calls under way are a turn of their own, after those whose calls have their
\* results.
LEMMA OpenTurns ==
    ASSUME NEW W, NEW c \in Chains(W), Met(c, {}, 0), NEW p \in Lines(W),
           p.role = "assistant", HasCalls(p)
    PROVE  \E x \in Closed : Turns(Append(c, p)) = Append(Groups(c), x)
<1> DEFINE k == Conversation(c)
           d == Append(c, p)
           l == Conversation(d)
           g == [i \in DOMAIN k |-> [calls |-> k[i].calls, answered |-> k[i].calls \cap Answered(k, i)]]
           h == [i \in DOMAIN l |-> [calls |-> l[i].calls, answered |-> l[i].calls \cap Answered(l, i)]]
           I == {i \in DOMAIN g : HasCalls(g[i])}
           J == {i \in DOMAIN h : HasCalls(h[i])}
           N == Len(k)
           x == h[N + 1]
<1>1. k \in Seq(Lines(W)) /\ N \in Nat /\ DOMAIN k = 1..N
  BY ConversationPlaced, LenProperties
<1>2. l = Append(k, p)
  <2> DEFINE A == {i \in DOMAIN c : ~IsPinned(c[i])}
             B == {i \in DOMAIN d : ~IsPinned(d[i])}
  <2>1. /\ c \in Seq(Lines(W)) /\ DOMAIN c = 1..Len(c) /\ Len(c) \in Nat
        /\ DOMAIN d = 1..(Len(c) + 1) /\ d[Len(c) + 1] = p /\ \A i \in 1..Len(c) : d[i] = c[i]
    BY ChainFacts, AppendGroups, AppendProperties
  <2>2. ~IsPinned(p)
    BY DEF IsPinned
  <2>3. B \cap (1..Len(c)) = A \cap (1..Len(c)) /\ Len(c) + 1 \in B
    BY <2>1, <2>2
  <2> HIDE DEF A, B
  <2>4. Only(Append(c, p), B) = Append(Only(c, A), p)
    BY <2>1, <2>3, OnlyAppend
  <2> QED BY <2>4 DEF Conversation, Those, A, B
<1> HIDE DEF k, d
<1>3. /\ Len(l) = N + 1 /\ DOMAIN l = 1..(N + 1) /\ l[N + 1] = p
      /\ \A i \in 1..N : l[i] = k[i]
  BY <1>1, <1>2, AppendProperties
<1> HIDE DEF l
<1>4. \A i \in 1..N : Answered(l, i) = Answered(k, i)
  <2> SUFFICES ASSUME NEW i \in 1..N PROVE Answered(l, i) = Answered(k, i)
    OBVIOUS
  <2>1. AnswersOf(l, i) = AnswersOf(k, i)
    <3>1. \A j \in (i + 1)..N : j \in AnswersOf(l, i) <=> j \in AnswersOf(k, i)
      <4> SUFFICES ASSUME NEW j \in (i + 1)..N
                   PROVE  j \in AnswersOf(l, i) <=> j \in AnswersOf(k, i)
        OBVIOUS
      <4>1. \A n \in (i + 1)..j : n \in 1..N /\ l[n] = k[n]
        BY <1>1, <1>3
      <4>2. j \in (i + 1)..Len(l)
        BY <1>1, <1>3
      <4> QED BY <4>1, <4>2 DEF AnswersOf
    <3>2. N + 1 \notin AnswersOf(l, i)
      <4>1. N + 1 \in (i + 1)..(N + 1)
        BY <1>1
      <4> QED BY <1>3, <4>1 DEF AnswersOf
    <3>3. AnswersOf(l, i) \subseteq (i + 1)..(N + 1) /\ AnswersOf(k, i) \subseteq (i + 1)..N
      BY <1>3 DEF AnswersOf
    <3>4. \A j \in (i + 1)..(N + 1) : j \in (i + 1)..N \/ j = N + 1
      BY <1>1
    <3>5. N + 1 \notin (i + 1)..N
      BY <1>1
    <3> QED BY <3>1, <3>2, <3>3, <3>4, <3>5
  <2>2. \A j \in AnswersOf(k, i) : l[j] = k[j]
    <3>1. AnswersOf(k, i) \subseteq 1..N
      BY <1>1 DEF AnswersOf
    <3> QED BY <1>3, <3>1
  <2> QED BY <2>1, <2>2 DEF Answered
<1>5. \A i \in 1..N : k[i].calls \in SUBSET CallIds
  BY <1>1, ElementOfSeq DEF Lines
<1>6. g \in Seq(Closed) /\ Len(g) = N /\ DOMAIN g = 1..N
  <2>1. g \in [1..N -> Closed]
    BY <1>1, <1>5 DEF Closed
  <2> HIDE DEF g
  <2> QED BY <1>1, <2>1
<1>7. x \in Closed /\ HasCalls(x) /\ N + 1 \in DOMAIN l
  <2>1. p.calls \in SUBSET CallIds /\ N + 1 \in 1..(N + 1)
    BY <1>1 DEF Lines
  <2>2. x = [calls |-> p.calls, answered |-> p.calls \cap Answered(l, N + 1)]
    BY <1>3, <2>1
  <2> QED BY <1>3, <2>1, <2>2 DEF Closed, HasCalls
<1>8. \A i \in 1..N : h[i] = g[i]
  <2> SUFFICES ASSUME NEW i \in 1..N PROVE h[i] = g[i]
    OBVIOUS
  <2>1. i \in DOMAIN k /\ i \in DOMAIN l /\ l[i] = k[i] /\ Answered(l, i) = Answered(k, i)
    BY <1>1, <1>3, <1>4
  <2>2. g[i] = [calls |-> k[i].calls, answered |-> k[i].calls \cap Answered(k, i)]
    BY <2>1
  <2>3. h[i] = [calls |-> l[i].calls, answered |-> l[i].calls \cap Answered(l, i)]
    BY <2>1
  <2> QED BY <2>1, <2>2, <2>3
<1>9. h = Append(g, x)
  <2>2. DOMAIN h = 1..(N + 1)
    BY <1>3
  <2>3. /\ Append(g, x) \in Seq(Closed) /\ Len(Append(g, x)) = N + 1 /\ Append(g, x)[N + 1] = x
        /\ \A i \in 1..N : Append(g, x)[i] = g[i]
    <3> HIDE DEF g, h
    <3> QED BY <1>6, <1>7, AppendProperties
  <2>4. DOMAIN Append(g, x) = 1..(N + 1)
    <3> HIDE DEF g, h
    <3> QED BY <2>3, LenProperties
  <2>5. \A i \in 1..(N + 1) : i \in 1..N \/ i = N + 1
    BY <1>1
  <2>6. \A i \in 1..(N + 1) : h[i] = Append(g, x)[i]
    <3> HIDE DEF g, h
    <3> QED BY <1>8, <2>3, <2>5
  <2>7. h = [i \in 1..(N + 1) |-> h[i]]
    BY <2>2
  <2>8. Append(g, x) = [i \in 1..(N + 1) |-> Append(g, x)[i]]
    <3> HIDE DEF g, h
    <3> QED BY <2>4
  <2> HIDE DEF g, h
  <2> QED BY <2>6, <2>7, <2>8
<1>10. Turns(c) = Only(g, I) /\ Turns(d) = Only(h, J)
  BY DEF Turns, Those, k, l
<1>11. J \cap (1..N) = I \cap (1..N) /\ N + 1 \in J
  <2>1. DOMAIN h = 1..(N + 1) /\ N + 1 \in 1..(N + 1) /\ 1..N \subseteq 1..(N + 1)
    BY <1>1, <1>3
  <2> HIDE DEF g, h
  <2> QED BY <1>6, <1>7, <1>8, <2>1
<1> HIDE DEF g, h, I, J, x
<1>12. Only(Append(g, x), J) = Append(Only(g, I), x)
  BY <1>6, <1>7, <1>11, OnlyAppend
<1>13. Turns(c) = Groups(c)
  BY MetTurns
<1> QED BY <1>7, <1>9, <1>10, <1>12, <1>13 DEF d

\* What comes before another turn of a settled chain is settled.
LEMMA PrefixSettles ==
    ASSUME NEW W, NEW c \in Chains(W), Settled(c), NEW n \in 0..(Len(c) - 1), ~Continues(c[n + 1])
    PROVE  LET d == SubSeq(c, 1, n)
           IN  d \in Chains(W) /\ Settled(d) /\ Len(d) = n /\ Starts(d, c)
<1> DEFINE d == SubSeq(c, 1, n)
<1>1. /\ d \in Chains(W) /\ Len(d) = n /\ (\A k \in 1..n : d[k] = c[k])
      /\ Len(c) \in Nat /\ n \in Nat /\ n <= Len(c) /\ n + 1 \in 1..Len(c)
  <2>1. Len(c) \in Nat
    BY ChainFacts
  <2>2. n \in Nat /\ n <= Len(c) /\ n + 1 \in 1..Len(c)
    BY <2>1
  <2> QED BY <2>1, <2>2, PrefixStep
<1> HIDE DEF d
<1>2. Follows(d) /\ Owned(d)
  <2>1. \A k \in (n + 1)..Len(d) : IsPinned(d[k])
    BY <1>1
  <2>2. n <= Len(d)
    BY <1>1
  <2> QED BY <1>1, <2>1, <2>2, CutSettles DEF Settled
<1>3. ASSUME NEW i \in 1..Len(d), NEW id \in d[i].calls
      PROVE  \E j \in 1..Len(d) : InGroup(d, i, j) /\ id \in d[j].results
  <2>1. i \in 1..Len(c) /\ id \in c[i].calls
    BY <1>1, <1>3
  <2>2. ~(i = 0 /\ id \in {})
    OBVIOUS
  <2>3. PICK j \in 1..Len(c) : InGroup(c, i, j) /\ id \in c[j].results
    BY <2>1, <2>2 DEF Settled, Met
  <2>4. j \in 1..n
    <3>1. SUFFICES ASSUME ~(j <= n) PROVE FALSE
      BY <1>1
    <3>2. n + 1 \in (i + 1)..j
      BY <1>1, <1>3, <3>1
    <3> QED BY <2>3, <3>2 DEF InGroup
  <2>5. InGroup(d, i, j)
    <3>1. Alike(c, d, n)
      BY <1>1 DEF Alike
    <3>2. i \in 1..n
      BY <1>1, <1>3
    <3> QED BY <1>1, <2>3, <2>4, <3>1, <3>2, AlikeGroups
  <2> QED BY <1>1, <2>3, <2>4, <2>5
<1>4. Settled(d)
  BY <1>2, <1>3 DEF Settled, Met
<1>5. Starts(d, c)
  BY <1>1 DEF Starts
<1> QED BY <1>1, <1>4, <1>5 DEF d

\* After the last turn there is none.
LEMMA TailGroups ==
    ASSUME NEW W, NEW c \in Chains(W), NEW i \in 1..Len(c), HasCalls(c[i]),
           \A j \in (i + 1)..Len(c) : ~HasCalls(c[j])
    PROVE  Groups(c) = Append(Groups(SubSeq(c, 1, i - 1)), Group(c[i]))
<1> DEFINE N == Len(c)
           T == {n \in 0..(N - i) : Groups(SubSeq(c, 1, i + n)) = Groups(SubSeq(c, 1, i))}
<1>1. N \in Nat /\ i \in Nat /\ i <= N /\ i > 0
  <2>1. Len(c) \in Nat
    BY ChainFacts
  <2> QED BY <2>1
<1>2. 0 \in T
  BY <1>1
<1>3. ASSUME NEW n \in 0..((N - i) - 1), n \in T PROVE n + 1 \in T
  <2>1. i + n \in 0..(N - 1) /\ i + (n + 1) = (i + n) + 1 /\ (i + n) + 1 \in (i + 1)..N /\ n + 1 \in 0..(N - i)
    BY <1>1
  <2>2. /\ SubSeq(c, 1, i + n) \in Chains(W) /\ c[(i + n) + 1] \in Lines(W)
        /\ SubSeq(c, 1, (i + n) + 1) = Append(SubSeq(c, 1, i + n), c[(i + n) + 1])
    BY <2>1, PrefixStep
  <2>3. ~HasCalls(c[(i + n) + 1])
    BY <2>1
  <2>4. Groups(SubSeq(c, 1, (i + n) + 1)) = Groups(SubSeq(c, 1, i + n))
    BY <2>2, <2>3, GroupsAppend
  <2> QED BY <1>3, <2>1, <2>4
<1>4. 0..(N - i) \subseteq T
  <2>1. N - i \in Nat
    BY <1>1
  <2> HIDE DEF T, N
  <2> QED BY <1>2, <1>3, <2>1, SetInduction
<1>5. Groups(c) = Groups(SubSeq(c, 1, i))
  <2>1. N - i \in 0..(N - i) /\ i + (N - i) = N
    BY <1>1
  <2>2. SubSeq(c, 1, N) = c
    BY ChainFacts, SubSeqFull
  <2>3. N - i \in T
    <3> HIDE DEF T, N
    <3> QED BY <1>4, <2>1
  <2> QED BY <2>1, <2>2, <2>3
<1>6. /\ SubSeq(c, 1, i - 1) \in Chains(W) /\ c[i] \in Lines(W)
      /\ SubSeq(c, 1, i) = Append(SubSeq(c, 1, i - 1), c[i])
  <2>1. i - 1 \in 0..(Len(c) - 1) /\ (i - 1) + 1 = i
    BY <1>1
  <2>2. /\ SubSeq(c, 1, i - 1) \in Chains(W) /\ c[(i - 1) + 1] \in Lines(W)
        /\ SubSeq(c, 1, (i - 1) + 1) = Append(SubSeq(c, 1, i - 1), c[(i - 1) + 1])
    BY <2>1, PrefixStep
  <2> QED BY <2>1, <2>2
<1> QED BY <1>5, <1>6, GroupsAppend

\* The last payload that makes one of some calls.
LastMaker(c, ids, i) ==
    /\ i \in 1..Len(c) /\ c[i].role = "assistant" /\ c[i].calls \cap ids # {}
    /\ \A j \in 1..Len(c) : c[j].role = "assistant" /\ c[j].calls \cap ids # {} => j <= i

\* When these are removed, what comes before it stays, and all that users say.
LEMMA RemovedAt ==
    ASSUME NEW W, NEW c \in Chains(W), NEW ids, NEW i, LastMaker(c, ids, i)
    PROVE  LET d == RemoveCalls(c, ids)
           IN  /\ d \in Chains(W) /\ i - 1 <= Len(d) /\ \A k \in 1..(i - 1) : d[k] = c[k]
               /\ Said(c) \subseteq Said(d)
<1> DEFINE makers == {j \in DOMAIN c : c[j].role = "assistant" /\ c[j].calls \cap ids # {}}
           x      == CHOOSE j \in makers : \A k \in makers : k <= j
           left   == [c[i] EXCEPT !.calls = @ \ ids]
           d      == RemoveCalls(c, ids)
<1>1. Len(c) \in Nat /\ DOMAIN c = 1..Len(c) /\ i \in 1..Len(c) /\ c[i] \in Lines(W)
  BY ChainFacts DEF LastMaker
<1>2. makers \in SUBSET (1..Len(c)) /\ i \in makers /\ \A j \in makers : j <= i
  BY <1>1 DEF LastMaker
<1>3. x = i
  <2> HIDE DEF makers
  <2>1. x \in makers /\ \A j \in makers : j <= x
    BY <1>1, <1>2, EndFacts
  <2> HIDE DEF x
  <2>2. x <= i /\ i <= x /\ x \in Nat /\ i \in Nat
    BY <1>1, <1>2, <2>1
  <2> QED BY <2>2
<1>4. d = IF makers = {} THEN c
          ELSE IF [c[x] EXCEPT !.calls = @ \ ids].text = {} /\ [c[x] EXCEPT !.calls = @ \ ids].calls = {}
               THEN RemoveAt(c, x)
          ELSE ReplaceAt(c, x, [c[x] EXCEPT !.calls = @ \ ids])
  BY DEF RemoveCalls
<1> HIDE DEF makers, x
<1>5. d \in {RemoveAt(c, i), ReplaceAt(c, i, left)}
  BY <1>2, <1>3, <1>4
<1>6. left \in Lines(W) /\ left.role = "assistant"
  <2>1. left \in Lines(W)
    BY <1>1, ChangedFacts
  <2>2. left.role = c[i].role
    BY <1>1 DEF Lines
  <2> QED BY <2>1, <2>2 DEF LastMaker
<1>7. d \in Chains(W)
  BY RemoveFacts
<1> HIDE DEF left, d
<1>8. CASE d = ReplaceAt(c, i, left)
  <2>1. d = [c EXCEPT ![i] = left]
    BY <1>8 DEF ReplaceAt
  <2>2. Len(d) = Len(c) /\ \A k \in 1..Len(c) : k # i => d[k] = c[k]
    <3>1. DOMAIN d = DOMAIN c /\ \A k \in DOMAIN c : k # i => d[k] = c[k]
      BY <2>1
    <3>2. DOMAIN d = 1..Len(d) /\ Len(d) \in Nat
      BY <1>7, ChainFacts
    <3> QED BY <1>1, <3>1, <3>2
  <2>3. Said(c) \subseteq Said(d)
    <3>1. \A k \in 1..Len(c) : c[k].role = "user" =>
             \E j \in 1..Len(d) : d[j].role = "user" /\ c[k].text \subseteq d[j].text
      BY <2>2 DEF LastMaker
    <3> QED BY <1>7, <3>1, SaidMoved
  <2>4. i - 1 <= Len(d) /\ \A k \in 1..(i - 1) : k \in 1..Len(c) /\ k # i
    BY <1>1, <2>2
  <2> QED BY <1>7, <2>2, <2>3, <2>4 DEF d
<1>9. CASE d = RemoveAt(c, i)
  <2>1. /\ Len(d) = Len(c) - 1 /\ (\A k \in 1..(i - 1) : d[k] = c[k])
        /\ \A k \in i..(Len(c) - 1) : d[k] = c[k + 1]
    BY <1>1, <1>9, GapFacts
  <2>2. Said(c) \subseteq Said(d)
    <3>1. ASSUME NEW k \in 1..Len(c), c[k].role = "user"
          PROVE  \E j \in 1..Len(d) : d[j].role = "user" /\ c[k].text \subseteq d[j].text
      <4>1. k # i
        BY <3>1 DEF LastMaker
      <4>2. CASE k < i
        <5>1. k \in 1..(i - 1) /\ k \in 1..Len(d)
          BY <1>1, <2>1, <4>2
        <5> QED BY <2>1, <3>1, <5>1
      <4>3. CASE k > i
        <5>1. k - 1 \in i..(Len(c) - 1) /\ k - 1 \in 1..Len(d) /\ (k - 1) + 1 = k
          BY <1>1, <2>1, <4>3
        <5>2. d[k - 1] = c[k]
          BY <2>1, <5>1
        <5> QED BY <3>1, <5>1, <5>2
      <4> QED BY <1>1, <4>1, <4>2, <4>3
    <3> QED BY <1>7, <3>1, SaidMoved
  <2>3. i - 1 <= Len(d)
    BY <1>1, <2>1
  <2> QED BY <1>7, <2>1, <2>2, <2>3 DEF d
<1> QED BY <1>5, <1>8, <1>9

\* The calls of the last turn.
LastCalls(c) == UNION {c[i].calls : i \in {i \in DOMAIN c : HasCalls(c[i]) /\ IsTail(c, i)}}

\* After the payload of a tail there is nobody who calls.
LEMMA TailFacts ==
    ASSUME NEW W, NEW c \in Chains(W), NEW i \in 1..Len(c), IsTail(c, i)
    PROVE  \A j \in (i + 1)..Len(c) : Continues(c[j]) /\ c[j].calls = {}
<1> SUFFICES ASSUME NEW j \in (i + 1)..Len(c) PROVE Continues(c[j]) /\ c[j].calls = {}
  OBVIOUS
<1>1. Len(c) \in Nat
  BY ChainFacts
<1>2. j \in 1..Len(c) /\ j \in (i + 1)..j
  BY <1>1
<1>3. Continues(c[j])
  BY <1>2 DEF IsTail, GroupOf
<1>4. c[j] \in Lines(W)
  BY <1>2, ChainFacts
<1> QED BY <1>3, <1>4 DEF Lines, Continues, IsPinned

\* An empty reply takes some calls of the last turn and their results, and nothing
\* before that turn nor anything a user says.
LEMMA PurgeKeeps ==
    ASSUME NEW W, NEW c \in Chains(W), NEW ids \in SUBSET LastCalls(c)
    PROVE  LET d == PurgeReply(c, ids)
           IN  /\ d \in Chains(W) /\ Said(c) \subseteq Said(d)
               /\ \/ d = c
                  \/ \E i \in 1..Len(c) :
                        /\ HasCalls(c[i]) /\ c[i].role = "assistant" /\ IsTail(c, i)
                        /\ \A u \in Chains(W) : Starts(u, c) /\ Len(u) = i - 1 /\ Owned(u) => Starts(u, d)
<1> DEFINE makers == {j \in DOMAIN c : c[j].role = "assistant" /\ c[j].calls \cap ids # {}}
           i      == CHOOSE j \in makers : \A k \in makers : k <= j
           purged == [j \in DOMAIN c |-> IF j \in GroupOf(c, i)
                                         THEN [c[j] EXCEPT !.results = @ \ ids] ELSE c[j]]
           e      == RemoveCalls(purged, ids)
           I      == {k \in DOMAIN e : e[k].role = "result" => e[k].results # {}}
           d      == PurgeReply(c, ids)
<1>1. Len(c) \in Nat /\ DOMAIN c = 1..Len(c) /\ \A j \in 1..Len(c) : c[j] \in Lines(W)
  BY ChainFacts
<1>2. d = IF makers = {} THEN c ELSE Only(e, I)
  BY DEF PurgeReply, Those
<1>3. d \in Chains(W)
  BY PurgeFacts
<1>4. makers \in SUBSET (1..Len(c))
  BY <1>1
<1>5. makers # {} => i \in makers /\ \A k \in makers : k <= i
  <2> HIDE DEF makers
  <2> QED BY <1>1, <1>4, EndFacts
<1> HIDE DEF i, d
<1>6. CASE makers = {}
  <2>1. d = c
    BY <1>2, <1>6
  <2> QED BY <1>3, <2>1 DEF d
<1>7. CASE makers # {}
  <2>1. i \in 1..Len(c) /\ c[i].role = "assistant" /\ c[i].calls \cap ids # {} /\ HasCalls(c[i])
    BY <1>1, <1>5, <1>7 DEF HasCalls
  <2>2. LastMaker(c, ids, i)
    BY <1>1, <1>5, <1>7, <2>1 DEF LastMaker
  <2> HIDE DEF makers
  <2>3. IsTail(c, i)
    <3>1. PICK id \in c[i].calls \cap ids : TRUE
      BY <2>1
    <3>2. PICK t \in DOMAIN c : HasCalls(c[t]) /\ IsTail(c, t) /\ id \in c[t].calls
      BY <3>1 DEF LastCalls
    <3>3. t \in 1..Len(c) /\ c[t].role = "assistant" /\ c[t].calls \cap ids # {}
      BY <1>1, <3>1, <3>2 DEF Lines, HasCalls
    <3>4. t <= i
      BY <2>2, <3>3 DEF LastMaker
    <3>5. ~(i \in (t + 1)..Len(c))
      <4>1. \A j \in (t + 1)..Len(c) : c[j].calls = {}
        BY <3>2, <3>3, TailFacts
      <4> QED BY <2>1, <4>1
    <3>6. t = i
      BY <1>1, <2>1, <3>3, <3>4, <3>5
    <3> QED BY <3>2, <3>6
  <2>4. \A j \in 1..Len(c) : j \notin GroupOf(c, i) => purged[j] = c[j]
    BY <1>1
  <2>5. \A j \in 1..Len(c) : /\ purged[j] \in Lines(W) /\ purged[j].role = c[j].role
                             /\ purged[j].calls = c[j].calls /\ purged[j].text = c[j].text
    <3> SUFFICES ASSUME NEW j \in 1..Len(c)
                 PROVE  /\ purged[j] \in Lines(W) /\ purged[j].role = c[j].role
                        /\ purged[j].calls = c[j].calls /\ purged[j].text = c[j].text
      OBVIOUS
    <3>1. c[j] \in Lines(W)
      BY <1>1
    <3>2. [c[j] EXCEPT !.results = @ \ ids] \in Lines(W)
      BY <3>1, ChangedFacts
    <3>3. /\ [c[j] EXCEPT !.results = @ \ ids].role = c[j].role
          /\ [c[j] EXCEPT !.results = @ \ ids].calls = c[j].calls
          /\ [c[j] EXCEPT !.results = @ \ ids].text = c[j].text
      BY <3>1 DEF Lines
    <3>4. purged[j] \in {c[j], [c[j] EXCEPT !.results = @ \ ids]}
      BY <1>1
    <3> HIDE DEF purged
    <3> QED BY <3>1, <3>2, <3>3, <3>4
  <2>6. purged \in Chains(W) /\ Len(purged) = Len(c)
    <3>1. purged = [j \in 1..Len(c) |-> purged[j]]
      BY <1>1
    <3> HIDE DEF purged
    <3>2. purged \in Seq(Lines(W)) /\ Len(purged) = Len(c)
      BY <1>1, <2>5, <3>1
    <3> QED BY <3>2 DEF Chains
  <2> HIDE DEF purged
  <2>7. LastMaker(purged, ids, i)
    BY <2>2, <2>5, <2>6 DEF LastMaker
  <2>8. /\ e \in Chains(W) /\ i - 1 <= Len(e) /\ (\A k \in 1..(i - 1) : e[k] = purged[k])
        /\ Said(purged) \subseteq Said(e)
    BY <2>6, <2>7, RemovedAt
  <2>9. Said(c) \subseteq Said(purged)
    <3>1. \A k \in 1..Len(c) : c[k].role = "user" =>
             \E j \in 1..Len(purged) : purged[j].role = "user" /\ c[k].text \subseteq purged[j].text
      BY <2>5, <2>6
    <3> QED BY <2>6, <3>1, SaidMoved
  <2> HIDE DEF e
  <2>10. I \in SUBSET (1..Len(e)) /\ DOMAIN e = 1..Len(e)
         /\ \A k \in (1..Len(e)) \ I : e[k].role # "user"
    BY <2>8, ChainFacts
  <2>11. \A k \in 1..Len(e) : k \in I <=> (e[k].role = "result" => e[k].results # {})
    BY <2>10
  <2> HIDE DEF I
  <2>12. Said(Only(e, I)) = Said(e)
    BY <2>8, <2>10, SaidOnly
  <2>13. \A k \in 1..(i - 1) : e[k] = c[k]
    <3> SUFFICES ASSUME NEW k \in 1..(i - 1) PROVE e[k] = c[k]
      OBVIOUS
    <3>1. k \in 1..Len(c) /\ k \notin GroupOf(c, i)
      BY <1>1, <2>1 DEF GroupOf
    <3> QED BY <2>4, <2>8, <3>1
  <2>14. ASSUME NEW u \in Chains(W), Starts(u, c), Len(u) = i - 1, Owned(u)
         PROVE  Starts(u, Only(e, I))
    <3>1. Len(u) \in Nat /\ \A k \in 1..Len(u) : e[k] = u[k]
      BY <2>13, <2>14, ChainFacts DEF Starts
    <3>2. Starts(u, e)
      BY <2>8, <2>14, <3>1 DEF Starts
    <3>3. \A k \in 1..Len(u) : k \in I
      <4>1. \A k \in 1..Len(u) : k \in 1..Len(e)
        BY <2>8, <2>14, <3>1, ChainFacts
      <4>2. \A k \in 1..Len(u) : u[k].role = "result" => u[k].results # {}
        BY <2>14 DEF Owned, Owns
      <4> QED BY <2>11, <3>1, <4>1, <4>2
    <3>4. (1..Len(u)) \cap (1..Len(u)) = I \cap (1..Len(u))
      BY <3>3
    <3>5. u \in Seq(Lines(W)) /\ e \in Seq(Lines(W))
      BY <2>8, ChainFacts
    <3>6. Starts(Only(u, 1..Len(u)), Only(e, I))
      BY <3>2, <3>4, <3>5, OnlyStarts
    <3>7. Only(u, 1..Len(u)) = u
      <4>1. Len(u) \in 0..Len(u)
        BY <3>1
      <4>2. Only(u, 1..Len(u)) = SubSeq(u, 1, Len(u))
        BY <3>5, <4>1, OnlyPrefix
      <4> QED BY <3>5, <4>2, SubSeqFull
    <3> QED BY <3>6, <3>7
  <2>15. d = Only(e, I)
    BY <1>2, <1>7
  <2> QED BY <1>3, <2>1, <2>3, <2>8, <2>9, <2>12, <2>14, <2>15 DEF d
<1> QED BY <1>6, <1>7

\* What comes first, without its last part.
LEMMA FrontFacts ==
    ASSUME NEW S, NEW s \in Seq(S), NEW t \in Seq(S), IsPrefix(s, t)
    PROVE  /\ s # <<>> => IsPrefix(Front(s), t)
           /\ \A x \in S : IsPrefix(Front(Append(s, x)), t)
           /\ \A u \in Seq(S) : IsPrefix(t, u) => IsPrefix(s, u)
<1>1. /\ Len(s) \in Nat /\ Len(t) \in Nat /\ SubSeq(s, 1, Len(s)) = s
      /\ \A i \in 1..Len(s) : s[i] \in S
  BY LenProperties, SubSeqFull, ElementOfSeq
<1>2. Len(s) <= Len(t) /\ s = SubSeq(t, 1, Len(s))
  BY <1>1 DEF IsPrefix
<1>3. \A k \in 1..Len(s) : s[k] = t[k]
  <2>1. \A i \in 1..Len(s) : t[i] \in S
    BY <1>1, <1>2, ElementOfSeq
  <2>2. \A k \in 1..(Len(s) - 1 + 1) : SubSeq(t, 1, Len(s))[k] = t[1 + k - 1]
    BY <1>1, <2>1, SubSeqProperties
  <2> QED BY <1>1, <1>2, <2>2
<1>4. ASSUME NEW u \in Seq(S), IsPrefix(t, u) PROVE IsPrefix(s, u)
  <2>1. Len(u) \in Nat /\ SubSeq(t, 1, Len(t)) = t /\ \A i \in 1..Len(t) : t[i] \in S
    BY LenProperties, SubSeqFull, ElementOfSeq
  <2>2. Len(t) <= Len(u) /\ t = SubSeq(u, 1, Len(t))
    BY <1>4, <2>1 DEF IsPrefix
  <2>3. \A k \in 1..Len(t) : t[k] = u[k]
    <3>1. \A i \in 1..Len(t) : u[i] \in S
      BY <1>1, <2>1, <2>2, ElementOfSeq
    <3>2. \A k \in 1..(Len(t) - 1 + 1) : SubSeq(u, 1, Len(t))[k] = u[1 + k - 1]
      BY <1>1, <2>1, <3>1, SubSeqProperties
    <3> QED BY <1>1, <2>2, <3>2
  <2>4. \A k \in 1..Len(s) : s[k] = u[k]
    BY <1>1, <1>2, <1>3, <2>3
  <2>5. Len(s) \in 0..Len(s) /\ Len(s) <= Len(u)
    BY <1>1, <1>2, <2>1, <2>2
  <2>6. SubSeq(s, 1, Len(s)) = SubSeq(u, 1, Len(s))
    BY <2>4, <2>5, PrefixSame
  <2> QED BY <2>5, <2>6 DEF IsPrefix
<1>5. ASSUME s # <<>> PROVE IsPrefix(Front(s), t)
  <2> DEFINE m == Len(s) - 1
             f == SubSeq(s, 1, m)
  <2>1. m \in 0..Len(s) /\ m <= Len(t) /\ m \in Nat
    <3>1. Len(s) # 0
      BY <1>5, EmptySeq
    <3> QED BY <1>1, <1>2, <3>1
  <2>2. f \in Seq(S) /\ Len(f) = m
    <3>1. \A i \in 1..m : s[i] \in S
      BY <1>1, <2>1
    <3>2. f \in Seq(S) /\ Len(f) = IF 1 <= m THEN m - 1 + 1 ELSE 0
      BY <2>1, <3>1, SubSeqProperties
    <3> HIDE DEF f, m
    <3> QED BY <2>1, <3>2
  <2>3. f = SubSeq(t, 1, m)
    <3>1. \A k \in 1..m : s[k] = t[k]
      BY <1>1, <1>3, <2>1
    <3> HIDE DEF m
    <3> QED BY <2>1, <3>1, PrefixSame
  <2>4. SubSeq(f, 1, Len(f)) = f
    BY <2>2, SubSeqFull
  <2>5. Front(s) = f
    BY DEF Front
  <2> HIDE DEF f, m
  <2> QED BY <2>1, <2>2, <2>3, <2>4, <2>5 DEF IsPrefix
<1>6. ASSUME NEW x \in S PROVE IsPrefix(Front(Append(s, x)), t)
  <2>1. /\ Append(s, x) \in Seq(S) /\ Len(Append(s, x)) = Len(s) + 1
        /\ \A k \in 1..Len(s) : Append(s, x)[k] = s[k]
    BY AppendProperties
  <2>2. Front(Append(s, x)) = SubSeq(Append(s, x), 1, Len(s))
    <3>1. Len(Append(s, x)) - 1 = Len(s)
      BY <1>1, <2>1
    <3> QED BY <3>1 DEF Front
  <2>3. SubSeq(Append(s, x), 1, Len(s)) = SubSeq(s, 1, Len(s))
    <3>1. Len(s) \in 0..Len(Append(s, x)) /\ Len(s) <= Len(s)
      BY <1>1, <2>1
    <3> QED BY <2>1, <3>1, PrefixSame
  <2> QED BY <1>1, <2>2, <2>3
<1> QED BY <1>4, <1>5, <1>6

-----------------------------------------------------------------------------
(* The turns of one chain in the next                                      *)

\* The settled turns of c are in d as they were.
Stays(c, d) == Turns(c) # <<>> => IsPrefix(Front(Turns(c)), Turns(d))

\* c has the turns of a settled chain it starts with, and at most one more, which is
\* settled too.
After(u, c) == Groups(c) = Groups(u) \/ \E x \in Closed : Groups(c) = Append(Groups(u), x)

Held(W, c) ==
    Met(c, {}, 0) /\ \E u \in Chains(W) : Settled(u) /\ Starts(u, c) /\ After(u, c)

\* What has all turns of c, or all but the last, has the settled ones.
LEMMA StaysFacts ==
    ASSUME NEW s \in Seq(Closed), NEW c, Turns(c) = s \/ \E x \in Closed : Turns(c) = Append(s, x),
           NEW d, Turns(d) \in Seq(Closed), IsPrefix(s, Turns(d))
    PROVE  Stays(c, d)
<1> DEFINE t == Turns(d)
<1>1. t \in Seq(Closed) /\ IsPrefix(s, t)
  OBVIOUS
<1> HIDE DEF t
<1>2. s # <<>> => IsPrefix(Front(s), t)
  BY <1>1, FrontFacts
<1>3. \A x \in Closed : IsPrefix(Front(Append(s, x)), t)
  BY <1>1, FrontFacts
<1> QED BY <1>2, <1>3 DEF Stays, t

\* So a settled chain and one nobody called in are held,
LEMMA HeldFacts ==
    ASSUME NEW W, NEW c \in Chains(W)
    PROVE  /\ Settled(c) => Held(W, c)
           /\ Uncalled(c) => Held(W, c)
<1>1. ASSUME Settled(c) PROVE Held(W, c)
  <2>1. Starts(c, c)
    BY StartsFacts
  <2> QED BY <1>1, <2>1 DEF Held, Settled, After
<1>2. ASSUME Uncalled(c) PROVE Held(W, c)
  <2> DEFINE u == <<>>
  <2>1. u \in Chains(W) /\ Starts(u, c) /\ Settled(u)
    BY ChainFacts, StartsFacts, EmptySettled
  <2>2. Uncalled(u)
    BY DEF Uncalled
  <2> HIDE DEF u
  <2>3. Groups(u) = Groups(c) /\ Met(c, {}, 0)
    <3>1. Groups(u) = <<>>
      BY <2>1, <2>2, UncalledGroups
    <3>2. Groups(c) = <<>> /\ Met(c, {}, 0)
      BY <1>2, UncalledGroups
    <3> QED BY <3>1, <3>2
  <2> QED BY <2>1, <2>3 DEF Held, After
<1> QED BY <1>1, <1>2

\* and preparing a chain that is held keeps its settled turns and what was said.
LEMMA HeldPrepared ==
    ASSUME NEW W, Words \subseteq W, NEW c \in Chains(W), Held(W, c)
    PROVE  LET d == Prepare(c)
           IN  /\ d \in Chains(W) /\ Settled(d) /\ Said(c) \subseteq Said(d)
               /\ Stays(c, d)
               /\ \A e \in Chains(W) : Settled(e) /\ Groups(e) = Groups(d) => Stays(c, e)
<1> DEFINE d == Prepare(c)
<1>1. PICK u \in Chains(W) : Settled(u) /\ Starts(u, c) /\ After(u, c)
  BY DEF Held
<1>2. /\ d \in Chains(W) /\ Settled(d) /\ Said(c) \subseteq Said(d)
      /\ IsPrefix(Groups(u), Groups(d))
  BY <1>1, PrepareKeeps
<1>3. Turns(c) = Groups(c)
  BY MetTurns DEF Held
<1> HIDE DEF d
<1>4. ASSUME NEW e \in Chains(W), Settled(e), Groups(e) = Groups(d) PROVE Stays(c, e)
  <2>1. Turns(e) = Groups(d)
    BY <1>4, SettledTurns
  <2>2. Groups(u) \in Seq(Closed) /\ Groups(d) \in Seq(Closed)
    BY <1>1, <1>2, MadeFacts, GroupsAppend
  <2>3. Turns(c) = Groups(u) \/ \E x \in Closed : Turns(c) = Append(Groups(u), x)
    BY <1>1, <1>3 DEF After
  <2> QED BY <1>2, <2>1, <2>2, <2>3, StaysFacts
<1> QED BY <1>2, <1>4 DEF d

\* The results of all open calls meet them.
LEMMA ResultMeets ==
    ASSUME NEW W, NEW c \in Chains(W), NEW open, Met(c, open, Len(c)), NEW r \in Lines(W),
           r.role = "result", open \subseteq r.results
    PROVE  Met(Append(c, r), {}, 0)
<1> DEFINE d == Append(c, r)
           n == Len(c) + 1
<1>1. /\ d \in Chains(W) /\ Len(d) = n /\ d[n] = r /\ n \in Nat /\ Len(c) \in Nat
      /\ \A k \in 1..Len(c) : d[k] = c[k]
      /\ \A i, j \in 1..Len(c) : InGroup(d, i, j) <=> InGroup(c, i, j)
      /\ \A i \in 1..Len(c) : InGroup(d, i, n) <=>
            r.role = "result" /\ \A k \in (i + 1)..Len(c) : Continues(c[k])
  BY AppendGroups, ChainFacts
<1> HIDE DEF d
<1>2. ASSUME NEW i \in 1..Len(d), NEW id \in d[i].calls
      PROVE  \E j \in 1..Len(d) : InGroup(d, i, j) /\ id \in d[j].results
  <2>1. r.calls = {}
    BY DEF Lines
  <2>2. i \in 1..Len(c) /\ id \in c[i].calls
    <3>1. i # n
      BY <1>1, <1>2, <2>1
    <3>2. i \in 1..Len(c)
      BY <1>1, <3>1
    <3> QED BY <1>1, <1>2, <3>2
  <2>3. CASE i = Len(c) /\ id \in open
    <3>1. InGroup(d, i, n) /\ id \in d[n].results /\ n \in 1..Len(d)
      <4>1. \A k \in (i + 1)..Len(c) : FALSE
        BY <1>1, <2>3
      <4>2. n \in 1..n
        BY <1>1
      <4> QED BY <1>1, <2>2, <2>3, <4>1, <4>2
    <3> QED BY <3>1
  <2>4. CASE ~(i = Len(c) /\ id \in open)
    <3>1. PICK j \in 1..Len(c) : InGroup(c, i, j) /\ id \in c[j].results
      BY <2>2, <2>4 DEF Met
    <3>2. j \in 1..Len(d)
      BY <1>1
    <3> QED BY <1>1, <2>2, <3>1, <3>2
  <2> QED BY <2>3, <2>4
<1> QED BY <1>2 DEF Met, d

\* After a round all calls that are left have their results: the round is a turn after
\* those before it, if any call is left.
LEMMA RoundHeld ==
    ASSUME NEW W, Words \subseteq W, NEW q \in Chains(W), Settled(q),
           NEW done \in SUBSET CallIds, NEW left \in SUBSET done
    PROVE  LET c == Round(q, left, done)
           IN  /\ c \in Chains(W) /\ Said(c) = Said(q) /\ Starts(q, c)
               /\ Groups(c) = IF left = {} THEN Groups(q)
                              ELSE Append(Groups(q), Group(Assistant({}, left)))
               /\ Held(W, c)
<1> DEFINE p == Assistant({}, left)
           r == Result(done)
           a == IF left = {} THEN q ELSE Append(q, p)
           c == Round(q, left, done)
<1>1. p \in Lines(W) /\ r \in Lines(W) /\ c \in Chains(W)
  BY RoundFacts
<1>2. /\ p.role = "assistant" /\ p.calls = left /\ (left # {} => HasCalls(p))
      /\ r.role = "result" /\ r.results = done /\ r.calls = {} /\ ~HasCalls(r)
  BY DEF Assistant, Result, Payload, HasCalls
<1>3. c = IF done = {} THEN a ELSE Append(a, r)
  BY DEF Round
<1> HIDE DEF p, r, c
<1>4. /\ a \in Chains(W) /\ Said(a) = Said(q) /\ Starts(q, a)
      /\ Groups(a) = IF left = {} THEN Groups(q) ELSE Append(Groups(q), Group(p))
      /\ left = {} => Met(a, {}, 0)
      /\ left # {} => Met(a, left, Len(a))
  <2>1. CASE left = {}
    BY <2>1, StartsFacts DEF Settled
  <2>2. CASE left # {}
    <3>1. a = Append(q, p)
      BY <2>2
    <3>2. Append(q, p) \in Chains(W) /\ Len(Append(q, p)) = Len(q) + 1
      BY <1>1, AppendGroups
    <3>3. Said(Append(q, p)) = Said(q)
      BY <1>1, <1>2, SaidAppend
    <3>4. Starts(q, Append(q, p))
      BY <1>1, StartsFacts
    <3>5. Groups(Append(q, p)) = Append(Groups(q), Group(p))
      BY <1>1, <1>2, <2>2, GroupsAppend
    <3>6. Met(Append(q, p), p.calls, Len(q) + 1)
      BY <1>1, AppendSettles DEF Settled
    <3> HIDE DEF a
    <3> QED BY <1>2, <2>2, <3>1, <3>2, <3>3, <3>4, <3>5, <3>6
  <2> QED BY <2>1, <2>2
<1> HIDE DEF a
<1>5. /\ Said(c) = Said(a) /\ Starts(a, c) /\ Groups(c) = Groups(a) /\ Met(c, {}, 0)
  <2>1. CASE done = {}
    BY <1>3, <1>4, <2>1, StartsFacts
  <2>2. CASE done # {}
    <3>1. c = Append(a, r)
      BY <1>3, <2>2
    <3>2. Said(c) = Said(a) /\ Starts(a, c) /\ Groups(c) = Groups(a)
      BY <1>1, <1>2, <1>4, <3>1, SaidAppend, StartsFacts, GroupsAppend
    <3>3. Met(c, {}, 0)
      <4>1. CASE left = {}
        BY <1>1, <1>2, <1>4, <3>1, <4>1, AppendSettles
      <4>2. CASE left # {}
        BY <1>1, <1>2, <1>4, <3>1, <4>2, ResultMeets
      <4> QED BY <4>1, <4>2
    <3> QED BY <3>2, <3>3
  <2> QED BY <2>1, <2>2
<1>6. Starts(q, c)
  <2>1. \A d : Starts(q, a) /\ Starts(a, d) => Starts(q, d)
    BY <1>4, StartsFacts
  <2> QED BY <1>4, <1>5, <2>1
<1>7. After(q, c)
  <2>1. Group(p) \in Closed
    BY <1>1, GroupsAppend
  <2> QED BY <1>4, <1>5, <2>1 DEF After
<1>8. Held(W, c)
  BY <1>5, <1>6, <1>7 DEF Held
<1> QED BY <1>1, <1>4, <1>5, <1>6, <1>8 DEF c, p

\* The marker of a wait changes nothing of that.
LEMMA SuspendHeld ==
    ASSUME NEW W, Words \subseteq W, NEW c \in Chains(W)
    PROVE  LET d == WithSuspend(c)
           IN  /\ d \in Chains(W) /\ Said(d) = Said(c) /\ Groups(d) = Groups(c) /\ Starts(c, d)
               /\ Held(W, c) => Held(W, d)
               /\ Uncalled(c) => Uncalled(d)
<1> DEFINE d == WithSuspend(c)
<1>1. Suspend \in Lines(W) /\ Suspend.role = "assistant" /\ Suspend.calls = {} /\ ~HasCalls(Suspend)
  BY MadeFacts DEF Suspend, Assistant, Payload, HasCalls
<1>2. d \in {c, Append(c, Suspend)} /\ d \in Chains(W)
  BY SuspendFacts DEF WithSuspend
<1> HIDE DEF d
<1>3. Said(d) = Said(c) /\ Groups(d) = Groups(c) /\ Starts(c, d)
  <2>1. Said(Append(c, Suspend)) = Said(c)
    BY <1>1, SaidAppend
  <2>2. Groups(Append(c, Suspend)) = Groups(c)
    BY <1>1, GroupsAppend
  <2>3. Starts(c, c) /\ Starts(c, Append(c, Suspend))
    BY <1>1, StartsFacts
  <2> QED BY <1>2, <2>1, <2>2, <2>3
<1>4. Met(c, {}, 0) => Met(d, {}, 0)
  BY <1>1, <1>2, AppendSettles
<1>5. ASSUME Held(W, c) PROVE Held(W, d)
  <2>1. PICK u \in Chains(W) : Settled(u) /\ Starts(u, c) /\ After(u, c)
    BY <1>5 DEF Held
  <2>2. Starts(u, d)
    BY <1>3, <2>1, StartsFacts
  <2>3. After(u, d)
    BY <1>3, <2>1 DEF After
  <2> QED BY <1>4, <1>5, <2>1, <2>2, <2>3 DEF Held
<1>6. ASSUME Uncalled(c) PROVE Uncalled(d)
  <2>1. Len(Append(c, Suspend)) = Len(c) + 1 /\ Len(c) \in Nat
        /\ Append(c, Suspend)[Len(c) + 1] = Suspend
        /\ \A k \in 1..Len(c) : Append(c, Suspend)[k] = c[k]
    BY <1>1, ChainFacts, AppendGroups
  <2>2. Uncalled(Append(c, Suspend))
    BY <1>1, <1>6, <2>1 DEF Uncalled
  <2> QED BY <1>2, <1>6, <2>2
<1> QED BY <1>2, <1>3, <1>5, <1>6 DEF d

\* A prompt after a settled chain takes nothing away.
LEMMA PromptKeeps ==
    ASSUME NEW W, Words \subseteq W, NEW c \in Chains(W), Settled(c), NEW text \in (SUBSET W) \ {{}}
    PROVE  LET d == Append(c, User(text))
           IN  /\ d \in Chains(W) /\ Settled(d) /\ Prepare(d) = d
               /\ Said(c) \subseteq Said(d) /\ Groups(d) = Groups(c)
<1> DEFINE p == User(text)
           d == Append(c, p)
<1>1. p \in Lines(W) /\ p.role = "user" /\ p.calls = {} /\ ~HasCalls(p)
  BY MadeFacts DEF User, Payload, HasCalls
<1> HIDE DEF p
<1>2. d \in Chains(W)
  BY <1>1, ChainFacts
<1>3. Follows(d) /\ Owned(d) /\ Met(d, {}, 0)
  BY <1>1, AppendSettles DEF Settled
<1>4. Said(d) = Said(c) \cup p.text
  BY <1>1, SaidAppend
<1>5. Groups(d) = Groups(c)
  BY <1>1, GroupsAppend
<1> HIDE DEF d
<1>6. Settled(d)
  BY <1>3 DEF Settled
<1>7. Prepare(d) = d
  BY <1>2, <1>6, SettledPrepared
<1> QED BY <1>2, <1>4, <1>5, <1>6, <1>7 DEF d, p

\* The chain before the last turn of a round is settled, whether any call of the round
\* is left or not.
LEMMA RoundTail ==
    ASSUME NEW W, Words \subseteq W, NEW q \in Chains(W), Settled(q),
           NEW done \in SUBSET CallIds, NEW left \in SUBSET done,
           NEW c, c = Round(q, left, done), NEW i \in 1..Len(c), IsTail(c, i),
           c[i].role = "assistant", HasCalls(c[i])
    PROVE  \E u \in Chains(W) : Settled(u) /\ Starts(u, c) /\ Len(u) = i - 1 /\ After(u, c)
<1> DEFINE p == Assistant({}, left)
           r == Result(done)
           a == IF left = {} THEN q ELSE Append(q, p)
           N == Len(q)
<1>1. p \in Lines(W) /\ r \in Lines(W)
  BY RoundFacts
<1>2. /\ p.role = "assistant" /\ p.calls = left /\ r.role = "result" /\ r.calls = {}
  BY DEF Assistant, Result, Payload
<1>3. /\ c \in Chains(W) /\ Starts(q, c)
      /\ Groups(c) = IF left = {} THEN Groups(q) ELSE Append(Groups(q), Group(p))
  BY RoundHeld
<1>4. c = IF done = {} THEN a ELSE Append(a, r)
  BY DEF Round
<1> HIDE DEF p, r
<1>5. Len(c) \in Nat /\ N \in Nat /\ N <= Len(c) /\ \A k \in 1..N : c[k] = q[k]
  BY <1>3, ChainFacts DEF Starts
<1>6. \A j \in (i + 1)..Len(c) : Continues(c[j]) /\ c[j].calls = {}
  BY <1>3, TailFacts
<1>7. CASE left # {}
  <2>1. /\ Append(q, p) \in Chains(W) /\ Len(Append(q, p)) = N + 1 /\ Append(q, p)[N + 1] = p
    BY <1>1, AppendGroups
  <2>2. a = Append(q, p)
    BY <1>7
  <2> HIDE DEF a
  <2>3. /\ Len(Append(a, r)) = Len(a) + 1 /\ Append(a, r)[Len(a) + 1] = r
        /\ \A k \in 1..Len(a) : Append(a, r)[k] = a[k]
    <3>1. a \in Chains(W)
      BY <2>1, <2>2
    <3> QED BY <1>1, <3>1, AppendGroups
  <2>4. N + 1 \in 1..Len(c) /\ c[N + 1] = p /\ \A k \in (N + 2)..Len(c) : c[k].role = "result"
    <3>1. CASE done = {}
      <4>1. c = a /\ Len(c) = N + 1
        BY <1>4, <2>1, <2>2, <3>1
      <4> QED BY <1>5, <2>1, <2>2, <4>1
    <3>2. CASE done # {}
      <4>1. c = Append(a, r) /\ Len(c) = N + 2 /\ N + 1 \in 1..Len(a) /\ Len(a) + 1 = N + 2
        BY <1>4, <1>5, <2>1, <2>2, <2>3, <3>2
      <4>2. c[N + 1] = p /\ c[N + 2] = r
        BY <2>1, <2>2, <2>3, <4>1
      <4>3. \A k \in (N + 2)..Len(c) : k = N + 2
        BY <1>5, <4>1
      <4>4. N + 1 \in 1..Len(c)
        BY <1>5, <4>1
      <4> QED BY <1>2, <4>2, <4>3, <4>4
    <3> QED BY <3>1, <3>2
  <2>5. i = N + 1
    <3>1. ~(N + 1 \in (i + 1)..Len(c))
      BY <1>2, <1>6, <2>4 DEF Continues, IsPinned
    <3>2. ~(i \in (N + 2)..Len(c))
      BY <2>4
    <3> QED BY <1>5, <2>4, <3>1, <3>2
  <2>6. After(q, c)
    <3>1. Group(p) \in Closed
      BY <1>1, GroupsAppend
    <3> QED BY <1>3, <1>7, <3>1 DEF After
  <2>7. Len(q) = i - 1
    BY <1>5, <2>5
  <2> QED BY <1>3, <2>6, <2>7
<1>8. CASE left = {}
  <2>1. a = q
    BY <1>8
  <2> HIDE DEF a
  <2>2. i \in 1..N
    <3>1. CASE done = {}
      BY <1>4, <2>1, <3>1
    <3>2. CASE done # {}
      <4>1. c = Append(q, r)
        BY <1>4, <2>1, <3>2
      <4>2. Len(Append(q, r)) = N + 1 /\ Append(q, r)[N + 1] = r
        BY <1>1, AppendGroups
      <4>3. i # N + 1
        BY <1>2, <4>1, <4>2
      <4> QED BY <1>5, <4>1, <4>2, <4>3
    <3> QED BY <3>1, <3>2
  <2>3. q[i] = c[i] /\ ~Continues(q[i]) /\ HasCalls(q[i])
    <3>1. q[i] = c[i]
      BY <1>5, <2>2
    <3> QED BY <3>1 DEF Continues, IsPinned
  <2> DEFINE u == SubSeq(q, 1, i - 1)
  <2>4. u \in Chains(W) /\ Settled(u) /\ Len(u) = i - 1 /\ Starts(u, q)
    <3>1. i - 1 \in 0..(Len(q) - 1) /\ (i - 1) + 1 = i
      BY <1>5, <2>2
    <3>2. ~Continues(q[(i - 1) + 1])
      BY <2>3, <3>1
    <3> HIDE DEF u
    <3> QED BY <3>1, <3>2, PrefixSettles DEF u
  <2>5. Groups(q) = Append(Groups(u), Group(q[i]))
    <3>1. \A j \in (i + 1)..Len(q) : ~HasCalls(q[j])
      <4> SUFFICES ASSUME NEW j \in (i + 1)..Len(q) PROVE ~HasCalls(q[j])
        OBVIOUS
      <4>1. j \in (i + 1)..Len(c) /\ j \in 1..N
        BY <1>5, <2>2
      <4> QED BY <1>5, <1>6, <4>1 DEF HasCalls
    <3> QED BY <2>2, <2>3, <3>1, TailGroups
  <2> HIDE DEF u
  <2>6. Starts(u, c)
    <3>1. \A d : Starts(u, q) /\ Starts(q, d) => Starts(u, d)
      BY <2>4, StartsFacts
    <3> QED BY <1>3, <2>4, <3>1
  <2>7. After(u, c)
    <3>1. Group(q[i]) \in Closed
      <4>1. q[i] \in Lines(W)
        BY <2>2, ChainFacts
      <4> QED BY <4>1, GroupsAppend
    <3> QED BY <1>3, <1>8, <2>5, <3>1 DEF After
  <2> QED BY <2>4, <2>6, <2>7
<1> QED BY <1>7, <1>8

\* When the reply of a round was empty and the model is asked again, nothing that was
\* said is lost and no turn but the last.
LEMMA RoundPurged ==
    ASSUME NEW W, Words \subseteq W, NEW q \in Chains(W), Settled(q),
           NEW done \in SUBSET CallIds, NEW left \in SUBSET done,
           NEW c, c = Round(q, left, done), NEW ids \in SUBSET LastCalls(c), NEW text \in (SUBSET W) \ {{}}
    PROVE  LET d == Prepare(Append(Prepare(PurgeReply(c, ids)), User(text)))
           IN  Said(c) \subseteq Said(d) /\ Stays(c, d)
<1> DEFINE e == PurgeReply(c, ids)
           f == Prepare(e)
           g == Append(f, User(text))
           d == Prepare(g)
<1>1. c \in Chains(W) /\ Starts(q, c) /\ Held(W, c)
  BY RoundHeld
<1>2. /\ e \in Chains(W) /\ Said(c) \subseteq Said(e)
      /\ \/ e = c
         \/ \E i \in 1..Len(c) :
               /\ HasCalls(c[i]) /\ c[i].role = "assistant" /\ IsTail(c, i)
               /\ \A u \in Chains(W) : Starts(u, c) /\ Len(u) = i - 1 /\ Owned(u) => Starts(u, e)
  BY <1>1, PurgeKeeps
<1> HIDE DEF e
<1>3. \E u \in Chains(W) : Settled(u) /\ Starts(u, e) /\ After(u, c)
  <2>1. CASE e = c
    BY <1>1, <2>1 DEF Held
  <2>2. ASSUME NEW i \in 1..Len(c), HasCalls(c[i]), c[i].role = "assistant", IsTail(c, i),
               \A u \in Chains(W) : Starts(u, c) /\ Len(u) = i - 1 /\ Owned(u) => Starts(u, e)
        PROVE  \E u \in Chains(W) : Settled(u) /\ Starts(u, e) /\ After(u, c)
    <3>1. PICK u \in Chains(W) : Settled(u) /\ Starts(u, c) /\ Len(u) = i - 1 /\ After(u, c)
      BY <2>2, RoundTail
    <3>2. Starts(u, e)
      BY <2>2, <3>1 DEF Settled
    <3> QED BY <3>1, <3>2
  <2> QED BY <1>2, <2>1, <2>2
<1>4. PICK u \in Chains(W) : Settled(u) /\ Starts(u, e) /\ After(u, c)
  BY <1>3
<1>5. /\ f \in Chains(W) /\ Settled(f) /\ Said(e) \subseteq Said(f)
      /\ IsPrefix(Groups(u), Groups(f))
  BY <1>2, <1>4, PrepareKeeps
<1> HIDE DEF f
<1>6. g \in Chains(W) /\ Settled(g) /\ d = g /\ Said(f) \subseteq Said(g) /\ Groups(g) = Groups(f)
  BY <1>5, PromptKeeps
<1> HIDE DEF g, d
<1>7. Stays(c, d)
  <2>1. Turns(d) = Groups(f)
    BY <1>6, SettledTurns
  <2>2. Turns(c) = Groups(c)
    BY <1>1, MetTurns DEF Held
  <2>3. Groups(u) \in Seq(Closed) /\ Groups(f) \in Seq(Closed)
    BY <1>4, <1>5, MadeFacts, GroupsAppend
  <2>4. Turns(c) = Groups(u) \/ \E x \in Closed : Turns(c) = Append(Groups(u), x)
    BY <1>4, <2>2 DEF After
  <2> QED BY <1>5, <2>1, <2>3, <2>4, StaysFacts
<1> QED BY <1>2, <1>5, <1>6, <1>7 DEF d, e, f, g

==============================================================================
