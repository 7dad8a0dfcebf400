--------------------------- MODULE DailyLifeProofs ---------------------------
(***************************************************************************)
(* What holds of DailyLife.tla for days of any length, lists of any size   *)
(* and any plans: nothing is shown after its end, the place has something  *)
(* it comes from, whoever looks changes nothing that is seen later, and    *)
(* the bookkeeping by day and minute implements the diary of Diary.tla.    *)
(* The first three parts are about Lists.tla and are those PayloadProofs   *)
(* starts with; the two components share no other module.                  *)
(***************************************************************************)
EXTENDS DailyLife, SequenceTheorems, WellFoundedInduction, TLAPS

-----------------------------------------------------------------------------
(* Induction                                                               *)

\* The order of the naturals, as a relation.
Below == OpToRel(<, Nat)

\* What is less is below.
LEMMA BelowIsLess == \A m, n \in Nat : m < n => <<m, n>> \in Below
BY DEF Below, OpToRel

\* A set of naturals that is not empty has a smallest member.
LEMMA Smallest ==
    ASSUME NEW T \in SUBSET Nat, T # {}
    PROVE  \E n \in T : \A m \in T : n <= m
<1>1. IsWellFoundedOn(Below, Nat)
  BY NatLessThanWellFounded DEF Below
<1>2. PICK x \in T : \A y \in T : ~(<<y, x>> \in Below)
  BY <1>1, WFMin
<1>3. \A y \in T : ~(y < x)
  BY <1>2, BelowIsLess
<1> QED BY <1>3

\* Induction over an interval: a set that has 0 and, with each number of it that
\* is not the last, the next one, has all of it.
LEMMA SetInduction ==
    ASSUME NEW N \in Nat, NEW T,
           0 \in T, \A n \in 0..(N - 1) : n \in T => n + 1 \in T
    PROVE  0..N \subseteq T
<1> SUFFICES ASSUME (0..N) \ T # {} PROVE FALSE
  OBVIOUS
<1>1. PICK n \in (0..N) \ T : \A m \in (0..N) \ T : n <= m
  <2>1. (0..N) \ T \in SUBSET Nat
    OBVIOUS
  <2> QED BY <2>1, Smallest
<1>2. n # 0 /\ n - 1 \in T
  BY <1>1
<1> QED BY <1>1, <1>2

-----------------------------------------------------------------------------
(* Recursion                                                               *)

\* g starts with b and goes on with the step h[m] from m - 1 to m.
Defined(g, b, h, n) == g = [m \in 0..n |-> IF m = 0 THEN b ELSE h[m][g[m - 1]]]

\* There is a function that is defined so, and its values stay in A.
LEMMA Recursion ==
    ASSUME NEW A, NEW b \in A, NEW N \in Nat, NEW h \in [1..N -> [A -> A]]
    PROVE  \E g \in [0..N -> A] : Defined(g, b, h, N)
<1> DEFINE T == {n \in 0..N : \E g \in [0..n -> A] : Defined(g, b, h, n)}
<1>1. 0 \in T
  <2> DEFINE g == [m \in 0..0 |-> b]
  <2>1. g \in [0..0 -> A] /\ Defined(g, b, h, 0)
    BY DEF Defined
  <2> QED BY <2>1
<1>2. ASSUME NEW n \in 0..(N - 1), n \in T
      PROVE  n + 1 \in T
  <2>1. PICK f \in [0..n -> A] : Defined(f, b, h, n)
    BY <1>2
  <2>2. h[n + 1][f[n]] \in A
    <3>1. f[n] \in A /\ n + 1 \in 1..N
      BY <2>1
    <3> QED BY <3>1
  <2> DEFINE g == [m \in 0..(n + 1) |-> IF m = n + 1 THEN h[n + 1][f[n]] ELSE f[m]]
  <2>3. g \in [0..(n + 1) -> A]
    <3>1. ASSUME NEW m \in 0..(n + 1) PROVE g[m] \in A
      <4>1. CASE m = n + 1
        BY <2>2, <4>1
      <4>2. CASE m # n + 1
        BY <4>2, m \in 0..n
      <4> QED BY <4>1, <4>2
    <3> QED BY <3>1
  <2>4. ASSUME NEW m \in 0..(n + 1)
        PROVE  g[m] = IF m = 0 THEN b ELSE h[m][g[m - 1]]
    <3>1. CASE m = n + 1
      <4>1. m # 0 /\ m - 1 = n /\ n \in 0..(n + 1) /\ n # n + 1
        BY <3>1
      <4>2. g[n] = f[n] /\ g[m] = h[n + 1][f[n]]
        BY <3>1, <4>1
      <4> QED BY <3>1, <4>1, <4>2
    <3>2. CASE m # n + 1
      <4>1. m \in 0..n /\ (m # 0 => m - 1 \in 0..n /\ m - 1 # n + 1)
        BY <3>2
      <4>2. f[m] = IF m = 0 THEN b ELSE h[m][f[m - 1]]
        BY <2>1, <4>1 DEF Defined
      <4>3. g[m] = f[m] /\ (m # 0 => g[m - 1] = f[m - 1])
        BY <3>2, <4>1
      <4> QED BY <4>2, <4>3
    <3> QED BY <3>1, <3>2
  <2>5. Defined(g, b, h, n + 1)
    BY <2>3, <2>4 DEF Defined
  <2> HIDE DEF g
  <2>6. n + 1 \in 0..N
    OBVIOUS
  <2> QED BY <2>3, <2>5, <2>6
<1>3. 0..N \subseteq T
  BY <1>1, <1>2, SetInduction
<1> QED BY <1>3

-----------------------------------------------------------------------------
(* List comprehensions                                                     *)

\* The recursion of Only.
Taking(taken, s, I) ==
    taken = [n \in 0..Len(s) |->
               IF n = 0 THEN <<>>
               ELSE IF n \in I THEN Append(taken[n - 1], s[n]) ELSE taken[n - 1]]

\* The recursion of Only is well defined.
LEMMA OnlyUnfolds ==
    ASSUME NEW S, NEW s \in Seq(S), NEW I
    PROVE  \E taken \in [0..Len(s) -> Seq(S)] :
              Taking(taken, s, I) /\ Only(s, I) = taken[Len(s)]
<1> DEFINE N == Len(s)
           h == [n \in 1..N |-> [t \in Seq(S) |-> IF n \in I THEN Append(t, s[n]) ELSE t]]
           taken == CHOOSE t : Taking(t, s, I)
<1>1. N \in Nat /\ h \in [1..N -> [Seq(S) -> Seq(S)]] /\ <<>> \in Seq(S)
  <2>1. ASSUME NEW n \in 1..N, NEW t \in Seq(S)
        PROVE  (IF n \in I THEN Append(t, s[n]) ELSE t) \in Seq(S)
    <3>1. s[n] \in S
      OBVIOUS
    <3> QED BY <3>1
  <2> QED BY <2>1
<1>2. PICK g \in [0..N -> Seq(S)] : Defined(g, <<>>, h, N)
  <2> HIDE DEF N, h
  <2> QED BY <1>1, Recursion
<1>3. \A n \in 0..N : g[n] = IF n = 0 THEN <<>>
                             ELSE IF n \in I THEN Append(g[n - 1], s[n]) ELSE g[n - 1]
  <2>1. ASSUME NEW n \in 0..N, n # 0
        PROVE  g[n] = h[n][g[n - 1]]
    BY <1>2, <2>1 DEF Defined
  <2>2. \A n \in 0..N : n # 0 => n \in 1..N /\ g[n - 1] \in Seq(S)
    BY <1>1, <1>2
  <2>3. g[0] = <<>>
    BY <1>1, <1>2 DEF Defined
  <2> QED BY <2>1, <2>2, <2>3
<1>4. Taking(g, s, I)
  BY <1>2, <1>3 DEF Taking
<1>5. Taking(taken, s, I)
  BY <1>4
<1>6. Only(s, I) = taken[N]
  BY DEF Only, Taking
<1> HIDE DEF taken
<1>7. taken \in [0..N -> Seq(S)]
  <2> DEFINE T == {n \in 0..N : taken[n] \in Seq(S)}
  <2>1. 0 \in T
    BY <1>1, <1>5 DEF Taking
  <2>2. ASSUME NEW n \in 0..(N - 1), n \in T PROVE n + 1 \in T
    <3>1. n + 1 \in 0..N /\ n + 1 # 0 /\ (n + 1) - 1 = n /\ s[n + 1] \in S
      BY <1>1
    <3>2. taken[n + 1] = IF n + 1 \in I THEN Append(taken[n], s[n + 1]) ELSE taken[n]
      BY <1>5, <3>1 DEF Taking
    <3>3. taken[n] \in Seq(S)
      BY <2>2
    <3>4. taken[n + 1] \in Seq(S)
      BY <3>1, <3>2, <3>3, AppendProperties
    <3> QED BY <3>1, <3>4
  <2>3. 0..N \subseteq T
    <3> HIDE DEF T, N
    <3> QED BY <1>1, <2>1, <2>2, SetInduction
  <2> QED BY <1>5, <2>3 DEF Taking
<1> QED BY <1>5, <1>6, <1>7

\* o has the elements of s at the indices I and no other, in their order; at[k]
\* is the index where the element k of o was.
Picked(o, s, I, at) ==
    /\ at \in [1..Len(o) -> I]
    /\ \A k \in 1..Len(o) : o[k] = s[at[k]]
    /\ \A j, k \in 1..Len(o) : j < k => at[j] < at[k]
    /\ \A i \in I : \E k \in 1..Len(o) : at[k] = i

\* Only picks these elements.
LEMMA OnlyPicks ==
    ASSUME NEW S, NEW s \in Seq(S), NEW I \in SUBSET (1..Len(s))
    PROVE  Only(s, I) \in Seq(S) /\ \E at : Picked(Only(s, I), s, I, at)
<1> DEFINE N == Len(s)
<1>1. N \in Nat
  OBVIOUS
<1>2. PICK t \in [0..N -> Seq(S)] : Taking(t, s, I) /\ Only(s, I) = t[N]
  BY OnlyUnfolds
<1> DEFINE T == {n \in 0..N : \E at : Picked(t[n], s, I \cap (1..n), at)}
<1>3. 0 \in T
  <2>1. t[0] = <<>> /\ I \cap (1..0) = {}
    BY <1>1, <1>2 DEF Taking
  <2> DEFINE none == [k \in 1..0 |-> 0]
  <2>2. Picked(<<>>, s, {}, none)
    BY DEF Picked
  <2> QED BY <1>1, <2>1, <2>2
<1>4. ASSUME NEW n \in 0..(N - 1), n \in T PROVE n + 1 \in T
  <2>1. n + 1 \in 0..N /\ n + 1 # 0 /\ (n + 1) - 1 = n /\ s[n + 1] \in S /\ n \in 0..N
    BY <1>1
  <2>2. t[n] \in Seq(S) /\ t[n + 1] = IF n + 1 \in I THEN Append(t[n], s[n + 1]) ELSE t[n]
    BY <1>2, <2>1 DEF Taking
  <2>3. PICK at : Picked(t[n], s, I \cap (1..n), at)
    BY <1>4
  <2>4. CASE n + 1 \notin I
    <3>1. I \cap (1..(n + 1)) = I \cap (1..n) /\ t[n + 1] = t[n]
      BY <2>1, <2>2, <2>4
    <3> QED BY <2>1, <2>3, <3>1
  <2>5. CASE n + 1 \in I
    <3> DEFINE o  == t[n]
               J  == I \cap (1..n)
               K  == I \cap (1..(n + 1))
               on == Append(o, s[n + 1])
               m  == Len(o)
               an == [k \in 1..(m + 1) |-> IF k = m + 1 THEN n + 1 ELSE at[k]]
    <3>1. /\ t[n + 1] = on /\ o \in Seq(S) /\ on \in Seq(S) /\ m \in Nat
          /\ Len(on) = m + 1 /\ on[m + 1] = s[n + 1]
          /\ \A k \in 1..m : on[k] = o[k]
      BY <2>1, <2>2, <2>5, AppendProperties
    <3>2. K = J \cup {n + 1} /\ \A i \in J : i < n + 1
      BY <2>1, <2>5
    <3>3. /\ at \in [1..m -> J]
          /\ \A k \in 1..m : o[k] = s[at[k]]
          /\ \A j, k \in 1..m : j < k => at[j] < at[k]
          /\ \A i \in J : \E k \in 1..m : at[k] = i
      BY <2>3 DEF Picked
    <3> HIDE DEF o, J, K, on, m
    <3>4. \A k \in 1..m : k \in 1..(m + 1) /\ an[k] = at[k] /\ at[k] \in J
      BY <3>1, <3>3
    <3>5. m + 1 \in 1..(m + 1) /\ an[m + 1] = n + 1
      BY <3>1
    <3>6. \A k \in 1..(m + 1) : k = m + 1 \/ (k \in 1..m /\ k < m + 1)
      BY <3>1
    <3> HIDE DEF an
    <3>7. an \in [1..(m + 1) -> K]
      <4>1. \A k \in 1..(m + 1) : an[k] \in K
        BY <3>2, <3>4, <3>5, <3>6
      <4>2. an = [k \in 1..(m + 1) |-> an[k]]
        BY DEF an
      <4> QED BY <4>1, <4>2
    <3>8. \A k \in 1..(m + 1) : on[k] = s[an[k]]
      BY <3>1, <3>3, <3>4, <3>5, <3>6
    <3>9. ASSUME NEW j \in 1..(m + 1), NEW k \in 1..(m + 1), j < k
          PROVE  an[j] < an[k]
      <4>1. j \in 1..m
        BY <3>1, <3>9
      <4>2. CASE k \in 1..m
        BY <3>3, <3>4, <3>9, <4>1, <4>2
      <4>3. CASE k = m + 1
        BY <3>2, <3>4, <3>5, <4>1, <4>3
      <4> QED BY <3>6, <4>2, <4>3
    <3>10. \A i \in K : \E k \in 1..(m + 1) : an[k] = i
      BY <3>2, <3>3, <3>4, <3>5
    <3>11. Picked(on, s, K, an)
      BY <3>1, <3>7, <3>8, <3>9, <3>10 DEF Picked
    <3> QED BY <2>1, <3>1, <3>11 DEF K
  <2> QED BY <2>4, <2>5
<1>5. 0..N \subseteq T
  <2> HIDE DEF T, N
  <2> QED BY <1>1, <1>3, <1>4, SetInduction
<1>6. \E at : Picked(t[N], s, I \cap (1..N), at)
  BY <1>1, <1>5
<1>7. t[N] \in Seq(S)
  BY <1>1, <1>2
<1>8. I \cap (1..N) = I
  OBVIOUS
<1> QED BY <1>2, <1>6, <1>7, <1>8

\* Nothing is added by it.
LEMMA OnlyShorter ==
    ASSUME NEW S, NEW s \in Seq(S), NEW I
    PROVE  Len(Only(s, I)) <= Len(s)
<1> DEFINE N == Len(s)
<1>1. N \in Nat
  OBVIOUS
<1>2. PICK t \in [0..N -> Seq(S)] : Taking(t, s, I) /\ Only(s, I) = t[N]
  BY OnlyUnfolds
<1> DEFINE T == {n \in 0..N : Len(t[n]) <= n}
<1>3. 0 \in T
  BY <1>1, <1>2 DEF Taking
<1>4. ASSUME NEW n \in 0..(N - 1), n \in T PROVE n + 1 \in T
  <2>1. n + 1 \in 0..N /\ n + 1 # 0 /\ (n + 1) - 1 = n /\ s[n + 1] \in S /\ t[n] \in Seq(S)
    BY <1>1, <1>2
  <2>2. t[n + 1] = IF n + 1 \in I THEN Append(t[n], s[n + 1]) ELSE t[n]
    BY <1>2, <2>1 DEF Taking
  <2>3. Len(t[n + 1]) <= Len(t[n]) + 1
    BY <2>1, <2>2, AppendProperties
  <2>4. Len(t[n]) <= n /\ Len(t[n]) \in Nat /\ Len(t[n + 1]) \in Nat
    <3>1. t[n + 1] \in Seq(S)
      BY <1>2, <2>1
    <3> QED BY <1>4, <2>1, <3>1
  <2>5. Len(t[n + 1]) <= n + 1
    BY <2>3, <2>4
  <2> QED BY <2>1, <2>5
<1>5. 0..N \subseteq T
  <2> HIDE DEF T, N
  <2> QED BY <1>1, <1>3, <1>4, SetInduction
<1> QED BY <1>1, <1>2, <1>5

-----------------------------------------------------------------------------
(* Days and minutes                                                        *)

\* A time is a day and a minute of it.
LEMMA DayFacts ==
    ASSUME NEW t \in Nat
    PROVE  /\ Day(t) \in Nat /\ Minute(t) \in 0..(Slots - 1) /\ t = Day(t) * Slots + Minute(t)
           /\ Minute(t) \in Clock /\ Slots \in Nat \ {0}
BY DailyLifeAssumption DEF Day, Minute, Clock

\* They go by in their order.
LEMMA LaterFacts ==
    ASSUME NEW n \in Nat, NEW t \in Nat, n <= t
    PROVE  Day(n) <= Day(t) /\ (Day(n) = Day(t) => Minute(n) <= Minute(t))
BY DailyLifeAssumption DEF Day, Minute

\* The midnights before and after a time.
LEMMA Midnights ==
    ASSUME NEW t \in Nat, NEW d \in Nat
    PROVE  /\ d * Slots \in Nat /\ (d + 1) * Slots = d * Slots + Slots
           /\ (d + 2) * Slots = d * Slots + Slots + Slots
           /\ Day(t) <= d => t < d * Slots + Slots
           /\ d < Day(t) => d * Slots + Slots <= t
           /\ d = Day(t) => t = d * Slots + Minute(t)
           /\ Day(t) = d + 1 => t = d * Slots + Slots + Minute(t)
           /\ d + 2 <= Day(t) => d * Slots + Slots + Slots <= t
<1>1. /\ Day(t) \in Nat /\ Minute(t) \in 0..(Slots - 1) /\ t = Day(t) * Slots + Minute(t)
      /\ Slots \in Nat \ {0}
  BY DayFacts
<1>2. \A a, b \in Nat : a <= b => a * Slots <= b * Slots
  BY <1>1
<1>3. \A a \in Nat : /\ a * Slots \in Nat /\ (a + 1) * Slots = a * Slots + Slots
                     /\ (a + 2) * Slots = a * Slots + Slots + Slots
  BY <1>1
<1>4. /\ Day(t) <= d => Day(t) * Slots <= d * Slots
      /\ d < Day(t) => (d + 1) * Slots <= Day(t) * Slots
      /\ d + 2 <= Day(t) => (d + 2) * Slots <= Day(t) * Slots
  <2>1. d < Day(t) => d + 1 <= Day(t)
    BY <1>1
  <2>2. d + 1 \in Nat /\ d + 2 \in Nat
    OBVIOUS
  <2> QED BY <1>1, <1>2, <2>1, <2>2
<1> DEFINE x == Day(t) * Slots
           y == d * Slots
<1>5. /\ x \in Nat /\ y \in Nat /\ Slots \in Nat \ {0} /\ t = x + Minute(t)
      /\ Minute(t) \in 0..(Slots - 1) /\ Day(t) \in Nat
      /\ Day(t) <= d => x <= y
      /\ d < Day(t) => y + Slots <= x
      /\ d + 2 <= Day(t) => y + Slots + Slots <= x
      /\ d = Day(t) => x = y
      /\ Day(t) = d + 1 => x = y + Slots
      /\ (d + 1) * Slots = y + Slots /\ (d + 2) * Slots = y + Slots + Slots
  BY <1>1, <1>3, <1>4
<1> HIDE DEF x, y
<1> QED BY <1>5 DEF y

-----------------------------------------------------------------------------
(* One plan                                                                *)

\* What the operations make: a statement has a start, is in force until it is
\* called off or over, and its stamp is the next time the clock shows its end;
\* a plan has no stamp.
Sound(p) ==
    /\ p.source = "commit" =>
         /\ p.start # None /\ p.status \in {"confirmed", "active", "cancelled", "expired"}
         /\ p.until = IF p.end = None THEN None
                      ELSE p.day * Slots + p.end + (IF p.end > p.start THEN 0 ELSE Slots)
    /\ p.source = "planned" => p.until = None

\* A plan has its fields, and an effective end just when it has a start.
LEMMA PlanFacts ==
    ASSUME NEW p \in Plans
    PROVE  /\ p.id \in Ids /\ p.source \in {"planned", "commit"} /\ p.start \in Clock \cup {None}
           /\ p.end \in Clock \cup {None} /\ p.until \in Nat \cup {None} /\ p.day \in Nat
           /\ EffectiveEnd(p) \in Clock \cup {None}
           /\ p.start = None <=> EffectiveEnd(p) = None
           /\ p.end # None /\ p.start # None => EffectiveEnd(p) = p.end
           /\ None \notin Clock /\ Clock \subseteq Int /\ Clock \subseteq Nat /\ None \in Int
           /\ \A c \in Clock : c < Slots
<1>1. /\ p.id \in Ids /\ p.source \in {"planned", "commit"} /\ p.start \in Clock \cup {None}
      /\ p.end \in Clock \cup {None} /\ p.until \in Nat \cup {None} /\ p.day \in Nat
  BY DEF Plans
<1>2. /\ None \notin Clock /\ Clock \subseteq Int /\ Clock \subseteq Nat /\ None \in Int
      /\ \A c \in Clock : c < Slots
  BY DailyLifeAssumption DEF Clock, None
<1>3. p.start \in Clock => (p.start + TwoHours) % Slots \in Clock
  BY DailyLifeAssumption DEF Clock
<1> QED BY <1>1, <1>2, <1>3 DEF EffectiveEnd

\* What an entry's end is made of.
LEMMA EndFacts ==
    ASSUME NEW p \in Plans, Sound(p)
    PROVE  /\ End(p) \in Nat
           /\ Overnight(p) => End(p) = p.day * Slots + Slots + EffectiveEnd(p)
           /\ ~Overnight(p) /\ (p.start = None \/ p.start = EffectiveEnd(p)
                                  \/ (p.source = "commit" /\ p.end = None))
                => End(p) = p.day * Slots + Slots
           /\ ~Overnight(p) /\ p.start # None /\ p.start # EffectiveEnd(p)
                 /\ (p.source = "commit" => p.end # None)
                => End(p) = p.day * Slots + EffectiveEnd(p) /\ p.start < EffectiveEnd(p)
<1>1. /\ p.source \in {"planned", "commit"} /\ p.start \in Clock \cup {None} /\ p.end \in Clock \cup {None}
      /\ EffectiveEnd(p) \in Clock \cup {None} /\ p.day \in Nat
      /\ p.start = None <=> EffectiveEnd(p) = None
      /\ None \notin Clock /\ Clock \subseteq Int /\ Clock \subseteq Nat /\ None \in Int /\ None < 0
  BY PlanFacts DEF None
<1>2. p.day * Slots \in Nat /\ (p.day + 1) * Slots = p.day * Slots + Slots /\ Slots \in Nat
  BY <1>1, Midnights, DayFacts, 0 \in Nat
<1> DEFINE e == EffectiveEnd(p)
           m == p.day * Slots
<1>3. Overnight(p) <=> p.start > e /\ e # None
  BY DEF Overnight
<1>4. m \in Nat /\ Slots \in Nat /\ (p.day + 1) * Slots = m + Slots
  BY <1>2
<1>5. e \in Int /\ p.start \in Int /\ (e # None => e \in Nat) /\ (p.start = None <=> e = None)
  BY <1>1
<1>6. End(p) = IF \/ p.start = None \/ p.start = e
                  \/ p.source = "commit" /\ p.end = None /\ ~Overnight(p)
               THEN (p.day + 1) * Slots
               ELSE m + e + (IF Overnight(p) THEN Slots ELSE 0)
  BY DEF End
<1> HIDE DEF e, m
<1>7. CASE Overnight(p)
  <2>1. p.start # None /\ p.start # e /\ e \in Nat
    BY <1>3, <1>5, <1>7
  <2>2. End(p) = m + e + Slots
    BY <1>6, <1>7, <2>1
  <2> QED BY <1>4, <1>7, <2>1, <2>2 DEF e, m
<1>8. CASE ~Overnight(p) /\ (p.start = None \/ p.start = e \/ (p.source = "commit" /\ p.end = None))
  <2>1. End(p) = m + Slots
    BY <1>4, <1>6, <1>8
  <2> QED BY <1>4, <1>8, <2>1 DEF e, m
<1>9. CASE ~Overnight(p) /\ p.start # None /\ p.start # e /\ ~(p.source = "commit" /\ p.end = None)
  <2>1. End(p) = m + e /\ e \in Nat /\ p.start < e
    BY <1>3, <1>4, <1>5, <1>6, <1>9
  <2> QED BY <1>4, <1>9, <2>1 DEF e, m
<1> QED BY <1>7, <1>8, <1>9 DEF e

\* The morning after an overnight plan's day goes on until its end.
LEMMA MorningFacts ==
    ASSUME NEW p \in Plans, NEW t \in Nat
    PROVE  StillOvernight(p, t) <=>
             /\ Overnight(p) /\ Day(t) = p.day + 1 /\ Minute(t) < EffectiveEnd(p)
<1>1. Day(t) \in Nat /\ p.day \in Nat
  BY DayFacts, PlanFacts
<1> QED BY <1>1 DEF StillOvernight

\* What is over has reached its end.
LEMMA OverEnds ==
    ASSUME NEW p \in Plans, Sound(p), NEW t \in Nat, p.day <= Day(t), Over(p, t)
    PROVE  End(p) <= t
<1> DEFINE e == EffectiveEnd(p)
           m == p.day * Slots
<1>1. /\ p.source \in {"planned", "commit"} /\ p.start \in Clock \cup {None} /\ p.end \in Clock \cup {None}
      /\ e \in Clock \cup {None} /\ p.day \in Nat /\ (p.start = None <=> e = None)
      /\ (p.end # None /\ p.start # None => e = p.end)
      /\ None \notin Clock /\ Clock \subseteq Int /\ Clock \subseteq Nat /\ None \in Int
      /\ \A c \in Clock : c < Slots
  BY PlanFacts
<1>2. /\ m \in Nat /\ Slots \in Nat /\ Day(t) \in Nat /\ Minute(t) \in Nat
      /\ p.day < Day(t) => m + Slots <= t
      /\ p.day = Day(t) => t = m + Minute(t)
      /\ Day(t) = p.day + 1 => t = m + Slots + Minute(t)
      /\ p.day + 2 <= Day(t) => m + Slots + Slots <= t
  BY <1>1, DayFacts, Midnights
<1>3. /\ End(p) \in Nat
      /\ Overnight(p) => End(p) = m + Slots + e
      /\ ~Overnight(p) /\ (p.start = None \/ p.start = e \/ (p.source = "commit" /\ p.end = None))
           => End(p) = m + Slots
      /\ ~Overnight(p) /\ p.start # None /\ p.start # e /\ (p.source = "commit" => p.end # None)
           => End(p) = m + e /\ p.start < e
  BY EndFacts
<1>4. Overnight(p) => e \in Clock /\ p.start \in Clock
  BY <1>1 DEF Overnight
<1>5. ~Overnight(p) => End(p) <= m + Slots
  <2>1. ~(p.start = None) => e \in Clock
    BY <1>1
  <2> HIDE DEF e, m
  <2> QED BY <1>1, <1>2, <1>3, <2>1
<1> HIDE DEF e, m
<1>6. CASE p.day < Day(t) /\ ~StillOvernight(p, t)
  <2>1. CASE Overnight(p)
    <3>1. p.day + 2 <= Day(t) \/ (Day(t) = p.day + 1 /\ ~(Minute(t) < e))
      BY <1>1, <1>2, <1>6, <2>1, MorningFacts DEF e
    <3> QED BY <1>1, <1>2, <1>3, <1>4, <2>1, <3>1
  <2>2. CASE ~Overnight(p)
    BY <1>2, <1>3, <1>5, <1>6, <2>2
  <2> QED BY <2>1, <2>2
<1>7. CASE p.until # None /\ t >= p.until
  <2>1. /\ p.source = "commit" /\ p.start # None /\ p.end # None /\ e = p.end
        /\ p.until = m + p.end + (IF p.end > p.start THEN 0 ELSE Slots)
    BY <1>1, <1>7 DEF Sound, m
  <2>2. Overnight(p) <=> p.start > e
    BY <1>1, <2>1 DEF Overnight, e
  <2>3. e \in Nat /\ p.start \in Nat
    BY <1>1, <2>1
  <2> QED BY <1>2, <1>3, <1>7, <2>1, <2>2, <2>3
<1>8. CASE /\ p.end # None /\ p.source = "commit"
           /\ IF Overnight(p) THEN Day(t) - p.day = 1 /\ Minute(t) >= p.end
              ELSE p.start < p.end /\ Minute(t) >= p.end
  <2>1. p.start # None /\ e = p.end /\ e \in Nat /\ p.start \in Nat
    BY <1>1, <1>8 DEF Sound
  <2>2. CASE Overnight(p)
    <3>1. Day(t) = p.day + 1
      BY <1>1, <1>2, <1>8, <2>2
    <3> QED BY <1>2, <1>3, <1>8, <2>1, <2>2, <3>1
  <2>3. CASE ~Overnight(p)
    <3>1. End(p) = m + e
      BY <1>3, <1>8, <2>1, <2>3
    <3>2. p.day < Day(t) \/ p.day = Day(t)
      BY <1>1, <1>2
    <3>3. e < Slots /\ e <= Minute(t)
      BY <1>1, <1>8, <2>1, <2>3
    <3> QED BY <1>2, <2>1, <3>1, <3>2, <3>3
  <2> QED BY <2>2, <2>3
<1> QED BY <1>6, <1>7, <1>8 DEF Over

\* What a new day drops has reached its end too, if it was in force.
LEMMA GoneEnds ==
    ASSUME NEW p \in Plans, Sound(p), NEW t \in Nat, p.day <= Day(t), Active(p), ~Stays(p, t)
    PROVE  End(p) <= t
<1>1. p.day \in Nat /\ Day(t) \in Nat /\ p.day < Day(t)
  BY PlanFacts, DayFacts DEF Stays
<1>2. ~StillOvernight(p, t)
  <2> SUFFICES ASSUME StillOvernight(p, t) PROVE Covers(p, Minute(t))
    BY DEF Stays
  <2>1. Overnight(p) /\ Minute(t) < EffectiveEnd(p)
    BY DEF StillOvernight
  <2>2. p.start # None /\ p.start # EffectiveEnd(p)
    BY <2>1, PlanFacts DEF Overnight
  <2> QED BY <2>1, <2>2 DEF Covers
<1> QED BY <1>1, <1>2, OverEnds DEF Over

\* What is in force and shown is before its end: a statement, or a plan at one
\* of its minutes.
LEMMA ShownGoesOn ==
    ASSUME NEW p \in Plans, Sound(p), NEW t \in Nat, p.day <= Day(t), Active(p), ~Over(p, t),
           p.source = "commit" \/ Covers(p, Minute(t))
    PROVE  t < End(p)
<1> DEFINE e == EffectiveEnd(p)
           m == p.day * Slots
<1>1. /\ p.source \in {"planned", "commit"} /\ p.start \in Clock \cup {None} /\ p.end \in Clock \cup {None}
      /\ e \in Clock \cup {None} /\ p.day \in Nat /\ (p.start = None <=> e = None)
      /\ (p.end # None /\ p.start # None => e = p.end)
      /\ None \notin Clock /\ Clock \subseteq Int /\ Clock \subseteq Nat /\ None \in Int
  BY PlanFacts
<1>2. /\ m \in Nat /\ Slots \in Nat /\ Day(t) \in Nat /\ Minute(t) \in 0..(Slots - 1)
      /\ Day(t) <= p.day => t < m + Slots
      /\ p.day = Day(t) => t = m + Minute(t)
      /\ Day(t) = p.day + 1 => t = m + Slots + Minute(t)
  BY <1>1, DayFacts, Midnights
<1>3. /\ Overnight(p) => End(p) = m + Slots + e
      /\ ~Overnight(p) /\ (p.start = None \/ p.start = e \/ (p.source = "commit" /\ p.end = None))
           => End(p) = m + Slots
      /\ ~Overnight(p) /\ p.start # None /\ p.start # e /\ (p.source = "commit" => p.end # None)
           => End(p) = m + e /\ p.start < e
  BY EndFacts
<1>4. p.start \in Clock /\ e \in Clock
  BY <1>1 DEF Sound, Covers
<1>5. Day(t) <= p.day \/ StillOvernight(p, t)
  BY <1>1, <1>2 DEF Over
<1>6. CASE Overnight(p)
  <2>1. Day(t) <= p.day \/ (Day(t) = p.day + 1 /\ Minute(t) < e)
    BY <1>5, MorningFacts DEF e
  <2> HIDE DEF e, m
  <2> QED BY <1>1, <1>2, <1>3, <1>4, <1>6, <2>1
<1>7. CASE ~Overnight(p)
  <2>1. Day(t) <= p.day
    BY <1>5, <1>7, MorningFacts
  <2>2. CASE p.start = e \/ (p.source = "commit" /\ p.end = None)
    BY <1>2, <1>3, <1>7, <2>1, <2>2
  <2>3. CASE p.start # e /\ (p.source = "commit" => p.end # None)
    <3>1. End(p) = m + e /\ p.start < e /\ p.start # None
      BY <1>1, <1>3, <1>4, <1>7, <2>3
    <3>2. Minute(t) < e
      <4>1. CASE p.source = "commit"
        <5>1. e = p.end /\ p.end # None
          BY <1>1, <2>3, <3>1, <4>1
        <5>2. ~(Minute(t) >= p.end)
          BY <1>7, <3>1, <4>1, <5>1 DEF Over
        <5>3. e \in Int /\ Minute(t) \in Int
          BY DayFacts, PlanFacts
        <5> QED BY <5>1, <5>2, <5>3
      <4>2. CASE p.source # "commit"
        BY <1>7, <4>2 DEF Covers
      <4> QED BY <4>1, <4>2
    <3>3. p.day = Day(t)
      BY <1>1, <1>2, <2>1
    <3> HIDE DEF e, m
    <3> QED BY <1>1, <1>2, <1>4, <3>1, <3>2, <3>3
  <2> QED BY <2>2, <2>3
<1> QED BY <1>6, <1>7

\* What is over stays over.
LEMMA OverLater ==
    ASSUME NEW p \in Plans, Sound(p), NEW n \in Nat, NEW t \in Nat, n <= t,
           p.day <= Day(n), Over(p, n)
    PROVE  Over(p, t)
<1>1. /\ p.day \in Nat /\ p.end \in Clock \cup {None} /\ p.until \in Nat \cup {None}
      /\ EffectiveEnd(p) \in Clock \cup {None} /\ Clock \subseteq Nat /\ None \in Int
  BY PlanFacts
<1>2. /\ Day(n) \in Nat /\ Day(t) \in Nat /\ Minute(n) \in Nat /\ Minute(t) \in Nat
      /\ Day(n) <= Day(t) /\ (Day(n) = Day(t) => Minute(n) <= Minute(t))
  BY DayFacts, LaterFacts
<1>3. Active(p)
  BY DEF Over
<1>4. CASE p.day < Day(n) /\ ~StillOvernight(p, n)
  <2>1. EffectiveEnd(p) \in Int
    BY PlanFacts
  <2>2. p.day < Day(t) /\ ~StillOvernight(p, t)
    <3>1. p.day < Day(t)
      BY <1>1, <1>2, <1>4
    <3>2. ASSUME StillOvernight(p, t) PROVE StillOvernight(p, n)
      <4>1. Overnight(p) /\ Day(t) = p.day + 1 /\ Minute(t) < EffectiveEnd(p)
        BY <3>2, MorningFacts
      <4>2. Day(n) = p.day + 1 /\ Minute(n) < EffectiveEnd(p)
        BY <1>1, <1>2, <1>4, <2>1, <4>1
      <4> QED BY <4>1, <4>2, MorningFacts
    <3> QED BY <1>4, <3>1, <3>2
  <2> QED BY <1>3, <2>2 DEF Over
<1>5. CASE p.until # None /\ n >= p.until
  <2>1. p.until \in Int
    BY <1>1
  <2>2. t >= p.until
    BY <1>5, <2>1
  <2> QED BY <1>3, <1>5, <2>2 DEF Over
<1>6. CASE /\ p.end # None /\ p.source = "commit"
           /\ IF Overnight(p) THEN Day(n) - p.day = 1 /\ Minute(n) >= p.end
              ELSE p.start < p.end /\ Minute(n) >= p.end
  <2>1. p.end \in Nat
    BY <1>1, <1>6
  <2>2. CASE Day(n) = Day(t)
    <3>1. Minute(t) >= p.end
      BY <1>2, <1>6, <2>1, <2>2
    <3> QED BY <1>3, <1>6, <2>2, <3>1 DEF Over
  <2>3. CASE Day(n) < Day(t)
    <3>1. p.day < Day(t) /\ ~StillOvernight(p, t)
      BY <1>1, <1>2, <1>6, <2>3, MorningFacts
    <3> QED BY <1>3, <3>1 DEF Over
  <2> QED BY <1>2, <2>2, <2>3
<1> QED BY <1>4, <1>5, <1>6 DEF Over

\* What a new day drops, a later day drops.
LEMMA GoneLater ==
    ASSUME NEW p \in Plans, NEW n \in Nat, NEW t \in Nat, n <= t, p.day <= Day(n), ~Stays(p, n)
    PROVE  ~Stays(p, t)
<1>1. p.day \in Nat /\ EffectiveEnd(p) \in Int /\ p.start \in Int
  BY PlanFacts
<1>2. /\ Day(n) \in Nat /\ Day(t) \in Nat /\ Minute(n) \in Nat /\ Minute(t) \in Nat
      /\ Day(n) <= Day(t) /\ (Day(n) = Day(t) => Minute(n) <= Minute(t))
  BY DayFacts, LaterFacts
<1>3. p.day < Day(n) /\ p.day # Day(t)
  BY <1>1, <1>2 DEF Stays
<1>4. ASSUME StillOvernight(p, t), Covers(p, Minute(t)) PROVE Stays(p, n)
  <2>1. /\ Overnight(p) /\ Day(t) = p.day + 1 /\ Minute(t) < EffectiveEnd(p)
    BY <1>4, MorningFacts
  <2>2. Day(n) = p.day + 1 /\ Minute(n) < EffectiveEnd(p)
    BY <1>1, <1>2, <1>3, <2>1
  <2>3. StillOvernight(p, n)
    BY <2>1, <2>2, MorningFacts
  <2>4. Covers(p, Minute(n))
    BY <1>4, <2>1, <2>2 DEF Covers
  <2> QED BY <2>3, <2>4 DEF Stays
<1> QED BY <1>3, <1>4 DEF Stays

\* What stays in the morning and would be dropped later in the day is over then.
LEMMA StaysUntilOver ==
    ASSUME NEW p \in Plans, NEW n \in Nat, NEW t \in Nat, Day(n) = Day(t), p.day <= Day(n),
           Stays(p, n), ~Stays(p, t)
    PROVE  Over(p, t)
<1>1. p.day \in Nat /\ EffectiveEnd(p) \in Int /\ p.start \in Int /\ Day(t) \in Nat
  BY PlanFacts, DayFacts
<1>2. p.day < Day(t) /\ StillOvernight(p, n) /\ Covers(p, Minute(n))
  BY <1>1 DEF Stays
<1>3. Active(p) /\ Overnight(p)
  BY <1>2, MorningFacts DEF Covers
<1>4. ~StillOvernight(p, t)
  <2> SUFFICES ASSUME StillOvernight(p, t) PROVE Covers(p, Minute(t))
    BY DEF Stays
  <2> QED BY <1>2, <1>3, MorningFacts DEF Covers
<1> QED BY <1>2, <1>3, <1>4 DEF Over

-----------------------------------------------------------------------------
(* Lists of plans and of observations                                      *)

\* r has only elements of q, in the order of q.
Sub(r, q) ==
    /\ \A k \in 1..Len(r) : \E i \in 1..Len(q) : r[k] = q[i]
    /\ \A j, k \in 1..Len(r) : j < k =>
          \E g, i \in 1..Len(q) : g < i /\ r[j] = q[g] /\ r[k] = q[i]

\* What is in q is in r.
Among(q, r) == \A k \in 1..Len(q) : \E j \in 1..Len(r) : r[j] = q[k]

\* Items are listed in the order they were made in, each once.
InOrder(q) == \A i, j \in 1..Len(q) : i < j => q[i].id < q[j].id

\* There is one entry of what the character says it is doing.
OneStatement(q) ==
    \A i, j \in 1..Len(q) : q[i].source = "commit" /\ q[j].source = "commit" => i = j

\* Plans that are there at t, when n items were made.
Listed(q, t, n) ==
    /\ q \in Seq(Plans) /\ InOrder(q) /\ OneStatement(q)
    /\ \A i \in 1..Len(q) : Sound(q[i]) /\ q[i].day <= Day(t) /\ q[i].id <= n

\* Observations, likewise.
Noticed(q, t, n) ==
    /\ q \in Seq(Observations) /\ InOrder(q)
    /\ \A i \in 1..Len(q) : q[i].at <= t /\ q[i].id <= n

\* So has an observation.
LEMMA NoteFacts ==
    ASSUME NEW o \in Observations
    PROVE  o.id \in Ids /\ o.id \in Int /\ o.at \in Nat /\ o.of \in Ids \cup {None}
BY DEF Observations, Ids

\* The elements of a list, by index.
LEMMA ElementsFacts ==
    ASSUME NEW S, NEW q \in Seq(S)
    PROVE  Elements(q) = {q[i] : i \in 1..Len(q)} /\ DOMAIN q = 1..Len(q) /\ Len(q) \in Nat
           /\ \A i \in 1..Len(q) : q[i] \in S
BY DEF Elements

\* In a list in order an id belongs to one item.
LEMMA OneOfId ==
    ASSUME NEW q, InOrder(q), Len(q) \in Nat, NEW i \in 1..Len(q), NEW j \in 1..Len(q),
           \A k \in 1..Len(q) : q[k].id \in Int, q[i].id = q[j].id
    PROVE  i = j
<1>1. i = j \/ i < j \/ j < i
  OBVIOUS
<1>2. ~(i < j) /\ ~(j < i)
  BY DEF InOrder
<1> QED BY <1>1, <1>2

\* A part of a list keeps its order,
LEMMA SubInOrder ==
    ASSUME NEW q, NEW r, InOrder(q), Sub(r, q)
    PROVE  InOrder(r)
<1> SUFFICES ASSUME NEW j \in 1..Len(r), NEW k \in 1..Len(r), j < k PROVE r[j].id < r[k].id
  BY DEF InOrder
<1>1. PICK g, i \in 1..Len(q) : g < i /\ r[j] = q[g] /\ r[k] = q[i]
  BY DEF Sub
<1> QED BY <1>1 DEF InOrder

\* and is a list of plans if the whole was,
LEMMA SubListed ==
    ASSUME NEW t, NEW n, NEW q, NEW r \in Seq(Plans), Listed(q, t, n), Sub(r, q)
    PROVE  Listed(r, t, n)
<1>1. InOrder(r)
  BY SubInOrder DEF Listed
<1>2. OneStatement(r)
  <2> SUFFICES ASSUME NEW j \in 1..Len(r), NEW k \in 1..Len(r), j < k,
                      r[j].source = "commit", r[k].source = "commit"
               PROVE  FALSE
    <3>1. \A j, k \in 1..Len(r) : j = k \/ j < k \/ k < j
      OBVIOUS
    <3> QED BY <3>1 DEF OneStatement
  <2>1. PICK g, i \in 1..Len(q) : g < i /\ r[j] = q[g] /\ r[k] = q[i]
    BY DEF Sub
  <2>2. g # i
    BY <2>1
  <2> QED BY <2>1, <2>2 DEF Listed, OneStatement
<1>3. \A k \in 1..Len(r) : Sound(r[k]) /\ r[k].day <= Day(t) /\ r[k].id <= n
  BY DEF Sub, Listed
<1> QED BY <1>1, <1>2, <1>3 DEF Listed

\* or of observations.
LEMMA SubNoticed ==
    ASSUME NEW t, NEW n, NEW q, NEW r \in Seq(Observations), Noticed(q, t, n), Sub(r, q)
    PROVE  Noticed(r, t, n)
<1>1. InOrder(r)
  BY SubInOrder DEF Noticed
<1>2. \A k \in 1..Len(r) : r[k].at <= t /\ r[k].id <= n
  BY DEF Sub, Noticed
<1> QED BY <1>1, <1>2 DEF Noticed

\* What is made next goes to the end of its list.
LEMMA AppendListed ==
    ASSUME NEW t \in Nat, NEW n \in Nat, NEW q, NEW p \in Plans, Listed(q, t, n), Sound(p),
           p.day <= Day(t), p.id = n + 1,
           p.source = "commit" => \A i \in 1..Len(q) : q[i].source # "commit"
    PROVE  Listed(Append(q, p), t, n + 1)
<1> DEFINE r == Append(q, p)
<1>1. q \in Seq(Plans) /\ Len(q) \in Nat /\ \A i \in 1..Len(q) : q[i].id \in Int /\ q[i].id <= n
  BY PlanFacts DEF Listed, Ids
<1>2. /\ r \in Seq(Plans) /\ Len(r) = Len(q) + 1 /\ r[Len(q) + 1] = p
      /\ \A i \in 1..Len(q) : r[i] = q[i]
  BY <1>1
<1> HIDE DEF r
<1>3. \A i \in 1..Len(r) : i \in 1..Len(q) \/ i = Len(q) + 1
  BY <1>1, <1>2
<1>4. InOrder(r)
  <2> SUFFICES ASSUME NEW i \in 1..Len(r), NEW j \in 1..Len(r), i < j PROVE r[i].id < r[j].id
    BY DEF InOrder
  <2>1. i \in 1..Len(q)
    BY <1>1, <1>2
  <2>2. CASE j \in 1..Len(q)
    BY <1>2, <2>1, <2>2 DEF Listed, InOrder
  <2>3. CASE j = Len(q) + 1
    <3>1. r[i].id = q[i].id /\ r[j].id = n + 1 /\ q[i].id \in Int /\ q[i].id <= n
      BY <1>1, <1>2, <2>1, <2>3
    <3> QED BY <3>1
  <2> QED BY <1>3, <2>2, <2>3
<1>5. OneStatement(r)
  <2> SUFFICES ASSUME NEW i \in 1..Len(r), NEW j \in 1..Len(r),
                      r[i].source = "commit", r[j].source = "commit"
               PROVE  i = j
    BY DEF OneStatement
  <2>1. CASE i \in 1..Len(q) /\ j \in 1..Len(q)
    BY <1>2, <2>1 DEF Listed, OneStatement
  <2>2. CASE i = Len(q) + 1 \/ j = Len(q) + 1
    BY <1>2, <1>3, <2>2
  <2> QED BY <1>3, <2>1, <2>2
<1>6. \A i \in 1..Len(r) : Sound(r[i]) /\ r[i].day <= Day(t) /\ r[i].id <= n + 1
  <2> TAKE i \in 1..Len(r)
  <2>1. CASE i \in 1..Len(q)
    <3>1. q[i].id <= n + 1
      BY <1>1, <2>1
    <3> QED BY <1>2, <2>1, <3>1 DEF Listed
  <2>2. CASE i = Len(q) + 1
    <3>1. r[i] = p
      BY <1>2, <2>2
    <3> QED BY <3>1
  <2> QED BY <1>3, <2>1, <2>2
<1> QED BY <1>2, <1>4, <1>5, <1>6 DEF Listed, r

\* The same for observations.
LEMMA AppendNoticed ==
    ASSUME NEW t \in Nat, NEW n \in Nat, NEW q, NEW o \in Observations, Noticed(q, t, n),
           o.at <= t, o.id = n + 1
    PROVE  Noticed(Append(q, o), t, n + 1)
<1> DEFINE r == Append(q, o)
<1>1. q \in Seq(Observations) /\ Len(q) \in Nat /\ \A i \in 1..Len(q) : q[i].id \in Int /\ q[i].id <= n
  <2>1. q \in Seq(Observations) /\ \A i \in 1..Len(q) : q[i] \in Observations /\ q[i].id <= n
    BY DEF Noticed
  <2> QED BY <2>1, NoteFacts
<1>2. /\ r \in Seq(Observations) /\ Len(r) = Len(q) + 1 /\ r[Len(q) + 1] = o
      /\ \A i \in 1..Len(q) : r[i] = q[i]
  BY <1>1
<1> HIDE DEF r
<1>3. \A i \in 1..Len(r) : i \in 1..Len(q) \/ i = Len(q) + 1
  BY <1>1, <1>2
<1>4. InOrder(r)
  <2> SUFFICES ASSUME NEW i \in 1..Len(r), NEW j \in 1..Len(r), i < j PROVE r[i].id < r[j].id
    BY DEF InOrder
  <2>1. i \in 1..Len(q)
    BY <1>1, <1>2
  <2>2. CASE j \in 1..Len(q)
    BY <1>2, <2>1, <2>2 DEF Noticed, InOrder
  <2>3. CASE j = Len(q) + 1
    <3>1. r[i].id = q[i].id /\ r[j].id = n + 1 /\ q[i].id \in Int /\ q[i].id <= n
      BY <1>1, <1>2, <2>1, <2>3
    <3> QED BY <3>1
  <2> QED BY <1>3, <2>2, <2>3
<1>5. \A i \in 1..Len(r) : r[i].at <= t /\ r[i].id <= n + 1
  <2> TAKE i \in 1..Len(r)
  <2>1. CASE i \in 1..Len(q)
    <3>1. q[i].id <= n + 1
      BY <1>1, <2>1
    <3> QED BY <1>2, <2>1, <3>1 DEF Noticed
  <2>2. CASE i = Len(q) + 1
    <3>1. r[i] = o
      BY <1>2, <2>2
    <3> QED BY <3>1
  <2> QED BY <1>3, <2>1, <2>2
<1> QED BY <1>2, <1>4, <1>5 DEF Noticed, r

\* A full list loses what is at its front.
LEMMA CutFacts ==
    ASSUME NEW S, NEW q \in Seq(S), NEW n \in Nat \ {0}
    PROVE  /\ Cut(q, n) \in Seq(S) /\ Sub(Cut(q, n), q) /\ Len(Cut(q, n)) <= n
           /\ Len(q) <= n => Cut(q, n) = q
           /\ Len(q) = n + 1 =>
                /\ Len(Cut(q, n)) = n
                /\ \A k \in 1..n : Cut(q, n)[k] = q[k + 1]
<1> DEFINE r == SubSeq(q, Len(q) - n + 1, Len(q))
<1>1. Len(q) \in Nat /\ \A i \in 1..Len(q) : q[i] \in S
  OBVIOUS
<1>2. CASE Len(q) > n
  <2>1. Cut(q, n) = r
    BY <1>2 DEF Cut
  <2>2. Len(q) - n + 1 \in Int /\ Len(q) \in Int /\ \A i \in Len(q) - n + 1 .. Len(q) : q[i] \in S
    BY <1>1, <1>2
  <2>3. /\ r \in Seq(S)
        /\ Len(r) = IF Len(q) - n + 1 <= Len(q) THEN Len(q) - (Len(q) - n + 1) + 1 ELSE 0
        /\ \A i \in 1 .. Len(q) - (Len(q) - n + 1) + 1 : r[i] = q[Len(q) - n + 1 + i - 1]
    BY <2>2, SubSeqProperties
  <2> HIDE DEF r
  <2>4. Len(r) = n /\ \A k \in 1..n : r[k] = q[Len(q) - n + k]
    <3>1. Len(q) - n + 1 <= Len(q) /\ Len(q) - (Len(q) - n + 1) + 1 = n
      BY <1>1
    <3>2. \A k \in 1..n : Len(q) - n + 1 + k - 1 = Len(q) - n + k
      BY <1>1
    <3> QED BY <2>3, <3>1, <3>2
  <2>5. \A k \in 1..n : Len(q) - n + k \in 1..Len(q)
    BY <1>1, <1>2
  <2>6. \A j, k \in 1..n : j < k => Len(q) - n + j < Len(q) - n + k
    BY <1>1
  <2>7. Sub(r, q)
    BY <2>4, <2>5, <2>6 DEF Sub
  <2>8. Len(q) = n + 1 => \A k \in 1..n : Len(q) - n + k = k + 1
    BY <1>1
  <2> QED BY <1>1, <1>2, <2>1, <2>3, <2>4, <2>7, <2>8
<1>3. CASE ~(Len(q) > n)
  <2>1. Cut(q, n) = q
    BY <1>3 DEF Cut
  <2>2. Sub(q, q)
    BY DEF Sub
  <2> QED BY <1>1, <1>3, <2>1, <2>2
<1> QED BY <1>2, <1>3

\* What is gone from it is in the history.
LEMMA PushedFacts ==
    ASSUME NEW S, NEW q \in Seq(S), NEW n \in Nat \ {0}, NEW i \in 1..Len(q)
    PROVE  (\E k \in 1..Len(Cut(q, n)) : Cut(q, n)[k] = q[i]) \/ q[i].id \in Pushed(q, n)
<1>1. Elements(q) = {q[j] : j \in 1..Len(q)}
  BY ElementsFacts
<1>2. Elements(Cut(q, n)) = {Cut(q, n)[j] : j \in 1..Len(Cut(q, n))}
  <2>1. Cut(q, n) \in Seq(S)
    BY CutFacts
  <2> QED BY <2>1, ElementsFacts
<1> QED BY <1>1, <1>2 DEF Pushed

\* A part of a list, by the indices of what stays.
LEMMA OnlySub ==
    ASSUME NEW S, NEW q \in Seq(S), NEW I \in SUBSET (1..Len(q))
    PROVE  /\ Only(q, I) \in Seq(S) /\ Sub(Only(q, I), q) /\ Len(Only(q, I)) <= Len(q)
           /\ \A k \in 1..Len(Only(q, I)) : \E i \in I : Only(q, I)[k] = q[i]
           /\ \A i \in I : \E k \in 1..Len(Only(q, I)) : Only(q, I)[k] = q[i]
<1> DEFINE o == Only(q, I)
<1>0. o \in Seq(S) /\ \E at : Picked(o, q, I, at)
  BY OnlyPicks
<1>4. PICK at : Picked(o, q, I, at)
  BY <1>0
<1>5. /\ Len(o) \in Nat
      /\ \A k \in 1..Len(o) : at[k] \in I /\ o[k] = q[at[k]]
      /\ \A j, k \in 1..Len(o) : j < k => at[j] < at[k]
      /\ \A i \in I : \E k \in 1..Len(o) : at[k] = i
  BY <1>0, <1>4 DEF Picked
<1> HIDE DEF o
<1>1. /\ o \in Seq(S)
      /\ \A k \in 1..Len(o) : \E i \in I : o[k] = q[i]
      /\ \A i \in I : \E k \in 1..Len(o) : o[k] = q[i]
      /\ \A j, k \in 1..Len(o) : j < k => \E g, i \in I : g < i /\ o[j] = q[g] /\ o[k] = q[i]
  <2>1. \A i \in I : \E k \in 1..Len(o) : o[k] = q[i]
    <3>1. ASSUME NEW i \in I PROVE \E k \in 1..Len(o) : o[k] = q[i]
      <4>1. PICK k \in 1..Len(o) : at[k] = i
        BY <1>5
      <4> QED BY <1>5, <4>1
    <3> QED BY <3>1
  <2> QED BY <1>0, <1>5, <2>1
<1>2. Len(o) <= Len(q)
  BY OnlyShorter DEF o
<1>3. Sub(o, q)
  <2>1. \A i \in I : i \in 1..Len(q)
    OBVIOUS
  <2>2. \A k \in 1..Len(o) : \E i \in 1..Len(q) : o[k] = q[i]
    BY <1>1, <2>1
  <2>3. ASSUME NEW j \in 1..Len(o), NEW k \in 1..Len(o), j < k
        PROVE  \E g, i \in 1..Len(q) : g < i /\ o[j] = q[g] /\ o[k] = q[i]
    <3>1. PICK g \in I, i \in I : g < i /\ o[j] = q[g] /\ o[k] = q[i]
      BY <1>1, <2>3
    <3> QED BY <2>1, <3>1
  <2> QED BY <2>2, <2>3 DEF Sub
<1> QED BY <1>1, <1>2, <1>3 DEF o

-----------------------------------------------------------------------------
(* What is left of a life when it is looked at                             *)

\* A life that is possible at t, when n items were made.
Proper(l, t, n) ==
    /\ l \in Lives
    /\ Listed(l.plans, t, n) /\ Len(l.plans) <= MaxPlans
    /\ Noticed(l.observations, t, n) /\ Len(l.observations) <= MaxObservations
    /\ \A i \in 1..Len(l.plans), j \in 1..Len(l.observations) :
          l.plans[i].id # l.observations[j].id
    /\ l.day <= Day(t)
    /\ l.place.source = "observation" => l.place.until # None

\* A possible life stays possible: time goes by and items are made.
LEMMA ProperLater ==
    ASSUME NEW l, NEW t \in Nat, NEW u \in Nat, NEW n \in Nat, NEW m \in Nat,
           Proper(l, t, n), t <= u, n <= m
    PROVE  Proper(l, u, m)
<1>1. Day(t) \in Nat /\ Day(u) \in Nat /\ Day(t) <= Day(u)
  BY DayFacts, LaterFacts
<1>2. /\ l.plans \in Seq(Plans) /\ l.observations \in Seq(Observations) /\ l.day \in Int
      /\ l \in Lives
  BY DEF Proper, Lives, None
<1>3. Listed(l.plans, u, m)
  <2>1. ASSUME NEW i \in 1..Len(l.plans) PROVE l.plans[i].day <= Day(u) /\ l.plans[i].id <= m
    <3>1. l.plans[i].day \in Nat /\ l.plans[i].id \in Int
      BY <1>2, PlanFacts DEF Ids
    <3>2. l.plans[i].day <= Day(t) /\ l.plans[i].id <= n
      BY DEF Proper, Listed
    <3> QED BY <1>1, <3>1, <3>2
  <2> QED BY <2>1 DEF Proper, Listed
<1>4. Noticed(l.observations, u, m)
  <2>1. ASSUME NEW i \in 1..Len(l.observations)
        PROVE  l.observations[i].at <= u /\ l.observations[i].id <= m
    <3>1. l.observations[i].at \in Nat /\ l.observations[i].id \in Int
      BY <1>2, NoteFacts
    <3>2. l.observations[i].at <= t /\ l.observations[i].id <= n
      BY DEF Proper, Noticed
    <3> QED BY <3>1, <3>2
  <2> QED BY <2>1 DEF Proper, Noticed
<1>5. l.day <= Day(u)
  BY <1>1, <1>2 DEF Proper
<1> QED BY <1>2, <1>3, <1>4, <1>5 DEF Proper

\* The rollover, where there is one.
Rollover(l, t) == IF l.day = Day(t) THEN l ELSE Rolled(l, t)

Left(l, p, t)     == l.day = Day(t) \/ Stays(p, t)
LeftNote(l, o, t) == l.day = Day(t) \/ Day(o.at) = Day(t)

\* ensure_day leaves a possible life, which has what was left of the old one.
LEMMA RolloverFacts ==
    ASSUME NEW l, NEW t \in Nat, NEW n, Proper(l, t, n)
    PROVE  /\ Proper(Rollover(l, t), t, n) /\ Rollover(l, t).day = Day(t)
           /\ \A k \in 1..Len(Rollover(l, t).plans) : \E i \in 1..Len(l.plans) :
                 Rollover(l, t).plans[k] = l.plans[i] /\ Left(l, l.plans[i], t)
           /\ \A i \in 1..Len(l.plans) : Left(l, l.plans[i], t) =>
                 \E k \in 1..Len(Rollover(l, t).plans) : Rollover(l, t).plans[k] = l.plans[i]
           /\ \A k \in 1..Len(Rollover(l, t).observations) : \E i \in 1..Len(l.observations) :
                 /\ Rollover(l, t).observations[k] = l.observations[i]
                 /\ LeftNote(l, l.observations[i], t)
           /\ \A i \in 1..Len(l.observations) : LeftNote(l, l.observations[i], t) =>
                 \E k \in 1..Len(Rollover(l, t).observations) :
                    Rollover(l, t).observations[k] = l.observations[i]
           /\ Rollover(l, t).place =
                 IF \E i \in 1..Len(l.plans) :
                       l.plans[i].id = l.place.item /\ ~Left(l, l.plans[i], t)
                 THEN Nowhere ELSE l.place
<1>1. CASE l.day = Day(t)
  <2>1. Rollover(l, t) = l
    BY <1>1 DEF Rollover
  <2> QED BY <1>1, <2>1 DEF Left, LeftNote
<1>2. CASE l.day # Day(t)
  <2> DEFINE q == l.plans
             o == l.observations
             r == Rolled(l, t)
             I == {i \in 1..Len(q) : Stays(q[i], t)}
             J == {i \in 1..Len(o) : Day(o[i].at) = Day(t)}
  <2>1. /\ q \in Seq(Plans) /\ o \in Seq(Observations) /\ l.place \in Places
        /\ DOMAIN q = 1..Len(q) /\ DOMAIN o = 1..Len(o)
        /\ Elements(q) = {q[i] : i \in 1..Len(q)}
    BY ElementsFacts DEF Proper, Lives
  <2>2. /\ r.plans = Only(q, I) /\ r.observations = Only(o, J) /\ r.day = Day(t)
        /\ r.place = IF \E i \in 1..Len(q) : q[i].id = l.place.item /\ ~Stays(q[i], t)
                     THEN Nowhere ELSE l.place
        /\ r = [plans |-> r.plans, observations |-> r.observations, place |-> r.place, day |-> r.day]
    BY <2>1 DEF Rolled, Those
  <2>3. I \in SUBSET (1..Len(q)) /\ J \in SUBSET (1..Len(o))
    OBVIOUS
  <2>4. /\ \A i \in 1..Len(q) : i \in I <=> Left(l, q[i], t)
        /\ \A i \in 1..Len(o) : i \in J <=> LeftNote(l, o[i], t)
    BY <1>2 DEF Left, LeftNote
  <2> HIDE DEF I, J
  <2>5. /\ r.plans \in Seq(Plans) /\ Sub(r.plans, q) /\ Len(r.plans) <= Len(q)
        /\ \A k \in 1..Len(r.plans) : \E i \in I : r.plans[k] = q[i]
        /\ \A i \in I : \E k \in 1..Len(r.plans) : r.plans[k] = q[i]
    <3> HIDE DEF q, r
    <3>1. /\ Only(q, I) \in Seq(Plans) /\ Sub(Only(q, I), q) /\ Len(Only(q, I)) <= Len(q)
          /\ \A k \in 1..Len(Only(q, I)) : \E i \in I : Only(q, I)[k] = q[i]
          /\ \A i \in I : \E k \in 1..Len(Only(q, I)) : Only(q, I)[k] = q[i]
      BY <2>1, <2>3, OnlySub
    <3> QED BY <2>2, <3>1
  <2>6. /\ r.observations \in Seq(Observations) /\ Sub(r.observations, o)
        /\ Len(r.observations) <= Len(o)
        /\ \A k \in 1..Len(r.observations) : \E i \in J : r.observations[k] = o[i]
        /\ \A i \in J : \E k \in 1..Len(r.observations) : r.observations[k] = o[i]
    <3> HIDE DEF o, r
    <3>1. /\ Only(o, J) \in Seq(Observations) /\ Sub(Only(o, J), o)
          /\ Len(Only(o, J)) <= Len(o)
          /\ \A k \in 1..Len(Only(o, J)) : \E i \in J : Only(o, J)[k] = o[i]
          /\ \A i \in J : \E k \in 1..Len(Only(o, J)) : Only(o, J)[k] = o[i]
      BY <2>1, <2>3, OnlySub
    <3> QED BY <2>2, <3>1
  <2> HIDE DEF r
  <2>7. Listed(r.plans, t, n) /\ Noticed(r.observations, t, n)
    BY <2>5, <2>6, SubListed, SubNoticed DEF Proper
  <2>8. Len(r.plans) <= MaxPlans /\ Len(r.observations) <= MaxObservations
    <3>1. Len(q) <= MaxPlans /\ Len(q) \in Nat /\ Len(r.plans) \in Nat /\ MaxPlans \in Nat
      BY <2>1, <2>5, DailyLifeAssumption DEF Proper
    <3>2. /\ Len(o) <= MaxObservations /\ Len(o) \in Nat /\ Len(r.observations) \in Nat
          /\ MaxObservations \in Nat
      BY <2>1, <2>6, DailyLifeAssumption DEF Proper
    <3> QED BY <2>5, <2>6, <3>1, <3>2
  <2>9. \A k \in 1..Len(r.plans), m \in 1..Len(r.observations) :
           r.plans[k].id # r.observations[m].id
    <3> TAKE k \in 1..Len(r.plans), m \in 1..Len(r.observations)
    <3>1. PICK i \in 1..Len(q) : r.plans[k] = q[i]
      BY <2>5 DEF Sub
    <3>2. PICK j \in 1..Len(o) : r.observations[m] = o[j]
      BY <2>6 DEF Sub
    <3> QED BY <3>1, <3>2 DEF Proper
  <2>10. r \in Lives /\ r.day <= Day(t) /\ (r.place.source = "observation" => r.place.until # None)
    <3>1. Day(t) \in Nat /\ Nowhere \in Places /\ Nowhere.source # "observation"
      BY DayFacts DEF Nowhere, Places
    <3>2. r.place \in Places /\ (r.place.source = "observation" => r.place.until # None)
      BY <2>1, <2>2, <3>1 DEF Proper
    <3> QED BY <2>2, <2>5, <2>6, <3>1, <3>2 DEF Lives
  <2>11. Proper(r, t, n)
    BY <2>7, <2>8, <2>9, <2>10 DEF Proper
  <2>12. /\ \A k \in 1..Len(r.plans) : \E i \in 1..Len(q) : r.plans[k] = q[i] /\ Left(l, q[i], t)
         /\ \A i \in 1..Len(q) : Left(l, q[i], t) => \E k \in 1..Len(r.plans) : r.plans[k] = q[i]
         /\ \A k \in 1..Len(r.observations) : \E i \in 1..Len(o) :
               r.observations[k] = o[i] /\ LeftNote(l, o[i], t)
         /\ \A i \in 1..Len(o) : LeftNote(l, o[i], t) =>
               \E k \in 1..Len(r.observations) : r.observations[k] = o[i]
    <3> HIDE DEF q, o
    <3> QED BY <2>3, <2>4, <2>5, <2>6
  <2>13. r.place = IF \E i \in 1..Len(q) : q[i].id = l.place.item /\ ~Left(l, q[i], t)
                   THEN Nowhere ELSE l.place
    BY <1>2, <2>2 DEF Left
  <2>14. Rollover(l, t) = r
    BY <1>2 DEF Rollover, r
  <2> QED BY <2>2, <2>11, <2>12, <2>13, <2>14
<1> QED BY <1>1, <1>2

\* What is over is marked so.
Aged(p, t) == IF Over(p, t) THEN [p EXCEPT !.status = "expired"] ELSE p

\* Only the status changes, and only of what is over.
LEMMA AgedFacts ==
    ASSUME NEW p \in Plans, NEW t
    PROVE  /\ Aged(p, t) \in Plans /\ (Sound(p) => Sound(Aged(p, t)))
           /\ Aged(p, t).id = p.id /\ Aged(p, t).source = p.source /\ Aged(p, t).day = p.day
           /\ Over(p, t) => ~Active(Aged(p, t)) /\ Aged(p, t).status = "expired"
           /\ ~Over(p, t) => Aged(p, t) = p
<1> DEFINE a == [p EXCEPT !.status = "expired"]
<1>1. /\ a \in Plans /\ a.id = p.id /\ a.source = p.source /\ a.day = p.day /\ a.start = p.start
      /\ a.end = p.end /\ a.until = p.until /\ a.status = "expired"
  BY DEF Plans
<1> HIDE DEF a
<1>2. Sound(p) => Sound(a)
  BY <1>1 DEF Sound
<1>3. ~Active(a)
  BY <1>1 DEF Active
<1> QED BY <1>1, <1>2, <1>3 DEF Aged, a

\* _expire_items leaves a possible life, whose plans are the aged ones and whose place may end.
LEMMA ExpiredFacts ==
    ASSUME NEW r, NEW t \in Nat, NEW n, Proper(r, t, n)
    PROVE  /\ Proper(Expired(r, t), t, n) /\ Expired(r, t).day = r.day
           /\ Len(Expired(r, t).plans) = Len(r.plans)
           /\ \A k \in 1..Len(r.plans) : Expired(r, t).plans[k] = Aged(r.plans[k], t)
           /\ Expired(r, t).observations = r.observations
           /\ Expired(r, t).place =
                 IF \/ r.place.until # None /\ t >= r.place.until
                    \/ \E k \in 1..Len(r.plans) : r.plans[k].id = r.place.item /\ Over(r.plans[k], t)
                 THEN Nowhere ELSE r.place
<1> DEFINE q == r.plans
           e == Expired(r, t)
           f == e.plans
<1>1. /\ q \in Seq(Plans) /\ Len(q) \in Nat /\ DOMAIN q = 1..Len(q) /\ r \in Lives
      /\ Elements(q) = {q[i] : i \in 1..Len(q)}
      /\ \A k \in 1..Len(q) : q[k] \in Plans
      /\ r = [plans |-> q, observations |-> r.observations, place |-> r.place, day |-> r.day]
      /\ r.place \in Places
  BY ElementsFacts DEF Proper, Lives
<1>2. /\ f = [k \in 1..Len(q) |-> Aged(q[k], t)]
      /\ e.observations = r.observations /\ e.day = r.day
      /\ e.place = IF \/ r.place.until # None /\ t >= r.place.until
                      \/ \E k \in 1..Len(q) : q[k].id = r.place.item /\ Over(q[k], t)
                   THEN Nowhere ELSE r.place
      /\ e = [plans |-> f, observations |-> e.observations, place |-> e.place, day |-> e.day]
  <2> DEFINE F == [k \in 1..Len(q) |-> Aged(q[k], t)]
             P == IF \/ r.place.until # None /\ t >= r.place.until
                     \/ \E k \in 1..Len(q) : q[k].id = r.place.item /\ Over(q[k], t)
                  THEN Nowhere ELSE r.place
  <2>1. e = [r EXCEPT !.plans = F, !.place = P]
    BY <1>1 DEF Expired, Aged
  <2> HIDE DEF F, P, e
  <2>2. e = [plans |-> F, observations |-> r.observations, place |-> P, day |-> r.day]
    BY <1>1, <2>1
  <2> QED BY <2>2 DEF F, P
<1> HIDE DEF q, e
<1>3. f \in Seq(Plans) /\ Len(f) = Len(q) /\ \A k \in 1..Len(q) : f[k] = Aged(q[k], t)
  <2>1. \A k \in 1..Len(q) : Aged(q[k], t) \in Plans
    BY <1>1, AgedFacts
  <2> HIDE DEF f
  <2> QED BY <1>1, <1>2, <2>1
<1> HIDE DEF f
<1>4. \A k \in 1..Len(q) : /\ f[k].id = q[k].id /\ f[k].source = q[k].source /\ f[k].day = q[k].day
                           /\ (Sound(q[k]) => Sound(f[k]))
  BY <1>1, <1>3, AgedFacts
<1>5. Listed(f, t, n)
  <2>1. Listed(q, t, n)
    BY DEF Proper, q
  <2>2. InOrder(f) /\ OneStatement(f)
    BY <1>3, <1>4, <2>1 DEF Listed, InOrder, OneStatement
  <2> QED BY <1>3, <1>4, <2>1, <2>2 DEF Listed
<1>6. /\ Len(q) <= MaxPlans /\ Noticed(e.observations, t, n) /\ Len(e.observations) <= MaxObservations
      /\ \A i \in 1..Len(q), j \in 1..Len(e.observations) : q[i].id # e.observations[j].id
      /\ e.day <= Day(t) /\ (r.place.source = "observation" => r.place.until # None)
      /\ e.observations \in Seq(Observations) /\ e.day \in Nat \cup {None}
  BY <1>2 DEF Proper, q, Lives
<1>7. e.place \in Places /\ (e.place.source = "observation" => e.place.until # None)
  <2>1. Nowhere \in Places /\ Nowhere.source # "observation"
    BY DEF Nowhere, Places
  <2> QED BY <1>1, <1>2, <1>6, <2>1
<1>8. Proper(e, t, n)
  <2>1. e \in Lives
    <3>1. e = [plans |-> f, observations |-> e.observations, place |-> e.place, day |-> e.day]
      BY <1>2
    <3>2. /\ f \in Seq(Plans) /\ e.observations \in Seq(Observations) /\ e.place \in Places
          /\ e.day \in Nat \cup {None}
      BY <1>3, <1>6, <1>7
    <3> QED BY <3>1, <3>2 DEF Lives
  <2>2. e.plans = f
    BY DEF f
  <2>3. \A i \in 1..Len(f), j \in 1..Len(e.observations) : f[i].id # e.observations[j].id
    BY <1>3, <1>4, <1>6
  <2>4. Len(f) <= MaxPlans
    BY <1>3, <1>6
  <2> QED BY <1>5, <1>6, <1>7, <2>1, <2>2, <2>3, <2>4 DEF Proper
<1> QED BY <1>2, <1>3, <1>8 DEF e, f, q

\* What a look at a life leaves of it.
LEMMA RefreshedFacts ==
    ASSUME NEW l, NEW t \in Nat, NEW n, Proper(l, t, n)
    PROVE  /\ Proper(Refreshed(l, t), t, n) /\ Refreshed(l, t).day = Day(t)
           /\ \A k \in 1..Len(Refreshed(l, t).plans) : \E i \in 1..Len(l.plans) :
                 Refreshed(l, t).plans[k] = Aged(l.plans[i], t) /\ Left(l, l.plans[i], t)
           /\ \A i \in 1..Len(l.plans) : Left(l, l.plans[i], t) =>
                 \E k \in 1..Len(Refreshed(l, t).plans) :
                    Refreshed(l, t).plans[k] = Aged(l.plans[i], t)
           /\ \A k \in 1..Len(Refreshed(l, t).observations) : \E i \in 1..Len(l.observations) :
                 /\ Refreshed(l, t).observations[k] = l.observations[i]
                 /\ LeftNote(l, l.observations[i], t)
           /\ \A i \in 1..Len(l.observations) : LeftNote(l, l.observations[i], t) =>
                 \E k \in 1..Len(Refreshed(l, t).observations) :
                    Refreshed(l, t).observations[k] = l.observations[i]
           /\ Refreshed(l, t).place =
                 IF \/ l.place.until # None /\ t >= l.place.until
                    \/ \E i \in 1..Len(l.plans) :
                          /\ l.plans[i].id = l.place.item
                          /\ ~Left(l, l.plans[i], t) \/ Over(l.plans[i], t)
                 THEN Nowhere ELSE l.place
<1> DEFINE r == Rollover(l, t)
           e == Refreshed(l, t)
           q == l.plans
<1>1. e = Expired(r, t)
  BY DEF Refreshed, Rollover
<1>2. /\ Proper(r, t, n) /\ r.day = Day(t)
      /\ \A k \in 1..Len(r.plans) : \E i \in 1..Len(q) : r.plans[k] = q[i] /\ Left(l, q[i], t)
      /\ \A i \in 1..Len(q) : Left(l, q[i], t) => \E k \in 1..Len(r.plans) : r.plans[k] = q[i]
      /\ \A k \in 1..Len(r.observations) : \E i \in 1..Len(l.observations) :
            r.observations[k] = l.observations[i] /\ LeftNote(l, l.observations[i], t)
      /\ \A i \in 1..Len(l.observations) : LeftNote(l, l.observations[i], t) =>
            \E k \in 1..Len(r.observations) : r.observations[k] = l.observations[i]
      /\ r.place = IF \E i \in 1..Len(q) : q[i].id = l.place.item /\ ~Left(l, q[i], t)
                   THEN Nowhere ELSE l.place
  BY RolloverFacts
<1> HIDE DEF r, q, e
<1>3. /\ Proper(Expired(r, t), t, n) /\ Expired(r, t).day = r.day
      /\ Len(Expired(r, t).plans) = Len(r.plans)
      /\ \A k \in 1..Len(r.plans) : Expired(r, t).plans[k] = Aged(r.plans[k], t)
      /\ Expired(r, t).observations = r.observations
      /\ Expired(r, t).place =
            IF \/ r.place.until # None /\ t >= r.place.until
               \/ \E k \in 1..Len(r.plans) : r.plans[k].id = r.place.item /\ Over(r.plans[k], t)
            THEN Nowhere ELSE r.place
  BY <1>2, ExpiredFacts
<1>4. /\ Proper(e, t, n) /\ e.day = r.day /\ Len(e.plans) = Len(r.plans)
      /\ \A k \in 1..Len(r.plans) : e.plans[k] = Aged(r.plans[k], t)
      /\ e.observations = r.observations
      /\ e.place = IF \/ r.place.until # None /\ t >= r.place.until
                      \/ \E k \in 1..Len(r.plans) : r.plans[k].id = r.place.item /\ Over(r.plans[k], t)
                   THEN Nowhere ELSE r.place
  BY <1>1, <1>3
<1>5. /\ \A k \in 1..Len(e.plans) : \E i \in 1..Len(q) : e.plans[k] = Aged(q[i], t) /\ Left(l, q[i], t)
      /\ \A i \in 1..Len(q) : Left(l, q[i], t) => \E k \in 1..Len(e.plans) : e.plans[k] = Aged(q[i], t)
  <2>1. ASSUME NEW k \in 1..Len(e.plans)
        PROVE  \E i \in 1..Len(q) : e.plans[k] = Aged(q[i], t) /\ Left(l, q[i], t)
    <3>1. PICK i \in 1..Len(q) : r.plans[k] = q[i] /\ Left(l, q[i], t)
      BY <1>2, <1>4
    <3> QED BY <1>4, <3>1
  <2>2. ASSUME NEW i \in 1..Len(q), Left(l, q[i], t)
        PROVE  \E k \in 1..Len(e.plans) : e.plans[k] = Aged(q[i], t)
    <3>1. PICK k \in 1..Len(r.plans) : r.plans[k] = q[i]
      BY <1>2, <2>2
    <3> QED BY <1>4, <3>1
  <2> QED BY <2>1, <2>2
<1>6. e.place = IF \/ l.place.until # None /\ t >= l.place.until
                   \/ \E i \in 1..Len(q) :
                         q[i].id = l.place.item /\ (~Left(l, q[i], t) \/ Over(q[i], t))
                THEN Nowhere ELSE l.place
  <2>1. CASE \E i \in 1..Len(q) : q[i].id = l.place.item /\ ~Left(l, q[i], t)
    <3>1. r.place = Nowhere
      BY <1>2, <2>1
    <3>2. e.place = Nowhere
      BY <1>4, <3>1
    <3> QED BY <2>1, <3>2
  <2>2. CASE ~\E i \in 1..Len(q) : q[i].id = l.place.item /\ ~Left(l, q[i], t)
    <3>1. r.place = l.place
      BY <1>2, <2>2
    <3>2. (\E k \in 1..Len(r.plans) : r.plans[k].id = l.place.item /\ Over(r.plans[k], t))
            <=> \E i \in 1..Len(q) : q[i].id = l.place.item /\ Over(q[i], t)
      <4>1. ASSUME NEW k \in 1..Len(r.plans), r.plans[k].id = l.place.item, Over(r.plans[k], t)
            PROVE  \E i \in 1..Len(q) : q[i].id = l.place.item /\ Over(q[i], t)
        <5>1. PICK i \in 1..Len(q) : r.plans[k] = q[i]
          BY <1>2
        <5> QED BY <4>1, <5>1
      <4>2. ASSUME NEW i \in 1..Len(q), q[i].id = l.place.item, Over(q[i], t)
            PROVE  \E k \in 1..Len(r.plans) : r.plans[k].id = l.place.item /\ Over(r.plans[k], t)
        <5>1. PICK k \in 1..Len(r.plans) : r.plans[k] = q[i]
          BY <1>2, <2>2, <4>2
        <5> QED BY <4>2, <5>1
      <4> QED BY <4>1, <4>2
    <3>3. e.place = IF \/ l.place.until # None /\ t >= l.place.until
                       \/ \E k \in 1..Len(r.plans) : r.plans[k].id = l.place.item /\ Over(r.plans[k], t)
                    THEN Nowhere ELSE l.place
      BY <1>4, <3>1
    <3> QED BY <2>2, <3>2, <3>3, Zenon
  <2> QED BY <2>1, <2>2
<1> QED BY <1>2, <1>4, <1>5, <1>6 DEF e, q

-----------------------------------------------------------------------------
(* What is shown of a life                                                 *)

Greatest(S) == CHOOSE x \in S : \A y \in S : y <= x

\* A greatest element is the one that is chosen.
LEMMA GreatestFacts ==
    ASSUME NEW S \in SUBSET Int, NEW x \in S, \A y \in S : y <= x
    PROVE  Greatest(S) = x
<1>1. Greatest(S) \in S /\ \A y \in S : y <= Greatest(S)
  BY DEF Greatest
<1>2. Greatest(S) \in Int /\ x \in Int /\ x <= Greatest(S) /\ Greatest(S) <= x
  BY <1>1
<1> QED BY <1>2

\* The ids of the items of q at the indices I.
IdsAt(q, I) == {q[i].id : i \in I}

\* Parts that name the same items have the same ids.
LEMMA SameIds ==
    ASSUME NEW q, NEW r, NEW I, NEW J,
           \A i \in I : \E j \in J : r[j].id = q[i].id,
           \A j \in J : \E i \in I : q[i].id = r[j].id
    PROVE  IdsAt(q, I) = IdsAt(r, J)
<1>1. ASSUME NEW x \in IdsAt(q, I) PROVE x \in IdsAt(r, J)
  <2>1. PICK i \in I : x = q[i].id
    BY <1>1 DEF IdsAt
  <2>2. PICK j \in J : r[j].id = q[i].id
    OBVIOUS
  <2> QED BY <2>1, <2>2 DEF IdsAt
<1>2. ASSUME NEW x \in IdsAt(r, J) PROVE x \in IdsAt(q, I)
  <2>1. PICK j \in J : x = r[j].id
    BY <1>2 DEF IdsAt
  <2>2. PICK i \in I : q[i].id = r[j].id
    OBVIOUS
  <2> QED BY <2>1, <2>2 DEF IdsAt
<1> QED BY <1>1, <1>2

\* The last of a part of a list in order is the one that was made last.
LEMMA LatestFacts ==
    ASSUME NEW S, NEW q \in Seq(S), \A i \in 1..Len(q) : q[i].id \in Int, InOrder(q),
           NEW I \in SUBSET (1..Len(q))
    PROVE  /\ Only(q, I) = <<>> <=> IdsAt(q, I) = {}
           /\ I # {} => /\ Latest(Only(q, I)) = Greatest(IdsAt(q, I))
                        /\ Greatest(IdsAt(q, I)) \in IdsAt(q, I)
<1> DEFINE o == Only(q, I)
           ids == IdsAt(q, I)
<1>1. /\ o \in Seq(S) /\ Sub(o, q)
      /\ \A k \in 1..Len(o) : \E i \in I : o[k] = q[i]
      /\ \A i \in I : \E k \in 1..Len(o) : o[k] = q[i]
  BY OnlySub
<1> HIDE DEF o
<1>2. Len(o) \in Nat /\ InOrder(o)
  BY <1>1, SubInOrder
<1>3. o = <<>> <=> Len(o) = 0
  BY <1>1, EmptySeq
<1>4. o = <<>> <=> I = {}
  BY <1>1, <1>2, <1>3
<1>5. ASSUME I # {} PROVE Latest(o) = Greatest(ids) /\ Greatest(ids) \in ids
  <2>1. Len(o) \in 1..Len(o)
    <3>1. Len(o) # 0
      BY <1>3, <1>4, <1>5
    <3> QED BY <1>2, <3>1
  <2>2. PICK i \in I : o[Len(o)] = q[i]
    BY <1>1, <2>1
  <2>3. ids \in SUBSET Int /\ q[i].id \in ids
    BY DEF IdsAt
  <2>4. ASSUME NEW y \in ids PROVE y <= q[i].id
    <3>1. PICK j \in I : y = q[j].id
      BY DEF IdsAt
    <3>2. PICK k \in 1..Len(o) : o[k] = q[j]
      BY <1>1
    <3>3. CASE k = Len(o)
      BY <2>2, <2>3, <3>1, <3>2, <3>3
    <3>4. CASE k < Len(o)
      <4>1. o[k].id < o[Len(o)].id
        BY <1>2, <2>1, <3>4 DEF InOrder
      <4> QED BY <2>2, <2>3, <3>1, <3>2, <4>1
    <3> QED BY <1>2, <3>3, <3>4
  <2>5. Greatest(ids) = q[i].id
    <3> HIDE DEF ids
    <3> QED BY <2>3, <2>4, GreatestFacts
  <2> QED BY <2>2, <2>3, <2>5 DEF Latest
<1> QED BY <1>4, <1>5 DEF o, IdsAt

\* The items that the prompt may name, of each sort.
Spoken(l, t) == IdsAt(l.plans, {i \in 1..Len(l.plans) : Says(l.plans[i], t)})
Glimpsed(l, t) ==
    IdsAt(l.observations, {i \in 1..Len(l.observations) : Recent(l.observations[i], t)})
Due(l, t) == IdsAt(l.plans, {i \in 1..Len(l.plans) : PlannedNow(l.plans[i], t)})

\* The prompt names the latest one of the first sort there is.
LEMMA ActivityFacts ==
    ASSUME NEW l, NEW t, NEW n, NEW u, Proper(l, u, n)
    PROVE  /\ Activity(l, t) =
                IF Spoken(l, t) # {} THEN [id |-> Greatest(Spoken(l, t)), as |-> "fact"]
                ELSE IF Glimpsed(l, t) # {} THEN [id |-> Greatest(Glimpsed(l, t)), as |-> "fact"]
                ELSE IF Due(l, t) # {} THEN [id |-> Greatest(Due(l, t)), as |-> "committed"]
                ELSE Nothing
           /\ \A S \in {Spoken(l, t), Glimpsed(l, t), Due(l, t)} : S # {} => Greatest(S) \in S
<1> DEFINE q == l.plans
           o == l.observations
           I == {i \in 1..Len(q) : Says(q[i], t)}
           J == {i \in 1..Len(o) : Recent(o[i], t)}
           K == {i \in 1..Len(q) : PlannedNow(q[i], t)}
           is == IdsAt(q, I)
           js == IdsAt(o, J)
           ks == IdsAt(q, K)
<1>1. /\ q \in Seq(Plans) /\ o \in Seq(Observations) /\ DOMAIN q = 1..Len(q) /\ DOMAIN o = 1..Len(o)
      /\ InOrder(q) /\ InOrder(o)
  BY ElementsFacts DEF Proper, Lives, Listed, Noticed
<1>2. (\A i \in 1..Len(q) : q[i].id \in Int) /\ \A i \in 1..Len(o) : o[i].id \in Int
  <2>1. /\ \A i \in 1..Len(q) : q[i] \in Plans
        /\ \A i \in 1..Len(o) : o[i] \in Observations
    BY <1>1
  <2> QED BY <2>1, PlanFacts, NoteFacts DEF Ids
<1>3. Activity(l, t) = IF Only(q, I) # <<>> THEN [id |-> Latest(Only(q, I)), as |-> "fact"]
                       ELSE IF Only(o, J) # <<>> THEN [id |-> Latest(Only(o, J)), as |-> "fact"]
                       ELSE IF Only(q, K) # <<>> THEN [id |-> Latest(Only(q, K)), as |-> "committed"]
                       ELSE Nothing
  BY <1>1 DEF Activity, Those
<1>4. I \in SUBSET (1..Len(q)) /\ J \in SUBSET (1..Len(o)) /\ K \in SUBSET (1..Len(q))
  OBVIOUS
<1>5. /\ (is # {} => I # {}) /\ (js # {} => J # {}) /\ (ks # {} => K # {})
  BY DEF IdsAt
<1>6. is = Spoken(l, t) /\ js = Glimpsed(l, t) /\ ks = Due(l, t)
  BY DEF Spoken, Glimpsed, Due
<1> HIDE DEF q, o, I, J, K
<1>7. (Only(q, I) = <<>> <=> is = {}) /\ (I # {} => Latest(Only(q, I)) = Greatest(is) /\ Greatest(is) \in is)
  BY <1>1, <1>2, <1>4, LatestFacts
<1>8. (Only(o, J) = <<>> <=> js = {}) /\ (J # {} => Latest(Only(o, J)) = Greatest(js) /\ Greatest(js) \in js)
  BY <1>1, <1>2, <1>4, LatestFacts
<1>9. (Only(q, K) = <<>> <=> ks = {}) /\ (K # {} => Latest(Only(q, K)) = Greatest(ks) /\ Greatest(ks) \in ks)
  BY <1>1, <1>2, <1>4, LatestFacts
<1> HIDE DEF is, js, ks
<1> QED BY <1>3, <1>5, <1>6, <1>7, <1>8, <1>9

\* What is shown is in force.
LEMMA ShownIsActive ==
    ASSUME NEW p \in Plans, Sound(p), NEW t, Says(p, t) \/ PlannedNow(p, t)
    PROVE  Active(p) /\ (p.source = "commit" \/ Covers(p, Minute(t)))
BY DEF Says, PlannedNow, Sound, Active, Covers

\* What is in force in a life that was looked at was there and is not over.
LEMMA ActiveFacts ==
    ASSUME NEW l, NEW t \in Nat, NEW n, Proper(l, t, n),
           NEW k \in 1..Len(Refreshed(l, t).plans), Active(Refreshed(l, t).plans[k])
    PROVE  \E i \in 1..Len(l.plans) :
              /\ Refreshed(l, t).plans[k] = l.plans[i]
              /\ Left(l, l.plans[i], t) /\ ~Over(l.plans[i], t)
<1> DEFINE q == l.plans
           e == Refreshed(l, t)
<1>1. \A k1 \in 1..Len(e.plans) : \E i \in 1..Len(q) : e.plans[k1] = Aged(q[i], t) /\ Left(l, q[i], t)
  BY RefreshedFacts
<1>2. PICK i \in 1..Len(q) : e.plans[k] = Aged(q[i], t) /\ Left(l, q[i], t)
  BY <1>1
<1>3. q[i] \in Plans
  BY DEF Proper, Listed
<1>4. ~Over(q[i], t)
  BY <1>2, <1>3, AgedFacts
<1> QED BY <1>2, <1>3, <1>4, AgedFacts

\* What is left of it and is not over is in it as it was.
LEMMA KeptFacts ==
    ASSUME NEW l, NEW t \in Nat, NEW n, Proper(l, t, n),
           NEW i \in 1..Len(l.plans), Left(l, l.plans[i], t), ~Over(l.plans[i], t)
    PROVE  \E k \in 1..Len(Refreshed(l, t).plans) : Refreshed(l, t).plans[k] = l.plans[i]
<1> DEFINE q == l.plans
           e == Refreshed(l, t)
<1>1. \A j \in 1..Len(q) : Left(l, q[j], t) => \E k \in 1..Len(e.plans) : e.plans[k] = Aged(q[j], t)
  BY RefreshedFacts
<1>2. PICK k \in 1..Len(e.plans) : e.plans[k] = Aged(q[i], t)
  BY <1>1
<1>3. q[i] \in Plans
  BY DEF Proper, Listed
<1> QED BY <1>2, <1>3, AgedFacts

\* A look shows no entry after its end.
LEMMA NothingOver ==
    ASSUME NEW l, NEW t \in Nat, NEW n, Proper(l, t, n),
           NEW p \in Elements(Refreshed(l, t).plans), Activity(Refreshed(l, t), t).id = p.id
    PROVE  t < End(p)
<1> DEFINE e == Refreshed(l, t)
           q == e.plans
           a == Activity(e, t)
<1>1. Proper(e, t, n) /\ q \in Seq(Plans) /\ InOrder(q)
  <2>1. Proper(e, t, n)
    BY RefreshedFacts
  <2> HIDE DEF e
  <2> QED BY <2>1 DEF Proper, Listed
<1>2. \A i \in 1..Len(q) : /\ q[i] \in Plans /\ q[i].id \in Ids /\ Sound(q[i]) /\ q[i].day <= Day(t)
                           /\ q[i].id \in Int
  BY <1>1, PlanFacts DEF Proper, Listed, Ids
<1>3. PICK k \in 1..Len(q) : p = q[k]
  BY <1>1, ElementsFacts
<1>4. /\ a.id = p.id
      /\ a = IF Spoken(e, t) # {} THEN [id |-> Greatest(Spoken(e, t)), as |-> "fact"]
             ELSE IF Glimpsed(e, t) # {} THEN [id |-> Greatest(Glimpsed(e, t)), as |-> "fact"]
             ELSE IF Due(e, t) # {} THEN [id |-> Greatest(Due(e, t)), as |-> "committed"]
             ELSE Nothing
      /\ \A S \in {Spoken(e, t), Glimpsed(e, t), Due(e, t)} : S # {} => Greatest(S) \in S
  BY <1>1, ActivityFacts
<1>5. Nothing.id # p.id
  <2>1. None \notin Ids
    BY DEF None, Ids
  <2> QED BY <1>2, <1>3, <2>1 DEF Nothing
<1>6. p.id \in Spoken(e, t) \cup Glimpsed(e, t) \cup Due(e, t)
  <2> HIDE DEF a
  <2> QED BY <1>4, <1>5
<1>7. p.id \notin Glimpsed(e, t)
  BY <1>1, <1>3 DEF Proper, Glimpsed, IdsAt
<1>8. PICK i \in 1..Len(q) : q[i].id = p.id /\ (Says(q[i], t) \/ PlannedNow(q[i], t))
  BY <1>6, <1>7 DEF Spoken, Due, IdsAt
<1>9. i = k
  <2> HIDE DEF q
  <2>1. Len(q) \in Nat
    BY <1>1
  <2> QED BY <1>1, <1>2, <1>3, <1>8, <2>1, OneOfId
<1>10. Active(p) /\ (p.source = "commit" \/ Covers(p, Minute(t)))
  BY <1>2, <1>3, <1>8, <1>9, ShownIsActive
<1>11. ~Over(p, t)
  <2>1. \E j \in 1..Len(l.plans) :
          q[k] = l.plans[j] /\ Left(l, l.plans[j], t) /\ ~Over(l.plans[j], t)
    BY <1>3, <1>10, ActiveFacts
  <2> QED BY <1>3, <2>1
<1> QED BY <1>2, <1>3, <1>10, <1>11, ShownGoesOn

-----------------------------------------------------------------------------
(* Looking changes nothing that is seen later                              *)

\* A life that was looked at is a possible one at any later time.
LEMMA LookedProper ==
    ASSUME NEW l, NEW n \in Nat, NEW t \in Nat, NEW m \in Nat, n <= t, Proper(l, n, m)
    PROVE  /\ Proper(l, t, m) /\ Proper(Refreshed(l, n), n, m) /\ Proper(Refreshed(l, n), t, m)
           /\ Refreshed(l, n).day = Day(n)
           /\ Day(n) \in Nat /\ Day(t) \in Nat /\ Day(n) <= Day(t) /\ l.day \in Int /\ l.day <= Day(n)
<1>1. Proper(Refreshed(l, n), n, m) /\ Refreshed(l, n).day = Day(n)
  BY RefreshedFacts
<1>2. Proper(l, t, m) /\ Proper(Refreshed(l, n), t, m)
  BY <1>1, ProperLater, m <= m
<1>3. Day(n) \in Nat /\ Day(t) \in Nat /\ Day(n) <= Day(t)
  BY DayFacts, LaterFacts
<1>4. l.day \in Int /\ l.day <= Day(n)
  BY DEF Proper, Lives, None
<1> QED BY <1>1, <1>2, <1>3, <1>4

\* A plan of the list that is in force after one look is in force after two.
LEMMA KeptByTwo ==
    ASSUME NEW l, NEW n \in Nat, NEW t \in Nat, NEW m \in Nat, n <= t, Proper(l, n, m),
           NEW k \in 1..Len(Refreshed(l, t).plans), Active(Refreshed(l, t).plans[k])
    PROVE  \E j \in 1..Len(Refreshed(Refreshed(l, n), t).plans) :
              Refreshed(Refreshed(l, n), t).plans[j] = Refreshed(l, t).plans[k]
<1> DEFINE a == Refreshed(l, n)
           q == l.plans
<1>1. /\ Proper(l, t, m) /\ Proper(a, n, m) /\ Proper(a, t, m) /\ a.day = Day(n)
      /\ Day(n) \in Nat /\ Day(t) \in Nat /\ Day(n) <= Day(t) /\ l.day \in Int /\ l.day <= Day(n)
  BY LookedProper
<1>2. PICK i \in 1..Len(q) : Refreshed(l, t).plans[k] = q[i] /\ Left(l, q[i], t) /\ ~Over(q[i], t)
  BY <1>1, ActiveFacts
<1>3. q[i] \in Plans /\ Sound(q[i]) /\ q[i].day <= Day(n)
  BY DEF Proper, Listed
<1>4. ~Over(q[i], n)
  BY <1>2, <1>3, OverLater
<1>5. Left(l, q[i], n)
  <2>1. CASE l.day = Day(t)
    <3>1. l.day = Day(n)
      BY <1>1, <2>1
    <3> QED BY <3>1 DEF Left
  <2>2. CASE l.day # Day(t)
    <3>1. Stays(q[i], t)
      BY <1>2, <2>2 DEF Left
    <3>2. Stays(q[i], n)
      BY <1>3, <3>1, GoneLater
    <3> QED BY <3>2 DEF Left
  <2> QED BY <2>1, <2>2
<1>6. PICK j \in 1..Len(a.plans) : a.plans[j] = q[i]
  BY <1>4, <1>5, KeptFacts
<1>7. Left(a, a.plans[j], t)
  <2>1. CASE Day(n) = Day(t)
    BY <1>1, <2>1 DEF Left
  <2>2. CASE Day(n) # Day(t)
    <3>1. l.day # Day(t)
      BY <1>1, <2>2
    <3>2. Stays(q[i], t)
      BY <1>2, <3>1 DEF Left
    <3> QED BY <1>6, <3>2 DEF Left
  <2> QED BY <2>1, <2>2
<1> HIDE DEF a
<1>8. \E i1 \in 1..Len(Refreshed(a, t).plans) : Refreshed(a, t).plans[i1] = a.plans[j]
  BY <1>1, <1>2, <1>6, <1>7, KeptFacts
<1> QED BY <1>2, <1>6, <1>8 DEF a

\* And the other way around.
LEMMA KeptByOne ==
    ASSUME NEW l, NEW n \in Nat, NEW t \in Nat, NEW m \in Nat, n <= t, Proper(l, n, m),
           NEW k \in 1..Len(Refreshed(Refreshed(l, n), t).plans),
           Active(Refreshed(Refreshed(l, n), t).plans[k])
    PROVE  \E j \in 1..Len(Refreshed(l, t).plans) :
              Refreshed(l, t).plans[j] = Refreshed(Refreshed(l, n), t).plans[k]
<1> DEFINE a == Refreshed(l, n)
           q == l.plans
           b == Refreshed(a, t)
<1>1. /\ Proper(l, t, m) /\ Proper(a, n, m) /\ Proper(a, t, m) /\ a.day = Day(n)
      /\ Day(n) \in Nat /\ Day(t) \in Nat /\ Day(n) <= Day(t) /\ l.day \in Int /\ l.day <= Day(n)
  BY LookedProper
<1>2. PICK j \in 1..Len(a.plans) : b.plans[k] = a.plans[j] /\ Left(a, a.plans[j], t) /\ ~Over(a.plans[j], t)
  <2> HIDE DEF a
  <2>1. k \in 1..Len(Refreshed(a, t).plans) /\ Active(Refreshed(a, t).plans[k])
    BY DEF a
  <2> QED BY <1>1, <2>1, ActiveFacts
<1>3. PICK i \in 1..Len(q) : a.plans[j] = q[i] /\ Left(l, q[i], n) /\ ~Over(q[i], n)
  <2>1. Active(a.plans[j])
    BY <1>2
  <2> QED BY <2>1, ActiveFacts
<1>4. q[i] \in Plans /\ Sound(q[i]) /\ q[i].day <= Day(n)
  BY DEF Proper, Listed
<1>5. Left(l, q[i], t)
  <2>1. CASE l.day = Day(t)
    BY <2>1 DEF Left
  <2>2. CASE l.day # Day(t) /\ Day(n) # Day(t)
    BY <1>1, <1>2, <1>3, <2>2 DEF Left
  <2>3. CASE l.day # Day(t) /\ Day(n) = Day(t)
    <3>1. Stays(q[i], n)
      BY <1>3, <2>3 DEF Left
    <3>2. Stays(q[i], t)
      BY <1>2, <1>3, <1>4, <2>3, <3>1, StaysUntilOver
    <3> QED BY <3>2 DEF Left
  <2> QED BY <2>1, <2>2, <2>3
<1>6. \E i1 \in 1..Len(Refreshed(l, t).plans) : Refreshed(l, t).plans[i1] = q[i]
  BY <1>1, <1>2, <1>3, <1>5, KeptFacts
<1> QED BY <1>2, <1>3, <1>6

\* The observations are the same ones.
LEMMA NotesOfTwo ==
    ASSUME NEW l, NEW n \in Nat, NEW t \in Nat, NEW m \in Nat, n <= t, Proper(l, n, m)
    PROVE  /\ Among(Refreshed(l, t).observations, Refreshed(Refreshed(l, n), t).observations)
           /\ Among(Refreshed(Refreshed(l, n), t).observations, Refreshed(l, t).observations)
<1> DEFINE a == Refreshed(l, n)
           b == Refreshed(a, t)
           c == Refreshed(l, t)
           o == l.observations
<1>1. /\ Proper(l, t, m) /\ Proper(a, n, m) /\ Proper(a, t, m) /\ a.day = Day(n)
      /\ Day(n) \in Nat /\ Day(t) \in Nat /\ Day(n) <= Day(t) /\ l.day \in Int /\ l.day <= Day(n)
  BY LookedProper
<1>2. /\ \A k \in 1..Len(a.observations) : \E i \in 1..Len(o) :
            a.observations[k] = o[i] /\ LeftNote(l, o[i], n)
      /\ \A i \in 1..Len(o) : LeftNote(l, o[i], n) =>
            \E k \in 1..Len(a.observations) : a.observations[k] = o[i]
  BY RefreshedFacts
<1>3. /\ \A k \in 1..Len(c.observations) : \E i \in 1..Len(o) :
            c.observations[k] = o[i] /\ LeftNote(l, o[i], t)
      /\ \A i \in 1..Len(o) : LeftNote(l, o[i], t) =>
            \E k \in 1..Len(c.observations) : c.observations[k] = o[i]
  BY <1>1, RefreshedFacts
<1>4. /\ \A k \in 1..Len(b.observations) : \E i \in 1..Len(a.observations) :
            b.observations[k] = a.observations[i] /\ LeftNote(a, a.observations[i], t)
      /\ \A i \in 1..Len(a.observations) : LeftNote(a, a.observations[i], t) =>
            \E k \in 1..Len(b.observations) : b.observations[k] = a.observations[i]
  <2> HIDE DEF a
  <2> QED BY <1>1, RefreshedFacts
<1>5. ASSUME NEW i \in 1..Len(o)
      PROVE  LeftNote(l, o[i], t) <=> LeftNote(l, o[i], n) /\ LeftNote(a, o[i], t)
  <2>1. o[i].at \in Nat /\ o[i].at <= n
    <3>1. o[i] \in Observations /\ o[i].at <= n
      BY DEF Proper, Noticed
    <3> QED BY <3>1, NoteFacts
  <2>2. Day(o[i].at) \in Nat /\ Day(o[i].at) <= Day(n)
    BY <2>1, DayFacts, LaterFacts
  <2>3. LeftNote(a, o[i], t) <=> (Day(n) = Day(t) \/ Day(o[i].at) = Day(t))
    BY <1>1 DEF LeftNote
  <2> HIDE DEF a, o
  <2> QED BY <1>1, <2>2, <2>3 DEF LeftNote
<1> HIDE DEF a, b, c, o
<1>6. ASSUME NEW k \in 1..Len(c.observations)
      PROVE  \E j \in 1..Len(b.observations) : b.observations[j] = c.observations[k]
  <2>1. PICK i \in 1..Len(o) : c.observations[k] = o[i] /\ LeftNote(l, o[i], t)
    BY <1>3
  <2>2. PICK j \in 1..Len(a.observations) : a.observations[j] = o[i]
    BY <1>2, <1>5, <2>1
  <2> QED BY <1>4, <1>5, <2>1, <2>2
<1>7. ASSUME NEW k \in 1..Len(b.observations)
      PROVE  \E j \in 1..Len(c.observations) : c.observations[j] = b.observations[k]
  <2>1. PICK j \in 1..Len(a.observations) :
          b.observations[k] = a.observations[j] /\ LeftNote(a, a.observations[j], t)
    BY <1>4
  <2>2. PICK i \in 1..Len(o) : a.observations[j] = o[i] /\ LeftNote(l, o[i], n)
    BY <1>2
  <2> QED BY <1>3, <1>5, <2>1, <2>2
<1>8. Among(c.observations, b.observations) /\ Among(b.observations, c.observations)
  BY <1>6, <1>7 DEF Among
<1> QED BY <1>8 DEF a, b, c

\* So is the place.
LEMMA PlaceOfTwo ==
    ASSUME NEW l, NEW n \in Nat, NEW t \in Nat, NEW m \in Nat, n <= t, Proper(l, n, m)
    PROVE  Refreshed(Refreshed(l, n), t).place = Refreshed(l, t).place
<1> DEFINE a == Refreshed(l, n)
           q == l.plans
           x == l.place
           gone(u) == \/ x.until # None /\ u >= x.until
                      \/ \E i \in 1..Len(q) : q[i].id = x.item /\ (~Left(l, q[i], u) \/ Over(q[i], u))
           gone2 == \/ a.place.until # None /\ t >= a.place.until
                    \/ \E j \in 1..Len(a.plans) : a.plans[j].id = a.place.item
                                                 /\ (~Left(a, a.plans[j], t) \/ Over(a.plans[j], t))
<1>1. /\ Proper(l, t, m) /\ Proper(a, n, m) /\ Proper(a, t, m) /\ a.day = Day(n)
      /\ Day(n) \in Nat /\ Day(t) \in Nat /\ Day(n) <= Day(t) /\ l.day \in Int /\ l.day <= Day(n)
  BY LookedProper
<1>2. /\ a.place = IF gone(n) THEN Nowhere ELSE x
      /\ \A j \in 1..Len(a.plans) : \E i \in 1..Len(q) : a.plans[j] = Aged(q[i], n) /\ Left(l, q[i], n)
      /\ \A i \in 1..Len(q) : Left(l, q[i], n) => \E j \in 1..Len(a.plans) : a.plans[j] = Aged(q[i], n)
  BY RefreshedFacts
<1>3. Refreshed(l, t).place = IF gone(t) THEN Nowhere ELSE x
  BY <1>1, RefreshedFacts
<1>4. Refreshed(a, t).place = IF gone2 THEN Nowhere ELSE a.place
  <2> HIDE DEF a
  <2> QED BY <1>1, RefreshedFacts
<1>5. \A i \in 1..Len(q) : q[i] \in Plans /\ Sound(q[i]) /\ q[i].day <= Day(n)
  BY DEF Proper, Listed
<1>6. x.until \in Int
  BY DEF Proper, Lives, Places, None
<1>7. ASSUME gone(n) PROVE gone(t)
  <2>1. CASE x.until # None /\ n >= x.until
    BY <1>6, <2>1
  <2>2. ASSUME NEW i \in 1..Len(q), q[i].id = x.item, ~Left(l, q[i], n) \/ Over(q[i], n)
        PROVE  ~Left(l, q[i], t) \/ Over(q[i], t)
    <3>1. CASE Over(q[i], n)
      BY <1>5, <3>1, OverLater
    <3>2. CASE ~Left(l, q[i], n)
      <4>1. ~Stays(q[i], t) /\ l.day # Day(n)
        BY <1>5, <3>2, GoneLater DEF Left
      <4>2. l.day # Day(t)
        BY <1>1, <4>1
      <4> QED BY <4>1, <4>2 DEF Left
    <3> QED BY <2>2, <3>1, <3>2
  <2> QED BY <1>7, <2>1, <2>2
<1>8. CASE gone(n)
  <2>1. a.place = Nowhere /\ Refreshed(l, t).place = Nowhere
    BY <1>2, <1>3, <1>7, <1>8
  <2> QED BY <1>4, <2>1
<1>9. CASE ~gone(n)
  <2>1. a.place = x
    BY <1>2, <1>9
  <2>2. \A i \in 1..Len(q) : q[i].id = x.item => Left(l, q[i], n) /\ ~Over(q[i], n) /\ Aged(q[i], n) = q[i]
    BY <1>5, <1>9, AgedFacts
  <2>3. ASSUME NEW i \in 1..Len(q), q[i].id = x.item
        PROVE  ~Left(l, q[i], t) \/ Over(q[i], t) <=> ~Left(a, q[i], t) \/ Over(q[i], t)
    <3>1. Left(l, q[i], n) /\ q[i] \in Plans /\ q[i].day <= Day(n)
      BY <1>5, <2>2, <2>3
    <3>2. Left(a, q[i], t) <=> Day(n) = Day(t) \/ Stays(q[i], t)
      BY <1>1 DEF Left
    <3>3. CASE Day(n) # Day(t)
      <4>1. l.day # Day(t)
        BY <1>1, <3>3
      <4> QED BY <3>2, <3>3, <4>1 DEF Left
    <3>4. CASE Day(n) = Day(t) /\ ~Left(l, q[i], t)
      <4>1. ~Stays(q[i], t) /\ Stays(q[i], n)
        BY <3>1, <3>4 DEF Left
      <4>2. Over(q[i], t)
        BY <3>1, <3>4, <4>1, StaysUntilOver
      <4> QED BY <4>2
    <3>5. CASE Day(n) = Day(t) /\ Left(l, q[i], t)
      BY <3>2, <3>5
    <3> QED BY <3>3, <3>4, <3>5
  <2>4. ASSUME NEW i \in 1..Len(q), q[i].id = x.item, ~Left(l, q[i], t) \/ Over(q[i], t)
        PROVE  gone2
    <3>1. PICK j \in 1..Len(a.plans) : a.plans[j] = q[i]
      BY <1>2, <2>2, <2>4
    <3>2. ~Left(a, a.plans[j], t) \/ Over(a.plans[j], t)
      BY <2>3, <2>4, <3>1
    <3> QED BY <2>1, <2>4, <3>1, <3>2
  <2>5. ASSUME NEW j \in 1..Len(a.plans), a.plans[j].id = x.item,
               ~Left(a, a.plans[j], t) \/ Over(a.plans[j], t)
        PROVE  gone(t)
    <3>1. PICK i \in 1..Len(q) : a.plans[j] = Aged(q[i], n)
      BY <1>2
    <3>2. q[i].id = x.item
      BY <1>5, <2>5, <3>1, AgedFacts
    <3>3. a.plans[j] = q[i]
      BY <2>2, <3>1, <3>2
    <3> QED BY <2>3, <2>5, <3>2, <3>3
  <2>6. gone(t) <=> gone2
    BY <2>1, <2>4, <2>5
  <2> HIDE DEF gone, gone2
  <2> QED BY <1>3, <1>4, <2>1, <2>6
<1> QED BY <1>8, <1>9

\* What is seen of a life at a time.
View(l, t) == [activity |-> Activity(Refreshed(l, t), t), place |-> Refreshed(l, t).place]

\* A look before t does not change what a look at t shows.
LEMMA LookLater ==
    ASSUME NEW l, NEW n \in Nat, NEW t \in Nat, NEW m \in Nat, n <= t, Proper(l, n, m)
    PROVE  View(Refreshed(l, n), t) = View(l, t)
<1> DEFINE b == Refreshed(Refreshed(l, n), t)
           c == Refreshed(l, t)
<1>1. Proper(b, t, m) /\ Proper(c, t, m)
  <2>1. Proper(l, t, m) /\ Proper(Refreshed(l, n), t, m)
    BY LookedProper
  <2>2. Proper(c, t, m)
    <3>1. Proper(Refreshed(l, t), t, m)
      BY <2>1, RefreshedFacts
    <3> QED BY <3>1 DEF c
  <2>3. Proper(b, t, m)
    <3> DEFINE a == Refreshed(l, n)
    <3> HIDE DEF a
    <3>1. Proper(Refreshed(a, t), t, m)
      BY <2>1, RefreshedFacts DEF a
    <3> QED BY <3>1 DEF a
  <2> QED BY <2>2, <2>3
<1>2. /\ \A k \in 1..Len(b.plans) : b.plans[k] \in Plans /\ Sound(b.plans[k])
      /\ \A k \in 1..Len(c.plans) : c.plans[k] \in Plans /\ Sound(c.plans[k])
  <2> HIDE DEF b, c
  <2> QED BY <1>1 DEF Proper, Listed
<1>3. \A k \in 1..Len(c.plans) : Active(c.plans[k]) => \E j \in 1..Len(b.plans) : b.plans[j] = c.plans[k]
  BY KeptByTwo
<1>4. \A k \in 1..Len(b.plans) : Active(b.plans[k]) => \E j \in 1..Len(c.plans) : c.plans[j] = b.plans[k]
  BY KeptByOne
<1>5. /\ \A k \in 1..Len(c.observations) : \E j \in 1..Len(b.observations) : b.observations[j] = c.observations[k]
      /\ \A k \in 1..Len(b.observations) : \E j \in 1..Len(c.observations) : c.observations[j] = b.observations[k]
  <2>1. /\ Among(Refreshed(l, t).observations, Refreshed(Refreshed(l, n), t).observations)
        /\ Among(Refreshed(Refreshed(l, n), t).observations, Refreshed(l, t).observations)
    BY NotesOfTwo
  <2> QED BY <2>1 DEF Among
<1>6. b.place = c.place
  BY PlaceOfTwo
<1> HIDE DEF b, c
<1>7. /\ \A k \in 1..Len(b.plans) : Says(b.plans[k], t) \/ PlannedNow(b.plans[k], t) => Active(b.plans[k])
      /\ \A k \in 1..Len(c.plans) : Says(c.plans[k], t) \/ PlannedNow(c.plans[k], t) => Active(c.plans[k])
  BY <1>2, ShownIsActive
<1>8. Spoken(b, t) = Spoken(c, t)
  <2>1. ASSUME NEW k \in 1..Len(b.plans), Says(b.plans[k], t)
        PROVE  \E j \in 1..Len(c.plans) : Says(c.plans[j], t) /\ c.plans[j].id = b.plans[k].id
    <3>1. PICK j \in 1..Len(c.plans) : c.plans[j] = b.plans[k]
      BY <1>3, <1>4, <1>7, <2>1
    <3> QED BY <2>1, <3>1
  <2>2. ASSUME NEW k \in 1..Len(c.plans), Says(c.plans[k], t)
        PROVE  \E j \in 1..Len(b.plans) : Says(b.plans[j], t) /\ b.plans[j].id = c.plans[k].id
    <3>1. PICK j \in 1..Len(b.plans) : b.plans[j] = c.plans[k]
      BY <1>3, <1>4, <1>7, <2>2
    <3> QED BY <2>2, <3>1
  <2> DEFINE I == {i \in 1..Len(b.plans) : Says(b.plans[i], t)}
             J == {i \in 1..Len(c.plans) : Says(c.plans[i], t)}
  <2>3. /\ \A i \in I : \E j \in J : c.plans[j].id = b.plans[i].id
        /\ \A j \in J : \E i \in I : b.plans[i].id = c.plans[j].id
    BY <2>1, <2>2
  <2> HIDE DEF I, J
  <2>4. IdsAt(b.plans, I) = IdsAt(c.plans, J)
    BY <2>3, SameIds
  <2> QED BY <2>4 DEF Spoken, I, J
<1>9. Due(b, t) = Due(c, t)
  <2>1. ASSUME NEW k \in 1..Len(b.plans), PlannedNow(b.plans[k], t)
        PROVE  \E j \in 1..Len(c.plans) : PlannedNow(c.plans[j], t) /\ c.plans[j].id = b.plans[k].id
    <3>1. PICK j \in 1..Len(c.plans) : c.plans[j] = b.plans[k]
      BY <1>3, <1>4, <1>7, <2>1
    <3> QED BY <2>1, <3>1
  <2>2. ASSUME NEW k \in 1..Len(c.plans), PlannedNow(c.plans[k], t)
        PROVE  \E j \in 1..Len(b.plans) : PlannedNow(b.plans[j], t) /\ b.plans[j].id = c.plans[k].id
    <3>1. PICK j \in 1..Len(b.plans) : b.plans[j] = c.plans[k]
      BY <1>3, <1>4, <1>7, <2>2
    <3> QED BY <2>2, <3>1
  <2> DEFINE I == {i \in 1..Len(b.plans) : PlannedNow(b.plans[i], t)}
             J == {i \in 1..Len(c.plans) : PlannedNow(c.plans[i], t)}
  <2>3. /\ \A i \in I : \E j \in J : c.plans[j].id = b.plans[i].id
        /\ \A j \in J : \E i \in I : b.plans[i].id = c.plans[j].id
    BY <2>1, <2>2
  <2> HIDE DEF I, J
  <2>4. IdsAt(b.plans, I) = IdsAt(c.plans, J)
    BY <2>3, SameIds
  <2> QED BY <2>4 DEF Due, I, J
<1>10. Glimpsed(b, t) = Glimpsed(c, t)
  <2>1. ASSUME NEW k \in 1..Len(b.observations), Recent(b.observations[k], t)
        PROVE  \E j \in 1..Len(c.observations) : Recent(c.observations[j], t) /\ c.observations[j].id = b.observations[k].id
    <3>1. PICK j \in 1..Len(c.observations) : c.observations[j] = b.observations[k]
      BY <1>5, <2>1
    <3> QED BY <2>1, <3>1
  <2>2. ASSUME NEW k \in 1..Len(c.observations), Recent(c.observations[k], t)
        PROVE  \E j \in 1..Len(b.observations) : Recent(b.observations[j], t) /\ b.observations[j].id = c.observations[k].id
    <3>1. PICK j \in 1..Len(b.observations) : b.observations[j] = c.observations[k]
      BY <1>5, <2>2
    <3> QED BY <2>2, <3>1
  <2> DEFINE I == {i \in 1..Len(b.observations) : Recent(b.observations[i], t)}
             J == {i \in 1..Len(c.observations) : Recent(c.observations[i], t)}
  <2>3. /\ \A i \in I : \E j \in J : c.observations[j].id = b.observations[i].id
        /\ \A j \in J : \E i \in I : b.observations[i].id = c.observations[j].id
    BY <2>1, <2>2
  <2> HIDE DEF I, J
  <2>4. IdsAt(b.observations, I) = IdsAt(c.observations, J)
    BY <2>3, SameIds
  <2> QED BY <2>4 DEF Glimpsed, I, J
<1>11. Activity(b, t) = Activity(c, t)
  BY <1>1, <1>8, <1>9, <1>10, ActivityFacts
<1> QED BY <1>6, <1>11 DEF View, b, c

\* What goes on is there by index, and goes on less and less.
LEMMA GoingFacts ==
    ASSUME NEW l, NEW t \in Nat, NEW n, Proper(l, t, n), NEW u
    PROVE  /\ \A p \in Going(l.plans, u) : /\ p \in Plans /\ Sound(p) /\ p.day <= Day(t) /\ p.day \in Nat
                                           /\ End(p) \in Nat /\ Active(p) /\ u < End(p)
                                           /\ \E i \in 1..Len(l.plans) : l.plans[i] = p
           /\ \A i \in 1..Len(l.plans) : Active(l.plans[i]) /\ u < End(l.plans[i])
                 => l.plans[i] \in Going(l.plans, u)
<1> DEFINE q == l.plans
<1>1. /\ q \in Seq(Plans) /\ Elements(q) = {q[i] : i \in 1..Len(q)}
      /\ \A i \in 1..Len(q) : q[i] \in Plans /\ Sound(q[i]) /\ q[i].day <= Day(t)
  BY ElementsFacts DEF Proper, Lives, Listed
<1> HIDE DEF q
<1>2. \A i \in 1..Len(q) : End(q[i]) \in Nat /\ q[i].day \in Nat
  BY <1>1, EndFacts, PlanFacts
<1>3. \A p \in Going(q, u) : Active(p) /\ u < End(p) /\ \E i \in 1..Len(q) : q[i] = p
  BY <1>1 DEF Going
<1>4. \A i \in 1..Len(q) : Active(q[i]) /\ u < End(q[i]) => q[i] \in Going(q, u)
  BY <1>1 DEF Going
<1>5. \A p \in Going(q, u) : /\ p \in Plans /\ Sound(p) /\ p.day <= Day(t) /\ p.day \in Nat
                             /\ End(p) \in Nat
  BY <1>1, <1>2, <1>3
<1> QED BY <1>3, <1>4, <1>5 DEF q

\* What goes on a moment later is what has not ended by then.
LEMMA GoingOn ==
    ASSUME NEW l, NEW t \in Nat, NEW n, Proper(l, t, n)
    PROVE  Going(l.plans, t + 1) = {p \in Going(l.plans, t) : t + 1 < End(p)}
<1>1. \A p \in Elements(l.plans) : End(p) \in Nat
  <2>1. /\ l.plans \in Seq(Plans) /\ Elements(l.plans) = {l.plans[i] : i \in 1..Len(l.plans)}
        /\ \A i \in 1..Len(l.plans) : l.plans[i] \in Plans /\ Sound(l.plans[i])
    BY ElementsFacts DEF Proper, Lives, Listed
  <2> QED BY <2>1, EndFacts
<1>2. \A p \in Elements(l.plans) : t + 1 < End(p) => t < End(p)
  BY <1>1
<1> QED BY <1>2 DEF Going

\* A look changes nothing of what goes on.
LEMMA GoingLooked ==
    ASSUME NEW l, NEW t \in Nat, NEW n, Proper(l, t, n)
    PROVE  Going(Refreshed(l, t).plans, t) = Going(l.plans, t)
<1> DEFINE q == l.plans
           e == Refreshed(l, t)
           f == e.plans
<1>1. Proper(e, t, n)
  BY RefreshedFacts
<1>2. \A k \in 1..Len(f) : Active(f[k]) => \E i \in 1..Len(q) : f[k] = q[i]
  BY ActiveFacts
<1>3. \A i \in 1..Len(q) : Left(l, q[i], t) /\ ~Over(q[i], t) => \E k \in 1..Len(f) : f[k] = q[i]
  BY KeptFacts
<1> HIDE DEF e
<1>4. ASSUME NEW p \in Going(f, t) PROVE p \in Going(q, t)
  <2>1. Active(p) /\ t < End(p) /\ \E k \in 1..Len(f) : f[k] = p
    BY <1>1, <1>4, GoingFacts
  <2>2. PICK i \in 1..Len(q) : p = q[i]
    BY <1>2, <2>1
  <2> QED BY <2>1, <2>2, GoingFacts
<1>5. ASSUME NEW p \in Going(q, t) PROVE p \in Going(f, t)
  <2>1. /\ p \in Plans /\ Sound(p) /\ p.day <= Day(t) /\ End(p) \in Nat /\ Active(p) /\ t < End(p)
        /\ \E i \in 1..Len(q) : q[i] = p
    BY <1>5, GoingFacts
  <2>2. ~(End(p) <= t)
    BY <2>1
  <2>3. Left(l, p, t) /\ ~Over(p, t)
    BY <2>1, <2>2, OverEnds, GoneEnds DEF Left
  <2>4. PICK k \in 1..Len(f) : f[k] = p
    BY <1>3, <2>1, <2>3
  <2> QED BY <1>1, <2>1, <2>4, GoingFacts
<1> QED BY <1>4, <1>5 DEF e

-----------------------------------------------------------------------------
(* What the operations leave                                               *)

\* The place that a statement gave has the statement, or it was pushed out.
Backed(l, gone) ==
    l.place.source = "self_state" =>
       \/ \E i \in 1..Len(l.plans) :
             /\ l.plans[i].id = l.place.item
             /\ Active(l.plans[i]) /\ l.plans[i].source = "commit"
       \/ l.place.item \in gone

\* A look takes the place away where it takes the statement away.
LEMMA BackedLooked ==
    ASSUME NEW l, NEW t \in Nat, NEW n, NEW gone, Proper(l, t, n), Backed(l, gone)
    PROVE  Backed(Refreshed(l, t), gone)
<1> DEFINE e == Refreshed(l, t)
           q == l.plans
<1>1. e.place = IF \/ l.place.until # None /\ t >= l.place.until
                   \/ \E i \in 1..Len(q) : q[i].id = l.place.item /\ (~Left(l, q[i], t) \/ Over(q[i], t))
                THEN Nowhere ELSE l.place
  BY RefreshedFacts
<1>2. \A i \in 1..Len(q) : Left(l, q[i], t) /\ ~Over(q[i], t) =>
         \E k \in 1..Len(e.plans) : e.plans[k] = q[i]
  BY KeptFacts
<1> HIDE DEF e, q
<1>3. CASE e.place = Nowhere
  BY <1>3 DEF Backed, Nowhere, e
<1>4. CASE e.place # Nowhere
  <2>1. /\ e.place = l.place
        /\ \A i \in 1..Len(q) : q[i].id = l.place.item => Left(l, q[i], t) /\ ~Over(q[i], t)
    BY <1>1, <1>4
  <2>2. ASSUME NEW i \in 1..Len(q), q[i].id = l.place.item, Active(q[i]), q[i].source = "commit"
        PROVE  \E k \in 1..Len(e.plans) :
                  e.plans[k].id = e.place.item /\ Active(e.plans[k]) /\ e.plans[k].source = "commit"
    <3>1. PICK k \in 1..Len(e.plans) : e.plans[k] = q[i]
      BY <1>2, <2>1, <2>2
    <3> QED BY <2>1, <2>2, <3>1
  <2>3. Backed(e, gone)
    BY <2>1, <2>2 DEF Backed, q
  <2> QED BY <2>3 DEF e
<1> QED BY <1>3, <1>4

\* Only the status of plans is changed.
LEMMA Restated ==
    ASSUME NEW q, NEW f \in Seq(Plans), NEW t, NEW n, Listed(q, t, n), Len(f) = Len(q),
           \A k \in 1..Len(q) : /\ f[k].id = q[k].id /\ f[k].source = q[k].source
                                /\ f[k].day = q[k].day /\ Sound(f[k])
    PROVE  Listed(f, t, n)
<1>1. InOrder(f) /\ OneStatement(f)
  BY DEF Listed, InOrder, OneStatement
<1> QED BY <1>1 DEF Listed

\* Other plans, of which the last ones are kept, and another place.
LEMMA PlansSaved ==
    ASSUME NEW l, NEW t \in Nat, NEW n \in Nat, NEW m \in Nat, n <= m, Proper(l, t, n),
           NEW q, Listed(q, t, m),
           \A k \in 1..Len(q) : q[k].id > n \/ \E i \in 1..Len(l.plans) : l.plans[i].id = q[k].id,
           NEW x \in Places, x.source = "observation" => x.until # None
    PROVE  Proper([l EXCEPT !.plans = Cut(q, MaxPlans), !.place = x], t, m)
<1> DEFINE c == Cut(q, MaxPlans)
           r == [l EXCEPT !.plans = c, !.place = x]
<1>1. q \in Seq(Plans) /\ MaxPlans \in Nat \ {0}
  BY DailyLifeAssumption DEF Listed
<1>2. c \in Seq(Plans) /\ Sub(c, q) /\ Len(c) <= MaxPlans
  BY <1>1, CutFacts
<1>3. Listed(c, t, m)
  <2> HIDE DEF c
  <2> QED BY <1>2, SubListed
<1> HIDE DEF c
<1>4. Proper(l, t, m)
  BY ProperLater
<1>5. /\ l = [plans |-> l.plans, observations |-> l.observations, place |-> l.place, day |-> l.day]
      /\ l.observations \in Seq(Observations) /\ l.day \in Nat \cup {None}
  BY DEF Proper, Lives
<1>6. /\ r.plans = c /\ r.observations = l.observations /\ r.place = x /\ r.day = l.day
      /\ r = [plans |-> c, observations |-> l.observations, place |-> x, day |-> l.day]
  <2>1. r = [l EXCEPT !.plans = c, !.place = x]
    OBVIOUS
  <2> HIDE DEF r
  <2>2. r = [plans |-> c, observations |-> l.observations, place |-> x, day |-> l.day]
    BY <1>5, <2>1
  <2> QED BY <2>2
<1>7. r \in Lives
  BY <1>2, <1>5, <1>6 DEF Lives
<1>8. \A k \in 1..Len(c), j \in 1..Len(l.observations) : c[k].id # l.observations[j].id
  <2> TAKE k \in 1..Len(c), j \in 1..Len(l.observations)
  <2>1. PICK h \in 1..Len(q) : c[k] = q[h]
    BY <1>2 DEF Sub
  <2>2. l.observations[j].id <= n /\ l.observations[j] \in Observations
    BY DEF Proper, Noticed
  <2>3. l.observations[j].id \in Int
    BY <2>2, NoteFacts
  <2>4. q[h] \in Plans
    BY <1>1
  <2>5. q[h].id \in Int
    BY <2>4, PlanFacts DEF Ids
  <2>6. CASE q[h].id > n
    BY <2>1, <2>2, <2>3, <2>5, <2>6
  <2>7. CASE \E i \in 1..Len(l.plans) : l.plans[i].id = q[h].id
    BY <2>1, <2>7 DEF Proper
  <2> QED BY <2>6, <2>7
<1> HIDE DEF r
<1>9. Proper(r, t, m)
  BY <1>2, <1>3, <1>4, <1>6, <1>7, <1>8 DEF Proper
<1> QED BY <1>9 DEF r, c

\* Another observation, where the last ones are kept.
LEMMA NotesSaved ==
    ASSUME NEW l, NEW t \in Nat, NEW n \in Nat, Proper(l, t, n), NEW o \in Observations,
           o.at <= t, o.id = n + 1
    PROVE  Proper([l EXCEPT !.observations = Cut(Append(@, o), MaxObservations)], t, n + 1)
<1> DEFINE q == Append(l.observations, o)
           c == Cut(q, MaxObservations)
           r == [l EXCEPT !.observations = c]
<1>1. /\ l = [plans |-> l.plans, observations |-> l.observations, place |-> l.place, day |-> l.day]
      /\ l.observations \in Seq(Observations) /\ l.day \in Nat \cup {None}
      /\ l.plans \in Seq(Plans) /\ l.place \in Places
  BY DEF Proper, Lives
<1>2. Noticed(q, t, n + 1) /\ q \in Seq(Observations)
  <2>1. Noticed(l.observations, t, n)
    BY DEF Proper
  <2> QED BY <2>1, AppendNoticed DEF Noticed
<1>3. /\ \A k \in 1..Len(q) : k \in 1..Len(l.observations) \/ k = Len(l.observations) + 1
      /\ \A k \in 1..Len(l.observations) : q[k] = l.observations[k]
      /\ q[Len(l.observations) + 1] = o
  BY <1>1
<1> HIDE DEF q
<1>4. c \in Seq(Observations) /\ Sub(c, q) /\ Len(c) <= MaxObservations
  <2>1. MaxObservations \in Nat \ {0}
    BY DailyLifeAssumption
  <2> QED BY <1>2, <2>1, CutFacts
<1> HIDE DEF c
<1>5. Noticed(c, t, n + 1)
  BY <1>2, <1>4, SubNoticed
<1>6. Proper(l, t, n + 1)
  BY ProperLater
<1>7. /\ r.plans = l.plans /\ r.observations = c /\ r.place = l.place /\ r.day = l.day
      /\ r = [plans |-> l.plans, observations |-> c, place |-> l.place, day |-> l.day]
  BY <1>1
<1>8. r \in Lives
  BY <1>1, <1>4, <1>7 DEF Lives
<1>9. \A k \in 1..Len(l.plans), j \in 1..Len(c) : l.plans[k].id # c[j].id
  <2> TAKE k \in 1..Len(l.plans), j \in 1..Len(c)
  <2>1. PICK h \in 1..Len(q) : c[j] = q[h]
    BY <1>4 DEF Sub
  <2>2. l.plans[k].id <= n /\ l.plans[k] \in Plans
    BY DEF Proper, Listed
  <2>3. l.plans[k].id \in Int
    BY <2>2, PlanFacts DEF Ids
  <2>4. CASE h \in 1..Len(l.observations)
    BY <1>3, <2>1, <2>4 DEF Proper
  <2>5. CASE h = Len(l.observations) + 1
    BY <1>3, <2>1, <2>2, <2>3, <2>5
  <2> QED BY <1>3, <2>4, <2>5
<1> HIDE DEF r
<1>10. Proper(r, t, n + 1)
  BY <1>4, <1>5, <1>6, <1>7, <1>8, <1>9 DEF Proper
<1> QED BY <1>10 DEF r, c, q

\* What is left of the list without statements.
LEMMA UnstatedFacts ==
    ASSUME NEW l, NEW t, NEW n, Proper(l, t, n)
    PROVE  /\ Listed(Unstated(l), t, n) /\ Len(Unstated(l)) <= MaxPlans
           /\ \A k \in 1..Len(Unstated(l)) : /\ Unstated(l)[k].source # "commit"
                                             /\ \E i \in 1..Len(l.plans) : Unstated(l)[k] = l.plans[i]
           /\ \A i \in 1..Len(l.plans) : l.plans[i].source # "commit" =>
                 \E k \in 1..Len(Unstated(l)) : Unstated(l)[k] = l.plans[i]
<1> DEFINE q == l.plans
           I == {i \in 1..Len(q) : q[i].source # "commit"}
           u == Unstated(l)
<1>1. q \in Seq(Plans) /\ DOMAIN q = 1..Len(q) /\ Len(q) <= MaxPlans /\ Len(q) \in Nat
  BY DEF Proper, Lives
<1>2. u = Only(q, I)
  BY <1>1 DEF Unstated, Those
<1>3. I \in SUBSET (1..Len(q)) /\ \A i \in 1..Len(q) : i \in I <=> q[i].source # "commit"
  OBVIOUS
<1>4. Listed(q, t, n)
  BY DEF Proper
<1> HIDE DEF I, q, u
<1>5. /\ u \in Seq(Plans) /\ Sub(u, q) /\ Len(u) <= Len(q)
      /\ \A k \in 1..Len(u) : \E i \in I : u[k] = q[i]
      /\ \A i \in I : \E k \in 1..Len(u) : u[k] = q[i]
  <2>1. /\ Only(q, I) \in Seq(Plans) /\ Sub(Only(q, I), q) /\ Len(Only(q, I)) <= Len(q)
        /\ \A k \in 1..Len(Only(q, I)) : \E i \in I : Only(q, I)[k] = q[i]
        /\ \A i \in I : \E k \in 1..Len(Only(q, I)) : Only(q, I)[k] = q[i]
    BY <1>1, <1>3, OnlySub
  <2> QED BY <1>2, <2>1
<1>6. Listed(u, t, n)
  BY <1>4, <1>5, SubListed
<1>7. Len(u) <= MaxPlans
  <2>1. Len(u) \in Nat /\ MaxPlans \in Nat
    BY <1>5, DailyLifeAssumption
  <2> QED BY <1>1, <1>5, <2>1
<1>8. \A k \in 1..Len(u) : u[k].source # "commit" /\ \E i \in 1..Len(q) : u[k] = q[i]
  BY <1>3, <1>5
<1>9. \A i \in 1..Len(q) : q[i].source # "commit" => \E k \in 1..Len(u) : u[k] = q[i]
  BY <1>3, <1>5
<1> QED BY <1>6, <1>7, <1>8, <1>9 DEF u, q

-----------------------------------------------------------------------------
(* The inductive invariant                                                 *)

\* Both lives are possible ones,
Possible == Proper(life, now, made) /\ Proper(disk, now, made)

\* their places come from somewhere,
Founded == Backed(life, lost) /\ Backed(disk, lost)

\* and they will look the same whenever they are looked at.
Alike == \A t \in Nat : t >= now => View(disk, t) = View(life, t)

\* The same goes on in both,
SameDiary == Going(disk.plans, now) = Going(life.plans, now)

\* and the counters count.
Counted == now \in Times /\ made \in 0..MaxItems /\ lost \subseteq Ids

IInv == Counted /\ Possible /\ Founded /\ Alike /\ SameDiary

\* What the constants and counters are.
LEMMA CountFacts ==
    ASSUME Counted
    PROVE  /\ now \in Nat /\ made \in Nat /\ made + 1 \in Nat
           /\ made < MaxItems => made + 1 \in Ids /\ made + 1 \in 0..MaxItems
           /\ MaxItems \in Nat /\ MaxPlans \in Nat \ {0} /\ MaxObservations \in Nat \ {0}
BY DailyLifeAssumption DEF Counted, Times, Ids

\* What was pushed out were items.
LEMMA PushedIds ==
    ASSUME NEW q, NEW n, \A i \in DOMAIN q : q[i].id \in Ids
    PROVE  Pushed(q, n) \subseteq Ids
BY DEF Pushed, Elements

\* A look at the life that is there.
LEMMA TodayFacts ==
    ASSUME IInv
    PROVE  Proper(Today, now, made) /\ Backed(Today, lost) /\ Today.day = Day(now)
<1>1. now \in Nat /\ Proper(life, now, made) /\ Backed(life, lost)
  BY CountFacts DEF IInv, Possible, Founded
<1>2. Proper(Refreshed(life, now), now, made) /\ Refreshed(life, now).day = Day(now)
  BY <1>1, RefreshedFacts
<1>3. Backed(Refreshed(life, now), lost)
  BY <1>1, BackedLooked
<1> QED BY <1>2, <1>3 DEF Today

\* What is saved is the same on disk.
LEMMA SavedAlike ==
    ASSUME NEW l, Save(l), now' = now, Proper(l, now, made'), Backed(l, lost')
    PROVE  Possible' /\ Founded' /\ Alike' /\ SameDiary'
<1>1. life' = l /\ disk' = l
  BY DEF Save
<1>2. Possible'
  BY <1>1 DEF Possible
<1>3. Founded'
  BY <1>1 DEF Founded
<1>4. Alike' /\ SameDiary'
  BY <1>1 DEF Alike, SameDiary
<1> QED BY <1>2, <1>3, <1>4

\* The invariant holds of the empty life.
LEMMA InitInv == Init => IInv
<1> SUFFICES ASSUME Init PROVE IInv
  OBVIOUS
<1>1. Counted
  BY DailyLifeAssumption DEF Init, Counted, Times
<1>2. now = 0 /\ made = 0 /\ disk = life /\ Day(0) = 0
  BY DailyLifeAssumption DEF Init, Day
<1>3. /\ life.plans = <<>> /\ life.observations = <<>> /\ life.place = Nowhere /\ life.day = None
      /\ life \in Lives
  <2>1. /\ life = [plans |-> <<>>, observations |-> <<>>, place |-> Nowhere, day |-> None]
        /\ <<>> \in Seq(Plans) /\ <<>> \in Seq(Observations) /\ Nowhere \in Places
    BY DEF Init, Nowhere, Places
  <2>2. life \in Lives
    BY <2>1 DEF Lives
  <2> QED BY <2>1, <2>2
<1>4. Proper(life, 0, 0)
  <2>1. Listed(<<>>, 0, 0) /\ Noticed(<<>>, 0, 0) /\ Len(<<>>) = 0
    BY DEF Listed, Noticed, InOrder, OneStatement
  <2>2. Nowhere.source = "persistent" /\ None <= 0 /\ 0 <= MaxPlans /\ 0 <= MaxObservations
    BY DailyLifeAssumption DEF Nowhere, None
  <2> QED BY <1>2, <1>3, <2>1, <2>2 DEF Proper
<1>5. Backed(life, lost)
  BY <1>3 DEF Backed, Nowhere
<1> QED BY <1>1, <1>2, <1>4, <1>5 DEF IInv, Possible, Founded, Alike, SameDiary

\* The items that are made.
NewPlan(times) ==
    [id |-> made + 1, source |-> "planned", start |-> times[1], end |-> times[2],
     until |-> None, day |-> Day(now), status |-> "planned"]

NewUntil(end) == IF end = None THEN None ELSE EndStamp(end)

NewStatement(end) ==
    [id |-> made + 1, source |-> "commit", start |-> Minute(now), end |-> end,
     until |-> NewUntil(end), day |-> Day(now), status |-> "active"]

\* A plan that is made is a sound one,
LEMMA NewPlanFacts ==
    ASSUME now \in Nat, made + 1 \in Ids, NEW times \in PlanTimes
    PROVE  /\ NewPlan(times) \in Plans /\ Sound(NewPlan(times)) /\ NewPlan(times).day <= Day(now)
           /\ NewPlan(times).id = made + 1 /\ NewPlan(times).source = "planned" /\ Active(NewPlan(times))
<1> DEFINE plan == NewPlan(times)
<1>1. times[1] \in Clock \cup {None} /\ times[2] \in Clock \cup {None} /\ Day(now) \in Nat
  BY DayFacts, DailyLifeAssumption DEF Clock, None
<1>2. /\ plan = [id |-> made + 1, source |-> "planned", start |-> times[1], end |-> times[2],
                 until |-> None, day |-> Day(now), status |-> "planned"]
  BY DEF NewPlan
<1> HIDE DEF plan
<1>3. plan \in Plans
  BY <1>1, <1>2 DEF Plans
<1>4. Sound(plan) /\ Active(plan) /\ plan.day <= Day(now) /\ plan.id = made + 1 /\ plan.source = "planned"
  BY <1>1, <1>2 DEF Sound, Active
<1> QED BY <1>3, <1>4 DEF plan

\* and so is a statement, which may have an end.
LEMMA NewStatementFacts ==
    ASSUME now \in Nat, made + 1 \in Ids, NEW end \in Clock \cup {None}
    PROVE  /\ NewStatement(end) \in Plans /\ Sound(NewStatement(end))
           /\ NewStatement(end).day <= Day(now) /\ NewStatement(end).id = made + 1
           /\ NewStatement(end).source = "commit" /\ NewStatement(end).status = "active"
           /\ Active(NewStatement(end)) /\ NewUntil(end) \in Nat \cup {None}
<1> DEFINE item  == NewStatement(end)
           until == NewUntil(end)
<1>1. until \in Nat \cup {None}
  <2>1. CASE end = None
    BY <2>1 DEF NewUntil
  <2>2. CASE end # None
    <3>1. end \in Nat /\ Day(now) \in Nat /\ Slots \in Nat
      BY <2>2, DayFacts, DailyLifeAssumption DEF Clock, None
    <3> DEFINE d == Day(now) * Slots
    <3>2. d \in Nat
      BY <3>1, Midnights
    <3>3. until = d + end + (IF end > Minute(now) THEN 0 ELSE Slots)
      BY <2>2 DEF EndStamp, NewUntil
    <3> HIDE DEF d, until
    <3> QED BY <3>1, <3>2, <3>3
  <2> QED BY <2>1, <2>2
<1>2. /\ Minute(now) \in Clock /\ Day(now) \in Nat /\ Minute(now) # None /\ Day(now) <= Day(now)
      /\ item = [id |-> made + 1, source |-> "commit", start |-> Minute(now), end |-> end,
                 until |-> until, day |-> Day(now), status |-> "active"]
      /\ until = IF end = None THEN None
                 ELSE Day(now) * Slots + end + (IF end > Minute(now) THEN 0 ELSE Slots)
  BY DayFacts DEF Clock, None, EndStamp, NewUntil, NewStatement
<1> HIDE DEF item, until
<1>3. item \in Plans
  BY <1>1, <1>2 DEF Plans
<1>4. Sound(item)
  BY <1>2 DEF Sound
<1>5. /\ item.day <= Day(now) /\ item.id = made + 1 /\ item.source = "commit"
      /\ item.status = "active" /\ Active(item)
  BY <1>2 DEF Active
<1> QED BY <1>1, <1>3, <1>4, <1>5 DEF item, until

\* A plan is added.
LEMMA AddStep == IInv /\ Add => IInv'
<1> SUFFICES ASSUME IInv, Add PROVE IInv'
  OBVIOUS
<1> DEFINE T == Today
<1>1. PICK times \in PlanTimes :
        /\ Make
        /\ Save([T EXCEPT !.plans = Cut(Append(T.plans, NewPlan(times)), MaxPlans)])
        /\ lost' = lost \cup Pushed(Append(T.plans, NewPlan(times)), MaxPlans)
        /\ now' = now
  BY DEF Add, NewPlan
<1> DEFINE plan  == NewPlan(times)
           plans == Append(T.plans, plan)
           l     == [T EXCEPT !.plans = Cut(plans, MaxPlans)]
           r     == [T EXCEPT !.plans = Cut(plans, MaxPlans), !.place = T.place]
<1>2. /\ now \in Nat /\ made \in Nat /\ made' = made + 1 /\ made + 1 \in Ids
      /\ made + 1 \in 0..MaxItems /\ MaxPlans \in Nat \ {0}
  BY <1>1, CountFacts DEF IInv, Make
<1>3. Proper(T, now, made) /\ Backed(T, lost)
  BY TodayFacts
<1>4. plan \in Plans /\ Sound(plan) /\ plan.day <= Day(now) /\ plan.id = made + 1 /\ plan.source # "commit"
  BY <1>2, NewPlanFacts
<1>5. /\ T.plans \in Seq(Plans) /\ T.place \in Places /\ T \in Lives
      /\ (T.place.source = "observation" => T.place.until # None)
      /\ Listed(T.plans, now, made)
  BY <1>3 DEF Proper, Lives
<1> HIDE DEF plan, T
<1>6. Listed(plans, now, made + 1)
  BY <1>2, <1>4, <1>5, AppendListed
<1>7. /\ \A k \in 1..Len(plans) : k \in 1..Len(T.plans) \/ k = Len(T.plans) + 1
      /\ \A k \in 1..Len(T.plans) : k \in 1..Len(plans) /\ plans[k] = T.plans[k]
      /\ plans[Len(T.plans) + 1] = plan /\ DOMAIN plans = 1..Len(plans)
      /\ plans \in Seq(Plans)
  BY <1>4, <1>5
<1> HIDE DEF plans
<1>8. Proper(r, now, made + 1)
  <2>1. \A k \in 1..Len(plans) :
           plans[k].id > made \/ \E i \in 1..Len(T.plans) : T.plans[i].id = plans[k].id
    BY <1>2, <1>4, <1>7
  <2>2. made + 1 \in Nat /\ made <= made + 1
    BY <1>2
  <2> DEFINE m == made + 1
  <2> HIDE DEF m
  <2>3. Proper(r, now, m)
    BY <1>2, <1>3, <1>5, <1>6, <2>1, <2>2, PlansSaved DEF m
  <2> QED BY <2>3 DEF m
<1>9. l = r
  <2>1. T = [plans |-> T.plans, observations |-> T.observations, place |-> T.place, day |-> T.day]
    BY <1>5 DEF Lives
  <2> QED BY <2>1
<1>10. lost' \subseteq Ids
  <2>1. \A k \in DOMAIN plans : plans[k].id \in Ids
    BY <1>7, PlanFacts
  <2> QED BY <1>1, <2>1, PushedIds DEF plans, plan, IInv, Counted
<1>11. Backed(r, lost')
  <2>1. r.place = T.place /\ r.plans = Cut(plans, MaxPlans)
    BY <1>5 DEF Lives
  <2>2. lost' = lost \cup Pushed(plans, MaxPlans)
    BY <1>1 DEF plans, plan
  <2>3. ASSUME NEW i \in 1..Len(T.plans), T.plans[i].id = T.place.item, Active(T.plans[i]),
               T.plans[i].source = "commit"
        PROVE  \/ \E k \in 1..Len(r.plans) :
                     r.plans[k].id = r.place.item /\ Active(r.plans[k]) /\ r.plans[k].source = "commit"
               \/ r.place.item \in lost'
    <3>1. (\E k \in 1..Len(Cut(plans, MaxPlans)) : Cut(plans, MaxPlans)[k] = plans[i])
             \/ plans[i].id \in Pushed(plans, MaxPlans)
      BY <1>2, <1>7, PushedFacts
    <3>2. plans[i] = T.plans[i]
      BY <1>7
    <3> QED BY <2>1, <2>2, <2>3, <3>1, <3>2
  <2>4. T.place.item \in lost => r.place.item \in lost'
    BY <2>1, <2>2
  <2> HIDE DEF r
  <2> QED BY <1>3, <2>1, <2>3, <2>4 DEF Backed
<1>12. Possible' /\ Founded' /\ Alike' /\ SameDiary'
  <2>1. Save(r)
    BY <1>1, <1>9 DEF plans, plan
  <2> HIDE DEF r
  <2> QED BY <1>1, <1>2, <1>8, <1>11, <2>1, SavedAlike
<1>13. Counted'
  BY <1>1, <1>2, <1>10 DEF IInv, Counted
<1> QED BY <1>12, <1>13 DEF IInv

\* The character says what it is doing.
LEMMA StateStep == IInv /\ State => IInv'
<1> SUFFICES ASSUME IInv, State PROVE IInv'
  OBVIOUS
<1> DEFINE T == Today
           Place(end, located) ==
             IF located THEN [source |-> "self_state", item |-> made + 1, until |-> NewUntil(end)]
             ELSE IF T.place.source = "self_state" THEN Nowhere ELSE T.place
<1>1. PICK end \in Clock \cup {None}, located \in BOOLEAN :
        /\ Make
        /\ Save([T EXCEPT !.plans = Cut(Append(Unstated(T), NewStatement(end)), MaxPlans),
                         !.place = Place(end, located)])
        /\ lost' = lost \cup Pushed(Append(Unstated(T), NewStatement(end)), MaxPlans)
        /\ now' = now
  BY DEF State, NewStatement, NewUntil
<1> DEFINE until == NewUntil(end)
           item  == NewStatement(end)
           u     == Unstated(T)
           plans == Append(u, item)
           x     == Place(end, located)
           m     == made + 1
           r     == [T EXCEPT !.plans = Cut(plans, MaxPlans), !.place = x]
<1>2. /\ now \in Nat /\ made \in Nat /\ made' = made + 1 /\ made + 1 \in Ids
      /\ made + 1 \in 0..MaxItems /\ MaxPlans \in Nat \ {0}
  BY <1>1, CountFacts DEF IInv, Make
<1>3. Proper(T, now, made) /\ Backed(T, lost)
  BY TodayFacts
<1>4. until \in Nat \cup {None}
  BY <1>2, NewStatementFacts
<1>5. /\ item \in Plans /\ Sound(item) /\ item.day <= Day(now) /\ item.id = made + 1
      /\ item.source = "commit" /\ item.status = "active"
  BY <1>2, NewStatementFacts
<1>6. /\ T.plans \in Seq(Plans) /\ T.place \in Places /\ T \in Lives
      /\ (T.place.source = "observation" => T.place.until # None)
  BY <1>3 DEF Proper, Lives
<1> HIDE DEF T
<1>7. x \in Places /\ (x.source = "observation" => x.until # None)
  <2>1. Nowhere \in Places /\ Nowhere.source # "observation"
    BY DEF Nowhere, Places
  <2>2. [source |-> "self_state", item |-> made + 1, until |-> until] \in Places
    <3> HIDE DEF until
    <3> QED BY <1>2, <1>4 DEF Places
  <2> QED BY <1>6, <2>1, <2>2
<1>8. /\ x.source = "self_state" => x.item = made + 1
  BY DEF Nowhere
<1> HIDE DEF item, x, until
<1>9. /\ Listed(u, now, made) /\ Len(u) \in Nat /\ u \in Seq(Plans)
      /\ \A k \in 1..Len(u) : u[k].source # "commit" /\ \E i \in 1..Len(T.plans) : u[k] = T.plans[i]
  BY <1>3, UnstatedFacts DEF Listed
<1> HIDE DEF u
<1>10. Listed(plans, now, made + 1)
  BY <1>2, <1>5, <1>9, AppendListed
<1>11. /\ \A k \in 1..Len(plans) : k \in 1..Len(u) \/ k = Len(u) + 1
       /\ \A k \in 1..Len(u) : plans[k] = u[k]
       /\ Len(u) + 1 \in 1..Len(plans) /\ plans[Len(u) + 1] = item
       /\ DOMAIN plans = 1..Len(plans) /\ plans \in Seq(Plans)
  BY <1>5, <1>9
<1> HIDE DEF plans
<1>12. Proper(r, now, made + 1)
  <2>1. \A k \in 1..Len(plans) :
           plans[k].id > made \/ \E i \in 1..Len(T.plans) : T.plans[i].id = plans[k].id
    <3> TAKE k \in 1..Len(plans)
    <3>1. CASE k \in 1..Len(u)
      BY <1>9, <1>11, <3>1
    <3>2. CASE k = Len(u) + 1
      BY <1>2, <1>5, <1>11, <3>2
    <3> QED BY <1>11, <3>1, <3>2
  <2>2. made + 1 \in Nat /\ made <= made + 1
    BY <1>2
  <2> HIDE DEF m
  <2>3. Proper(r, now, m)
    BY <1>2, <1>3, <1>7, <1>10, <2>1, <2>2, PlansSaved DEF m
  <2> QED BY <2>3 DEF m
<1>13. lost' \subseteq Ids /\ lost' = lost \cup Pushed(plans, MaxPlans)
  <2>1. \A k \in DOMAIN plans : plans[k].id \in Ids
    BY <1>11, PlanFacts
  <2>2. lost' = lost \cup Pushed(plans, MaxPlans)
    BY <1>1 DEF plans, u, item, until
  <2> QED BY <2>1, <2>2, PushedIds DEF IInv, Counted
<1>14. Backed(r, lost')
  <2>1. r.place = x /\ r.plans = Cut(plans, MaxPlans)
    BY <1>6 DEF Lives
  <2>2. (\E k \in 1..Len(Cut(plans, MaxPlans)) : Cut(plans, MaxPlans)[k] = item)
           \/ made + 1 \in Pushed(plans, MaxPlans)
    <3> DEFINE i == Len(u) + 1
    <3>1. i \in 1..Len(plans) /\ plans[i] = item
      BY <1>11
    <3> HIDE DEF i
    <3>2. (\E k \in 1..Len(Cut(plans, MaxPlans)) : Cut(plans, MaxPlans)[k] = plans[i])
             \/ plans[i].id \in Pushed(plans, MaxPlans)
      BY <1>2, <1>11, <3>1, PushedFacts
    <3> QED BY <1>5, <3>1, <3>2
  <2> HIDE DEF r
  <2> QED BY <1>5, <1>8, <1>13, <2>1, <2>2 DEF Backed, Active
<1>15. Possible' /\ Founded' /\ Alike' /\ SameDiary'
  <2>1. Save(r)
    BY <1>1 DEF plans, u, item, until, x
  <2> HIDE DEF r
  <2> QED BY <1>1, <1>2, <1>12, <1>14, <2>1, SavedAlike
<1>16. Counted'
  BY <1>1, <1>2, <1>13 DEF IInv, Counted
<1> QED BY <1>15, <1>16 DEF IInv

\* The character does nothing in particular any more.
LEMMA ClearStep == IInv /\ Clear => IInv'
<1> SUFFICES ASSUME IInv, Clear PROVE IInv'
  OBVIOUS
<1> DEFINE u == Unstated(life)
           x == IF u # life.plans /\ life.place.source = "self_state" THEN Nowhere ELSE life.place
           r == [life EXCEPT !.plans = Cut(u, MaxPlans), !.place = x]
<1>1. /\ Save([life EXCEPT !.plans = u, !.place = x])
      /\ now' = now /\ made' = made /\ lost' = lost
  BY DEF Clear
<1>2. now \in Nat /\ made \in Nat /\ MaxPlans \in Nat \ {0}
  BY CountFacts DEF IInv
<1>3. Proper(life, now, made) /\ Backed(life, lost)
  BY DEF IInv, Possible, Founded
<1>4. /\ life.plans \in Seq(Plans) /\ life.place \in Places /\ life \in Lives
      /\ (life.place.source = "observation" => life.place.until # None)
  BY <1>3 DEF Proper, Lives
<1>5. /\ Listed(u, now, made) /\ Len(u) <= MaxPlans
      /\ \A k \in 1..Len(u) : u[k].source # "commit" /\ \E i \in 1..Len(life.plans) : u[k] = life.plans[i]
  BY <1>3, UnstatedFacts
<1>6. u \in Seq(Plans)
  BY <1>5 DEF Listed
<1> HIDE DEF u
<1>7. Cut(u, MaxPlans) = u
  BY <1>2, <1>5, <1>6, CutFacts
<1>8. x \in Places /\ (x.source = "observation" => x.until # None)
  <2>1. Nowhere \in Places /\ Nowhere.source # "observation"
    BY DEF Nowhere, Places
  <2> QED BY <1>4, <2>1
<1>9. x.source = "self_state" =>
         /\ x = life.place
         /\ \A i \in 1..Len(life.plans) : life.plans[i].source # "commit"
  <2>1. CASE u # life.plans
    BY <2>1 DEF Nowhere
  <2>2. CASE u = life.plans
    BY <1>5, <2>2
  <2> QED BY <2>1, <2>2
<1> HIDE DEF x
<1>10. Proper(r, now, made)
  <2>1. \A k \in 1..Len(u) :
           u[k].id > made \/ \E i \in 1..Len(life.plans) : life.plans[i].id = u[k].id
    BY <1>5
  <2>2. made <= made
    BY <1>2
  <2> QED BY <1>2, <1>3, <1>5, <1>8, <2>1, <2>2, PlansSaved
<1>11. Backed(r, lost')
  <2>1. r.place = x
    BY <1>4 DEF Lives
  <2> HIDE DEF r
  <2> QED BY <1>1, <1>3, <1>9, <2>1 DEF Backed
<1>12. Possible' /\ Founded' /\ Alike' /\ SameDiary'
  <2>1. Save(r)
    BY <1>1, <1>7
  <2> HIDE DEF r
  <2> QED BY <1>1, <1>10, <1>11, <2>1, SavedAlike
<1>13. Counted'
  BY <1>1 DEF IInv, Counted
<1> QED BY <1>12, <1>13 DEF IInv

\* Something is observed.
LEMMA ObserveStep == IInv /\ Observe => IInv'
<1> SUFFICES ASSUME IInv, Observe PROVE IInv'
  OBVIOUS
<1> DEFINE T == Today
           q == T.plans
           Done(p, of) == p.id = of /\ p.source = "planned" /\ p.status \notin {"cancelled", "expired"}
           Marked(of) == [i \in DOMAIN q |-> IF Done(q[i], of) THEN [q[i] EXCEPT !.status = "completed"]
                                             ELSE q[i]]
           All(of) == Append(T.observations, [id |-> made + 1, at |-> now, of |-> of])
           Place(located) == IF located THEN [source |-> "observation", item |-> made + 1,
                                              until |-> now + TwoHours]
                             ELSE T.place
<1>1. PICK of \in {None} \cup {e.id : e \in Elements(q) \cup Elements(T.observations)},
           located \in BOOLEAN :
        /\ Make
        /\ Save([T EXCEPT !.plans = Marked(of), !.observations = Cut(All(of), MaxObservations),
                         !.place = Place(located)])
        /\ lost' = lost \cup Pushed(All(of), MaxObservations)
        /\ now' = now
  BY DEF Observe
<1> DEFINE f   == Marked(of)
           o   == [id |-> made + 1, at |-> now, of |-> of]
           all == All(of)
           x   == Place(located)
           l   == [T EXCEPT !.plans = Cut(f, MaxPlans), !.place = x]
           r   == [l EXCEPT !.observations = Cut(Append(@, o), MaxObservations)]
<1>2. /\ now \in Nat /\ made \in Nat /\ made' = made + 1 /\ made + 1 \in Ids
      /\ made + 1 \in 0..MaxItems /\ MaxPlans \in Nat \ {0} /\ MaxObservations \in Nat \ {0}
  BY <1>1, CountFacts DEF IInv, Make
<1>3. Proper(T, now, made) /\ Backed(T, lost)
  BY TodayFacts
<1>4. /\ q \in Seq(Plans) /\ T.observations \in Seq(Observations) /\ T.place \in Places /\ T \in Lives
      /\ (T.place.source = "observation" => T.place.until # None)
      /\ Listed(q, now, made) /\ Len(q) <= MaxPlans /\ Len(q) \in Nat /\ DOMAIN q = 1..Len(q)
      /\ \A k \in 1..Len(q) : q[k] \in Plans /\ Sound(q[k])
      /\ T = [plans |-> q, observations |-> T.observations, place |-> T.place, day |-> T.day]
  BY <1>3 DEF Proper, Lives, Listed
<1>5. of \in Ids \cup {None}
  <2>1. \A e \in Elements(q) : e.id \in Ids
    BY <1>4, PlanFacts DEF Elements
  <2>2. \A e \in Elements(T.observations) : e.id \in Ids
    <3>1. \A i \in DOMAIN T.observations : T.observations[i] \in Observations
      BY <1>4
    <3> QED BY <3>1, NoteFacts DEF Elements
  <2> HIDE DEF T, q
  <2> QED BY <2>1, <2>2
<1>6. o \in Observations /\ o.at <= now /\ o.id = made + 1
  BY <1>2, <1>5 DEF Observations
<1> HIDE DEF T, q
<1>7. /\ f \in Seq(Plans) /\ Len(f) = Len(q)
      /\ \A k \in 1..Len(q) :
            /\ f[k].id = q[k].id /\ f[k].source = q[k].source
            /\ f[k].day = q[k].day /\ Sound(f[k])
            /\ q[k].source = "commit" => f[k] = q[k]
  <2> DEFINE v(p) == IF Done(p, of) THEN [p EXCEPT !.status = "completed"] ELSE p
  <2>1. ASSUME NEW p \in Plans, Sound(p)
        PROVE  /\ v(p) \in Plans /\ v(p).id = p.id /\ v(p).source = p.source /\ v(p).day = p.day
               /\ Sound(v(p)) /\ (p.source = "commit" => v(p) = p)
    <3>1. CASE ~Done(p, of)
      BY <2>1, <3>1
    <3>2. CASE Done(p, of)
      <4> DEFINE w == [p EXCEPT !.status = "completed"]
      <4>1. /\ w \in Plans /\ w.id = p.id /\ w.source = p.source /\ w.day = p.day
            /\ w.until = p.until
        BY DEF Plans
      <4>2. v(p) = w /\ p.source = "planned"
        BY <3>2
      <4> HIDE DEF w, v
      <4> QED BY <2>1, <4>1, <4>2 DEF Sound
    <3> QED BY <3>1, <3>2
  <2>2. f = [k \in 1..Len(q) |-> v(q[k])]
    BY <1>4
  <2> HIDE DEF f, v
  <2>3. \A k \in 1..Len(q) : v(q[k]) \in Plans /\ f[k] = v(q[k])
    BY <1>4, <2>1, <2>2
  <2>4. f \in Seq(Plans) /\ Len(f) = Len(q)
    BY <1>4, <2>2, <2>3
  <2> QED BY <1>4, <2>1, <2>3, <2>4
<1> HIDE DEF f
<1>8. Listed(f, now, made) /\ Cut(f, MaxPlans) = f
  <2>1. Listed(f, now, made)
    <3>1. \A k \in 1..Len(q) : /\ f[k].id = q[k].id /\ f[k].source = q[k].source
                               /\ f[k].day = q[k].day /\ Sound(f[k])
      BY <1>7
    <3>2. f \in Seq(Plans) /\ Len(f) = Len(q) /\ Listed(q, now, made)
      BY <1>4, <1>7
    <3> QED BY <3>1, <3>2, Restated
  <2>2. Len(f) <= MaxPlans
    BY <1>4, <1>7
  <2> QED BY <1>2, <1>7, <2>1, <2>2, CutFacts
<1>9. x \in Places /\ (x.source = "observation" => x.until # None)
  <2>1. now + TwoHours \in Nat /\ now + TwoHours # None
    BY <1>2, DailyLifeAssumption DEF None
  <2> DEFINE y == [source |-> "observation", item |-> made + 1, until |-> now + TwoHours]
  <2>2. y \in Places /\ y.until # None
    BY <1>2, <2>1 DEF Places
  <2>3. x = y \/ x = T.place
    OBVIOUS
  <2> HIDE DEF x, y
  <2> QED BY <1>4, <2>2, <2>3
<1>10. x.source = "self_state" => x = T.place
  OBVIOUS
<1> HIDE DEF x
<1>11. Proper(l, now, made)
  <2>1. \A k \in 1..Len(f) :
           f[k].id > made \/ \E i \in 1..Len(T.plans) : T.plans[i].id = f[k].id
    <3>1. \A k \in 1..Len(f) : k \in 1..Len(q) /\ f[k].id = q[k].id
      BY <1>7
    <3>2. T.plans = q
      BY DEF q
    <3> QED BY <3>1, <3>2
  <2>2. made <= made
    BY <1>2
  <2> QED BY <1>2, <1>3, <1>8, <1>9, <2>1, <2>2, PlansSaved
<1>12. l = [plans |-> f, observations |-> T.observations, place |-> x, day |-> T.day]
  <2>1. l = [T EXCEPT !.plans = f, !.place = x]
    BY <1>8
  <2> HIDE DEF l
  <2> QED BY <1>4, <2>1
<1> HIDE DEF l, o
<1>13. Proper(r, now, made + 1)
  BY <1>2, <1>6, <1>11, NotesSaved
<1>14. /\ r = [plans |-> f, observations |-> Cut(all, MaxObservations), place |-> x, day |-> T.day]
       /\ r = [T EXCEPT !.plans = f, !.observations = Cut(all, MaxObservations), !.place = x]
  <2> DEFINE c == Cut(all, MaxObservations)
  <2>1. r = [l EXCEPT !.observations = c]
    BY <1>12 DEF o
  <2> HIDE DEF c, r
  <2>2. r = [plans |-> f, observations |-> c, place |-> x, day |-> T.day]
    BY <1>12, <2>1
  <2> DEFINE g == [T EXCEPT !.plans = f, !.observations = c, !.place = x]
  <2>3. g = [T EXCEPT !.plans = f, !.observations = c, !.place = x]
    OBVIOUS
  <2> HIDE DEF g
  <2>4. g = [plans |-> f, observations |-> c, place |-> x, day |-> T.day]
    BY <1>4, <2>3
  <2> QED BY <2>2, <2>4 DEF c, g
<1>15. lost' \subseteq Ids /\ lost \subseteq lost'
  <2>1. all \in Seq(Observations)
    BY <1>4, <1>6 DEF o
  <2>2. lost' = lost \cup Pushed(all, MaxObservations)
    BY <1>1 DEF o
  <2> HIDE DEF all
  <2>3. \A k \in DOMAIN all : all[k].id \in Ids
    BY <2>1, NoteFacts
  <2> QED BY <2>2, <2>3, PushedIds DEF IInv, Counted
<1>16. Backed(r, lost')
  <2>1. r.place = x /\ r.plans = f
    BY <1>14
  <2> HIDE DEF r
  <2>2. ASSUME NEW i \in 1..Len(q), q[i].id = x.item, Active(q[i]), q[i].source = "commit"
        PROVE  \E k \in 1..Len(f) : f[k].id = x.item /\ Active(f[k]) /\ f[k].source = "commit"
    <3>1. i \in 1..Len(f) /\ f[i] = q[i]
      BY <1>7, <2>2
    <3> QED BY <2>2, <3>1
  <2> QED BY <1>3, <1>10, <1>15, <2>1, <2>2 DEF Backed, q
<1>17. Possible' /\ Founded' /\ Alike' /\ SameDiary'
  <2>1. Save(r)
    BY <1>1, <1>14 DEF T, q, f, x, o
  <2> HIDE DEF r
  <2> QED BY <1>1, <1>2, <1>13, <1>16, <2>1, SavedAlike
<1>18. Counted'
  BY <1>1, <1>2, <1>15 DEF IInv, Counted
<1> QED BY <1>17, <1>18 DEF IInv

\* An item is confirmed, cancelled or expired.
LEMMA DecideStep == IInv /\ Decide => IInv'
<1> SUFFICES ASSUME IInv, Decide PROVE IInv'
  OBVIOUS
<1> DEFINE T == Today
           q == T.plans
           Place(i, status) == IF status # "confirmed" /\ T.place.item = q[i].id THEN Nowhere ELSE T.place
<1>1. PICK i \in DOMAIN q, status \in {"confirmed", "cancelled", "expired"} :
        /\ status \in Allowed(q[i].status)
        /\ Save([T EXCEPT !.plans[i].status = status, !.place = Place(i, status)])
        /\ now' = now /\ made' = made /\ lost' = lost
  BY DEF Decide
<1> DEFINE f == [q EXCEPT ![i] = [@ EXCEPT !.status = status]]
           x == Place(i, status)
           r == [T EXCEPT !.plans = Cut(f, MaxPlans), !.place = x]
<1>2. now \in Nat /\ made \in Nat /\ MaxPlans \in Nat \ {0}
  BY CountFacts DEF IInv
<1>3. Proper(T, now, made) /\ Backed(T, lost)
  BY TodayFacts
<1>4. /\ q \in Seq(Plans) /\ T.place \in Places /\ T \in Lives
      /\ (T.place.source = "observation" => T.place.until # None)
      /\ Listed(q, now, made) /\ Len(q) <= MaxPlans /\ Len(q) \in Nat /\ DOMAIN q = 1..Len(q)
      /\ \A k \in 1..Len(q) : q[k] \in Plans /\ Sound(q[k])
      /\ T = [plans |-> q, observations |-> T.observations, place |-> T.place, day |-> T.day]
  BY <1>3 DEF Proper, Lives, Listed
<1>5. [T EXCEPT !.plans[i].status = status, !.place = x] = [T EXCEPT !.plans = f, !.place = x]
  OBVIOUS
<1> HIDE DEF T, q
<1>6. i \in 1..Len(q)
  BY <1>1, <1>4
<1>7. /\ f \in Seq(Plans) /\ Len(f) = Len(q)
      /\ \A k \in 1..Len(q) : k # i => f[k] = q[k]
      /\ f[i].id = q[i].id /\ f[i].source = q[i].source /\ f[i].day = q[i].day /\ Sound(f[i])
      /\ f[i].status = status
  <2> DEFINE w == [q[i] EXCEPT !.status = status]
  <2>1. q[i] \in Plans /\ Sound(q[i])
    BY <1>4, <1>6
  <2>2. /\ w \in Plans /\ w.id = q[i].id /\ w.source = q[i].source /\ w.day = q[i].day
        /\ w.until = q[i].until /\ w.start = q[i].start /\ w.end = q[i].end /\ w.status = status
    BY <2>1 DEF Plans
  <2>3. f = [q EXCEPT ![i] = w]
    OBVIOUS
  <2> HIDE DEF w, f
  <2>4. Sound(w)
    BY <2>1, <2>2 DEF Sound
  <2>5. f \in Seq(Plans) /\ Len(f) = Len(q) /\ f[i] = w /\ \A k \in 1..Len(q) : k # i => f[k] = q[k]
    BY <1>4, <1>6, <2>2, <2>3
  <2> QED BY <2>2, <2>4, <2>5
<1> HIDE DEF f
<1>8. \A k \in 1..Len(q) : /\ f[k].id = q[k].id /\ f[k].source = q[k].source
                           /\ f[k].day = q[k].day /\ Sound(f[k])
  <2> TAKE k \in 1..Len(q)
  <2>1. CASE k = i
    BY <1>7, <2>1
  <2>2. CASE k # i
    BY <1>4, <1>7, <2>2
  <2> QED BY <2>1, <2>2
<1>9. Listed(f, now, made) /\ Cut(f, MaxPlans) = f
  <2>1. f \in Seq(Plans) /\ Len(f) = Len(q) /\ Listed(q, now, made)
    BY <1>4, <1>7
  <2>2. Listed(f, now, made)
    BY <1>8, <2>1, Restated
  <2>3. Len(f) <= MaxPlans
    BY <1>4, <1>7
  <2> QED BY <1>2, <1>7, <2>2, <2>3, CutFacts
<1>10. x \in Places /\ (x.source = "observation" => x.until # None)
  <2>1. Nowhere \in Places /\ Nowhere.source # "observation"
    BY DEF Nowhere, Places
  <2> QED BY <1>4, <2>1
<1>11. x.source = "self_state" => x = T.place /\ (status = "confirmed" \/ T.place.item # q[i].id)
  BY DEF Nowhere
<1> HIDE DEF x
<1>12. Proper(r, now, made)
  <2>1. \A k \in 1..Len(f) :
           f[k].id > made \/ \E h \in 1..Len(T.plans) : T.plans[h].id = f[k].id
    <3>1. \A k \in 1..Len(f) : k \in 1..Len(q) /\ f[k].id = q[k].id
      BY <1>7, <1>8
    <3>2. T.plans = q
      BY DEF q
    <3> QED BY <3>1, <3>2
  <2>2. made <= made
    BY <1>2
  <2> QED BY <1>2, <1>3, <1>9, <1>10, <2>1, <2>2, PlansSaved
<1>13. r.place = x /\ r.plans = f
  <2>1. r = [T EXCEPT !.plans = f, !.place = x]
    BY <1>9
  <2> HIDE DEF r
  <2>2. r = [plans |-> f, observations |-> T.observations, place |-> x, day |-> T.day]
    BY <1>4, <2>1
  <2> QED BY <2>2
<1>14. Backed(r, lost')
  <2> HIDE DEF r
  <2>1. ASSUME NEW h \in 1..Len(q), q[h].id = x.item, Active(q[h]), q[h].source = "commit",
               x = T.place, status = "confirmed" \/ T.place.item # q[i].id
        PROVE  \E k \in 1..Len(f) : f[k].id = x.item /\ Active(f[k]) /\ f[k].source = "commit"
    <3>1. CASE h = i
      <4>1. i \in 1..Len(f) /\ f[i].id = x.item /\ f[i].source = "commit" /\ f[i].status = "confirmed"
        BY <1>7, <2>1, <3>1
      <4> QED BY <4>1 DEF Active
    <3>2. CASE h # i
      <4>1. h \in 1..Len(f) /\ f[h] = q[h]
        BY <1>7, <3>2
      <4> QED BY <2>1, <4>1
    <3> QED BY <3>1, <3>2
  <2> QED BY <1>1, <1>3, <1>11, <1>13, <2>1 DEF Backed, q
<1>15. Possible' /\ Founded' /\ Alike' /\ SameDiary'
  <2>1. Save(r)
    BY <1>1, <1>5, <1>9 DEF x, q
  <2> HIDE DEF r
  <2> QED BY <1>1, <1>12, <1>14, <2>1, SavedAlike
<1>16. Counted'
  BY <1>1 DEF IInv, Counted
<1> QED BY <1>15, <1>16 DEF IInv

\* Somebody only looks, and some save what they saw.
LEMMA LookStep == IInv /\ Look => IInv'
<1> SUFFICES ASSUME IInv, Look PROVE IInv'
  OBVIOUS
<1>1. /\ life' = Refreshed(life, now) /\ (disk' = disk \/ disk' = Refreshed(life, now))
      /\ now' = now /\ made' = made /\ lost' = lost
  BY DEF Look, Today
<1>2. now \in Nat /\ made \in Nat /\ Proper(life, now, made)
  BY CountFacts DEF IInv, Possible
<1>3. Proper(Refreshed(life, now), now, made) /\ Backed(Refreshed(life, now), lost)
  BY TodayFacts DEF Today
<1>4. \A t \in Nat : t >= now => View(Refreshed(life, now), t) = View(life, t)
  BY <1>2, LookLater
<1>5. Possible'
  BY <1>1, <1>3 DEF IInv, Possible
<1>6. Founded'
  BY <1>1, <1>3 DEF IInv, Founded
<1>7. Alike'
  BY <1>1, <1>4 DEF IInv, Alike
<1>8. SameDiary'
  <2>1. Going(Refreshed(life, now).plans, now) = Going(life.plans, now)
    BY <1>2, GoingLooked
  <2> QED BY <1>1, <2>1 DEF IInv, SameDiary
<1>9. Counted'
  BY <1>1 DEF IInv, Counted
<1> QED BY <1>5, <1>6, <1>7, <1>8, <1>9 DEF IInv

\* A statement is refused, and what is there is saved.
LEMMA RefusedStep == IInv /\ Refused => IInv'
<1> SUFFICES ASSUME IInv, Refused PROVE IInv'
  OBVIOUS
<1>1. life' = life /\ disk' = life /\ now' = now /\ made' = made /\ lost' = lost
  BY DEF Refused, Save
<1>2. Possible' /\ Founded' /\ Alike' /\ SameDiary' /\ Counted'
  BY <1>1 DEF IInv, Counted, Possible, Founded, Alike, SameDiary
<1> QED BY <1>2 DEF IInv

\* The process is started again.
LEMMA RestartStep == IInv /\ Restart => IInv'
BY DEF IInv, Restart, Counted, Possible, Founded, Alike, SameDiary

\* Time goes by.
LEMMA PassStep == IInv /\ Pass => IInv'
<1> SUFFICES ASSUME IInv, Pass PROVE IInv'
  OBVIOUS
<1>1. /\ now \in Nat /\ made \in Nat /\ now' = now + 1 /\ now' \in Times /\ now' \in Nat /\ now <= now'
      /\ made' = made /\ life' = life /\ disk' = disk /\ lost' = lost
  BY CountFacts DEF IInv, Pass
<1>2. Possible'
  <2>1. made <= made
    BY <1>1
  <2>2. Proper(life, now', made) /\ Proper(disk, now', made)
    BY <1>1, <2>1, ProperLater DEF IInv, Possible
  <2> QED BY <1>1, <2>2 DEF Possible
<1>3. Founded'
  BY <1>1 DEF IInv, Founded
<1>4. Alike'
  <2>1. \A t \in Nat : t >= now + 1 => t >= now
    BY <1>1
  <2> QED BY <1>1, <2>1 DEF IInv, Alike
<1>5. SameDiary'
  <2>1. /\ Going(life.plans, now + 1) = {p \in Going(life.plans, now) : now + 1 < End(p)}
        /\ Going(disk.plans, now + 1) = {p \in Going(disk.plans, now) : now + 1 < End(p)}
    BY <1>1, GoingOn DEF IInv, Possible
  <2> QED BY <1>1, <2>1 DEF IInv, SameDiary
<1>6. Counted'
  BY <1>1 DEF IInv, Counted
<1> QED BY <1>2, <1>3, <1>4, <1>5, <1>6 DEF IInv

\* The invariant holds throughout.
LEMMA Inductive == Spec => []IInv
<1>1. IInv /\ [Next]_vars => IInv'
  <2>1. IInv /\ UNCHANGED vars => IInv'
    BY DEF vars, IInv, Counted, Possible, Founded, Alike, SameDiary
  <2> QED BY <2>1, AddStep, StateStep, RefusedStep, ClearStep, ObserveStep, DecideStep, LookStep,
             RestartStep, PassStep DEF Next
<1> QED BY <1>1, InitInv, PTL DEF Spec

-----------------------------------------------------------------------------
(* What follows                                                            *)

\* The state is what it is declared to be, and no list is longer than allowed.
THEOREM TypeCorrect == Spec => []TypeOK
<1>1. IInv => TypeOK
  BY DEF IInv, Counted, Possible, Proper, TypeOK
<1> QED BY <1>1, Inductive, PTL

\* What current_activity names is never over, whatever midnights lie between
\* and whoever looked meanwhile.
THEOREM NothingShownLate == Spec => []NotOver
<1>1. IInv => NotOver
  <2> SUFFICES ASSUME IInv PROVE NotOver
    OBVIOUS
  <2>1. now \in Nat /\ Proper(life, now, made)
    BY CountFacts DEF IInv, Possible
  <2>2. \A p \in Elements(Refreshed(life, now).plans) :
           Activity(Refreshed(life, now), now).id = p.id => now < End(p)
    BY <2>1, NothingOver
  <2> QED BY <2>2 DEF NotOver, Today
<1> QED BY <1>1, Inductive, PTL

\* A place of the character has the statement it came with, or that was pushed
\* out of the list, or is that of an observation of the last two hours.
THEOREM PlaceHasGround == Spec => []PlaceBacked
<1>1. IInv => PlaceBacked
  <2> SUFFICES ASSUME IInv PROVE PlaceBacked
    OBVIOUS
  <2> DEFINE T == Today
  <2>1. Proper(T, now, made) /\ Backed(T, lost)
    BY TodayFacts
  <2>2. T.place.source = "observation" => now < T.place.until
    <3>1. now \in Nat /\ Proper(life, now, made)
      BY CountFacts DEF IInv, Possible
    <3>2. T.place = IF \/ life.place.until # None /\ now >= life.place.until
                       \/ \E i \in 1..Len(life.plans) :
                             /\ life.plans[i].id = life.place.item
                             /\ ~Left(life, life.plans[i], now) \/ Over(life.plans[i], now)
                    THEN Nowhere ELSE life.place
      BY <3>1, RefreshedFacts DEF Today
    <3>3. T.place.source = "observation" => T.place = life.place /\ ~(life.place.until # None /\ now >= life.place.until)
      BY <3>2 DEF Nowhere
    <3>4. life.place.source = "observation" => life.place.until # None
      BY <3>1 DEF Proper
    <3>5. life.place.until \in Int
      BY <3>1 DEF Proper, Lives, Places, None
    <3> HIDE DEF T
    <3> QED BY <3>1, <3>3, <3>4, <3>5
  <2>3. \A i \in 1..Len(T.plans) : T.plans[i] \in Elements(T.plans)
    <3>1. T.plans \in Seq(Plans)
      BY <2>1 DEF Proper, Lives
    <3> HIDE DEF T
    <3> QED BY <3>1 DEF Elements
  <2> HIDE DEF T
  <2>4. T.place.source = "self_state" =>
           \/ \E p \in Elements(T.plans) : p.id = T.place.item /\ Active(p)
           \/ T.place.item \in lost
    BY <2>1, <2>3 DEF Backed
  <2> QED BY <2>2, <2>4 DEF PlaceBacked, T
<1> QED BY <1>1, Inductive, PTL

\* A restart changes nothing of what the prompt says: the rollovers that were
\* not saved are made again, and come out the same.
THEOREM RestartShowsTheSame == Spec => []SavedIsSeen
<1>1. IInv => SavedIsSeen
  <2> SUFFICES ASSUME IInv PROVE SavedIsSeen
    OBVIOUS
  <2>1. now \in Nat /\ now >= now
    BY CountFacts DEF IInv
  <2>2. View(disk, now) = View(life, now)
    BY <2>1 DEF IInv, Alike
  <2> QED BY <2>2 DEF View, SavedIsSeen, Seen, Today
<1> QED BY <1>1, Inductive, PTL

-----------------------------------------------------------------------------
(* The diary                                                               *)

\* The entries of a list of plans.
Opened(plans, t) == {Entry(p) : p \in Going(plans, t)}

\* The diary of the state is that of what was last looked at.
LEMMA OpenFacts ==
    ASSUME Proper(life, now, made), now \in Nat
    PROVE  Open = Opened(life.plans, now)
<1>1. Going(Refreshed(life, now).plans, now) = Going(life.plans, now)
  BY GoingLooked
<1> QED BY <1>1 DEF Open, Opened, Today

\* The abstract diary as the invariant has it: what the list in memory says is open.
LEMMA OpenBefore == IInv => Open = Opened(life.plans, now)
BY CountFacts, OpenFacts DEF IInv, Possible

\* What is open after a step.
LEMMA OpenAfter == IInv' => Open' = Opened(life'.plans, now')
<1> SUFFICES ASSUME IInv' PROVE Open' = Opened(life'.plans, now')
  OBVIOUS
<1>1. Proper(life', now', made') /\ now' \in Nat
  BY DailyLifeAssumption DEF IInv, Possible, Counted, Times
<1>2. Going(Refreshed(life', now').plans, now') = Going(life'.plans, now')
  BY <1>1, GoingLooked
<1> QED BY <1>2 DEF Open, Opened, Today

\* f has the entries of q, but it may be for that of i.
AllBut(i, q, f, t) ==
    /\ Opened(f, t) \subseteq Opened(q, t)
    /\ \A p \in Going(q, t) : p # i => Entry(p) \in Opened(f, t)

\* Where one entry at most is missing, it was closed.
LEMMA OneClosed ==
    ASSUME NEW q, NEW f, NEW t, NEW i, AllBut(i, q, f, t)
    PROVE  \/ Opened(f, t) = Opened(q, t)
           \/ \E e \in Opened(q, t) : Opened(f, t) = Opened(q, t) \ {e}
<1>1. \A e \in Opened(q, t) : e # Entry(i) => e \in Opened(f, t)
  BY DEF Opened, AllBut
<1>2. CASE Entry(i) \in Opened(f, t) \/ Entry(i) \notin Opened(q, t)
  BY <1>1, <1>2 DEF AllBut
<1>3. CASE Entry(i) \in Opened(q, t) /\ Entry(i) \notin Opened(f, t)
  <2>1. Opened(f, t) = Opened(q, t) \ {Entry(i)}
    BY <1>1, <1>3 DEF AllBut
  <2> QED BY <1>3, <2>1
<1> QED BY <1>2, <1>3

\* Where an item goes to the end of the list, its entry is written, and a full
\* list loses the oldest one.
LEMMA OneWritten ==
    ASSUME NEW u \in Seq(Plans), NEW t \in Nat, NEW n \in Nat, Listed(u, t, n), Len(u) <= MaxPlans,
           NEW item \in Plans, Active(item), item.id = n + 1
    PROVE  \E gone \in {{}, TheDiary!Oldest(Opened(u, t))},
              new \in SUBSET {e \in Opened(Cut(Append(u, item), MaxPlans), t) : e.id = n + 1} :
              /\ Opened(Cut(Append(u, item), MaxPlans), t) = (Opened(u, t) \ gone) \cup new
              /\ \A e \in new : e.kind = item.source /\ e.end > t
<1> DEFINE q == Append(u, item)
           c == Cut(q, MaxPlans)
           new == {e \in {Entry(item)} : t < End(item)}
<1>1. /\ MaxPlans \in Nat \ {0} /\ Len(u) \in Nat /\ q \in Seq(Plans) /\ Len(q) = Len(u) + 1
      /\ DOMAIN q = 1..(Len(u) + 1) /\ DOMAIN u = 1..Len(u)
      /\ \A k \in 1..Len(u) : q[k] = u[k] /\ u[k] \in Plans /\ u[k].id \in Int /\ u[k].id <= n
      /\ q[Len(u) + 1] = item /\ InOrder(u)
  <2>1. \A k \in 1..Len(u) : u[k] \in Plans
    OBVIOUS
  <2>2. \A k \in 1..Len(u) : u[k].id \in Int
    BY <2>1, PlanFacts DEF Ids
  <2> QED BY <2>1, <2>2, DailyLifeAssumption DEF Listed
<1> HIDE DEF q
<1>2. \A e \in new : e = Entry(item) /\ t < End(item)
  OBVIOUS
<1>3. \A e \in new : e.id = n + 1 /\ e.kind = item.source /\ e.end > t
  BY <1>2 DEF Entry
<1>4. \A e \in Opened(u, t) : \E i \in 1..Len(u) : e = Entry(u[i]) /\ Active(u[i]) /\ t < End(u[i])
  BY <1>1 DEF Opened, Going, Elements
<1>5. \A i \in 1..Len(u) : Active(u[i]) /\ t < End(u[i]) => Entry(u[i]) \in Opened(u, t)
  BY <1>1 DEF Opened, Going, Elements
<1>6. t < End(item) => new = {Entry(item)}
  OBVIOUS
<1> HIDE DEF new
<1>7. CASE Len(u) < MaxPlans
  <2>1. c = q
    <3>1. Len(q) <= MaxPlans
      BY <1>1, <1>7
    <3> QED BY <1>1, <3>1, CutFacts
  <2>2. ASSUME NEW e \in Opened(q, t) PROVE e \in Opened(u, t) \cup new
    <3>1. PICK i \in 1..(Len(u) + 1) : e = Entry(q[i]) /\ Active(q[i]) /\ t < End(q[i])
      BY <1>1, <2>2 DEF Opened, Going, Elements
    <3>2. CASE i \in 1..Len(u)
      BY <1>1, <1>5, <3>1, <3>2
    <3>3. CASE i = Len(u) + 1
      BY <1>1, <1>6, <3>1, <3>3
    <3> QED BY <1>1, <3>2, <3>3
  <2>3. ASSUME NEW e \in Opened(u, t) \cup new PROVE e \in Opened(q, t)
    <3>1. \A i \in 1..(Len(u) + 1) : Active(q[i]) /\ t < End(q[i]) => Entry(q[i]) \in Opened(q, t)
      BY <1>1 DEF Opened, Going, Elements
    <3>2. CASE e \in Opened(u, t)
      <4>1. PICK i \in 1..Len(u) : e = Entry(u[i]) /\ Active(u[i]) /\ t < End(u[i])
        BY <1>4, <3>2
      <4>2. i \in 1..(Len(u) + 1) /\ q[i] = u[i]
        BY <1>1
      <4> QED BY <3>1, <4>1, <4>2
    <3>3. CASE e \in new
      <4>1. Len(u) + 1 \in 1..(Len(u) + 1)
        BY <1>1
      <4> QED BY <1>1, <1>2, <3>1, <3>3, <4>1
    <3> QED BY <3>2, <3>3
  <2>4. Opened(q, t) = (Opened(u, t) \ {}) \cup new
    BY <2>2, <2>3
  <2>5. new \in SUBSET {e \in Opened(c, t) : e.id = n + 1}
    BY <1>3, <2>1, <2>4
  <2> HIDE DEF c
  <2>6. Opened(c, t) = (Opened(u, t) \ {}) \cup new
    BY <2>1, <2>4
  <2> QED BY <1>3, <2>5, <2>6 DEF c, q
<1>8. CASE Len(u) = MaxPlans
  <2> DEFINE gone == {e \in {Entry(u[1])} : Active(u[1]) /\ t < End(u[1])}
  <2>1. /\ c \in Seq(Plans) /\ Len(c) = Len(u) /\ 1 \in 1..Len(u)
        /\ \A k \in 1..Len(u) : c[k] = q[k + 1]
    <3>1. Len(q) = MaxPlans + 1
      BY <1>1, <1>8
    <3>2. q \in Seq(Plans) /\ MaxPlans \in Nat \ {0}
      BY <1>1
    <3> HIDE DEF c
    <3>3. /\ Cut(q, MaxPlans) \in Seq(Plans) /\ Len(Cut(q, MaxPlans)) = MaxPlans
          /\ \A k \in 1..MaxPlans : Cut(q, MaxPlans)[k] = q[k + 1]
      BY <3>1, <3>2, CutFacts
    <3>4. /\ c \in Seq(Plans) /\ Len(c) = MaxPlans /\ \A k \in 1..MaxPlans : c[k] = q[k + 1]
      BY <3>3 DEF c
    <3>5. Len(u) = MaxPlans /\ 1 \in 1..Len(u)
      BY <3>2, <1>8
    <3> HIDE DEF q, gone
    <3>6. c \in Seq(Plans) /\ Len(c) = Len(u)
      BY <3>4, <3>5
    <3>7. \A k \in 1..Len(u) : c[k] = q[k + 1]
      BY <3>4, <3>5
    <3> QED BY <3>5, <3>6, <3>7
  <2>2. DOMAIN c = 1..Len(u)
    BY <2>1
  <2> HIDE DEF c
  <2>3. \A i \in 1..Len(u) : i # 1 => u[1].id < u[i].id
    BY <1>1, <2>1 DEF InOrder
  <2>4. \A i \in 1..Len(u) : i # 1 => Entry(u[i]) # Entry(u[1])
    <3>1. \A i \in 1..Len(u) : Entry(u[i]).id = u[i].id /\ u[i].id \in Int
      BY <1>1 DEF Entry
    <3> QED BY <2>1, <2>3, <3>1
  <2>5. Entry(item) # Entry(u[1])
    <3>1. Entry(u[1]).id = u[1].id /\ Entry(item).id = n + 1
      BY DEF Entry
    <3>2. u[1].id \in Int /\ u[1].id <= n
      BY <1>1, <2>1
    <3> QED BY <3>1, <3>2
  <2>6. gone \in {{}, TheDiary!Oldest(Opened(u, t))}
    <3>1. CASE ~(Active(u[1]) /\ t < End(u[1]))
      BY <3>1
    <3>2. CASE Active(u[1]) /\ t < End(u[1])
      <4>1. gone = {Entry(u[1])} /\ Entry(u[1]) \in Opened(u, t)
        BY <1>5, <2>1, <3>2
      <4>2. \A e \in Opened(u, t) : e = Entry(u[1]) \/ Entry(u[1]).id < e.id
        <5> TAKE e \in Opened(u, t)
        <5>1. PICK i \in 1..Len(u) : e = Entry(u[i])
          BY <1>4
        <5>2. CASE i = 1
          BY <5>1, <5>2
        <5>3. CASE i # 1
          BY <2>3, <5>1, <5>3 DEF Entry
        <5> QED BY <5>2, <5>3
      <4>3. \A e \in Opened(u, t) : e.id \in Int
        <5> TAKE e \in Opened(u, t)
        <5>1. PICK i \in 1..Len(u) : e = Entry(u[i])
          BY <1>4
        <5> QED BY <1>1, <5>1 DEF Entry
      <4> HIDE DEF gone
      <4>4. ASSUME NEW e \in TheDiary!Oldest(Opened(u, t)) PROVE e = Entry(u[1])
        <5>1. e \in Opened(u, t) /\ e.id <= Entry(u[1]).id
          BY <4>1, <4>4 DEF TheDiary!Oldest
        <5>2. e.id \in Int /\ Entry(u[1]).id \in Int
          BY <4>1, <4>3, <5>1
        <5> QED BY <4>2, <5>1, <5>2
      <4>5. Entry(u[1]) \in TheDiary!Oldest(Opened(u, t))
        <5>1. \A e \in Opened(u, t) : Entry(u[1]).id <= e.id
          BY <4>1, <4>2, <4>3
        <5> QED BY <4>1, <5>1 DEF TheDiary!Oldest
      <4>6. TheDiary!Oldest(Opened(u, t)) = {Entry(u[1])}
        BY <4>4, <4>5
      <4> QED BY <4>1, <4>6
    <3> QED BY <3>1, <3>2
  <2>7. \A e \in gone : e = Entry(u[1])
    OBVIOUS
  <2>8. Active(u[1]) /\ t < End(u[1]) => Entry(u[1]) \in gone
    OBVIOUS
  <2> HIDE DEF gone
  <2>9. ASSUME NEW e \in Opened(c, t) PROVE e \in (Opened(u, t) \ gone) \cup new
    <3>1. PICK k \in 1..Len(u) : e = Entry(q[k + 1]) /\ Active(q[k + 1]) /\ t < End(q[k + 1])
      BY <2>1, <2>2, <2>9 DEF Opened, Going, Elements
    <3>2. CASE k + 1 \in 1..Len(u)
      <4> DEFINE i == k + 1
      <4>1. i \in 1..Len(u) /\ i # 1 /\ e = Entry(u[i]) /\ Active(u[i]) /\ t < End(u[i])
        BY <1>1, <3>1, <3>2
      <4> HIDE DEF i
      <4> QED BY <1>5, <2>4, <2>7, <4>1
    <3>3. CASE k + 1 = Len(u) + 1
      <4>1. e = Entry(item) /\ t < End(item)
        BY <1>1, <3>1, <3>3
      <4> QED BY <1>6, <4>1
    <3>4. k + 1 \in 1..Len(u) \/ k + 1 = Len(u) + 1
      BY <1>1
    <3> QED BY <3>2, <3>3, <3>4
  <2>10. ASSUME NEW e \in (Opened(u, t) \ gone) \cup new PROVE e \in Opened(c, t)
    <3>1. \A k \in 1..Len(u) : Active(c[k]) /\ t < End(c[k]) => Entry(c[k]) \in Opened(c, t)
      BY <2>2 DEF Opened, Going, Elements
    <3>2. CASE e \in Opened(u, t) \ gone
      <4>1. PICK i \in 1..Len(u) : e = Entry(u[i]) /\ Active(u[i]) /\ t < End(u[i])
        BY <1>4, <3>2
      <4>2. i # 1
        BY <2>8, <3>2, <4>1
      <4> DEFINE k == i - 1
      <4>3. k \in 1..Len(u) /\ k + 1 = i
        BY <1>1, <4>2
      <4> HIDE DEF k
      <4>4. c[k] = u[i]
        BY <1>1, <2>1, <4>3
      <4> QED BY <3>1, <4>1, <4>3, <4>4
    <3>3. CASE e \in new
      <4>1. Len(u) \in 1..Len(u) /\ c[Len(u)] = item
        BY <1>1, <2>1
      <4> DEFINE k == Len(u)
      <4> HIDE DEF k
      <4>2. k \in 1..Len(u) /\ c[k] = item
        BY <4>1 DEF k
      <4> QED BY <1>2, <3>1, <3>3, <4>2
    <3> QED BY <3>2, <3>3
  <2>11. Opened(c, t) = (Opened(u, t) \ gone) \cup new
    BY <2>9, <2>10
  <2>12. new \in SUBSET {e \in Opened(c, t) : e.id = n + 1}
    BY <1>3, <2>11
  <2> QED BY <1>3, <2>6, <2>11, <2>12 DEF c, q
<1>9. Len(u) < MaxPlans \/ Len(u) = MaxPlans
  <2>1. MaxPlans \in Nat /\ Len(u) \in Nat
    BY <1>1
  <2> QED BY <2>1
<1> QED BY <1>7, <1>8, <1>9

\* Nothing but the clock is set at the start.
LEMMA DiaryInit == Init => TheDiary!Init
<1> SUFFICES ASSUME Init PROVE TheDiary!Init
  OBVIOUS
<1>1. IInv
  BY InitInv
<1>2. Open = Opened(life.plans, now) /\ life.plans = <<>> /\ now = 0
  BY <1>1, OpenBefore DEF Init
<1>3. Opened(<<>>, now) = {}
  BY DEF Opened, Going, Elements
<1> QED BY <1>2, <1>3 DEF TheDiary!Init

\* What a save writes.
LEMMA WriteRefines ==
    ASSUME IInv, IInv', now' = now, NEW u, Listed(u, now, made), Len(u) <= MaxPlans,
           NEW item \in Plans, Active(item), item.id = made + 1, made + 1 \in Ids,
           life'.plans = Cut(Append(u, item), MaxPlans),
           Opened(u, now) = {e \in Open : ~(item.source = "commit" /\ e.kind = "commit")}
    PROVE  TheDiary!Write
<1> DEFINE c == Cut(Append(u, item), MaxPlans)
           id == made + 1
<1>1. u \in Seq(Plans) /\ now \in Nat /\ made \in Nat /\ Open = Opened(life.plans, now)
  BY CountFacts, OpenBefore DEF Listed, IInv
<1>2. Open' = Opened(c, now)
  BY OpenAfter
<1>3. PICK gone \in {{}, TheDiary!Oldest(Opened(u, now))},
           new \in SUBSET {e \in Opened(c, now) : e.id = id} :
        /\ Opened(c, now) = (Opened(u, now) \ gone) \cup new
        /\ \A e \in new : e.kind = item.source /\ e.end > now
  BY <1>1, OneWritten
<1>4. \A e \in Open : e.id < id
  <2>1. Proper(life, now, made)
    BY DEF IInv, Possible
  <2>2. /\ life.plans \in Seq(Plans) /\ Elements(life.plans) = {life.plans[i] : i \in 1..Len(life.plans)}
        /\ \A i \in 1..Len(life.plans) : life.plans[i] \in Plans /\ life.plans[i].id <= made
    BY <2>1, ElementsFacts DEF Proper, Lives, Listed
  <2> TAKE e \in Open
  <2>3. PICK i \in 1..Len(life.plans) : e = Entry(life.plans[i])
    BY <1>1, <2>2 DEF Opened, Going
  <2>4. e.id = life.plans[i].id /\ life.plans[i].id \in Int /\ life.plans[i].id <= made
    BY <2>2, <2>3, PlanFacts DEF Entry, Ids
  <2> QED BY <1>1, <2>4
<1> HIDE DEF c
<1> DEFINE kind == item.source
           rest == {e \in Open : ~(kind = "commit" /\ e.kind = "commit")}
<1>5. kind \in TheDiary!Kinds
  BY PlanFacts DEF TheDiary!Kinds
<1>6. /\ gone \in {{}, TheDiary!Oldest(rest)} /\ new \in SUBSET {e \in Open' : e.id = id}
      /\ Open' = (rest \ gone) \cup new /\ \A e \in new : e.kind = kind /\ e.end > now
  BY <1>2, <1>3
<1> HIDE DEF rest, kind
<1>7. id \in Ids
  OBVIOUS
<1> HIDE DEF id
<1>8. \E g \in {{}, TheDiary!Oldest(rest)}, w \in SUBSET {e \in Open' : e.id = id} :
         /\ Open' = (rest \ g) \cup w
         /\ \A e \in w : e.kind = kind /\ e.end > now
  BY <1>6
<1>9. UNCHANGED now
  OBVIOUS
<1> QED BY <1>4, <1>5, <1>7, <1>8, <1>9, Zenon DEF TheDiary!Write, rest

\* What a save closes.
LEMMA CloseRefines ==
    ASSUME IInv, IInv', now' = now, NEW q, NEW i, Opened(q, now) = Open,
           AllBut(i, q, life'.plans, now)
    PROVE  TheDiary!Close \/ UNCHANGED TheDiary!vars
<1>1. Open' = Opened(life'.plans, now)
  BY OpenAfter
<1>2. \/ Opened(life'.plans, now) = Opened(q, now)
      \/ \E e \in Opened(q, now) : Opened(life'.plans, now) = Opened(q, now) \ {e}
  BY OneClosed
<1>3. Open' = Open \/ \E e \in Open : Open' = Open \ {e}
  BY <1>1, <1>2
<1> QED BY <1>3 DEF TheDiary!Close, TheDiary!vars

\* A new plan is an entry of the diary,
LEMMA AddWrites == IInv /\ IInv' /\ Add => TheDiary!Write
<1> SUFFICES ASSUME IInv, IInv', Add PROVE TheDiary!Write
  OBVIOUS
<1> DEFINE T == Today
<1>1. PICK times \in PlanTimes :
        /\ Make
        /\ Save([T EXCEPT !.plans = Cut(Append(T.plans, NewPlan(times)), MaxPlans)])
        /\ now' = now
  BY DEF Add, NewPlan
<1> DEFINE item == NewPlan(times)
<1>2. now \in Nat /\ made + 1 \in Ids /\ Proper(T, now, made)
  BY <1>1, CountFacts, TodayFacts DEF IInv, Make
<1>3. /\ item \in Plans /\ Active(item) /\ item.id = made + 1 /\ item.source # "commit"
  BY <1>2, NewPlanFacts
<1>4. Listed(T.plans, now, made) /\ Len(T.plans) <= MaxPlans /\ T \in Lives
  BY <1>2 DEF Proper
<1>5. Open = Opened(T.plans, now)
  BY DEF Open, Opened
<1> HIDE DEF T, item
<1>6. life'.plans = Cut(Append(T.plans, item), MaxPlans)
  BY <1>1, <1>4 DEF Save, Lives, item
<1>7. Opened(T.plans, now) = {e \in Open : ~(item.source = "commit" /\ e.kind = "commit")}
  BY <1>3, <1>5
<1> DEFINE u == T.plans
<1> HIDE DEF u
<1>8. Listed(u, now, made) /\ Len(u) <= MaxPlans /\ life'.plans = Cut(Append(u, item), MaxPlans)
  BY <1>4, <1>6 DEF u
<1>9. Opened(u, now) = {e \in Open : ~(item.source = "commit" /\ e.kind = "commit")}
  BY <1>7 DEF u
<1> QED BY <1>1, <1>2, <1>3, <1>8, <1>9, WriteRefines

\* and what the character says it is doing is one, in the place of the last.
LEMMA StateWrites == IInv /\ IInv' /\ State => TheDiary!Write
<1> SUFFICES ASSUME IInv, IInv', State PROVE TheDiary!Write
  OBVIOUS
<1> DEFINE T == Today
           x(end, located) ==
             IF located THEN [source |-> "self_state", item |-> made + 1, until |-> NewUntil(end)]
             ELSE IF T.place.source = "self_state" THEN Nowhere ELSE T.place
<1>1. PICK end \in Clock \cup {None}, located \in BOOLEAN :
        /\ Make
        /\ Save([T EXCEPT !.plans = Cut(Append(Unstated(T), NewStatement(end)), MaxPlans),
                         !.place = x(end, located)])
        /\ now' = now
  BY DEF State, NewStatement, NewUntil
<1> DEFINE item == NewStatement(end)
           y == x(end, located)
<1>2. now \in Nat /\ made + 1 \in Ids /\ Proper(T, now, made)
  BY <1>1, CountFacts, TodayFacts DEF IInv, Make
<1>3. /\ item \in Plans /\ Active(item) /\ item.id = made + 1 /\ item.source = "commit"
  BY <1>2, NewStatementFacts
<1>4. T \in Lives
  BY <1>2 DEF Proper
<1>5. Open = Opened(T.plans, now)
  BY DEF Open, Opened
<1> HIDE DEF T, item, y
<1> DEFINE u == Unstated(T)
<1>6. /\ Listed(u, now, made) /\ Len(u) <= MaxPlans
      /\ \A k \in 1..Len(u) : u[k].source # "commit" /\ \E i \in 1..Len(T.plans) : u[k] = T.plans[i]
      /\ \A i \in 1..Len(T.plans) : T.plans[i].source # "commit" => \E k \in 1..Len(u) : u[k] = T.plans[i]
  BY <1>2, UnstatedFacts
<1> HIDE DEF u
<1>7. life'.plans = Cut(Append(u, item), MaxPlans)
  BY <1>1, <1>4 DEF Save, Lives, item, u, y
<1>8. Opened(u, now) = {e \in Open : ~(item.source = "commit" /\ e.kind = "commit")}
  <2> DEFINE q == T.plans
  <2>1. /\ u \in Seq(Plans) /\ Elements(u) = {u[k] : k \in 1..Len(u)}
        /\ q \in Seq(Plans) /\ Elements(q) = {q[k] : k \in 1..Len(q)}
    BY <1>4, <1>6, ElementsFacts DEF Listed, Lives
  <2>2. Going(u, now) = {p \in Going(q, now) : p.source # "commit"}
    <3>1. /\ \A k \in 1..Len(u) : u[k].source # "commit" /\ \E i \in 1..Len(q) : u[k] = q[i]
          /\ \A i \in 1..Len(q) : q[i].source # "commit" => \E k \in 1..Len(u) : u[k] = q[i]
      BY <1>6
    <3> HIDE DEF q
    <3>2. \A p \in Elements(u) : p \in Elements(q) /\ p.source # "commit"
      BY <2>1, <3>1
    <3>3. \A p \in Elements(q) : p.source # "commit" => p \in Elements(u)
      BY <2>1, <3>1
    <3> QED BY <3>2, <3>3 DEF Going
  <2> HIDE DEF q
  <2>3. \A p \in Going(q, now) : Entry(p).kind = p.source
    BY DEF Entry
  <2>4. Opened(u, now) = {e \in Opened(q, now) : e.kind # "commit"}
    BY <2>2, <2>3 DEF Opened
  <2> QED BY <1>3, <1>5, <2>4 DEF q
<1> QED BY <1>1, <1>2, <1>3, <1>6, <1>7, <1>8, WriteRefines

\* When the character stops what it does, that entry is closed,
LEMMA ClearCloses == IInv /\ IInv' /\ Clear => TheDiary!Close \/ UNCHANGED TheDiary!vars
<1> SUFFICES ASSUME IInv, IInv', Clear PROVE TheDiary!Close \/ UNCHANGED TheDiary!vars
  OBVIOUS
<1> DEFINE u == Unstated(life)
           q == life.plans
<1>1. now' = now /\ Proper(life, now, made) /\ now \in Nat /\ Open = Opened(q, now)
  BY CountFacts, OpenBefore DEF Clear, IInv, Possible
<1>2. life'.plans = u
  <2> DEFINE x == IF u # life.plans /\ life.place.source = "self_state" THEN Nowhere ELSE life.place
  <2>1. life' = [life EXCEPT !.plans = u, !.place = x]
    BY DEF Clear, Save
  <2>2. life \in Lives
    BY <1>1 DEF Proper
  <2> HIDE DEF u, x
  <2> QED BY <2>1, <2>2 DEF Lives
<1>3. /\ Listed(u, now, made)
      /\ \A k \in 1..Len(u) : \E i \in 1..Len(q) : u[k] = q[i]
      /\ \A i \in 1..Len(q) : q[i].source # "commit" => \E k \in 1..Len(u) : u[k] = q[i]
  BY <1>1, UnstatedFacts
<1> HIDE DEF u, q
<1>4. /\ u \in Seq(Plans) /\ Elements(u) = {u[k] : k \in 1..Len(u)}
      /\ q \in Seq(Plans) /\ Elements(q) = {q[k] : k \in 1..Len(q)} /\ OneStatement(q)
  BY <1>1, <1>3, ElementsFacts DEF Listed, Proper, q
<1>5. Going(u, now) \subseteq Going(q, now)
  BY <1>3, <1>4 DEF Going
<1>6. \A p \in Going(q, now) : p.source # "commit" => p \in Going(u, now)
  BY <1>3, <1>4 DEF Going
<1>7. \A p, r \in Going(q, now) : p.source = "commit" /\ r.source = "commit" => p = r
  BY <1>4 DEF Going, OneStatement
<1>8. \E i : AllBut(i, q, u, now)
  <2>1. CASE \E i \in Going(q, now) : i.source = "commit"
    <3>1. PICK i \in Going(q, now) : i.source = "commit"
      BY <2>1
    <3>2. \A p \in Going(q, now) : p # i => p \in Going(u, now)
      BY <1>6, <1>7, <3>1
    <3>3. AllBut(i, q, u, now)
      BY <1>5, <3>2 DEF AllBut, Opened
    <3> QED BY <3>3
  <2>2. CASE \A i \in Going(q, now) : i.source # "commit"
    <3>1. AllBut(None, q, u, now)
      BY <1>5, <1>6, <2>2 DEF AllBut, Opened
    <3> QED BY <3>1
  <2> QED BY <2>1, <2>2
<1>9. PICK i : AllBut(i, q, life'.plans, now)
  BY <1>2, <1>8
<1> QED BY <1>1, <1>9, CloseRefines

\* when a plan is observed, that of the plan is,
LEMMA ObserveCloses == IInv /\ IInv' /\ Observe => TheDiary!Close \/ UNCHANGED TheDiary!vars
<1> SUFFICES ASSUME IInv, IInv', Observe PROVE TheDiary!Close \/ UNCHANGED TheDiary!vars
  OBVIOUS
<1> DEFINE T == Today
           q == T.plans
           Done(p, of) == p.id = of /\ p.source = "planned" /\ p.status \notin {"cancelled", "expired"}
           Marked(of) == [i \in DOMAIN q |-> IF Done(q[i], of) THEN [q[i] EXCEPT !.status = "completed"]
                                             ELSE q[i]]
           All(of) == Append(T.observations, [id |-> made + 1, at |-> now, of |-> of])
           Place(located) == IF located THEN [source |-> "observation", item |-> made + 1,
                                              until |-> now + TwoHours]
                             ELSE T.place
<1>1. PICK of \in {None} \cup {e.id : e \in Elements(q) \cup Elements(T.observations)},
           located \in BOOLEAN :
        /\ Save([T EXCEPT !.plans = Marked(of), !.observations = Cut(All(of), MaxObservations),
                         !.place = Place(located)])
        /\ now' = now
  BY DEF Observe
<1> DEFINE f == Marked(of)
           c == Cut(All(of), MaxObservations)
           x == Place(located)
<1>2. Proper(T, now, made) /\ Open = Opened(q, now)
  BY TodayFacts DEF Open, Opened
<1>3. /\ q \in Seq(Plans) /\ InOrder(q) /\ Elements(q) = {q[k] : k \in 1..Len(q)} /\ DOMAIN q = 1..Len(q)
      /\ \A k \in 1..Len(q) : q[k] \in Plans /\ q[k].id \in Int
      /\ T = [plans |-> q, observations |-> T.observations, place |-> T.place, day |-> T.day]
      /\ Len(q) \in Nat
  <2>1. /\ q \in Seq(Plans) /\ InOrder(q)
        /\ T = [plans |-> q, observations |-> T.observations, place |-> T.place, day |-> T.day]
    BY <1>2 DEF Proper, Listed, Lives
  <2> HIDE DEF q, T
  <2>2. \A k \in 1..Len(q) : q[k] \in Plans
    BY <2>1
  <2>3. \A k \in 1..Len(q) : q[k].id \in Int
    BY <2>2, PlanFacts DEF Ids
  <2> QED BY <2>1, <2>2, <2>3, ElementsFacts
<1> HIDE DEF T, q
<1>4. /\ DOMAIN f = 1..Len(q)
      /\ \A k \in 1..Len(q) : Active(f[k]) => f[k] = q[k]
      /\ \A k \in 1..Len(q) : q[k].id # of => f[k] = q[k]
  <2>1. f = [k \in 1..Len(q) |-> IF Done(q[k], of) THEN [q[k] EXCEPT !.status = "completed"] ELSE q[k]]
    BY <1>3
  <2>2. \A k \in 1..Len(q) : f[k] = IF Done(q[k], of) THEN [q[k] EXCEPT !.status = "completed"] ELSE q[k]
    BY <2>1
  <2> HIDE DEF f
  <2>3. \A k \in 1..Len(q) : [q[k] EXCEPT !.status = "completed"].status = "completed"
    BY <1>3 DEF Plans
  <2>4. \A k \in 1..Len(q) : Active(f[k]) => f[k] = q[k]
    BY <2>2, <2>3 DEF Active
  <2>5. DOMAIN f = 1..Len(q)
    BY <2>1
  <2> QED BY <2>2, <2>4, <2>5
<1>5. life'.plans = f
  <2>1. life' = [T EXCEPT !.plans = f, !.observations = c, !.place = x]
    BY <1>1 DEF Save, q, T
  <2> HIDE DEF f, c, x
  <2>2. life' = [plans |-> f, observations |-> c, place |-> x, day |-> T.day]
    BY <1>3, <2>1
  <2> QED BY <2>2
<1> HIDE DEF f
<1>6. Going(f, now) \subseteq Going(q, now)
  BY <1>3, <1>4 DEF Going, Elements
<1>7. \E i : AllBut(i, q, f, now)
  <2>1. CASE \E h \in 1..Len(q) : q[h].id = of
    <3>1. PICK h \in 1..Len(q) : q[h].id = of
      BY <2>1
    <3>2. \A k \in 1..Len(q) : q[k].id = of => k = h
      BY <1>3, <3>1, OneOfId
    <3>3. \A p \in Going(q, now) : p # q[h] => p \in Going(f, now)
      <4> TAKE p \in Going(q, now)
      <4>1. PICK k \in 1..Len(q) : p = q[k] /\ Active(p) /\ now < End(p)
        BY <1>3 DEF Going
      <4>2. p # q[h] => f[k] = q[k]
        BY <1>4, <3>2, <4>1
      <4> QED BY <1>4, <4>1, <4>2 DEF Going, Elements
    <3>4. AllBut(q[h], q, f, now)
      BY <1>6, <3>3 DEF AllBut, Opened
    <3> QED BY <3>4
  <2>2. CASE \A h \in 1..Len(q) : q[h].id # of
    <3>1. \A p \in Going(q, now) : p \in Going(f, now)
      <4> TAKE p \in Going(q, now)
      <4>1. PICK k \in 1..Len(q) : p = q[k] /\ Active(p) /\ now < End(p)
        BY <1>3 DEF Going
      <4> QED BY <1>4, <2>2, <4>1 DEF Going, Elements
    <3>2. AllBut(None, q, f, now)
      BY <1>6, <3>1 DEF AllBut, Opened
    <3> QED BY <3>2
  <2> QED BY <2>1, <2>2
<1>8. PICK i : AllBut(i, q, life'.plans, now)
  BY <1>5, <1>7
<1> QED BY <1>1, <1>2, <1>8, CloseRefines

\* and when one is called off, that one is.
LEMMA DecideCloses == IInv /\ IInv' /\ Decide => TheDiary!Close \/ UNCHANGED TheDiary!vars
<1> SUFFICES ASSUME IInv, IInv', Decide PROVE TheDiary!Close \/ UNCHANGED TheDiary!vars
  OBVIOUS
<1> DEFINE T == Today
           q == T.plans
           Place(i, status) == IF status # "confirmed" /\ T.place.item = q[i].id THEN Nowhere ELSE T.place
<1>1. PICK i \in DOMAIN q, status \in {"confirmed", "cancelled", "expired"} :
        /\ status \in Allowed(q[i].status)
        /\ Save([T EXCEPT !.plans[i].status = status, !.place = Place(i, status)])
        /\ now' = now
  BY DEF Decide
<1> DEFINE w == [q[i] EXCEPT !.status = status]
           f == [q EXCEPT ![i] = w]
           x == Place(i, status)
<1>2. Proper(T, now, made) /\ Open = Opened(q, now)
  BY TodayFacts DEF Open, Opened
<1>3. /\ q \in Seq(Plans) /\ Elements(q) = {q[k] : k \in 1..Len(q)} /\ DOMAIN q = 1..Len(q)
      /\ T = [plans |-> q, observations |-> T.observations, place |-> T.place, day |-> T.day]
  BY <1>2, ElementsFacts DEF Proper, Listed, Lives
<1>4. life'.plans = f
  <2>1. life' = [T EXCEPT !.plans = f, !.place = x]
    BY <1>1 DEF Save
  <2> HIDE DEF f, x, T, q
  <2>2. life' = [plans |-> f, observations |-> T.observations, place |-> x, day |-> T.day]
    BY <1>3, <2>1
  <2> QED BY <2>2
<1>5. Active(q[i])
  BY <1>1 DEF Allowed, Active
<1> HIDE DEF T, q
<1>6. i \in 1..Len(q) /\ q[i] \in Plans
  BY <1>1, <1>3
<1>7. /\ w.id = q[i].id /\ w.source = q[i].source /\ w.start = q[i].start /\ w.end = q[i].end
      /\ w.day = q[i].day
  BY <1>6 DEF Plans
<1>8. DOMAIN f = 1..Len(q) /\ f[i] = w /\ \A k \in 1..Len(q) : k # i => f[k] = q[k]
  BY <1>3, <1>6
<1> HIDE DEF w, f
<1>9. End(w) = End(q[i]) /\ Entry(w) = Entry(q[i])
  BY <1>7 DEF End, Entry, EffectiveEnd, Overnight
<1>10. Opened(f, now) \subseteq Opened(q, now)
  <2>1. ASSUME NEW p \in Going(f, now) PROVE \E r \in Going(q, now) : Entry(r) = Entry(p)
    <3>1. PICK k \in 1..Len(q) : p = f[k] /\ Active(p) /\ now < End(p)
      BY <1>8 DEF Going, Elements
    <3>2. CASE k = i
      <4>1. p = w /\ now < End(q[i]) /\ q[i] \in Elements(q)
        BY <1>3, <1>6, <1>8, <1>9, <3>1, <3>2
      <4>2. q[i] \in Going(q, now)
        BY <1>5, <4>1 DEF Going
      <4> QED BY <1>9, <4>1, <4>2
    <3>3. CASE k # i
      <4>1. p = q[k] /\ p \in Going(q, now)
        BY <1>3, <1>8, <3>1, <3>3 DEF Going
      <4> QED BY <4>1
    <3> QED BY <3>2, <3>3
  <2> QED BY <2>1 DEF Opened
<1>11. \A p \in Going(q, now) : p # q[i] => p \in Going(f, now)
  <2> TAKE p \in Going(q, now)
  <2>1. PICK k \in 1..Len(q) : p = q[k] /\ Active(p) /\ now < End(p)
    BY <1>3 DEF Going
  <2>2. p # q[i] => f[k] = q[k]
    BY <1>8, <2>1
  <2> QED BY <1>8, <2>1, <2>2 DEF Going, Elements
<1>12. AllBut(q[i], q, life'.plans, now)
  BY <1>4, <1>10, <1>11 DEF AllBut, Opened
<1> QED BY <1>1, <1>2, <1>12, CloseRefines

\* Time goes by in the diary too.
LEMMA PassPasses == IInv /\ IInv' /\ Pass => TheDiary!Pass
<1> SUFFICES ASSUME IInv, IInv', Pass PROVE TheDiary!Pass
  OBVIOUS
<1>1. /\ Open = Opened(life.plans, now) /\ Open' = Opened(life.plans, now + 1) /\ now' = now + 1
      /\ now \in Nat /\ Proper(life, now, made)
  BY OpenBefore, OpenAfter, CountFacts DEF Pass, IInv, Possible
<1>2. Going(life.plans, now + 1) = {p \in Going(life.plans, now) : now + 1 < End(p)}
  BY <1>1, GoingOn
<1>3. \A p \in Going(life.plans, now) : End(p) \in Nat /\ Entry(p).end = End(p)
  BY <1>1, GoingFacts DEF Entry
<1>4. \A p \in Going(life.plans, now) : now + 1 < End(p) <=> Entry(p).end > now + 1
  BY <1>1, <1>3
<1>5. Opened(life.plans, now + 1) = {e \in Opened(life.plans, now) : e.end > now + 1}
  BY <1>2, <1>4 DEF Opened
<1> QED BY <1>1, <1>5 DEF TheDiary!Pass

\* Who looks, who is refused, and a restart, change nothing in it.
LEMMA NothingWritten ==
    IInv /\ IInv' /\ (Look \/ Refused \/ Restart \/ UNCHANGED vars) => UNCHANGED TheDiary!vars
<1> SUFFICES ASSUME IInv, IInv', Look \/ Refused \/ Restart \/ UNCHANGED vars
             PROVE  UNCHANGED TheDiary!vars
  OBVIOUS
<1>1. /\ Open = Opened(life.plans, now) /\ Open' = Opened(life'.plans, now') /\ now' = now
      /\ now \in Nat /\ Proper(life, now, made)
  BY OpenBefore, OpenAfter, CountFacts DEF Look, Refused, Restart, vars, IInv, Possible
<1>2. Going(life'.plans, now) = Going(life.plans, now)
  <2>1. CASE Look
    <3>1. life' = Refreshed(life, now)
      BY <2>1 DEF Look, Today
    <3> QED BY <1>1, <3>1, GoingLooked
  <2>2. CASE Restart
    BY <2>2 DEF Restart, IInv, SameDiary
  <2>3. CASE Refused
    BY <2>3 DEF Refused, Save
  <2>4. CASE UNCHANGED vars
    BY <2>4 DEF vars
  <2> QED BY <2>1, <2>2, <2>3, <2>4
<1> QED BY <1>1, <1>2 DEF Opened, TheDiary!vars

\* The bookkeeping by day and minute keeps the diary of Diary.tla: an entry is
\* over when its time is, not before and not after, one statement at a time, and
\* a full list loses its oldest entry.
THEOREM KeepsTheDiary == Spec => DiarySpec
<1>1. IInv /\ IInv' /\ [Next]_vars => [TheDiary!Next]_(TheDiary!vars)
  BY AddWrites, StateWrites, ClearCloses, ObserveCloses, DecideCloses, PassPasses, NothingWritten
     DEF Next, TheDiary!Next
<1> QED BY <1>1, DiaryInit, Inductive, PTL DEF Spec, DiarySpec, TheDiary!Spec
=============================================================================
