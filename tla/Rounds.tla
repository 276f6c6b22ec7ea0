------------------------------- MODULE Rounds -------------------------------
(***************************************************************************)
(* Lemmas for what the models compute by rounds over 0 .. N, as the loops  *)
(* of the code do: induction on numbers, as the absence of a least         *)
(* counterexample; that a recursion by rounds defines a function; what it  *)
(* has reached at the end; sums over finite sets; what the walks of a      *)
(* graph in Lineage, and its search for a shortest path, find; its build   *)
(* order; and what the one pass over it carries down.                      *)
(***************************************************************************)
EXTENDS Lineage, FunctionTheorems, FiniteSetTheorems, SequenceTheorems, WellFoundedInduction, TLAPS

\* Every set of natural numbers that has one has a least one.
LEMMA LeastNumber ==
  ASSUME NEW T \in SUBSET Nat, T # {}
  PROVE  \E n \in T : \A m \in T : n <= m
  <1> DEFINE R == {ss \in Nat \X Nat : ss[1] < ss[2]}
  <1>1. IsWellFoundedOn(R, Nat)
    BY NatLessThanWellFounded DEF OpToRel
  <1>2. PICK n \in T : \A m \in T : ~(<<m, n>> \in R)
    <2> HIDE DEF R
    <2> QED BY <1>1, WFMin
  <1>3. \A m \in T : <<m, n>> \in Nat \X Nat /\ m \in Nat /\ n \in Nat
    OBVIOUS
  <1>4. \A m \in T : ~(m < n)
    BY <1>2, <1>3, Zenon
  <1> QED BY <1>3, <1>4

\* A finite set of numbers has a greatest and a least, and what a function makes of a finite
\* set is finite.
LEMMA FiniteHasGreatest ==
  ASSUME NEW S \in SUBSET Int, S # {}, IsFiniteSet(S)
  PROVE  \E m \in S : \A n \in S : n <= m
  <1> DEFINE Above(n) == {k \in S : n < k}
             T == {Cardinality(Above(n)) : n \in S}
  <1>1. \A n \in S : IsFiniteSet(Above(n)) /\ Cardinality(Above(n)) \in Nat
    BY FS_Subset, FS_CardinalityType
  <1>2. PICK t \in T : \A u \in T : t <= u
    <2>1. T \in SUBSET Nat /\ T # {}
      BY <1>1
    <2> HIDE DEF T
    <2> QED BY <2>1, LeastNumber
  <1>3. PICK m \in S : t = Cardinality(Above(m))
    OBVIOUS
  <1>4. ASSUME NEW n \in S, m < n PROVE FALSE
    <2>1. Above(n) \in SUBSET Above(m) /\ n \in Above(m) /\ n \notin Above(n)
      <3>1. m \in Int /\ \A k \in S : k \in Int
        OBVIOUS
      <3>2. \A k \in S : n < k => m < k
        BY <1>4, <3>1
      <3>3. n \in Above(m)
        BY <1>4
      <3>4. ~(n < n)
        BY <3>1
      <3>5. \A k \in Above(n) : k \in Above(m)
        BY <3>2
      <3> QED BY <3>3, <3>4, <3>5
    <2>2. Cardinality(Above(n)) <= Cardinality(Above(m)) /\ Cardinality(Above(m)) <= Cardinality(Above(n))
      <3>1. Cardinality(Above(n)) \in T
        OBVIOUS
      <3>2. Cardinality(Above(m)) <= Cardinality(Above(n))
        <4> HIDE DEF T
        <4> QED BY <1>2, <1>3, <3>1
      <3> HIDE DEF Above, T
      <3> QED BY <1>1, <2>1, <3>2, FS_Subset
    <2>3. Cardinality(Above(n)) = Cardinality(Above(m))
      <3>1. Cardinality(Above(n)) \in Nat /\ Cardinality(Above(m)) \in Nat
        BY <1>1
      <3> HIDE DEF Above
      <3> QED BY <2>2, <3>1
    <2> HIDE DEF Above
    <2> QED BY <1>1, <2>1, <2>3, FS_Subset
  <1>5. \A n \in S : n <= m
    BY <1>4
  <1> QED BY <1>5

LEMMA ImageIsFinite ==
  ASSUME NEW S, IsFiniteSet(S), NEW f, S = DOMAIN f
  PROVE  IsFiniteSet({f[x] : x \in S})
  <1> DEFINE g == [x \in S |-> f[x]]
             T == {f[x] : x \in S}
  <1>1. g \in Surjection(S, T)
    BY DEF Surjection
  <1> HIDE DEF g, T
  <1> QED BY <1>1, FS_Surjection DEF T

LEMMA FiniteHasLeast ==
  ASSUME NEW S \in SUBSET Int, S # {}, IsFiniteSet(S)
  PROVE  \E m \in S : \A n \in S : m <= n
  <1> DEFINE minus == [x \in S |-> -x]
             T == {minus[x] : x \in S}
  <1>1. IsFiniteSet(T)
    <2> HIDE DEF T
    <2> QED BY ImageIsFinite DEF T
  <1>2. T \in SUBSET Int /\ T # {}
    <2>1. \A x \in S : minus[x] \in Int
      OBVIOUS
    <2> HIDE DEF minus
    <2> QED BY <2>1
  <1>3. PICK g \in T : \A n \in T : n <= g
    <2> HIDE DEF T
    <2> QED BY <1>1, <1>2, FiniteHasGreatest
  <1>4. PICK m \in S : g = -m
    OBVIOUS
  <1>5. \A n \in S : -n \in T
    OBVIOUS
  <1>6. \A n \in S : m \in Int /\ n \in Int /\ -n <= -m
    BY <1>3, <1>4, <1>5
  <1>7. \A n \in S : m <= n
    BY <1>6
  <1> QED BY <1>7

LEMMA GreatestIs ==
  ASSUME NEW S \in SUBSET Int, IsFiniteSet(S), S # {}
  PROVE  Max(S) \in S /\ \A n \in S : Max(S) >= n
  <1>1. PICK m \in S : \A n \in S : n <= m
    BY FiniteHasGreatest
  <1>2. \A n \in S : m >= n
    BY <1>1
  <1> QED BY <1>2 DEF Max

\* If a set of numbers has 0 and with every number the next, it has them all, to the bound.
LEMMA UpTo ==
  ASSUME NEW N \in Nat, NEW P,
         0 \in P, \A n \in 0 .. N : n + 1 \in 0 .. N /\ n \in P => n + 1 \in P
  PROVE  \A n \in 0 .. N : n \in P
  <1> DEFINE T == {n \in 0 .. N : n \notin P}
  <1>1. SUFFICES ASSUME T # {} PROVE FALSE
    OBVIOUS
  <1>2. T \in SUBSET Nat
    OBVIOUS
  <1>3. PICK n \in T : \A m \in T : n <= m
    <2> HIDE DEF T
    <2> QED BY <1>1, <1>2, LeastNumber
  <1>4. n \in 0 .. N /\ n \notin P /\ n # 0
    OBVIOUS
  <1>5. n - 1 \in 0 .. N /\ (n - 1) + 1 = n /\ ~(n <= n - 1)
    BY <1>4
  <1>6. n - 1 \notin T
    <2> HIDE DEF T
    <2> QED BY <1>3, <1>5
  <1>7. n - 1 \in P
    BY <1>5, <1>6
  <1> QED BY <1>4, <1>5, <1>7

\* What is meant by f[n \in 0 .. N] == IF n = 0 THEN A ELSE F[f[n - 1]].
IsIteration(f, N, A, F) == f = CHOOSE h : h = [n \in 0 .. N |-> IF n = 0 THEN A ELSE F[h[n - 1]]]

\* What a recursion over 0 .. N defines exists: each value is made from the one before.
LEMMA Iterates ==
  ASSUME NEW N, NEW U, NEW A, NEW F, NEW f,
         N \in Nat, A \in U, F \in [U -> U], IsIteration(f, N, A, F)
  PROVE  /\ f \in [0 .. N -> U]
         /\ f[0] = A
         /\ \A n \in 0 .. N : n + 1 \in 0 .. N => f[n + 1] = F[f[n]]
  <1> DEFINE Good(g, k) == /\ g \in [0 .. k -> U]
                           /\ g[0] = A
                           /\ \A n \in 1 .. k : g[n] = F[g[n - 1]]
             P == {k \in 0 .. N : \E g : Good(g, k)}
  <1>1. 0 \in P
    <2>1. Good([n \in 0 .. 0 |-> A], 0)
      OBVIOUS
    <2>2. 0 \in 0 .. N
      OBVIOUS
    <2> QED
      <3> HIDE DEF Good
      <3> QED BY <2>1, <2>2
  <1>2. ASSUME NEW k \in 0 .. N, k + 1 \in 0 .. N, k \in P
        PROVE  k + 1 \in P
    <2>1. PICK g : Good(g, k)
      BY <1>2
    <2> DEFINE h == [n \in 0 .. k + 1 |-> IF n = k + 1 THEN F[g[k]] ELSE g[n]]
    <2>2. h \in [0 .. k + 1 -> U] /\ h[0] = A
      BY <2>1
    <2>3. ASSUME NEW n \in 1 .. k + 1 PROVE h[n] = F[h[n - 1]]
      <3>1. CASE n = k + 1
        BY <3>1
      <3>2. CASE n # k + 1
        <4>1. n \in 1 .. k /\ n \in 0 .. k + 1 /\ n - 1 \in 0 .. k + 1 /\ n - 1 # k + 1
          BY <3>2
        <4>2. h[n] = g[n] /\ h[n - 1] = g[n - 1]
          BY <4>1, <3>2
        <4> QED BY <4>1, <4>2, <2>1
      <3> QED BY <3>1, <3>2
    <2>4. Good(h, k + 1)
      BY <2>2, <2>3
    <2> QED
      <3> HIDE DEF Good, h
      <3> QED BY <2>4, <1>2
  <1>3. N \in P
    <2> HIDE DEF P
    <2> QED BY <1>1, <1>2, UpTo
  <1>4. PICK g : Good(g, N)
    BY <1>3
  <1>5. g = [n \in 0 .. N |-> IF n = 0 THEN A ELSE F[g[n - 1]]]
    BY <1>4
  <1>6. f = [n \in 0 .. N |-> IF n = 0 THEN A ELSE F[f[n - 1]]]
    BY <1>5 DEF IsIteration
  <1>7. f[0] = A /\ \A n \in 0 .. N : n + 1 \in 0 .. N => f[n + 1] = F[f[n]]
    <2>1. f[0] = A
      <3>1. 0 \in 0 .. N
        OBVIOUS
      <3> QED BY <1>6, <3>1
    <2>2. ASSUME NEW n \in 0 .. N, n + 1 \in 0 .. N PROVE f[n + 1] = F[f[n]]
      <3>1. n + 1 # 0 /\ (n + 1) - 1 = n
        OBVIOUS
      <3> QED BY <1>6, <2>2, <3>1
    <2> QED BY <2>1, <2>2
  <1>8. f \in [0 .. N -> U]
    <2> DEFINE Q == {n \in 0 .. N : f[n] \in U}
    <2>1. 0 \in Q
      BY <1>7
    <2>2. \A n \in 0 .. N : n + 1 \in 0 .. N /\ n \in Q => n + 1 \in Q
      BY <1>7
    <2>3. \A n \in 0 .. N : n \in Q
      <3> HIDE DEF Q
      <3> QED BY <2>1, <2>2, UpTo
    <2> QED BY <1>6, <2>3
  <1> QED BY <1>7, <1>8

\* The place of a number in a finite set of numbers: 1 for the least, and so on.
PlaceIn(S, t) == Cardinality({u \in S : u <= t})

\* Every number of the set has a place of its own, and every place is taken.
LEMMA PlacesTaken ==
  ASSUME NEW S \in SUBSET Nat, IsFiniteSet(S)
  PROVE  /\ Cardinality(S) \in Nat
         /\ \A t \in S : PlaceIn(S, t) \in 1 .. Cardinality(S)
         /\ \A s, t \in S : PlaceIn(S, s) = PlaceIn(S, t) => s = t
         /\ \A n \in 1 .. Cardinality(S) : \E t \in S : PlaceIn(S, t) = n
  <1> DEFINE N == Cardinality(S)
             UpToOf(t) == {u \in S : u <= t}
             place == [t \in S |-> PlaceIn(S, t)]
  <1>1. N \in Nat /\ \A t \in S : /\ IsFiniteSet(UpToOf(t)) /\ UpToOf(t) \in SUBSET S /\ t \in UpToOf(t)
                                  /\ Cardinality(UpToOf(t)) \in Nat
    BY FS_CardinalityType, FS_Subset
  <1>2. ASSUME NEW t \in S PROVE place[t] = Cardinality(UpToOf(t)) /\ place[t] \in 1 .. N
    <2>1. place[t] = Cardinality(UpToOf(t))
      BY DEF PlaceIn
    <2>2. Cardinality(UpToOf(t)) <= N /\ Cardinality(UpToOf(t)) # 0
      <3> HIDE DEF UpToOf
      <3> QED BY <1>1, FS_Subset, FS_EmptySet
    <2> QED BY <1>1, <2>1, <2>2
  <1>3. ASSUME NEW s \in S, NEW t \in S, s < t PROVE place[s] # place[t]
    <2>1. UpToOf(s) \in SUBSET UpToOf(t) /\ t \in UpToOf(t) /\ t \notin UpToOf(s)
      <3>1. \A u \in S : u <= s => u <= t
        BY <1>3
      <3>2. t <= t /\ ~(t <= s)
        BY <1>3
      <3> QED BY <3>1, <3>2
    <2>2. Cardinality(UpToOf(t)) # Cardinality(UpToOf(s))
      <3> HIDE DEF UpToOf
      <3> QED BY <1>1, <2>1, FS_Subset
    <2> HIDE DEF place, UpToOf
    <2> QED BY <1>2, <2>2
  <1>4. \A s, t \in S : place[s] = place[t] => s = t
    <2> HIDE DEF place
    <2>1. \A s, t \in S : s < t \/ t < s \/ s = t
      OBVIOUS
    <2> QED BY <1>3, <2>1
  <1>5. place \in Injection(S, 1 .. N)
    <2>1. place \in [S -> 1 .. N]
      BY <1>2
    <2> HIDE DEF place
    <2> QED BY <1>4, <2>1 DEF Injection, IsInjective
  <1>6. \A n \in 1 .. N : \E t \in S : place[t] = n
    <2> HIDE DEF place
    <2>1. IsFiniteSet(1 .. N) /\ Cardinality(1 .. N) = N
      BY <1>1, FS_Interval
    <2> HIDE DEF N
    <2>2. Cardinality(S) = N
      BY DEF N
    <2>3. place \in Surjection(S, 1 .. N)
      BY <1>5, <2>1, <2>2, FS_Injection
    <2> QED BY <2>3 DEF Surjection
  <1> QED BY <1>1, <1>2, <1>4, <1>6

HasSize(U, N)    == IsFiniteSet(U) /\ N = Cardinality(U)
IsWidening(F, U) == F \in [SUBSET U -> SUBSET U] /\ \A S \in SUBSET U : S \subseteq F[S]

\* Repeating, from A, a step that only adds reaches a fixed point in as many rounds as
\* there are things to add, and stays within whatever has A and is closed under the step.
LEMMA RoundsClose ==
  ASSUME NEW U, NEW N, NEW A, NEW F, NEW f,
         HasSize(U, N), A \in SUBSET U, IsWidening(F, U), IsIteration(f, N, A, F)
  PROVE  /\ f[N] \in SUBSET U /\ A \subseteq f[N] /\ F[f[N]] = f[N]
         /\ \A C \in SUBSET U : A \subseteq C /\ (\A S \in SUBSET C : F[S] \subseteq C) => f[N] \subseteq C
  <1> USE DEF HasSize, IsWidening
  <1>0. /\ N \in Nat /\ f \in [0 .. N -> SUBSET U] /\ f[0] = A
        /\ \A n \in 0 .. N : n + 1 \in 0 .. N => f[n + 1] = F[f[n]]
    <2> DEFINE W == SUBSET U
    <2>1. N \in Nat /\ A \in W /\ F \in [W -> W]
      BY FS_CardinalityType
    <2>2. /\ f \in [0 .. N -> W] /\ f[0] = A
          /\ \A n \in 0 .. N : n + 1 \in 0 .. N => f[n + 1] = F[f[n]]
      <3> HIDE DEF W
      <3> QED BY <2>1, Iterates
    <2> QED BY <2>1, <2>2
  <1>1. \A S \in SUBSET U : IsFiniteSet(S) /\ Cardinality(S) \in Nat
    BY FS_Subset, FS_CardinalityType
  <1>2. F[f[N]] = f[N]
    <2> USE <1>0
    <2> DEFINE P == {n \in 0 .. N : F[f[n]] = f[n] \/ Cardinality(f[n]) >= n}
    <2>1. 0 \in P
      BY <1>1
    <2>2. ASSUME NEW n \in 0 .. N, n + 1 \in 0 .. N, n \in P
          PROVE  n + 1 \in P
      <3>1. f[n + 1] = F[f[n]] /\ f[n] \subseteq f[n + 1] /\ f[n] \in SUBSET U /\ f[n + 1] \in SUBSET U
        BY <2>2
      <3>2. CASE F[f[n]] = f[n]
        <4>1. f[n + 1] = f[n]
          BY <3>1, <3>2
        <4>2. F[f[n + 1]] = f[n + 1]
          BY <4>1, <3>1
        <4> QED BY <4>2, <2>2
      <3>3. CASE F[f[n]] # f[n] /\ Cardinality(f[n]) >= n
        <4>1. PICK x \in f[n + 1] : x \notin f[n]
          BY <3>1, <3>3
        <4>2. f[n] \cup {x} \subseteq f[n + 1] /\ f[n] \cup {x} \in SUBSET U
          BY <3>1, <4>1
        <4>3. Cardinality(f[n] \cup {x}) = Cardinality(f[n]) + 1
          BY <1>1, <3>1, <4>1, FS_AddElement
        <4>4. Cardinality(f[n] \cup {x}) <= Cardinality(f[n + 1])
          BY <1>1, <3>1, <4>2, FS_Subset
        <4> QED BY <1>1, <3>1, <3>3, <4>3, <4>4, <2>2
      <3> QED BY <2>2, <3>2, <3>3
    <2>3. N \in P
      <3>1. N \in 0 .. N
        OBVIOUS
      <3> HIDE DEF P
      <3> QED BY <2>1, <2>2, <3>1, UpTo
    <2>4. ASSUME Cardinality(f[N]) >= N PROVE f[N] = U
      <3>1. f[N] \in SUBSET U
        OBVIOUS
      <3> QED BY <3>1, <1>1, <2>4, FS_Subset
    <2>5. F[U] = U
      <3>1. U \in SUBSET U /\ U \subseteq F[U] /\ F[U] \in SUBSET U
        OBVIOUS
      <3> QED BY <3>1
    <2> QED BY <2>3, <2>4, <2>5
  <1>3. A \subseteq f[N]
    <2> USE <1>0
    <2> DEFINE P == {n \in 0 .. N : A \subseteq f[n]}
    <2>1. 0 \in P
      OBVIOUS
    <2>2. \A n \in 0 .. N : n + 1 \in 0 .. N /\ n \in P => n + 1 \in P
      OBVIOUS
    <2>3. N \in P
      <3>1. N \in 0 .. N
        OBVIOUS
      <3> HIDE DEF P
      <3> QED BY <2>1, <2>2, <3>1, UpTo
    <2> QED BY <2>3
  <1>4. ASSUME NEW C \in SUBSET U, A \subseteq C, \A S \in SUBSET C : F[S] \subseteq C
        PROVE  f[N] \subseteq C
    <2> USE <1>0
    <2> DEFINE P == {n \in 0 .. N : f[n] \subseteq C}
    <2>1. 0 \in P
      BY <1>4
    <2>2. \A n \in 0 .. N : n + 1 \in 0 .. N /\ n \in P => n + 1 \in P
      BY <1>4
    <2>3. N \in P
      <3>1. N \in 0 .. N
        OBVIOUS
      <3> HIDE DEF P
      <3> QED BY <2>1, <2>2, <3>1, UpTo
    <2> QED BY <2>3
  <1>5. f[N] \in SUBSET U
    BY <1>0
  <1> QED BY <1>2, <1>3, <1>4, <1>5

\* The place of an element in a finite set, by the pairs <<earlier, later>> of an order.
RankBy(S, B, t) == Cardinality({u \in S : <<u, t>> \in B}) + 1

\* In a strict total order too every element has a place of its own, and every place is taken.
LEMMA RanksTaken ==
  ASSUME NEW S, IsFiniteSet(S), NEW B,
         \A s \in S : <<s, s>> \notin B,
         \A s, t, u \in S : <<s, t>> \in B /\ <<t, u>> \in B => <<s, u>> \in B,
         \A s, t \in S : s # t => <<s, t>> \in B \/ <<t, s>> \in B
  PROVE  /\ Cardinality(S) \in Nat
         /\ \A t \in S : RankBy(S, B, t) \in 1 .. Cardinality(S)
         /\ \A s, t \in S : RankBy(S, B, s) = RankBy(S, B, t) => s = t
         /\ \A n \in 1 .. Cardinality(S) : \E t \in S : RankBy(S, B, t) = n
         /\ \A s, t \in S : RankBy(S, B, s) = 1 => s = t \/ <<s, t>> \in B
  <1> DEFINE N == Cardinality(S)
             Before(t) == {u \in S : <<u, t>> \in B}
             place == [t \in S |-> RankBy(S, B, t)]
  <1>1. N \in Nat /\ \A t \in S : /\ IsFiniteSet(Before(t)) /\ Before(t) \in SUBSET S /\ t \notin Before(t)
                                  /\ Cardinality(Before(t)) \in Nat
    BY FS_CardinalityType, FS_Subset
  <1>2. ASSUME NEW t \in S PROVE place[t] = Cardinality(Before(t)) + 1 /\ place[t] \in 1 .. N
    <2>1. place[t] = Cardinality(Before(t)) + 1
      BY DEF RankBy
    <2>2. Cardinality(Before(t)) <= N /\ Cardinality(Before(t)) # N
      <3> HIDE DEF Before
      <3> QED BY <1>1, FS_Subset
    <2> HIDE DEF Before, place, N
    <2> QED BY <1>1, <2>1, <2>2
  <1>3. ASSUME NEW s \in S, NEW t \in S, <<s, t>> \in B PROVE place[s] # place[t]
    <2>1. Before(s) \in SUBSET Before(t) /\ s \in Before(t) /\ s \notin Before(s)
      BY <1>3
    <2>2. Cardinality(Before(t)) # Cardinality(Before(s))
      <3> HIDE DEF Before
      <3> QED BY <1>1, <2>1, FS_Subset
    <2> HIDE DEF place, Before
    <2> QED BY <1>1, <1>2, <2>2
  <1>4. \A s, t \in S : place[s] = place[t] => s = t
    <2> HIDE DEF place
    <2> QED BY <1>3
  <1>5. place \in Injection(S, 1 .. N)
    <2>1. place \in [S -> 1 .. N]
      BY <1>2
    <2> HIDE DEF place
    <2> QED BY <1>4, <2>1 DEF Injection, IsInjective
  <1>6. \A n \in 1 .. N : \E t \in S : place[t] = n
    <2> HIDE DEF place
    <2>1. IsFiniteSet(1 .. N) /\ Cardinality(1 .. N) = N
      BY <1>1, FS_Interval
    <2> HIDE DEF N
    <2>2. Cardinality(S) = N
      BY DEF N
    <2>3. place \in Surjection(S, 1 .. N)
      BY <1>5, <2>1, <2>2, FS_Injection
    <2> QED BY <2>3 DEF Surjection
  <1>7. ASSUME NEW s \in S, NEW t \in S, place[s] = 1, s # t PROVE <<s, t>> \in B
    <2>1. Cardinality(Before(s)) = 0
      <3> HIDE DEF Before, place
      <3> QED BY <1>1, <1>2, <1>7
    <2>2. Before(s) = {}
      <3> HIDE DEF Before
      <3> QED BY <1>1, <2>1, FS_EmptySet
    <2> QED BY <1>7, <2>2
  <1> QED BY <1>1, <1>2, <1>4, <1>6, <1>7

\* An element ahead of another has the smaller place.
LEMMA RanksRise ==
  ASSUME NEW S, IsFiniteSet(S), NEW B,
         \A s \in S : <<s, s>> \notin B,
         \A s, t, u \in S : <<s, t>> \in B /\ <<t, u>> \in B => <<s, u>> \in B,
         NEW s1 \in S, NEW t1 \in S, <<s1, t1>> \in B
  PROVE  RankBy(S, B, s1) < RankBy(S, B, t1)
  <1>a. PICK X : X = {u \in S : <<u, s1>> \in B}
    OBVIOUS
  <1>b. PICK Y : Y = {u \in S : <<u, t1>> \in B}
    OBVIOUS
  <1>1. X \subseteq Y /\ s1 \in Y /\ s1 \notin X /\ Y \subseteq S
    BY <1>a, <1>b
  <1>2. IsFiniteSet(X) /\ IsFiniteSet(Y)
    BY <1>1, FS_Subset
  <1>3. Cardinality(X) \in Nat /\ Cardinality(Y) \in Nat /\ Cardinality(X) <= Cardinality(Y)
        /\ (Cardinality(X) = Cardinality(Y) => X = Y)
    BY <1>1, <1>2, FS_Subset, FS_CardinalityType
  <1>m. PICK m \in Nat : m = Cardinality(X)
    BY <1>3
  <1>n. PICK n \in Nat : n = Cardinality(Y)
    BY <1>3
  <1>4. m < n
    BY <1>1, <1>3, <1>m, <1>n
  <1> QED BY <1>4, <1>a, <1>b, <1>m, <1>n DEF RankBy

\* A recursion over the subsets of a finite set S, taking e[s] from s, defines a function.
FoldUp(g, F, A, e, S) == g = [s \in SUBSET S |-> IF s = {} THEN A ELSE F[<<e[s], g[s \ {e[s]}]>>]]

LEMMA FoldsExist ==
  ASSUME NEW S, IsFiniteSet(S), NEW V, NEW A \in V, NEW F \in [S \X V -> V],
         NEW e, \A s \in SUBSET S : s # {} => e[s] \in s
  PROVE  \E g \in [SUBSET S -> V] : FoldUp(g, F, A, e, S)
  <1> DEFINE N == Cardinality(S)
             Some(s) == e[s]
             Right(g, s) == g[s] = IF s = {} THEN A ELSE F[<<Some(s), g[s \ {Some(s)}]>>]
             Good(g, n) == \A s \in SUBSET S : Cardinality(s) <= n => Right(g, s)
             P == {n \in 0 .. N : \E g \in [SUBSET S -> V] : Good(g, n)}
  <1>1. N \in Nat /\ \A s \in SUBSET S : IsFiniteSet(s) /\ Cardinality(s) \in Nat /\ Cardinality(s) <= N
    BY FS_Subset, FS_CardinalityType
  <1>2. \A s \in SUBSET S : s # {} => /\ Some(s) \in s /\ s \ {Some(s)} \in SUBSET S
                                      /\ Cardinality(s \ {Some(s)}) = Cardinality(s) - 1
    BY <1>1, FS_RemoveElement
  <1>3. 0 \in P
    <2> DEFINE g == [s \in SUBSET S |-> A]
    <2>1. \A s \in SUBSET S : Cardinality(s) <= 0 => s = {}
      BY <1>1, FS_EmptySet
    <2>2. Good(g, 0)
      BY <2>1
    <2>3. g \in [SUBSET S -> V]
      OBVIOUS
    <2> HIDE DEF g, Good
    <2> QED BY <1>1, <2>2, <2>3
  <1>4. ASSUME NEW n \in 0 .. N, n + 1 \in 0 .. N, n \in P PROVE n + 1 \in P
    <2>1. PICK g \in [SUBSET S -> V] : Good(g, n)
      BY <1>4
    <2> HIDE DEF Some
    <2> DEFINE h == [s \in SUBSET S |-> IF Cardinality(s) <= n THEN g[s] ELSE F[<<Some(s), g[s \ {Some(s)}]>>]]
    <2>2. \A s \in SUBSET S : Cardinality(s) > n => s # {}
      BY <1>1, FS_EmptySet
    <2>3. h \in [SUBSET S -> V]
      <3>1. \A s \in SUBSET S : Cardinality(s) > n => F[<<Some(s), g[s \ {Some(s)}]>>] \in V
        BY <1>2, <2>2
      <3> QED BY <1>1, <3>1
    <2>4. \A s \in SUBSET S : Cardinality(s) <= n => h[s] = g[s]
      OBVIOUS
    <2>5. \A s \in SUBSET S : Cardinality(s) > n => h[s] = F[<<Some(s), g[s \ {Some(s)}]>>]
      BY <1>1
    <2> HIDE DEF h
    <2>6. ASSUME NEW s \in SUBSET S, Cardinality(s) <= n + 1 PROVE Right(h, s)
      <3>1. CASE s = {}
        <4>1. Cardinality(s) <= n
          BY <3>1, FS_EmptySet
        <4> QED BY <2>1, <2>4, <3>1, <4>1
      <3>2. CASE s # {}
        <4>1. h[s \ {Some(s)}] = g[s \ {Some(s)}]
          BY <1>1, <1>2, <2>4, <2>6, <3>2
        <4>2. CASE Cardinality(s) <= n
          BY <2>1, <2>4, <3>2, <4>1, <4>2
        <4>3. CASE Cardinality(s) > n
          BY <2>5, <3>2, <4>1, <4>3
        <4> QED BY <1>1, <4>2, <4>3
      <3> QED BY <3>1, <3>2
    <2>7. Good(h, n + 1)
      BY <2>6
    <2> HIDE DEF Good
    <2> QED BY <1>4, <2>3, <2>7
  <1>5. N \in P
    <2> HIDE DEF P
    <2> QED BY <1>1, <1>3, <1>4, UpTo
  <1>6. PICK g \in [SUBSET S -> V] : Good(g, N)
    BY <1>5
  <1>7. \A s \in SUBSET S : Right(g, s)
    BY <1>1, <1>6
  <1>8. FoldUp(g, F, A, e, S)
    BY <1>7 DEF FoldUp
  <1> QED BY <1>8

\* g is the recursion that adds f up over the subsets of S, taking e[s] from s.
AddUp(g, f, e, S) == g = [s \in SUBSET S |-> IF s = {} THEN 0 ELSE f[e[s]] + g[s \ {e[s]}]]

LEMMA AddsExist ==
  ASSUME NEW S, IsFiniteSet(S), NEW f, \A x \in S : f[x] \in Int,
         NEW e, \A s \in SUBSET S : s # {} => e[s] \in s
  PROVE  \E g \in [SUBSET S -> Int] : AddUp(g, f, e, S)
  <1> DEFINE F == [p \in S \X Int |-> f[p[1]] + p[2]]
  <1>1. F \in [S \X Int -> Int] /\ 0 \in Int /\ \A x \in S, n \in Int : F[<<x, n>>] = f[x] + n
    OBVIOUS
  <1>2. PICK g \in [SUBSET S -> Int] : FoldUp(g, F, 0, e, S)
    <2> HIDE DEF F
    <2> QED BY <1>1, FoldsExist
  <1>3. ASSUME NEW s \in SUBSET S PROVE g[s] = IF s = {} THEN 0 ELSE f[e[s]] + g[s \ {e[s]}]
    <2>1. s # {} => e[s] \in S /\ g[s \ {e[s]}] \in Int
      OBVIOUS
    <2>2. g[s] = IF s = {} THEN 0 ELSE F[<<e[s], g[s \ {e[s]}]>>]
      BY <1>2 DEF FoldUp
    <2> HIDE DEF F
    <2> QED BY <1>1, <2>1, <2>2
  <1>4. AddUp(g, f, e, S)
    BY <1>3 DEF AddUp
  <1> QED BY <1>4

\* g is the recursion by which the fold of + adds f up over the subsets of S.
SumUp(g, f, S) ==
  g = [s \in SUBSET S |-> IF s = {} THEN 0
                          ELSE f[CHOOSE x \in s : TRUE] + g[s \ {CHOOSE x \in s : TRUE}]]

LEMMA SumsExist ==
  ASSUME NEW S, IsFiniteSet(S), NEW f, \A x \in S : f[x] \in Int
  PROVE  \E g \in [SUBSET S -> Int] : SumUp(g, f, S)
  <1> DEFINE e == [s \in SUBSET S |-> CHOOSE x \in s : TRUE]
  <1>1. \A s \in SUBSET S : s # {} => e[s] \in s
    OBVIOUS
  <1>2. PICK g \in [SUBSET S -> Int] : AddUp(g, f, e, S)
    <2> HIDE DEF e
    <2> QED BY <1>1, AddsExist
  <1>3. \A s \in SUBSET S : g[s] = IF s = {} THEN 0 ELSE f[CHOOSE x \in s : TRUE] + g[s \ {CHOOSE x \in s : TRUE}]
    BY <1>2 DEF AddUp
  <1>4. SumUp(g, f, S)
    BY <1>3 DEF SumUp
  <1> QED BY <1>4

\* The sum of equal numbers over the same set is the same, whatever sets they are part of.
LEMMA SumsAgree ==
  ASSUME NEW S, NEW T, NEW f, NEW k, NEW g, NEW h, SumUp(g, f, S), SumUp(h, k, T),
         NEW U \in SUBSET (S \cap T), IsFiniteSet(U), \A x \in U : f[x] = k[x]
  PROVE  g[U] = h[U]
  <1> DEFINE Wrong == {s \in SUBSET U : g[s] # h[s]}
             Sizes == {Cardinality(s) : s \in Wrong}
  <1>1. SUFFICES ASSUME Wrong # {} PROVE FALSE
    OBVIOUS
  <1>2. \A s \in SUBSET U : IsFiniteSet(s) /\ Cardinality(s) \in Nat
    BY FS_Subset, FS_CardinalityType
  <1>3. PICK n \in Sizes : \A m \in Sizes : n <= m
    <2>1. Sizes \in SUBSET Nat /\ Sizes # {}
      BY <1>1, <1>2
    <2> HIDE DEF Sizes
    <2> QED BY <2>1, LeastNumber
  <1>4. PICK s \in Wrong : n = Cardinality(s)
    OBVIOUS
  <1> DEFINE x == CHOOSE e \in s : TRUE
  <1>5. s \in SUBSET S /\ s \in SUBSET T /\ s \in SUBSET U
    OBVIOUS
  <1>6. /\ g[s] = IF s = {} THEN 0 ELSE f[x] + g[s \ {x}]
        /\ h[s] = IF s = {} THEN 0 ELSE k[x] + h[s \ {x}]
    BY <1>5 DEF SumUp
  <1>7. s # {}
    BY <1>6
  <1>8. x \in s
    BY <1>7
  <1> HIDE DEF x
  <1>9. Cardinality(s \ {x}) = Cardinality(s) - 1
    BY <1>2, <1>5, <1>8, FS_RemoveElement
  <1>10. s \ {x} \notin Wrong
    <2> SUFFICES ASSUME s \ {x} \in Wrong PROVE FALSE
      OBVIOUS
    <2>1. Cardinality(s \ {x}) \in Sizes
      OBVIOUS
    <2> HIDE DEF Sizes
    <2> QED BY <1>2, <1>3, <1>4, <1>5, <1>9, <2>1
  <1>11. g[s \ {x}] = h[s \ {x}] /\ f[x] = k[x]
    BY <1>5, <1>8, <1>10
  <1> QED BY <1>4, <1>6, <1>7, <1>11

\* Whichever element is taken first.
InAnyOrder(g, f, S) ==
  g[{}] = 0 /\ \A s \in SUBSET S : \A y \in s : g[s] = f[y] + g[s \ {y}]

LEMMA SumsInAnyOrder ==
  ASSUME NEW S, IsFiniteSet(S), NEW f, \A x \in S : f[x] \in Int, NEW g \in [SUBSET S -> Int], SumUp(g, f, S)
  PROVE  InAnyOrder(g, f, S)
  <1> DEFINE Wrong == {s \in SUBSET S : \E y \in s : g[s] # f[y] + g[s \ {y}]}
             Sizes == {Cardinality(s) : s \in Wrong}
  <1>1. g[{}] = 0
    BY DEF SumUp
  <1>2. SUFFICES ASSUME Wrong # {} PROVE FALSE
    BY <1>1 DEF InAnyOrder
  <1>3. \A s \in SUBSET S : IsFiniteSet(s) /\ Cardinality(s) \in Nat
    BY FS_Subset, FS_CardinalityType
  <1>4. PICK n \in Sizes : \A m \in Sizes : n <= m
    <2>1. Sizes \in SUBSET Nat /\ Sizes # {}
      BY <1>2, <1>3
    <2> HIDE DEF Sizes
    <2> QED BY <2>1, LeastNumber
  <1>5. PICK s \in Wrong : n = Cardinality(s)
    OBVIOUS
  <1>6. PICK y \in s : g[s] # f[y] + g[s \ {y}]
    OBVIOUS
  <1> DEFINE x == CHOOSE e \in s : TRUE
  <1>7. s \in SUBSET S /\ x \in s /\ g[s] = f[x] + g[s \ {x}]
    BY <1>6 DEF SumUp
  <1> HIDE DEF x
  <1>8. x # y
    BY <1>6, <1>7
  <1>9. ASSUME NEW z \in s PROVE s \ {z} \in SUBSET S /\ s \ {z} \notin Wrong
    <2>1. Cardinality(s \ {z}) = Cardinality(s) - 1
      BY <1>3, <1>7, FS_RemoveElement
    <2>2. SUFFICES ASSUME s \ {z} \in Wrong PROVE FALSE
      OBVIOUS
    <2>3. Cardinality(s \ {z}) \in Sizes
      BY <2>2
    <2> HIDE DEF Sizes, Wrong
    <2> QED BY <1>3, <1>4, <1>5, <1>7, <2>1, <2>3
  <1>10. g[s \ {x}] = f[y] + g[(s \ {x}) \ {y}]
    BY <1>7, <1>8, <1>9
  <1>11. g[s \ {y}] = f[x] + g[(s \ {y}) \ {x}]
    BY <1>7, <1>8, <1>9
  <1>12. (s \ {x}) \ {y} = (s \ {y}) \ {x}
    OBVIOUS
  <1> DEFINE rest == g[(s \ {y}) \ {x}]
  <1>13. f[x] \in Int /\ f[y] \in Int /\ rest \in Int
    BY <1>7
  <1>14. g[s \ {x}] = f[y] + rest /\ g[s \ {y}] = f[x] + rest
    BY <1>10, <1>11, <1>12
  <1> HIDE DEF rest
  <1>15. f[x] + (f[y] + rest) = f[y] + (f[x] + rest)
    BY <1>13
  <1> QED BY <1>6, <1>7, <1>14, <1>15

\* Equal numbers, added up.
LEMMA SumOfEqual ==
  ASSUME NEW S, IsFiniteSet(S), NEW c \in Int, NEW f, \A x \in S : f[x] = c,
         NEW g \in [SUBSET S -> Int], SumUp(g, f, S)
  PROVE  g[S] = Cardinality(S) * c
  <1> DEFINE Wrong == {s \in SUBSET S : g[s] # Cardinality(s) * c}
             Sizes == {Cardinality(s) : s \in Wrong}
  <1>1. SUFFICES ASSUME Wrong # {} PROVE FALSE
    OBVIOUS
  <1>2. \A s \in SUBSET S : IsFiniteSet(s) /\ Cardinality(s) \in Nat
    BY FS_Subset, FS_CardinalityType
  <1>3. PICK n \in Sizes : \A m \in Sizes : n <= m
    <2>1. Sizes \in SUBSET Nat /\ Sizes # {}
      BY <1>1, <1>2
    <2> HIDE DEF Sizes
    <2> QED BY <2>1, LeastNumber
  <1>4. PICK s \in Wrong : n = Cardinality(s)
    OBVIOUS
  <1>5. /\ g[{}] = 0 /\ Cardinality({}) * c = 0
        /\ \A t \in SUBSET S : \A y \in t : g[t] = f[y] + g[t \ {y}]
    <2>1. \A x \in S : f[x] \in Int
      OBVIOUS
    <2> HIDE DEF Wrong, Sizes
    <2>2. g[{}] = 0 /\ \A t \in SUBSET S : \A y \in t : g[t] = f[y] + g[t \ {y}]
      <3>1. InAnyOrder(g, f, S)
        BY <2>1, SumsInAnyOrder
      <3> QED BY <3>1 DEF InAnyOrder
    <2>3. Cardinality({}) * c = 0
      BY FS_EmptySet
    <2> QED BY <2>2, <2>3
  <1>6. PICK x \in s : TRUE
    BY <1>5
  <1>7. g[s] = c + g[s \ {x}] /\ Cardinality(s \ {x}) = Cardinality(s) - 1
    <2>1. s \in SUBSET S /\ x \in S /\ f[x] = c
      OBVIOUS
    <2> QED BY <1>2, <1>5, <2>1, FS_RemoveElement
  <1>8. s \ {x} \notin Wrong
    <2>1. SUFFICES ASSUME s \ {x} \in Wrong PROVE FALSE
      OBVIOUS
    <2>2. Cardinality(s \ {x}) \in Sizes
      BY <2>1
    <2>3. s \in SUBSET S
      OBVIOUS
    <2> HIDE DEF Sizes, Wrong
    <2> QED BY <1>2, <1>3, <1>4, <1>7, <2>2, <2>3
  <1>9. g[s \ {x}] = (Cardinality(s) - 1) * c
    BY <1>7, <1>8
  <1>10. Cardinality(s) \in Int
    BY <1>2
  <1>11. (Cardinality(s) - 1) * c + c = Cardinality(s) * c
    <2> DEFINE m == Cardinality(s)
    <2>1. m \in Int
      BY <1>10
    <2> HIDE DEF m
    <2>2. (m - 1) * c + c = m * c
      BY <2>1
    <2> QED BY <2>2 DEF m
  <1> QED BY <1>4, <1>7, <1>9, <1>10, <1>11


(***************************************************************************)
(* Sums.                                                                   *)
(***************************************************************************)

\* What holds of the empty set, and with a set of that and one more, holds of all subsets.
LEMMA OneByOne ==
  ASSUME NEW S, IsFiniteSet(S), NEW P, {} \in P,
         \A U \in SUBSET S : \A y \in U : U \ {y} \in P => U \in P
  PROVE  \A U \in SUBSET S : U \in P
  <1> DEFINE Wrong == {U \in SUBSET S : U \notin P}
             Sizes == {Cardinality(U) : U \in Wrong}
  <1>1. SUFFICES ASSUME Wrong # {} PROVE FALSE
    OBVIOUS
  <1>2. \A U \in SUBSET S : IsFiniteSet(U) /\ Cardinality(U) \in Nat
    BY FS_Subset, FS_CardinalityType
  <1>3. PICK n \in Sizes : \A m \in Sizes : n <= m
    <2>1. Sizes \in SUBSET Nat /\ Sizes # {}
      BY <1>1, <1>2
    <2> HIDE DEF Sizes
    <2> QED BY <2>1, LeastNumber
  <1>4. PICK U \in Wrong : n = Cardinality(U)
    BY <1>3
  <1>5. U # {}
    BY <1>4
  <1>6. PICK y \in U : TRUE
    BY <1>5
  <1>7. Cardinality(U \ {y}) = Cardinality(U) - 1 /\ U \ {y} \in SUBSET S
    BY <1>2, <1>4, <1>6, FS_RemoveElement
  <1>8. U \ {y} \in Wrong
    BY <1>4, <1>6, <1>7
  <1>9. Cardinality(U \ {y}) \in Sizes
    BY <1>8
  <1> HIDE DEF Wrong, Sizes
  <1>10. Cardinality(U) \in Nat /\ n <= Cardinality(U \ {y})
    BY <1>2, <1>3, <1>4, <1>9 DEF Wrong
  <1> QED BY <1>4, <1>7, <1>10

\* g is what the parts of f add up to.
AddsAll(g, f) ==
  /\ g \in [SUBSET DOMAIN f -> Int] /\ g[{}] = 0
  /\ \A U \in SUBSET DOMAIN f : \A y \in U : g[U] = f[y] + g[U \ {y}]
  /\ \A U \in SUBSET DOMAIN f : SumFunction([x \in U |-> f[x]]) = g[U]
IsSummable(f) == IsFiniteSet(DOMAIN f) /\ \A x \in DOMAIN f : f[x] \in Int

LEMMA SumsAdd ==
  ASSUME NEW f, IsSummable(f)
  PROVE  \E g : AddsAll(g, f)
  <1> DEFINE S == DOMAIN f
             Part(U) == [x \in U |-> f[x]]
  <1>0. IsFiniteSet(S) /\ \A x \in S : f[x] \in Int
    BY DEF IsSummable
  <1>1. PICK g \in [SUBSET S -> Int] : SumUp(g, f, S)
    BY <1>0, SumsExist
  <1>2. g[{}] = 0 /\ \A U \in SUBSET S : \A y \in U : g[U] = f[y] + g[U \ {y}]
    <2>1. InAnyOrder(g, f, S)
      <3> HIDE DEF S
      <3> QED BY <1>0, <1>1, SumsInAnyOrder
    <2> QED BY <2>1 DEF InAnyOrder
  <1>3. ASSUME NEW U \in SUBSET S PROVE SumFunction(Part(U)) = g[U]
    <2> DEFINE k == Part(U)
               iter == CHOOSE h : SumUp(h, k, U)
    <2>1. IsFiniteSet(U) /\ DOMAIN k = U /\ \A x \in U : k[x] = f[x] /\ k[x] \in Int
      BY <1>0, FS_Subset
    <2> HIDE DEF k
    <2>2. \E h : SumUp(h, k, U)
      BY <2>1, SumsExist
    <2>3. SumUp(iter, k, U)
      BY <2>2
    <2>4. SumFunction(k) = iter[U]
      BY <2>1 DEF SumFunction, SumFunctionOnSet, FoldFunctionOnSet, MapThenFoldSet, SumUp
    <2>5. U \in SUBSET (U \cap S)
      OBVIOUS
    <2> HIDE DEF iter
    <2>6. iter[U] = g[U]
      BY <1>1, <2>1, <2>3, <2>5, SumsAgree
    <2> QED BY <2>4, <2>6 DEF k
  <1> QED BY <1>1, <1>2, <1>3 DEF AddsAll

LEMMA SumIs ==
  ASSUME NEW f, f = [x \in DOMAIN f |-> f[x]], NEW g, AddsAll(g, f)
  PROVE  SumFunction(f) = g[DOMAIN f]
  BY DEF AddsAll

\* A sum is a number, and no less than that of less.
LEMMA SumInOrder ==
  ASSUME NEW S, NEW f, NEW k, DOMAIN f = S, DOMAIN k = S, f = [x \in S |-> f[x]], k = [x \in S |-> k[x]],
         IsSummable(f), IsSummable(k), \A x \in S : f[x] <= k[x]
  PROVE  /\ SumFunction(f) \in Int /\ SumFunction(k) \in Int
         /\ SumFunction(f) <= SumFunction(k)
  <1>1. PICK g : AddsAll(g, f)
    BY SumsAdd
  <1>2. PICK h : AddsAll(h, k)
    BY SumsAdd
  <1>3. /\ g \in [SUBSET S -> Int] /\ g[{}] = 0 /\ \A U \in SUBSET S : \A y \in U : g[U] = f[y] + g[U \ {y}]
        /\ h \in [SUBSET S -> Int] /\ h[{}] = 0 /\ \A U \in SUBSET S : \A y \in U : h[U] = k[y] + h[U \ {y}]
    BY <1>1, <1>2 DEF AddsAll
  <1>4. IsFiniteSet(S) /\ \A x \in S : f[x] \in Int /\ k[x] \in Int
    BY DEF IsSummable
  <1> DEFINE P == {U \in SUBSET S : g[U] <= h[U]}
  <1>5. {} \in P
    BY <1>3
  <1>6. ASSUME NEW U \in SUBSET S, NEW y \in U, U \ {y} \in P PROVE U \in P
    <2>1. g[U \ {y}] \in Int /\ h[U \ {y}] \in Int /\ f[y] \in Int /\ k[y] \in Int /\ f[y] <= k[y]
      BY <1>3, <1>4
    <2>2. g[U] = f[y] + g[U \ {y}] /\ h[U] = k[y] + h[U \ {y}] /\ g[U \ {y}] <= h[U \ {y}]
      BY <1>3, <1>6
    <2> QED BY <2>1, <2>2
  <1>7. S \in P
    <2>1. S \in SUBSET S
      OBVIOUS
    <2> HIDE DEF P
    <2> QED BY <1>4, <1>5, <1>6, <2>1, OneByOne
  <1> QED BY <1>1, <1>2, <1>3, <1>7, SumIs

LEMMA SumIsNumber ==
  ASSUME NEW f, f = [x \in DOMAIN f |-> f[x]], IsSummable(f)
  PROVE  SumFunction(f) \in Int
  <1>1. PICK g : AddsAll(g, f)
    BY SumsAdd
  <1> QED BY <1>1, SumIs DEF AddsAll

\* Two parts together.
LEMMA SumSplits ==
  ASSUME NEW f, IsSummable(f), NEW g, AddsAll(g, f), NEW U \in SUBSET DOMAIN f, NEW V \in SUBSET (DOMAIN f \ U)
  PROVE  g[U \cup V] = g[U] + g[V]
  <1> DEFINE S == DOMAIN f
             P == {W \in SUBSET (S \ U) : g[U \cup W] = g[U] + g[W]}
  <1>1. /\ g \in [SUBSET S -> Int] /\ g[{}] = 0 /\ \A W \in SUBSET S : \A y \in W : g[W] = f[y] + g[W \ {y}]
        /\ IsFiniteSet(S) /\ \A x \in S : f[x] \in Int
    BY DEF AddsAll, IsSummable
  <1>2. IsFiniteSet(S \ U) /\ U \in SUBSET S /\ V \in SUBSET (S \ U) /\ S \ U \in SUBSET S
    BY <1>1, FS_Subset
  <1> HIDE DEF S
  <1>3. {} \in P
    <2>1. U \cup {} = U /\ g[U] \in Int
      BY <1>1, <1>2
    <2> QED BY <1>1, <2>1
  <1>4. ASSUME NEW W \in SUBSET (S \ U), NEW y \in W, W \ {y} \in P PROVE W \in P
    <2>1. /\ U \cup W \in SUBSET S /\ W \in SUBSET S /\ W \ {y} \in SUBSET S /\ y \in U \cup W /\ y \in S
          /\ (U \cup W) \ {y} = U \cup (W \ {y})
      BY <1>2, <1>4
    <2>2. g[U \cup W] = f[y] + g[U \cup (W \ {y})] /\ g[W] = f[y] + g[W \ {y}]
      BY <1>1, <1>4, <2>1
    <2>3. g[U \cup (W \ {y})] = g[U] + g[W \ {y}]
      BY <1>4
    <2>4. g[U] \in Int /\ g[W \ {y}] \in Int /\ f[y] \in Int
      BY <1>1, <1>2, <2>1
    <2> QED BY <2>2, <2>3, <2>4
  <1>5. V \in P
    <2>1. \A X \in SUBSET (S \ U) : \A y \in X : X \ {y} \in P => X \in P
      BY <1>4
    <2> HIDE DEF P
    <2>2. PICK R : R = S \ U
      OBVIOUS
    <2>3. IsFiniteSet(R) /\ \A X \in SUBSET R : \A y \in X : X \ {y} \in P => X \in P
      BY <1>2, <2>1, <2>2
    <2>4. \A X \in SUBSET R : X \in P
      BY ONLY <1>3, <2>3, OneByOne
    <2> QED BY <1>2, <2>2, <2>4
  <1> QED BY <1>5

\* Of what is nowhere negative a part is no more than the whole.
LEMMA SumOfPart ==
  ASSUME NEW f, f = [x \in DOMAIN f |-> f[x]], IsSummable(f), \A x \in DOMAIN f : f[x] >= 0,
         NEW U \in SUBSET DOMAIN f
  PROVE  LET part == SumFunction([x \in U |-> f[x]]) IN
         part \in Int /\ 0 <= part /\ part <= SumFunction(f)
  <1> DEFINE S == DOMAIN f
  <1>1. PICK g : AddsAll(g, f)
    BY SumsAdd
  <1>2. /\ g \in [SUBSET S -> Int] /\ g[{}] = 0 /\ \A V \in SUBSET S : \A y \in V : g[V] = f[y] + g[V \ {y}]
        /\ SumFunction([x \in U |-> f[x]]) = g[U] /\ SumFunction(f) = g[S]
    BY <1>1, SumIs DEF AddsAll
  <1>3. IsFiniteSet(S) /\ \A x \in S : f[x] \in Int /\ f[x] >= 0
    BY DEF IsSummable
  <1> HIDE DEF S
  <1> DEFINE P == {V \in SUBSET S : 0 <= g[V]}
  <1>4. {} \in P
    BY <1>2
  <1>5. ASSUME NEW V \in SUBSET S, NEW y \in V, V \ {y} \in P PROVE V \in P
    <2>1. g[V \ {y}] \in Int /\ f[y] \in Int /\ f[y] >= 0 /\ g[V] = f[y] + g[V \ {y}] /\ 0 <= g[V \ {y}]
      BY <1>2, <1>3, <1>5
    <2> QED BY <2>1
  <1>6. U \in SUBSET S /\ S \ U \in SUBSET S /\ S \ U \in SUBSET (S \ U) /\ U \cup (S \ U) = S
    BY DEF S
  <1>7. U \in P /\ S \ U \in P
    <2>1. \A X \in SUBSET S : \A y \in X : X \ {y} \in P => X \in P
      BY <1>5
    <2> HIDE DEF P
    <2>2. \A X \in SUBSET S : X \in P
      BY ONLY <1>3, <1>4, <2>1, OneByOne
    <2> QED BY <1>6, <2>2
  <1>8. g[S] = g[U] + g[S \ U]
    BY <1>1, <1>6, SumSplits DEF S
  <1>9. g[U] \in Int /\ g[S \ U] \in Int
    BY <1>2, <1>6
  <1> QED BY <1>2, <1>7, <1>8, <1>9

\* The sums of f class by class, c being the class.
ClassOf(f, c, t) == {y \in DOMAIN f : c[y] = t}
ByClass(f, T, c) == [t \in T |-> SumFunction([x \in ClassOf(f, c, t) |-> f[x]])]

\* What is added up class by class is the whole.
LEMMA SumByClass ==
  ASSUME NEW f, f = [x \in DOMAIN f |-> f[x]], IsSummable(f), NEW T, IsFiniteSet(T),
         NEW c, \A x \in DOMAIN f : c[x] \in T
  PROVE  IsSummable(ByClass(f, T, c)) /\ SumFunction(ByClass(f, T, c)) = SumFunction(f)
  <1> DEFINE S == DOMAIN f
             Of(Q) == {y \in S : c[y] \in Q}
             k == ByClass(f, T, c)
  <1>1. PICK g : AddsAll(g, f)
    BY SumsAdd
  <1>2. /\ g \in [SUBSET S -> Int] /\ g[{}] = 0 /\ SumFunction(f) = g[S]
        /\ \A U \in SUBSET S : SumFunction([x \in U |-> f[x]]) = g[U]
    BY <1>1, SumIs DEF AddsAll
  <1>3. k = [t \in T |-> k[t]] /\ DOMAIN k = T /\ \A t \in T : k[t] = g[Of({t})] /\ k[t] \in Int
    <2>1. k = [t \in T |-> SumFunction([x \in ClassOf(f, c, t) |-> f[x]])]
      BY DEF ByClass
    <2>2. \A t \in T : Of({t}) \in SUBSET S
      OBVIOUS
    <2>3. ASSUME NEW t \in T PROVE k[t] = g[Of({t})]
      <3>1. ClassOf(f, c, t) = Of({t})
        BY DEF ClassOf
      <3>2. k[t] = SumFunction([x \in ClassOf(f, c, t) |-> f[x]])
        BY <2>1
      <3> HIDE DEF Of, k
      <3> QED BY <1>2, <2>2, <3>1, <3>2
    <2>4. \A t \in T : k[t] \in Int
      <3> HIDE DEF Of, k
      <3> QED BY <1>2, <2>2, <2>3
    <2>5. k = [t \in T |-> k[t]] /\ DOMAIN k = T
      <3> HIDE DEF k
      <3> QED BY <2>1
    <2> QED BY <2>3, <2>4, <2>5
  <1> HIDE DEF k
  <1>4. IsSummable(k)
    BY <1>3 DEF IsSummable
  <1>5. PICK h : AddsAll(h, k)
    BY <1>4, SumsAdd
  <1>6. /\ h[{}] = 0 /\ SumFunction(k) = h[T]
        /\ \A Q \in SUBSET T : \A t \in Q : h[Q] = k[t] + h[Q \ {t}]
    BY <1>3, <1>5, SumIs DEF AddsAll
  <1> DEFINE P == {Q \in SUBSET T : h[Q] = g[Of(Q)]}
  <1>7. {} \in P
    <2>1. Of({}) = {}
      OBVIOUS
    <2> QED BY <1>2, <1>6, <2>1
  <1>8. ASSUME NEW Q \in SUBSET T, NEW t \in Q, Q \ {t} \in P PROVE Q \in P
    <2>1. /\ Of({t}) \in SUBSET DOMAIN f /\ Of(Q \ {t}) \in SUBSET (DOMAIN f \ Of({t}))
          /\ Of({t}) \cup Of(Q \ {t}) = Of(Q)
      OBVIOUS
    <2> HIDE DEF Of
    <2>2. g[Of(Q)] = g[Of({t})] + g[Of(Q \ {t})]
      <3>1. PICK U, V : U = Of({t}) /\ V = Of(Q \ {t})
        OBVIOUS
      <3>2. U \in SUBSET DOMAIN f /\ V \in SUBSET (DOMAIN f \ U)
        BY <2>1, <3>1
      <3>3. g[U \cup V] = g[U] + g[V]
        BY ONLY <1>1, <3>2, SumSplits, IsSummable(f)
      <3> QED BY <2>1, <3>1, <3>3
    <2>3. h[Q] = k[t] + h[Q \ {t}] /\ k[t] = g[Of({t})] /\ h[Q \ {t}] = g[Of(Q \ {t})]
      BY <1>3, <1>6, <1>8
    <2> QED BY <2>2, <2>3
  <1>9. T \in P
    <2>1. T \in SUBSET T
      OBVIOUS
    <2> HIDE DEF P
    <2> QED BY <1>7, <1>8, <2>1, OneByOne
  <1>10. Of(T) = S
    OBVIOUS
  <1> QED BY <1>2, <1>4, <1>6, <1>9, <1>10 DEF k

\* What is counted class by class is all there is.
CountOf(S, c, t) == Cardinality({x \in S : c[x] = t})

LEMMA CountByClass ==
  ASSUME NEW S, IsFiniteSet(S), NEW T, IsFiniteSet(T), NEW c, \A x \in S : c[x] \in T
  PROVE  SumFunction([t \in T |-> CountOf(S, c, t)]) = Cardinality(S)
  <1> DEFINE f == [x \in S |-> 1]
             k == [t \in T |-> CountOf(S, c, t)]
  <1>1. f = [x \in DOMAIN f |-> f[x]] /\ DOMAIN f = S /\ \A x \in S : f[x] = 1
    OBVIOUS
  <1> HIDE DEF f
  <1>2. IsSummable(f)
    BY <1>1 DEF IsSummable
  <1>3. SumFunction(ByClass(f, T, c)) = SumFunction(f)
    BY <1>1, <1>2, SumByClass
  <1>4. PICK g : AddsAll(g, f)
    BY <1>2, SumsAdd
  <1>5. ASSUME NEW U \in SUBSET S PROVE SumFunction([x \in U |-> f[x]]) = Cardinality(U)
    <2> DEFINE P == {V \in SUBSET S : g[V] = Cardinality(V)}
    <2>1. {} \in P
      BY <1>4, FS_EmptySet DEF AddsAll
    <2>2. ASSUME NEW V \in SUBSET S, NEW y \in V, V \ {y} \in P PROVE V \in P
      <3>1. IsFiniteSet(V) /\ Cardinality(V) \in Nat /\ Cardinality(V \ {y}) = Cardinality(V) - 1
        BY FS_Subset, FS_CardinalityType, FS_RemoveElement
      <3>2. g[V] = 1 + g[V \ {y}]
        BY <1>1, <1>4 DEF AddsAll
      <3>3. g[V] = Cardinality(V)
        BY <2>2, <3>1, <3>2
      <3> QED BY <3>3
    <2>3. U \in P
      <3> HIDE DEF P
      <3>1. \A V \in SUBSET S : V \in P
        BY ONLY IsFiniteSet(S), <2>1, <2>2, OneByOne
      <3> QED BY <3>1
    <2>4. SumFunction([x \in U |-> f[x]]) = g[U]
      BY <1>1, <1>4 DEF AddsAll
    <2> QED BY <2>3, <2>4
  <1>6. SumFunction(f) = Cardinality(S)
    <2>1. S \in SUBSET S /\ f = [x \in S |-> f[x]]
      BY <1>1
    <2> QED BY <1>5, <2>1
  <1>7. ByClass(f, T, c) = k
    <2>1. ASSUME NEW t \in T PROVE SumFunction([x \in ClassOf(f, c, t) |-> f[x]]) = CountOf(S, c, t)
      <3>1. PICK U : U = ClassOf(f, c, t)
        OBVIOUS
      <3>2. U \in SUBSET S /\ U = {x \in S : c[x] = t}
        BY <1>1, <3>1 DEF ClassOf
      <3>3. SumFunction([x \in U |-> f[x]]) = Cardinality(U)
        BY <1>5, <3>2
      <3> QED BY <3>1, <3>2, <3>3 DEF CountOf
    <2> QED BY <2>1 DEF ByClass
  <1> HIDE DEF k
  <1>8. SumFunction(k) = Cardinality(S)
    BY <1>3, <1>6, <1>7
  <1> QED BY <1>8 DEF k

(***************************************************************************)
(* Walks.                                                                  *)
(***************************************************************************)

\* A recursion over 0 .. N whose step knows its number, F[<<n, the value before>>], defines
\* a function.
InTurns(f, N, A, F) == f = [n \in 0 .. N |-> IF n = 0 THEN A ELSE F[<<n, f[n - 1]>>]]

LEMMA TurnsExist ==
  ASSUME NEW N \in Nat, NEW U, NEW A \in U, NEW F \in [(1 .. N) \X U -> U]
  PROVE  \E f \in [0 .. N -> U] : InTurns(f, N, A, F)
  <1> DEFINE Good(g, k) == g \in [0 .. k -> U] /\ g[0] = A /\ \A n \in 1 .. k : g[n] = F[<<n, g[n - 1]>>]
             P == {k \in 0 .. N : \E g : Good(g, k)}
  <1>1. 0 \in P
    <2>1. Good([n \in 0 .. 0 |-> A], 0)
      OBVIOUS
    <2> HIDE DEF Good
    <2> QED BY <2>1
  <1>2. ASSUME NEW k \in 0 .. N, k + 1 \in 0 .. N, k \in P PROVE k + 1 \in P
    <2>1. PICK g : Good(g, k)
      BY <1>2
    <2> DEFINE h == [n \in 0 .. k + 1 |-> IF n = k + 1 THEN F[<<k + 1, g[k]>>] ELSE g[n]]
    <2>2. g[k] \in U /\ F[<<k + 1, g[k]>>] \in U
      <3>1. g[k] \in U /\ k + 1 \in 1 .. N
        BY <1>2, <2>1
      <3> QED BY <3>1
    <2>3. h \in [0 .. k + 1 -> U] /\ h[0] = A
      BY <2>1, <2>2
    <2>4. ASSUME NEW n \in 1 .. k + 1 PROVE h[n] = F[<<n, h[n - 1]>>]
      <3>1. CASE n = k + 1
        <4>1. n \in 0 .. k + 1 /\ k \in 0 .. k + 1 /\ n - 1 = k /\ k # k + 1
          BY <3>1
        <4>2. h[n] = F[<<k + 1, g[k]>>] /\ h[k] = g[k]
          BY <3>1, <4>1
        <4> QED BY <3>1, <4>1, <4>2
      <3>2. CASE n # k + 1
        <4>1. n \in 1 .. k /\ n \in 0 .. k + 1 /\ n - 1 \in 0 .. k + 1 /\ n - 1 # k + 1
          BY <3>2
        <4>2. h[n] = g[n] /\ h[n - 1] = g[n - 1]
          BY <4>1, <3>2
        <4> QED BY <2>1, <4>1, <4>2
      <3> QED BY <3>1, <3>2
    <2>5. Good(h, k + 1)
      BY <2>3, <2>4
    <2> HIDE DEF Good, h
    <2> QED BY <1>2, <2>5
  <1>3. N \in P
    <2> HIDE DEF P
    <2> QED BY <1>1, <1>2, UpTo
  <1>4. PICK g : Good(g, N)
    BY <1>3
  <1>5. InTurns(g, N, A, F) /\ g \in [0 .. N -> U]
    BY <1>4 DEF InTurns
  <1> QED BY <1>5

\* What a walk has after n waves.
HopCounts(V) == UNION {[D -> Nat] : D \in SUBSET V}
Waves(V) == [frontier : SUBSET V, seen : HopCounts(V)]
NextWave(g, start, down, n, w) ==
  LET hit == Steps(g, w.frontier, down)
  IN  [frontier |-> hit \ (DOMAIN w.seen \cup {start}),
       seen |-> [d \in DOMAIN w.seen \cup hit |->
                   IF d \in hit THEN HopCount(w.seen, d, n) ELSE w.seen[d]]]

LEMMA StepsStayIn ==
  ASSUME NEW g, IsLineage(g), NEW S, NEW down
  PROVE  Steps(g, S, down) \subseteq g.nodes
  BY DEF IsLineage, Steps, Children, Parents, OutEdges, InEdges

LEMMA NextWaveIsOne ==
  ASSUME NEW g, IsLineage(g), NEW start \in g.nodes, NEW down, NEW n \in Nat, NEW w \in Waves(g.nodes)
  PROVE  NextWave(g, start, down, n, w) \in Waves(g.nodes)
  <1> DEFINE hit == Steps(g, w.frontier, down)
             new == [d \in DOMAIN w.seen \cup hit |-> IF d \in hit THEN HopCount(w.seen, d, n) ELSE w.seen[d]]
  <1>1. hit \subseteq g.nodes
    BY StepsStayIn
  <1>2. DOMAIN w.seen \subseteq g.nodes /\ \A d \in DOMAIN w.seen : w.seen[d] \in Nat
    BY DEF Waves, HopCounts
  <1>3. \A d \in DOMAIN w.seen \cup hit : new[d] \in Nat
    BY <1>2 DEF HopCount
  <1>4. new \in [DOMAIN w.seen \cup hit -> Nat] /\ DOMAIN w.seen \cup hit \in SUBSET g.nodes
    BY <1>1, <1>2, <1>3
  <1> HIDE DEF hit, new
  <1>5. new \in HopCounts(g.nodes)
    BY <1>4 DEF HopCounts
  <1> QED BY <1>1, <1>5 DEF NextWave, Waves, hit, new

WavesAre(g, start, down, N, wave) ==
  /\ wave \in [0 .. N -> Waves(g.nodes)]
  /\ wave[0] = [frontier |-> {start}, seen |-> << >>]
  /\ \A n \in 0 .. N : n + 1 \in 0 .. N => wave[n + 1] = NextWave(g, start, down, n + 1, wave[n])
  /\ Walk(g, start, down, N) = wave[N].seen

LEMMA WalkIsInWaves ==
  ASSUME NEW g, IsLineage(g), NEW start \in g.nodes, NEW down, NEW N \in Nat
  PROVE  \E wave : WavesAre(g, start, down, N, wave)
  <1> DEFINE U == Waves(g.nodes)
             A == [frontier |-> {start}, seen |-> << >>]
             F == [p \in (1 .. N) \X U |-> NextWave(g, start, down, p[1], p[2])]
  <1>1. A \in U
    <2>1. << >> \in [{} -> Nat]
      OBVIOUS
    <2>2. << >> \in HopCounts(g.nodes)
      BY <2>1 DEF HopCounts
    <2> QED BY <2>2 DEF Waves
  <1>2. F \in [(1 .. N) \X U -> U]
    BY NextWaveIsOne
  <1> HIDE DEF U, A
  <1>3. PICK f \in [0 .. N -> U] : InTurns(f, N, A, F)
    <2> HIDE DEF F
    <2> QED BY <1>1, <1>2, TurnsExist
  <1> DEFINE Wave(h) == h = [n \in 0 .. N |-> IF n = 0 THEN A ELSE NextWave(g, start, down, n, h[n - 1])]
             wave == CHOOSE h : Wave(h)
  <1>4. Walk(g, start, down, N) = wave[N].seen
    BY DEF Walk, NextWave, A
  <1>5. Wave(f)
    <2>1. f \in [0 .. N -> U] /\ f = [n \in 0 .. N |-> IF n = 0 THEN A ELSE F[<<n, f[n - 1]>>]]
      BY <1>3 DEF InTurns
    <2>2. ASSUME NEW n \in 0 .. N, n # 0 PROVE F[<<n, f[n - 1]>>] = NextWave(g, start, down, n, f[n - 1])
      <3>1. n \in 1 .. N /\ n - 1 \in 0 .. N
        BY <2>2
      <3>2. f[n - 1] \in U
        BY <2>1, <3>1
      <3> QED BY <3>1, <3>2
    <2> HIDE DEF F
    <2> QED BY <2>1, <2>2
  <1>6. Wave(wave)
    <2> HIDE DEF Wave
    <2> QED BY <1>5
  <1> HIDE DEF wave
  <1>7. wave[0] = A /\ \A n \in 0 .. N : n + 1 \in 0 .. N => wave[n + 1] = NextWave(g, start, down, n + 1, wave[n])
    <2>1. 0 \in 0 .. N /\ \A n \in 0 .. N : n + 1 # 0 /\ (n + 1) - 1 = n
      OBVIOUS
    <2> QED BY <1>6, <2>1
  <1>8. wave \in [0 .. N -> U]
    <2> DEFINE Q == {n \in 0 .. N : wave[n] \in U}
    <2>1. 0 \in Q
      BY <1>1, <1>7
    <2>2. ASSUME NEW n \in 0 .. N, n + 1 \in 0 .. N, n \in Q PROVE n + 1 \in Q
      BY <1>7, <2>2, NextWaveIsOne DEF U
    <2>3. \A n \in 0 .. N : n \in Q
      <3> HIDE DEF Q
      <3> QED BY <2>1, <2>2, UpTo
    <2> QED BY <1>6, <2>3
  <1> QED BY <1>4, <1>7, <1>8 DEF A, U, WavesAre

\* What a walk finds of a whole graph: all below (or above) its start, and nothing beyond what is closed.
FindsAll(g, start, down, S) ==
  /\ S \subseteq g.nodes /\ Steps(g, {start}, down) \subseteq S /\ Steps(g, S, down) \subseteq S
  /\ \A C \in SUBSET g.nodes : Steps(g, {start}, down) \subseteq C /\ Steps(g, C, down) \subseteq C => S \subseteq C

LEMMA StepsOfParts ==
  ASSUME NEW g, NEW A, NEW B, NEW down
  PROVE  /\ Steps(g, A \cup B, down) = Steps(g, A, down) \cup Steps(g, B, down)
         /\ A \subseteq B => Steps(g, A, down) \subseteq Steps(g, B, down)
  BY DEF Steps

LEMMA WalkFindsAll ==
  ASSUME NEW g, IsLineage(g), NEW start \in g.nodes, NEW down
  PROVE  FindsAll(g, start, down, DOMAIN Walk(g, start, down, Cardinality(g.nodes)))
  <1> DEFINE N == Cardinality(g.nodes)
             V == g.nodes
  <1>0. IsFiniteSet(V) /\ N \in Nat
    BY FS_CardinalityType DEF IsLineage
  <1> HIDE DEF N
  <1>w. PICK wave : WavesAre(g, start, down, N, wave)
    BY <1>0, WalkIsInWaves
  <1>1. /\ wave \in [0 .. N -> Waves(V)]
        /\ wave[0] = [frontier |-> {start}, seen |-> << >>]
        /\ \A n \in 0 .. N : n + 1 \in 0 .. N => wave[n + 1] = NextWave(g, start, down, n + 1, wave[n])
        /\ Walk(g, start, down, N) = wave[N].seen
    BY <1>w DEF WavesAre
  <1> DEFINE F(n) == wave[n].frontier
             D(n) == DOMAIN wave[n].seen
             Q(n) == /\ F(n) \subseteq D(n) \cup {start}
                     /\ Steps(g, (D(n) \cup {start}) \ F(n), down) \subseteq D(n)
                     /\ F(n) # {} => Cardinality(D(n) \cup {start}) >= n + 1
                     /\ \A C \in SUBSET V : Steps(g, {start}, down) \subseteq C /\ Steps(g, C, down) \subseteq C => D(n) \subseteq C
             P == {n \in 0 .. N : Q(n)}
  <1>2. \A n \in 0 .. N : F(n) \subseteq V /\ D(n) \subseteq V
    BY <1>1 DEF Waves, HopCounts
  <1>3. 0 \in P
    <2>1. F(0) = {start} /\ D(0) = {} /\ 0 \in 0 .. N
      BY <1>0, <1>1
    <2>2. Cardinality({start}) = 1
      BY FS_Singleton
    <2>3. D(0) \cup {start} = {start} /\ (D(0) \cup {start}) \ F(0) = {} /\ Steps(g, {}, down) = {}
      BY <2>1 DEF Steps
    <2> HIDE DEF F, D
    <2> QED BY <2>1, <2>2, <2>3
  <1>4. ASSUME NEW n \in 0 .. N, n + 1 \in 0 .. N, n \in P PROVE n + 1 \in P
    <2> DEFINE hit == Steps(g, F(n), down)
    <2>1. F(n + 1) = hit \ (D(n) \cup {start}) /\ D(n + 1) = D(n) \cup hit
      <3>1. wave[n + 1] = NextWave(g, start, down, n + 1, wave[n])
        BY <1>1, <1>4
      <3> QED BY <3>1 DEF NextWave
    <2>2. Q(n)
      BY <1>4
    <2>3. F(n) \subseteq V /\ D(n) \subseteq V /\ D(n + 1) \subseteq V
      BY <1>2, <1>4
    <2> HIDE DEF F, D
    <2>4. F(n + 1) \subseteq D(n + 1) \cup {start}
      BY <2>1
    <2>5. Steps(g, (D(n + 1) \cup {start}) \ F(n + 1), down) \subseteq D(n + 1)
      <3>1. PICK R : R = (D(n) \cup {start}) \ F(n)
        OBVIOUS
      <3>2. PICK E : E = F(n)
        OBVIOUS
      <3>3. (D(n + 1) \cup {start}) \ F(n + 1) = D(n) \cup {start}
        BY <2>1
      <3>4. D(n) \cup {start} = R \cup E
        BY <2>2, <3>1, <3>2
      <3>5. Steps(g, R \cup E, down) = Steps(g, R, down) \cup Steps(g, E, down)
        BY StepsOfParts
      <3>6. Steps(g, R, down) \subseteq D(n) /\ Steps(g, E, down) = hit
        BY <2>2, <3>1, <3>2
      <3> HIDE DEF hit
      <3> QED BY <2>1, <3>3, <3>4, <3>5, <3>6
    <2>6. ASSUME F(n + 1) # {} PROVE Cardinality(D(n + 1) \cup {start}) >= (n + 1) + 1
      <3>1. F(n) # {}
        <4>1. ASSUME F(n) = {} PROVE FALSE
          BY <2>1, <2>6, <4>1 DEF Steps
        <4> QED BY <4>1
      <3>2. PICK y \in F(n + 1) : TRUE
        BY <2>6
      <3>3. PICK A : A = D(n) \cup {start}
        OBVIOUS
      <3>4. PICK B : B = D(n + 1) \cup {start}
        OBVIOUS
      <3>5. A \subseteq B /\ y \in B /\ y \notin A /\ B \subseteq V
        <4> HIDE DEF hit
        <4> QED BY <2>1, <2>3, <3>2, <3>3, <3>4
      <3>6. IsFiniteSet(B) /\ IsFiniteSet(A) /\ Cardinality(A) <= Cardinality(B)
            /\ Cardinality(A) # Cardinality(B) /\ Cardinality(A) \in Nat /\ Cardinality(B) \in Nat
        <4>1. IsFiniteSet(B)
          BY <1>0, <3>5, FS_Subset
        <4>2. IsFiniteSet(A) /\ Cardinality(A) <= Cardinality(B) /\ (Cardinality(A) = Cardinality(B) => A = B)
          BY <3>5, <4>1, FS_Subset
        <4> QED BY <3>5, <4>1, <4>2, FS_CardinalityType
      <3>7. Cardinality(A) >= n + 1
        BY <2>2, <3>1, <3>3
      <3>8. n \in Nat
        BY <1>4
      <3> QED BY <3>4, <3>6, <3>7, <3>8
    <2>7. ASSUME NEW C \in SUBSET V, Steps(g, {start}, down) \subseteq C, Steps(g, C, down) \subseteq C
          PROVE  D(n + 1) \subseteq C
      <3>1. D(n) \subseteq C
        BY <2>2, <2>7
      <3>2. PICK E : E = F(n)
        OBVIOUS
      <3>3. E \subseteq C \cup {start}
        BY <2>2, <3>1, <3>2
      <3>4. Steps(g, E, down) \subseteq Steps(g, C \cup {start}, down)
        BY <3>3, StepsOfParts
      <3>5. Steps(g, C \cup {start}, down) = Steps(g, C, down) \cup Steps(g, {start}, down)
        BY StepsOfParts
      <3>6. hit \subseteq C
        BY <2>7, <3>2, <3>4, <3>5
      <3> HIDE DEF hit
      <3> QED BY <2>1, <3>1, <3>6
    <2>8. Q(n + 1)
      BY <2>4, <2>5, <2>6, <2>7
    <2> HIDE DEF Q
    <2> QED BY <1>4, <2>8
  <1>5. Q(N)
    <2>1. N \in P
      <3> HIDE DEF P
      <3> QED BY <1>0, <1>3, <1>4, UpTo
    <2> HIDE DEF Q
    <2> QED BY <2>1
  <1>6. F(N) = {}
    <2>1. PICK A : A = D(N) \cup {start}
      OBVIOUS
    <2>2. A \subseteq V
      BY <1>0, <1>2, <2>1
    <2>3. Cardinality(A) <= N /\ Cardinality(A) \in Nat
      BY <1>0, <2>2, FS_Subset, FS_CardinalityType DEF N
    <2>4. F(N) # {} => Cardinality(A) >= N + 1
      BY <1>5, <2>1
    <2> HIDE DEF F, D
    <2> QED BY <1>0, <2>3, <2>4
  <1>7. PICK S : S = D(N)
    OBVIOUS
  <1>8. S \subseteq V /\ Steps(g, S \cup {start}, down) \subseteq S
        /\ \A C \in SUBSET V : Steps(g, {start}, down) \subseteq C /\ Steps(g, C, down) \subseteq C => S \subseteq C
    <2>1. (D(N) \cup {start}) \ F(N) = S \cup {start}
      BY <1>6, <1>7
    <2>2. S \subseteq V
      BY <1>0, <1>2, <1>7
    <2> HIDE DEF F, D
    <2> QED BY <1>5, <1>7, <2>1, <2>2
  <1>9. Steps(g, S \cup {start}, down) = Steps(g, S, down) \cup Steps(g, {start}, down)
    BY StepsOfParts
  <1>10. FindsAll(g, start, down, S)
    BY <1>8, <1>9 DEF FindsAll
  <1>11. S = DOMAIN Walk(g, start, down, Cardinality(g.nodes))
    BY <1>1, <1>7 DEF N
  <1> QED BY <1>10, <1>11

\* A walk of any depth counts from one, and finds nothing beyond what is closed.
LEMMA WalkCounts ==
  ASSUME NEW g, IsLineage(g), NEW start \in g.nodes, NEW down, NEW N \in Nat,
         NEW C \in SUBSET g.nodes, Steps(g, {start}, down) \subseteq C, Steps(g, C, down) \subseteq C
  PROVE  LET w == Walk(g, start, down, N) IN DOMAIN w \subseteq C /\ \A d \in DOMAIN w : w[d] \in Nat \ {0}
  <1>w. PICK wave : WavesAre(g, start, down, N, wave)
    BY WalkIsInWaves
  <1>1. /\ wave[0] = [frontier |-> {start}, seen |-> << >>]
        /\ \A n \in 0 .. N : n + 1 \in 0 .. N => wave[n + 1] = NextWave(g, start, down, n + 1, wave[n])
        /\ Walk(g, start, down, N) = wave[N].seen
    BY <1>w DEF WavesAre
  <1> DEFINE Counted(w) == /\ w.frontier \subseteq C \cup {start} /\ DOMAIN w.seen \subseteq C
                           /\ \A d \in DOMAIN w.seen : w.seen[d] \in Nat \ {0}
             Q == {n \in 0 .. N : Counted(wave[n])}
  <1>2. 0 \in Q
    <2>1. DOMAIN << >> = {}
      OBVIOUS
    <2> QED BY <1>1, <2>1
  <1>3. ASSUME NEW n \in 0 .. N, n + 1 \in 0 .. N, n \in Q PROVE n + 1 \in Q
    <2>v. PICK v : v = wave[n]
      OBVIOUS
    <2>u. PICK u : u = wave[n + 1]
      OBVIOUS
    <2>k. PICK k \in Nat \ {0} : k = n + 1
      OBVIOUS
    <2>h. PICK hit : hit = Steps(g, v.frontier, down)
      OBVIOUS
    <2>1. /\ v.frontier \subseteq C \cup {start} /\ DOMAIN v.seen \subseteq C
          /\ \A d \in DOMAIN v.seen : v.seen[d] \in Nat \ {0}
      BY <1>3, <2>v
    <2>2. hit \subseteq C
      <3>1. Steps(g, v.frontier, down) \subseteq Steps(g, C \cup {start}, down)
        BY <2>1, StepsOfParts
      <3>2. Steps(g, C \cup {start}, down) = Steps(g, C, down) \cup Steps(g, {start}, down)
        BY StepsOfParts
      <3> QED BY <2>h, <3>1, <3>2
    <2>3. u = NextWave(g, start, down, k, v)
      BY <1>1, <1>3, <2>v, <2>u, <2>k
    <2>4. /\ u.frontier = hit \ (DOMAIN v.seen \cup {start})
          /\ u.seen = [d \in DOMAIN v.seen \cup hit |-> IF d \in hit THEN HopCount(v.seen, d, k) ELSE v.seen[d]]
      BY <2>3, <2>h DEF NextWave
    <2>5. \A d \in DOMAIN v.seen \cup hit : u.seen[d] \in Nat \ {0}
      BY <2>1, <2>4, <2>k DEF HopCount
    <2>6. Counted(u)
      BY <2>1, <2>2, <2>4, <2>5
    <2> HIDE DEF Counted
    <2> QED BY <1>3, <2>6, <2>u
  <1>4. \A n \in 0 .. N : n \in Q
    <2> HIDE DEF Q
    <2> QED BY <1>2, <1>3, UpTo
  <1>5. Counted(wave[N])
    BY <1>4
  <1> QED BY <1>1, <1>5

\* What is upstream of what is upstream is upstream, and the walks down and up agree.
LEMMA AncestorsAndDescendants ==
  ASSUME NEW g, IsLineage(g)
  PROVE  /\ \A d \in g.nodes : Ancestors(g, d) \subseteq g.nodes /\ Descendants(g, d) \subseteq g.nodes
         /\ \A c \in g.nodes : \A a \in Closure(g, c) : a \in g.nodes /\ Closure(g, a) \subseteq Closure(g, c)
         /\ \A x, y \in g.nodes : y \in Ancestors(g, x) => x \in Descendants(g, y)
  <1>1. \A d \in g.nodes : FindsAll(g, d, FALSE, Ancestors(g, d)) /\ FindsAll(g, d, TRUE, Descendants(g, d))
    BY WalkFindsAll DEF Ancestors, Descendants, MaxDepth
  <1>2. \A d \in g.nodes : Ancestors(g, d) \subseteq g.nodes /\ Descendants(g, d) \subseteq g.nodes
    BY <1>1 DEF FindsAll
  <1>3. ASSUME NEW S, NEW x \in S, NEW down PROVE Steps(g, {x}, down) \subseteq Steps(g, S, down)
    BY DEF Steps
  <1>4. ASSUME NEW c \in g.nodes, NEW a \in Ancestors(g, c) PROVE Ancestors(g, a) \subseteq Ancestors(g, c)
    <2>1. PICK C : C = Ancestors(g, c)
      OBVIOUS
    <2>2. C \in SUBSET g.nodes /\ a \in g.nodes /\ Steps(g, C, FALSE) \subseteq C
      BY <1>1, <1>2, <1>4, <2>1 DEF FindsAll
    <2>3. Steps(g, {a}, FALSE) \subseteq C
      BY <1>3, <1>4, <2>1, <2>2
    <2> QED BY <1>1, <2>1, <2>2, <2>3 DEF FindsAll
  <1>5. ASSUME NEW c \in g.nodes, NEW a \in Descendants(g, c) PROVE Descendants(g, a) \subseteq Descendants(g, c)
    <2>1. PICK C : C = Descendants(g, c)
      OBVIOUS
    <2>2. C \in SUBSET g.nodes /\ a \in g.nodes /\ Steps(g, C, TRUE) \subseteq C
      BY <1>1, <1>2, <1>5, <2>1 DEF FindsAll
    <2>3. Steps(g, {a}, TRUE) \subseteq C
      BY <1>3, <1>5, <2>1, <2>2
    <2> QED BY <1>1, <2>1, <2>2, <2>3 DEF FindsAll
  <1>6. \A x, p \in g.nodes : p \in Steps(g, {x}, FALSE) => x \in Steps(g, {p}, TRUE)
    BY DEF Steps, Children, Parents, OutEdges, InEdges
  <1>7. ASSUME NEW x \in g.nodes, NEW y \in Ancestors(g, x) PROVE x \in Descendants(g, y)
    <2>1. PICK C : C = {z \in g.nodes : x \in Descendants(g, z)}
      OBVIOUS
    <2>2. \A z \in C : z \in g.nodes /\ x \in Descendants(g, z)
      BY <2>1
    <2>3. ASSUME NEW p \in Steps(g, {x}, FALSE) PROVE p \in C
      <3>1. p \in g.nodes
        BY StepsStayIn
      <3>2. x \in Steps(g, {p}, TRUE)
        BY <1>6, <3>1
      <3> QED BY <1>1, <2>1, <3>1, <3>2 DEF FindsAll
    <2>4. ASSUME NEW p \in Steps(g, C, FALSE) PROVE p \in C
      <3>1. p \in g.nodes
        BY StepsStayIn
      <3>2. PICK z \in C : p \in Steps(g, {z}, FALSE)
        BY DEF Steps
      <3>3. z \in Steps(g, {p}, TRUE)
        BY <1>6, <2>2, <3>1, <3>2
      <3>4. z \in Descendants(g, p)
        BY <1>1, <3>1, <3>3 DEF FindsAll
      <3>5. x \in Descendants(g, p)
        BY <1>5, <2>2, <3>1, <3>2, <3>4
      <3> QED BY <2>1, <3>1, <3>5
    <2>5. C \in SUBSET g.nodes
      BY <2>1
    <2>6. Ancestors(g, x) \subseteq C
      BY <1>1, <2>3, <2>4, <2>5 DEF FindsAll
    <2> QED BY <1>7, <2>2, <2>6
  <1>8. ASSUME NEW c \in g.nodes, NEW a \in Closure(g, c)
        PROVE  a \in g.nodes /\ Closure(g, a) \subseteq Closure(g, c)
    BY <1>2, <1>4, <1>8 DEF Closure
  <1> QED BY <1>2, <1>7, <1>8


\* sorted(): every number of a finite set once.
LEMMA NamesSorted ==
  ASSUME NEW S \in SUBSET Nat, IsFiniteSet(S)
  PROVE  /\ Cardinality(S) \in Nat /\ Sorted(S) \in Seq(S) /\ Len(Sorted(S)) = Cardinality(S)
         /\ DOMAIN Sorted(S) = 1 .. Cardinality(S)
         /\ \A n \in 1 .. Cardinality(S) : Sorted(S)[n] \in S
         /\ \A d \in S : \E n \in 1 .. Cardinality(S) : Sorted(S)[n] = d
         /\ \A m, n \in 1 .. Cardinality(S) : Sorted(S)[m] = Sorted(S)[n] => m = n
  <1> DEFINE N == Cardinality(S)
             s == Sorted(S)
  <1>1. /\ N \in Nat
        /\ \A t \in S : PlaceIn(S, t) \in 1 .. N
        /\ \A i, j \in S : PlaceIn(S, i) = PlaceIn(S, j) => i = j
        /\ \A n \in 1 .. N : \E t \in S : PlaceIn(S, t) = n
    BY PlacesTaken
  <1>2. s = [n \in 1 .. N |-> CHOOSE d \in S : PlaceIn(S, d) = n]
    BY DEF Sorted, PlaceIn
  <1> HIDE DEF s, N
  <1>3. \A n \in 1 .. N : s[n] \in S /\ PlaceIn(S, s[n]) = n
    BY <1>1, <1>2
  <1>4. ASSUME NEW d \in S PROVE s[PlaceIn(S, d)] = d
    <2>1. PICK n \in 1 .. N : n = PlaceIn(S, d)
      BY <1>1
    <2>2. s[n] \in S /\ PlaceIn(S, s[n]) = n
      BY <1>3
    <2>3. s[n] = d
      BY <1>1, <2>1, <2>2
    <2> QED BY <2>1, <2>3
  <1>5. s \in Seq(S) /\ Len(s) = N /\ DOMAIN s = 1 .. N
    BY <1>1, <1>2, <1>3
  <1>6. \A d \in S : \E n \in 1 .. N : s[n] = d
    BY <1>1, <1>4
  <1>7. \A m, n \in 1 .. N : s[m] = s[n] => m = n
    BY <1>3
  <1> QED BY <1>1, <1>3, <1>5, <1>6, <1>7 DEF s, N

\* A way through a graph: each dataset is made from the one before.
IsWayThrough(g, w) == w \in Seq(g.nodes) /\ w # << >> /\ \A i \in 1 .. Len(w) - 1 : w[i + 1] \in Children(g, w[i])

\* What is below a dataset: its children, and theirs.
LEMMA BelowIsClosed ==
  ASSUME NEW g, IsLineage(g), NEW d \in g.nodes
  PROVE  /\ Descendants(g, d) \subseteq g.nodes /\ Children(g, d) \subseteq Descendants(g, d)
         /\ \A x \in Descendants(g, d) : Children(g, x) \subseteq Descendants(g, d)
         /\ \A C \in SUBSET g.nodes : Children(g, d) \subseteq C /\ (\A x \in C : Children(g, x) \subseteq C)
                                        => Descendants(g, d) \subseteq C
  <1>1. FindsAll(g, d, TRUE, Descendants(g, d))
    BY WalkFindsAll DEF Descendants, MaxDepth
  <1>2. Steps(g, {d}, TRUE) = Children(g, d) /\ \A S : \A x \in S : Children(g, x) \subseteq Steps(g, S, TRUE)
    BY DEF Steps
  <1>3. ASSUME NEW C, \A x \in C : Children(g, x) \subseteq C PROVE Steps(g, C, TRUE) \subseteq C
    BY <1>3 DEF Steps
  <1> QED BY <1>1, <1>2, <1>3 DEF FindsAll

\* The two walks agree, and what is below what is below is below.
LEMMA WalksAgree ==
  ASSUME NEW g, IsLineage(g)
  PROVE  /\ \A x, y \in g.nodes : y \in Ancestors(g, x) <=> x \in Descendants(g, y)
         /\ \A y \in g.nodes : \A x \in Descendants(g, y) : Descendants(g, x) \subseteq Descendants(g, y)
         /\ \A y \in g.nodes : \A x \in Ancestors(g, y) : Ancestors(g, x) \subseteq Ancestors(g, y)
         /\ \A y \in g.nodes : /\ Parents(g, y) \subseteq Ancestors(g, y) /\ Children(g, y) \subseteq Descendants(g, y)
                               /\ Ancestors(g, y) \subseteq g.nodes /\ Descendants(g, y) \subseteq g.nodes
                               /\ Parents(g, y) = {} => Ancestors(g, y) = {}
  <1>1. \A d \in g.nodes : FindsAll(g, d, FALSE, Ancestors(g, d))
    BY WalkFindsAll DEF Ancestors, MaxDepth
  <1>2. \A d \in g.nodes : Steps(g, {d}, FALSE) = Parents(g, d)
    BY DEF Steps
  <1>3. Steps(g, {}, FALSE) = {}
    BY DEF Steps
  <1>4. \A y \in g.nodes : Parents(g, y) \subseteq Ancestors(g, y) /\ Ancestors(g, y) \subseteq g.nodes
    BY <1>1, <1>2 DEF FindsAll
  <1>5. ASSUME NEW y \in g.nodes, Parents(g, y) = {} PROVE Ancestors(g, y) = {}
    BY <1>1, <1>2, <1>3, <1>5 DEF FindsAll
  <1>6. \A y \in g.nodes : Descendants(g, y) \subseteq g.nodes /\ Children(g, y) \subseteq Descendants(g, y)
    BY BelowIsClosed
  <1>7. ASSUME NEW y \in g.nodes, NEW x \in Descendants(g, y) PROVE Descendants(g, x) \subseteq Descendants(g, y)
    <2>1. PICK C : C = Descendants(g, y)
      OBVIOUS
    <2>2. C \in SUBSET g.nodes /\ x \in g.nodes /\ Children(g, x) \subseteq C /\ \A z \in C : Children(g, z) \subseteq C
      BY <1>6, <1>7, <2>1, BelowIsClosed
    <2>3. Descendants(g, x) \subseteq C
      BY <2>2, BelowIsClosed
    <2> QED BY <2>1, <2>3
  <1>8. \A x, y \in g.nodes : x \in Children(g, y) => y \in Parents(g, x)
    BY DEF Children, Parents, InEdges, OutEdges
  <1>9. ASSUME NEW c \in g.nodes, NEW a \in Ancestors(g, c) PROVE a \in g.nodes /\ Ancestors(g, a) \subseteq Ancestors(g, c)
    <2>1. PICK C : C = Ancestors(g, c)
      OBVIOUS
    <2>2. FindsAll(g, c, FALSE, C) /\ a \in C /\ a \in g.nodes
      BY <1>1, <1>4, <1>9, <2>1
    <2>3. Steps(g, {a}, FALSE) \subseteq Steps(g, C, FALSE)
      BY <2>2 DEF Steps
    <2>4. Ancestors(g, a) \subseteq C
      BY <1>1, <2>2, <2>3 DEF FindsAll
    <2> QED BY <2>1, <2>2, <2>4
  <1>10. \A x, y \in g.nodes : y \in Ancestors(g, x) => x \in Descendants(g, y)
    BY AncestorsAndDescendants
  <1>11. ASSUME NEW y \in g.nodes PROVE \A x \in Descendants(g, y) : y \in Ancestors(g, x)
    <2> DEFINE C == {z \in g.nodes : y \in Ancestors(g, z)}
    <2>1. Children(g, y) \subseteq C
      BY <1>4, <1>6, <1>8
    <2>2. ASSUME NEW z \in C, NEW w \in Children(g, z) PROVE w \in C
      <3>1. z \in g.nodes /\ w \in g.nodes
        BY <1>6
      <3>2. z \in Ancestors(g, w)
        BY <1>4, <1>8, <3>1
      <3> QED BY <1>9, <3>1, <3>2
    <2>3. C \in SUBSET g.nodes
      OBVIOUS
    <2> HIDE DEF C
    <2>4. Descendants(g, y) \subseteq C
      BY <2>1, <2>2, <2>3, BelowIsClosed
    <2> QED BY <2>4 DEF C
  <1> QED BY <1>4, <1>5, <1>6, <1>7, <1>9, <1>10, <1>11

LEMMA WaysLeadDown ==
  ASSUME NEW g, IsLineage(g), NEW w, IsWayThrough(g, w), Len(w) > 1
  PROVE  w[1] \in g.nodes /\ HasPath(g, w[1], w[Len(w)])
  <1> DEFINE D == Descendants(g, w[1])
             N == Len(w) - 2
             P == {n \in 0 .. N : w[n + 2] \in D}
  <1>1. w \in Seq(g.nodes) /\ Len(w) \in Nat /\ N \in Nat /\ w[1] \in g.nodes
        /\ \A i \in 1 .. Len(w) - 1 : w[i + 1] \in Children(g, w[i])
    BY DEF IsWayThrough
  <1>2. Children(g, w[1]) \subseteq D /\ \A x \in D : Children(g, x) \subseteq D
    BY <1>1, BelowIsClosed
  <1> HIDE DEF D
  <1>3. 0 \in P
    <2>1. w[1 + 1] \in Children(g, w[1])
      BY <1>1
    <2> QED BY <1>1, <1>2, <2>1
  <1>4. ASSUME NEW n \in 0 .. N, n + 1 \in 0 .. N, n \in P PROVE n + 1 \in P
    <2>1. n + 2 \in 1 .. Len(w) - 1 /\ (n + 2) + 1 = (n + 1) + 2
      BY <1>1, <1>4
    <2>2. w[(n + 1) + 2] \in Children(g, w[n + 2])
      BY <1>1, <2>1
    <2> QED BY <1>2, <1>4, <2>2
  <1>5. N \in P
    <2>1. N \in Nat
      BY <1>1
    <2>2. P \subseteq 0 .. N
      OBVIOUS
    <2> HIDE DEF P, N
    <2> QED BY ONLY <1>3, <1>4, <2>1, <2>2, UpTo
  <1>6. N + 2 = Len(w)
    BY <1>1
  <1> QED BY <1>1, <1>5, <1>6 DEF HasPath, D

\* One turn of shortest_path, and what holds after n of them.
NextTurn(g, b, s) ==
  IF s.done # << >> \/ s.queue = << >> THEN s
  ELSE LET p    == Head(s.queue)
           kids == Children(g, Last(p))
           new  == Sorted(kids \ s.visited)
       IN  IF b \in kids THEN [s EXCEPT !.done = Append(p, b)]
           ELSE [done |-> << >>, visited |-> s.visited \cup kids,
                 queue |-> Tail(s.queue) \o [i \in DOMAIN new |-> Append(p, new[i])]]

Searches(V) == [done : Seq(V), visited : SUBSET V, queue : Seq(Seq(V))]
LeadsTo(g, a, w, x) == IsWayThrough(g, w) /\ w[1] = a /\ w[Len(w)] = x
Sought(g, a, b, n, s) ==
  /\ s.done # << >> => LeadsTo(g, a, s.done, b) /\ Len(s.done) > 1
  /\ s.done = << >> =>
       /\ a \in s.visited /\ b \notin s.visited
       /\ \A i \in 1 .. Len(s.queue) : \E x \in s.visited : LeadsTo(g, a, s.queue[i], x)
       /\ \A x \in s.visited : \/ \E i \in 1 .. Len(s.queue) : LeadsTo(g, a, s.queue[i], x)
                               \/ Children(g, x) \subseteq s.visited
       /\ s.queue # << >> => Cardinality(s.visited) >= n + Len(s.queue)

\* A way goes on by any child of its end.
LEMMA WaysGoOn ==
  ASSUME NEW g, IsLineage(g), NEW a, NEW w, NEW x, LeadsTo(g, a, w, x), NEW y \in Children(g, x)
  PROVE  LeadsTo(g, a, Append(w, y), y) /\ Len(Append(w, y)) > 1 /\ x \in g.nodes /\ y \in g.nodes
  <1>1. w \in Seq(g.nodes) /\ Len(w) \in Nat /\ w # << >> /\ w[1] = a /\ w[Len(w)] = x
        /\ \A i \in 1 .. Len(w) - 1 : w[i + 1] \in Children(g, w[i])
    BY DEF LeadsTo, IsWayThrough
  <1>2. y \in g.nodes
    BY DEF IsLineage, Children, OutEdges
  <1>3. Len(w) >= 1 /\ x \in g.nodes
    BY <1>1
  <1> DEFINE v == Append(w, y)
  <1>4. v \in Seq(g.nodes) /\ Len(v) = Len(w) + 1 /\ v[Len(w) + 1] = y /\ \A i \in 1 .. Len(w) : v[i] = w[i]
    BY <1>1, <1>2
  <1> HIDE DEF v
  <1>5. v # << >> /\ v[1] = a /\ v[Len(v)] = y
    BY <1>1, <1>3, <1>4
  <1>6. ASSUME NEW i \in 1 .. Len(v) - 1 PROVE v[i + 1] \in Children(g, v[i])
    <2>1. CASE i = Len(w)
      BY <1>1, <1>3, <1>4, <2>1
    <2>2. CASE i # Len(w)
      <3>1. i \in 1 .. Len(w) - 1 /\ i \in 1 .. Len(w) /\ i + 1 \in 1 .. Len(w)
        BY <1>1, <1>4, <2>2
      <3> QED BY <1>1, <1>4, <3>1
    <2> QED BY <2>1, <2>2
  <1>7. LeadsTo(g, a, v, y)
    BY <1>4, <1>5, <1>6 DEF LeadsTo, IsWayThrough
  <1>8. Len(v) > 1
    BY <1>1, <1>3, <1>4
  <1> QED BY <1>2, <1>3, <1>7, <1>8 DEF v

\* A turn that reaches the end is done; another queues every new child's way, once.
Turned(g, b, s, t) ==
  LET p == Head(s.queue)  kids == Children(g, Last(p))  fresh == kids \ s.visited
      L == Len(s.queue)  K == Cardinality(fresh)
  IN  /\ t \in Searches(g.nodes) /\ kids \subseteq g.nodes /\ IsFiniteSet(fresh) /\ K \in Nat
      /\ b \in kids => t.done = Append(p, b)
      /\ b \notin kids =>
           /\ t.done = << >> /\ t.visited = s.visited \cup kids
           /\ Len(t.queue) = (L - 1) + K
           /\ \A i \in 1 .. L - 1 : t.queue[i] = s.queue[i + 1]
           /\ \A k \in 1 .. K : \E y \in fresh : t.queue[(L - 1) + k] = Append(p, y)
           /\ \A y \in fresh : \E k \in 1 .. K : t.queue[(L - 1) + k] = Append(p, y)

LEMMA TurnIs ==
  ASSUME NEW g, IsLineage(g), NEW b \in g.nodes, NEW s \in Searches(g.nodes), s.done = << >>, s.queue # << >>
  PROVE  Turned(g, b, s, NextTurn(g, b, s))
  <1>a. PICK V : V = g.nodes
    OBVIOUS
  <1> DEFINE t == NextTurn(g, b, s)
             p == Head(s.queue)
             L == Len(s.queue)
             kids == Children(g, Last(p))
             fresh == kids \ s.visited
             K == Cardinality(fresh)
             new == Sorted(fresh)
             ext == [i \in DOMAIN new |-> Append(p, new[i])]
             q == Tail(s.queue) \o ext
  <1>0. s.done \in Seq(V) /\ s.visited \in SUBSET V /\ s.queue \in Seq(Seq(V)) /\ Len(s.queue) \in Nat
        /\ s = [done |-> s.done, visited |-> s.visited, queue |-> s.queue]
    BY <1>a DEF Searches
  <1>1. L \in Nat /\ L >= 1 /\ p = s.queue[1] /\ p \in Seq(V)
    BY <1>0
  <1>2. kids \subseteq V /\ V \subseteq Nat /\ IsFiniteSet(V) /\ b \in V
    <2> HIDE DEF p
    <2> QED BY <1>a DEF IsLineage, Children, OutEdges
  <1>3. t = IF b \in kids THEN [s EXCEPT !.done = Append(p, b)]
            ELSE [done |-> << >>, visited |-> s.visited \cup kids, queue |-> q]
    BY DEF NextTurn
  <1> HIDE DEF t, p, kids
  <1>4. fresh \in SUBSET Nat /\ fresh \subseteq V /\ IsFiniteSet(fresh)
    <2>1. fresh \subseteq V
      BY <1>2
    <2> HIDE DEF fresh
    <2> QED BY <1>2, <2>1, FS_Subset
  <1> HIDE DEF fresh
  <1>5. /\ K \in Nat /\ DOMAIN new = 1 .. K
        /\ \A k \in 1 .. K : new[k] \in fresh
        /\ \A d \in fresh : \E k \in 1 .. K : new[k] = d
    BY <1>4, NamesSorted
  <1> HIDE DEF new, K
  <1>6. ext = [k \in 1 .. K |-> Append(p, new[k])] /\ \A k \in 1 .. K : Append(p, new[k]) \in Seq(V)
    <2>1. \A k \in 1 .. K : new[k] \in V
      BY <1>4, <1>5
    <2>2. ASSUME NEW k \in 1 .. K PROVE Append(p, new[k]) \in Seq(V)
      <3>1. PICK x \in V : x = new[k]
        BY <2>1
      <3>2. Append(p, x) \in Seq(V)
        BY <1>1, AppendProperties
      <3> QED BY <3>1, <3>2
    <2> QED BY <1>5, <2>2
  <1> HIDE DEF ext
  <1>7. ext \in Seq(Seq(V)) /\ Len(ext) = K /\ \A k \in 1 .. K : ext[k] = Append(p, new[k])
    <2>1. PICK W : W = Seq(V)
      OBVIOUS
    <2>2. ext \in [1 .. K -> W]
      BY <1>6, <2>1
    <2>3. ext \in Seq(W) /\ Len(ext) = K
      BY <1>5, <2>2
    <2> QED BY <1>6, <2>1, <2>3
  <1>8. PICK u : u = Tail(s.queue)
    OBVIOUS
  <1>9. u \in Seq(Seq(V)) /\ Len(u) = L - 1 /\ \A i \in 1 .. L - 1 : u[i] = s.queue[i + 1]
    BY <1>0, <1>1, <1>8
  <1>10. q \in Seq(Seq(V)) /\ Len(q) = Len(u) + Len(ext)
         /\ \A i \in 1 .. Len(q) : q[i] = IF i <= Len(u) THEN u[i] ELSE ext[i - Len(u)]
    <2>1. PICK W : W = Seq(V)
      OBVIOUS
    <2>2. u \in Seq(W) /\ ext \in Seq(W) /\ q = u \o ext
      BY <1>7, <1>8, <1>9, <2>1
    <2> HIDE DEF q
    <2>3. q \in Seq(W) /\ Len(q) = Len(u) + Len(ext)
          /\ \A i \in 1 .. Len(u) + Len(ext) : q[i] = IF i <= Len(u) THEN u[i] ELSE ext[i - Len(u)]
      BY <2>2, ConcatProperties
    <2> QED BY <2>1, <2>3
  <1> HIDE DEF q, L
  <1>11. Len(q) = (L - 1) + K
    BY <1>7, <1>9, <1>10
  <1>12. ASSUME NEW i \in 1 .. L - 1 PROVE q[i] = s.queue[i + 1]
    <2>1. i \in 1 .. Len(q) /\ i <= Len(u)
      BY <1>1, <1>5, <1>9, <1>11
    <2> QED BY <1>9, <1>10, <2>1
  <1>13. ASSUME NEW k \in 1 .. K PROVE q[(L - 1) + k] = Append(p, new[k])
    <2>1. (L - 1) + k \in 1 .. Len(q) /\ ~((L - 1) + k <= Len(u)) /\ ((L - 1) + k) - Len(u) = k
      BY <1>1, <1>5, <1>9, <1>11
    <2> QED BY <1>7, <1>10, <2>1
  <1>14. CASE b \in kids
    <2>1. Append(p, b) \in Seq(V)
      BY <1>1, <1>2, AppendProperties
    <2>2. t = [done |-> Append(p, b), visited |-> s.visited, queue |-> s.queue]
      BY <1>0, <1>3, <1>14
    <2>3. t \in Searches(V) /\ t.done = Append(p, b)
      BY <1>0, <2>1, <2>2 DEF Searches
    <2> QED BY <1>a, <1>2, <1>4, <1>5, <1>14, <2>3 DEF Turned, t, p, kids, fresh, K, L
  <1>15. CASE b \notin kids
    <2>1. t = [done |-> << >>, visited |-> s.visited \cup kids, queue |-> q]
      BY <1>3, <1>15
    <2>2. << >> \in Seq(V)
      OBVIOUS
    <2>3. t \in Searches(V) /\ t.done = << >> /\ t.visited = s.visited \cup kids /\ t.queue = q
      BY <1>0, <1>2, <1>10, <2>1, <2>2 DEF Searches
    <2>4. \A k \in 1 .. K : \E y \in fresh : q[(L - 1) + k] = Append(p, y)
      BY <1>5, <1>13
    <2>5. \A y \in fresh : \E k \in 1 .. K : q[(L - 1) + k] = Append(p, y)
      BY <1>5, <1>13
    <2> QED BY <1>a, <1>2, <1>4, <1>5, <1>11, <1>12, <1>15, <2>3, <2>4, <2>5 DEF Turned, t, p, kids, fresh, K, L
  <1> QED BY <1>14, <1>15

LEMMA TurnsAreTyped ==
  ASSUME NEW g, IsLineage(g), NEW b \in g.nodes, NEW s \in Searches(g.nodes)
  PROVE  NextTurn(g, b, s) \in Searches(g.nodes)
  <1>1. CASE s.done # << >> \/ s.queue = << >>
    BY <1>1 DEF NextTurn
  <1>2. CASE s.done = << >> /\ s.queue # << >>
    BY <1>2, TurnIs DEF Turned
  <1> QED BY <1>1, <1>2

LEMMA TheSearchGoesOn ==
  ASSUME NEW g, IsLineage(g), NEW a \in g.nodes, NEW b \in g.nodes, NEW n \in Nat,
         NEW s \in Searches(g.nodes), Sought(g, a, b, n, s)
  PROVE  Sought(g, a, b, n + 1, NextTurn(g, b, s))
  <1> DEFINE V == g.nodes
             t == NextTurn(g, b, s)
  <1>0. s.done \in Seq(V) /\ s.visited \in SUBSET V /\ s.queue \in Seq(Seq(V)) /\ Len(s.queue) \in Nat
    BY DEF Searches
  <1>1. CASE s.done # << >> \/ s.queue = << >>
    <2>1. t = s
      BY <1>1 DEF NextTurn
    <2>2. Sought(g, a, b, n + 1, s)
      BY <1>1 DEF Sought
    <2> HIDE DEF t
    <2> QED BY <2>1, <2>2 DEF t
  <1>2. CASE s.done = << >> /\ s.queue # << >>
    <2> DEFINE p == Head(s.queue)
               L == Len(s.queue)
               kids == Children(g, Last(p))
               fresh == kids \ s.visited
               K == Cardinality(fresh)
    <2>1. L \in Nat /\ L >= 1 /\ p = s.queue[1] /\ p \in Seq(V)
      BY <1>0, <1>2
    <2>2. /\ a \in s.visited /\ b \notin s.visited
          /\ \A i \in 1 .. L : \E x \in s.visited : LeadsTo(g, a, s.queue[i], x)
          /\ \A x \in s.visited : \/ \E i \in 1 .. L : LeadsTo(g, a, s.queue[i], x)
                                  \/ Children(g, x) \subseteq s.visited
          /\ Cardinality(s.visited) >= n + L
      BY <1>2 DEF Sought
    <2>3. PICK z \in s.visited : LeadsTo(g, a, p, z)
      BY <2>1, <2>2
    <2>4. Last(p) = z
      BY <2>3 DEF Last, LeadsTo
    <2>5. /\ t \in Searches(V) /\ kids \subseteq V /\ IsFiniteSet(fresh) /\ K \in Nat
          /\ b \in kids => t.done = Append(p, b)
          /\ b \notin kids =>
                  /\ t.done = << >> /\ t.visited = s.visited \cup kids
                  /\ Len(t.queue) = (L - 1) + K
                  /\ \A i \in 1 .. L - 1 : t.queue[i] = s.queue[i + 1]
                  /\ \A k \in 1 .. K : \E y \in fresh : t.queue[(L - 1) + k] = Append(p, y)
                  /\ \A y \in fresh : \E k \in 1 .. K : t.queue[(L - 1) + k] = Append(p, y)
      <3>1. Turned(g, b, s, NextTurn(g, b, s))
        BY <1>2, TurnIs
      <3> QED BY ONLY <3>1 DEF Turned, t, p, L, kids, fresh, K
    <2>6. kids = Children(g, z)
      <3> HIDE DEF p
      <3> QED BY <2>4
    <2> HIDE DEF t, p, L, kids, K
    <2>7. ASSUME NEW y \in kids PROVE LeadsTo(g, a, Append(p, y), y) /\ Len(Append(p, y)) > 1
      BY <2>3, <2>6, <2>7, WaysGoOn
    <2>8. CASE b \in kids
      <3>1. LeadsTo(g, a, t.done, b) /\ Len(t.done) > 1
        BY <2>5, <2>7, <2>8
      <3>2. t.done # << >>
        BY <3>1 DEF LeadsTo, IsWayThrough
      <3>3. Sought(g, a, b, n + 1, t)
        BY <3>1, <3>2 DEF Sought
      <3> QED BY <3>3 DEF t
    <2>9. CASE b \notin kids
      <3> DEFINE q == t.queue
      <3>1. t.done = << >> /\ t.visited = s.visited \cup kids /\ Len(q) = (L - 1) + K
            /\ \A i \in 1 .. L - 1 : q[i] = s.queue[i + 1]
        BY <2>5, <2>9
      <3>2. \A k \in 1 .. K : \E y \in fresh : q[(L - 1) + k] = Append(p, y)
        BY <2>5, <2>9
      <3>3. \A y \in fresh : \E k \in 1 .. K : q[(L - 1) + k] = Append(p, y)
        BY <2>5, <2>9
      <3> HIDE DEF q
      <3>7. a \in t.visited /\ b \notin t.visited
        BY <2>2, <2>9, <3>1
      <3>8. ASSUME NEW i \in 1 .. Len(q) PROVE \E x \in t.visited : LeadsTo(g, a, q[i], x)
        <4>1. CASE i <= L - 1
          <5>1. i \in 1 .. L - 1 /\ i + 1 \in 1 .. L
            BY <2>1, <4>1
          <5>2. q[i] = s.queue[i + 1]
            BY <3>1, <5>1
          <5> QED BY <2>2, <3>1, <5>1, <5>2
        <4>2. CASE ~(i <= L - 1)
          <5>1. i - (L - 1) \in 1 .. K /\ (L - 1) + (i - (L - 1)) = i
            BY <2>1, <2>5, <3>1, <4>2
          <5>2. PICK y \in fresh : q[i] = Append(p, y)
            BY <3>2, <5>1
          <5> QED BY <2>7, <3>1, <5>2
        <4> QED BY <4>1, <4>2
      <3>9. ASSUME NEW x \in t.visited
            PROVE  \/ \E i \in 1 .. Len(q) : LeadsTo(g, a, q[i], x)
                   \/ Children(g, x) \subseteq t.visited
        <4>1. CASE x \in fresh
          <5>1. PICK k \in 1 .. K : q[(L - 1) + k] = Append(p, x)
            BY <3>3, <4>1
          <5>2. (L - 1) + k \in 1 .. Len(q)
            BY <2>1, <2>5, <3>1
          <5> QED BY <2>7, <4>1, <5>1, <5>2
        <4>2. CASE x \in s.visited
          <5>1. CASE Children(g, x) \subseteq s.visited
            BY <3>1, <5>1
          <5>2. CASE \E i \in 1 .. L : LeadsTo(g, a, s.queue[i], x)
            <6>1. PICK i \in 1 .. L : LeadsTo(g, a, s.queue[i], x)
              BY <5>2
            <6>2. CASE i = 1
              <7>1. x = z
                BY <2>1, <2>3, <6>1, <6>2 DEF LeadsTo
              <7> QED BY <2>6, <3>1, <7>1
            <6>3. CASE i # 1
              <7>1. i - 1 \in 1 .. L - 1 /\ i - 1 \in 1 .. Len(q) /\ (i - 1) + 1 = i
                BY <2>1, <2>5, <3>1, <6>3
              <7>2. q[i - 1] = s.queue[i]
                BY <3>1, <7>1
              <7> QED BY <6>1, <7>1, <7>2
            <6> QED BY <6>2, <6>3
          <5> QED BY <2>2, <4>2, <5>1, <5>2
        <4> QED BY <3>1, <4>1, <4>2
      <3>10. Cardinality(t.visited) >= (n + 1) + Len(q)
        <4>1. t.visited = s.visited \cup fresh /\ s.visited \cap fresh = {}
          BY <3>1
        <4>2. IsFiniteSet(s.visited) /\ Cardinality(s.visited) \in Nat
          BY <1>0, FS_Subset, FS_CardinalityType DEF IsLineage
        <4> HIDE DEF fresh
        <4>3. Cardinality(s.visited \cup fresh) = Cardinality(s.visited) + Cardinality(fresh) - Cardinality(s.visited \cap fresh)
          BY <2>5, <4>2, FS_Union
        <4>4. Cardinality(s.visited \cap fresh) = 0
          BY <4>1, FS_EmptySet
        <4>5. Cardinality(t.visited) = Cardinality(s.visited) + K
          BY <2>5, <4>1, <4>2, <4>3, <4>4 DEF K
        <4> QED BY <2>1, <2>2, <2>5, <3>1, <4>2, <4>5
      <3>11. Sought(g, a, b, n + 1, t)
        BY <3>1, <3>7, <3>8, <3>9, <3>10 DEF Sought, q
      <3> QED BY <3>11 DEF t
    <2> QED BY <2>8, <2>9
  <1> QED BY <1>1, <1>2

\* shortest_path finds a way exactly when there is one.
LEMMA PathsAreWays ==
  ASSUME NEW g, IsLineage(g), NEW a \in g.nodes, NEW b \in g.nodes
  PROVE  LET w == ShortestPath(g, a, b) IN
         /\ a = b => w = <<a>>
         /\ a # b /\ HasPath(g, a, b) => LeadsTo(g, a, w, b) /\ Len(w) > 1
         /\ a # b /\ ~HasPath(g, a, b) => w = << >>
  <1> DEFINE w == ShortestPath(g, a, b)
             N == Cardinality(g.nodes)
             U == Searches(g.nodes)
             A == [done |-> << >>, visited |-> {a}, queue |-> <<<<a>>>>]
             F == [p \in (1 .. N) \X U |-> NextTurn(g, b, p[2])]
  <1>1. CASE a = b
    BY <1>1 DEF ShortestPath
  <1>2. CASE a # b
    <2>1. N \in Nat /\ IsFiniteSet(g.nodes)
      BY FS_CardinalityType DEF IsLineage
    <2>2. A \in U /\ Sought(g, a, b, 0, A)
      <3>1. <<a>> \in Seq(g.nodes) /\ Len(<<a>>) = 1 /\ <<a>>[1] = a /\ <<a>> # << >>
        <4>1. PICK V : V = g.nodes
          OBVIOUS
        <4>2. a \in V
          BY <4>1
        <4>3. <<a>> \in Seq(V)
          BY <4>2
        <4> QED BY <4>1, <4>3
      <3>2. <<<<a>>>> \in Seq(Seq(g.nodes)) /\ Len(<<<<a>>>>) = 1 /\ <<<<a>>>>[1] = <<a>>
        <4>1. PICK W, x : W = Seq(g.nodes) /\ x = <<a>>
          OBVIOUS
        <4>2. x \in W
          BY <3>1, <4>1
        <4>3. <<x>> \in Seq(W) /\ Len(<<x>>) = 1 /\ <<x>>[1] = x
          BY <4>2
        <4> QED BY <4>1, <4>3
      <3>3. A \in U
        BY <3>2 DEF Searches
      <3>4. LeadsTo(g, a, <<a>>, a)
        BY <3>1 DEF LeadsTo, IsWayThrough
      <3>5. Cardinality({a}) = 1
        BY FS_Singleton
      <3>6. A.done = << >> /\ A.visited = {a} /\ A.queue = <<<<a>>>>
        OBVIOUS
      <3>7. Sought(g, a, b, 0, A)
        <4> HIDE DEF A
        <4> QED BY <1>2, <3>2, <3>4, <3>5, <3>6 DEF Sought
      <3> QED BY <3>3, <3>7
    <2>3. F \in [(1 .. N) \X U -> U]
      BY TurnsAreTyped
    <2> DEFINE After(h) == h = [n \in 0 .. N |-> IF n = 0 THEN A ELSE NextTurn(g, b, h[n - 1])]
               after == CHOOSE h : After(h)
    <2>4. w = after[N].done
      BY <1>2 DEF ShortestPath, NextTurn
    <2> HIDE DEF A, U, N
    <2>5. PICK f \in [0 .. N -> U] : InTurns(f, N, A, F)
      <3> HIDE DEF F
      <3> QED BY <2>1, <2>2, <2>3, TurnsExist
    <2>6. After(f)
      <3>1. f = [n \in 0 .. N |-> IF n = 0 THEN A ELSE F[<<n, f[n - 1]>>]]
        BY <2>5 DEF InTurns
      <3>2. ASSUME NEW n \in 0 .. N, n # 0 PROVE F[<<n, f[n - 1]>>] = NextTurn(g, b, f[n - 1])
        <4>1. n \in 1 .. N /\ n - 1 \in 0 .. N
          BY <2>1, <3>2
        <4>2. f[n - 1] \in U
          BY <2>5, <4>1
        <4> QED BY <4>1, <4>2
      <3> HIDE DEF F
      <3> QED BY <3>1, <3>2
    <2>7. After(after)
      <3> HIDE DEF After
      <3> QED BY <2>6
    <2> HIDE DEF after
    <2>8. after[0] = A /\ \A n \in 0 .. N : n + 1 \in 0 .. N => after[n + 1] = NextTurn(g, b, after[n])
      <3>1. 0 \in 0 .. N /\ \A n \in 0 .. N : n + 1 # 0 /\ (n + 1) - 1 = n
        BY <2>1
      <3> QED BY <2>7, <3>1
    <2> DEFINE Q == {n \in 0 .. N : after[n] \in U /\ Sought(g, a, b, n, after[n])}
    <2>9. 0 \in Q
      BY <2>1, <2>2, <2>8
    <2>10. ASSUME NEW n \in 0 .. N, n + 1 \in 0 .. N, n \in Q PROVE n + 1 \in Q
      <3>1. after[n] \in U /\ Sought(g, a, b, n, after[n]) /\ n \in Nat
        BY <2>10
      <3>2. NextTurn(g, b, after[n]) \in U /\ Sought(g, a, b, n + 1, NextTurn(g, b, after[n]))
        BY <3>1, TurnsAreTyped, TheSearchGoesOn DEF U
      <3> QED BY <2>8, <2>10, <3>2
    <2>11. N \in Q
      <3> HIDE DEF Q
      <3> QED BY <2>1, <2>9, <2>10, UpTo
    <2>12. after[N] \in U /\ Sought(g, a, b, N, after[N])
      BY <2>11
    <2> HIDE DEF Q, After, w
    <2>13. CASE w # << >>
      <3>1. LeadsTo(g, a, w, b) /\ Len(w) > 1
        BY <2>4, <2>12, <2>13 DEF Sought
      <3>2. w[1] = a /\ w[Len(w)] = b /\ IsWayThrough(g, w)
        BY <3>1 DEF LeadsTo
      <3>3. HasPath(g, a, b)
        BY <3>1, <3>2, WaysLeadDown
      <3> QED BY <1>2, <3>1, <3>3 DEF w
    <2>14. CASE w = << >>
      <3> DEFINE e == after[N]
                 C == e.visited
      <3>1. /\ a \in C /\ b \notin C /\ e.queue \in Seq(Seq(g.nodes)) /\ C \in SUBSET g.nodes
            /\ \A x \in C : \/ \E i \in 1 .. Len(e.queue) : LeadsTo(g, a, e.queue[i], x)
                            \/ Children(g, x) \subseteq C
            /\ e.queue # << >> => Cardinality(C) >= N + Len(e.queue)
        BY <2>4, <2>12, <2>14 DEF Sought, U, Searches
      <3> HIDE DEF C
      <3>2. Cardinality(C) <= N /\ Cardinality(C) \in Nat
        BY <2>1, <3>1, FS_Subset, FS_CardinalityType DEF N
      <3>3. Len(e.queue) = 0
        BY <2>1, <3>1, <3>2
      <3>4. \A x \in C : Children(g, x) \subseteq C
        BY <3>1, <3>3
      <3>5. Descendants(g, a) \subseteq C
        BY <3>1, <3>4, BelowIsClosed
      <3> QED BY <1>2, <2>14, <3>1, <3>5 DEF HasPath, w
    <2> QED BY <2>13, <2>14
  <1> QED BY <1>1, <1>2

\* A route is a way: its ends are where it was asked for, and every step of it an edge.
LEMMA RoutesAreWays ==
  ASSUME NEW g, IsLineage(g), NEW a \in g.nodes, NEW b \in g.nodes, NEW w, w = ShortestPath(g, a, b)
  PROVE  /\ w # << >> <=> a \in Closure(g, b)
         /\ w # << >> => Head(w) = a /\ Last(w) = b /\ \A i \in 1 .. Len(w) - 1 : w[i + 1] \in Children(g, w[i])
  <1>1. CASE a = b
    <2>1. w = <<a>>
      BY <1>1, PathsAreWays
    <2>2. w # << >> /\ Head(w) = a /\ Last(w) = b /\ \A i \in 1 .. Len(w) - 1 : FALSE
      <3>1. Len(w) = 1 /\ w[1] = a /\ w # << >> /\ Head(w) = w[1]
        BY <2>1
      <3>2. \A i \in 1 .. Len(w) - 1 : FALSE
        BY <3>1
      <3>3. Last(w) = a
        BY <3>1 DEF Last
      <3> QED BY <1>1, <3>1, <3>2, <3>3
    <2>3. a \in Closure(g, b)
      BY <1>1 DEF Closure
    <2> QED BY <2>2, <2>3
  <1>2. CASE a # b
    <2>1. a \in Closure(g, b) <=> HasPath(g, a, b)
      BY <1>2, WalksAgree DEF Closure, HasPath
    <2>2. CASE HasPath(g, a, b)
      <3>1. LeadsTo(g, a, w, b) /\ Len(w) > 1
        BY <1>2, <2>2, PathsAreWays
      <3>2. /\ w \in Seq(g.nodes) /\ w # << >> /\ w[1] = a /\ w[Len(w)] = b
            /\ \A i \in 1 .. Len(w) - 1 : w[i + 1] \in Children(g, w[i])
        BY <3>1 DEF LeadsTo, IsWayThrough
      <3>3. Head(w) = a /\ Last(w) = b
        BY <3>2 DEF Last
      <3> QED BY <2>1, <2>2, <3>2, <3>3
    <2>3. CASE ~HasPath(g, a, b)
      <3>1. w = << >>
        BY <1>2, <2>3, PathsAreWays
      <3> QED BY <2>1, <2>3, <3>1
    <2> QED BY <2>2, <2>3
  <1> QED BY <1>1, <1>2

(***************************************************************************)
(* The build order: graph/query.py, Kahn's queue.                          *)
(***************************************************************************)
NextBuilt(g, s) ==
  IF s.ready = << >> THEN s
  ELSE LET node == Head(s.ready)
           kids == Children(g, node) \ {node}
           lower == [d \in g.nodes |-> IF d \in kids THEN s.left[d] - 1 ELSE s.left[d]]
       IN  [out |-> Append(s.out, node), left |-> lower,
            ready |-> Tail(s.ready) \o Sorted({d \in kids : lower[d] = 0})]

BuildStates(V) == [out : Seq(V), left : [V -> Int], ready : Seq(V)]

\* What d is still to wait for when the datasets of U are served.
Lacks(g, d, U) == (Parents(g, d) \ {d}) \ U

\* Nobody twice, nobody before its inputs, and who is ready lacks nothing.
BuiltSoFar(g, n, s) ==
  LET V == g.nodes  served == ToSet(s.out)  queued == ToSet(s.ready) IN
  /\ s \in BuildStates(V)
  /\ Len(s.out) = n \/ s.ready = << >>
  /\ Cardinality(served) = Len(s.out)
  /\ \A i, j \in 1 .. Len(s.out) : s.out[i] = s.out[j] => i = j
  /\ \A i, j \in 1 .. Len(s.ready) : s.ready[i] = s.ready[j] => i = j
  /\ served \cap queued = {}
  /\ \A d \in V : s.left[d] = Cardinality(Lacks(g, d, served))
  /\ \A d \in V : Lacks(g, d, served) = {} <=> d \in served \cup queued
  /\ \A i \in 1 .. Len(s.out) : \A p \in Parents(g, s.out[i]) \ {s.out[i]} : \E j \in 1 .. i - 1 : s.out[j] = p

LEMMA SetOfAppend ==
  ASSUME NEW V, NEW s \in Seq(V), NEW x \in V
  PROVE  /\ Append(s, x) \in Seq(V) /\ Len(Append(s, x)) = Len(s) + 1
         /\ \A i \in 1 .. Len(s) : Append(s, x)[i] = s[i]
         /\ Append(s, x)[Len(s) + 1] = x
         /\ ToSet(Append(s, x)) = ToSet(s) \cup {x}
  <1>1. /\ Append(s, x) \in Seq(V) /\ Len(Append(s, x)) = Len(s) + 1 /\ Len(s) \in Nat
        /\ DOMAIN s = 1 .. Len(s) /\ DOMAIN Append(s, x) = 1 .. Len(s) + 1
        /\ \A i \in 1 .. Len(s) : Append(s, x)[i] = s[i]
        /\ Append(s, x)[Len(s) + 1] = x
    BY AppendProperties
  <1>2. PICK t : t = Append(s, x)
    OBVIOUS
  <1>3. \A i \in 1 .. Len(s) + 1 : i \in 1 .. Len(s) \/ i = Len(s) + 1
    BY <1>1
  <1>4. \A i \in 1 .. Len(s) : i \in 1 .. Len(s) + 1
    BY <1>1
  <1>5. Len(s) + 1 \in 1 .. Len(s) + 1
    BY <1>1
  <1>6. {t[i] : i \in DOMAIN t} = {s[i] : i \in DOMAIN s} \cup {x}
    BY <1>1, <1>2, <1>3, <1>4, <1>5
  <1> QED BY <1>1, <1>2, <1>6 DEF ToSet

LEMMA SetOfConcat ==
  ASSUME NEW V, NEW s \in Seq(V), NEW t \in Seq(V)
  PROVE  /\ s \o t \in Seq(V) /\ Len(s \o t) = Len(s) + Len(t)
         /\ \A i \in 1 .. Len(s) : (s \o t)[i] = s[i]
         /\ \A i \in 1 .. Len(t) : (s \o t)[Len(s) + i] = t[i]
         /\ \A i \in 1 .. Len(s) + Len(t) : i \in 1 .. Len(s) \/ \E j \in 1 .. Len(t) : i = Len(s) + j
         /\ ToSet(s \o t) = ToSet(s) \cup ToSet(t)
  <1>1. PICK u : u = s \o t
    OBVIOUS
  <1>2. /\ u \in Seq(V) /\ Len(u) = Len(s) + Len(t)
        /\ \A i \in 1 .. Len(s) + Len(t) : u[i] = IF i <= Len(s) THEN s[i] ELSE t[i - Len(s)]
    BY <1>1, ConcatProperties
  <1>3. /\ Len(s) \in Nat /\ Len(t) \in Nat /\ DOMAIN u = 1 .. Len(s) + Len(t) /\ DOMAIN s = 1 .. Len(s)
        /\ DOMAIN t = 1 .. Len(t)
    BY <1>2
  <1>4. \A i \in 1 .. Len(s) : i \in 1 .. Len(s) + Len(t) /\ u[i] = s[i]
    BY <1>2, <1>3
  <1>5. \A i \in 1 .. Len(t) : Len(s) + i \in 1 .. Len(s) + Len(t) /\ u[Len(s) + i] = t[i]
    <2> TAKE i \in 1 .. Len(t)
    <2>1. Len(s) + i \in 1 .. Len(s) + Len(t) /\ ~(Len(s) + i <= Len(s)) /\ (Len(s) + i) - Len(s) = i
      BY <1>3
    <2> QED BY <1>2, <2>1
  <1>6. \A i \in 1 .. Len(s) + Len(t) : i \in 1 .. Len(s) \/ \E j \in 1 .. Len(t) : i = Len(s) + j
    <2> TAKE i \in 1 .. Len(s) + Len(t)
    <2>1. CASE ~(i <= Len(s))
      <3>1. i - Len(s) \in 1 .. Len(t) /\ i = Len(s) + (i - Len(s))
        BY <1>3, <2>1
      <3> QED BY <3>1
    <2>2. CASE i <= Len(s)
      BY <1>3, <2>2
    <2> QED BY <2>1, <2>2
  <1>7. {u[i] : i \in DOMAIN u} = {s[i] : i \in DOMAIN s} \cup {t[i] : i \in DOMAIN t}
    <2>1. ASSUME NEW i \in DOMAIN u PROVE u[i] \in {s[j] : j \in DOMAIN s} \cup {t[j] : j \in DOMAIN t}
      BY <1>3, <1>4, <1>5, <1>6
    <2>2. \A i \in DOMAIN s : s[i] \in {u[j] : j \in DOMAIN u}
      BY <1>3, <1>4
    <2>3. \A i \in DOMAIN t : t[i] \in {u[j] : j \in DOMAIN u}
      BY <1>3, <1>5
    <2> QED BY <2>1, <2>2, <2>3
  <1> QED BY <1>1, <1>2, <1>4, <1>5, <1>6, <1>7 DEF ToSet

\* A turn of the queue: the first is built, and whoever lacked nothing else is ready.
Freed(g, U, node) == {d \in Children(g, node) \ {node} : Lacks(g, d, U \cup {node}) = {}}

BuiltTurn(g, s, t) ==
  LET node == Head(s.ready)  kids == Children(g, node) \ {node}
      fresh == Freed(g, ToSet(s.out), node)
      L == Len(s.ready)  K == Cardinality(fresh)
  IN  /\ node = s.ready[1] /\ node \in g.nodes /\ fresh \subseteq g.nodes /\ K \in Nat /\ L \in Nat /\ L >= 1
      /\ t \in BuildStates(g.nodes)
      /\ t.out = Append(s.out, node)
      /\ \A d \in g.nodes : t.left[d] = IF d \in kids THEN s.left[d] - 1 ELSE s.left[d]
      /\ Len(t.ready) = (L - 1) + K
      /\ \A i \in 1 .. L - 1 : t.ready[i] = s.ready[i + 1]
      /\ \A k \in 1 .. K : t.ready[(L - 1) + k] \in fresh
      /\ \A k, l \in 1 .. K : t.ready[(L - 1) + k] = t.ready[(L - 1) + l] => k = l
      /\ ToSet(t.ready) = {s.ready[i] : i \in 2 .. L} \cup fresh

LEMMA LacksOneLess ==
  ASSUME NEW g, IsLineage(g), NEW U, NEW node \in g.nodes, node \notin U, NEW d \in g.nodes,
         NEW W, W = U \cup {node}, NEW m, m = Cardinality(Lacks(g, d, U))
  PROVE  /\ m \in Nat /\ (m = 0 <=> Lacks(g, d, U) = {})
         /\ IsFiniteSet(Lacks(g, d, W)) /\ Lacks(g, d, W) = Lacks(g, d, U) \ {node}
         /\ d \in Children(g, node) \ {node} => Cardinality(Lacks(g, d, W)) = m - 1
         /\ d \notin Children(g, node) \ {node} => Lacks(g, d, W) = Lacks(g, d, U)
         /\ node \in Lacks(g, d, U) <=> d \in Children(g, node) \ {node}
  <1>1. Parents(g, d) \subseteq g.nodes /\ IsFiniteSet(g.nodes)
    BY DEF IsLineage, Parents, InEdges
  <1>2. d \in Children(g, node) <=> node \in Parents(g, d)
    BY DEF Parents, Children, InEdges, OutEdges
  <1>3. PICK X : X = Lacks(g, d, U)
    OBVIOUS
  <1>4. X \subseteq g.nodes /\ Lacks(g, d, W) = X \ {node}
    BY <1>1, <1>3 DEF Lacks
  <1>5. IsFiniteSet(X) /\ Cardinality(X) \in Nat /\ (Cardinality(X) = 0 <=> X = {})
    BY <1>1, <1>4, FS_Subset, FS_CardinalityType, FS_EmptySet
  <1>6. node \in X <=> d \in Children(g, node) \ {node}
    BY <1>2, <1>3 DEF Lacks
  <1>7. IsFiniteSet(X \ {node}) /\ (node \in X => Cardinality(X \ {node}) = Cardinality(X) - 1)
    BY <1>5, FS_RemoveElement
  <1>8. node \notin X => X \ {node} = X
    OBVIOUS
  <1> QED BY <1>3, <1>4, <1>5, <1>6, <1>7, <1>8

LEMMA BuiltTurnIs ==
  ASSUME NEW g, IsLineage(g), NEW n, NEW s, BuiltSoFar(g, n, s), s.ready # << >>
  PROVE  BuiltTurn(g, s, NextBuilt(g, s))
  <1>a. PICK V : V = g.nodes
    OBVIOUS
  <1> DEFINE t == NextBuilt(g, s)
             node == Head(s.ready)
             kids == Children(g, node) \ {node}
             served == ToSet(s.out)
             L == Len(s.ready)
             lower == [d \in V |-> IF d \in kids THEN s.left[d] - 1 ELSE s.left[d]]
             fresh == Freed(g, served, node)
             K == Cardinality(fresh)
             new == Sorted(fresh)
  <1>1. /\ s.out \in Seq(V) /\ s.left \in [V -> Int] /\ s.ready \in Seq(V) /\ L \in Nat
        /\ served \cap ToSet(s.ready) = {}
        /\ \A d \in V : s.left[d] = Cardinality(Lacks(g, d, served))
    BY <1>a DEF BuiltSoFar, BuildStates
  <1>2. L >= 1 /\ node = s.ready[1] /\ node \in V /\ node \in ToSet(s.ready)
    BY <1>1 DEF ToSet
  <1>3. node \notin served
    BY <1>1, <1>2
  <1>4. kids \subseteq V /\ V \subseteq Nat /\ IsFiniteSet(V)
    <2> HIDE DEF node
    <2> QED BY <1>a DEF IsLineage, Children, OutEdges
  <1> HIDE DEF kids, node, served, L
  <1>5. \A d \in V : /\ Cardinality(Lacks(g, d, served \cup {node})) = lower[d]
                     /\ lower[d] \in Int /\ (lower[d] = 0 <=> Lacks(g, d, served \cup {node}) = {})
    <2> TAKE d \in V
    <2>0. d \in g.nodes /\ node \in g.nodes /\ node \notin served
      BY <1>a, <1>2, <1>3
    <2> PICK U : U = served
      OBVIOUS
    <2> PICK W : W = served \cup {node}
      OBVIOUS
    <2> PICK m : m = Cardinality(Lacks(g, d, U))
      OBVIOUS
    <2>a. /\ m \in Nat
          /\ d \in Children(g, node) \ {node} => Cardinality(Lacks(g, d, W)) = m - 1
          /\ d \notin Children(g, node) \ {node} => Lacks(g, d, W) = Lacks(g, d, U)
      <3>1. d \in g.nodes /\ node \in g.nodes /\ node \notin U /\ W = U \cup {node}
        BY <2>0
      <3> QED BY <3>1, LacksOneLess
    <2>1. /\ Cardinality(Lacks(g, d, served)) \in Nat
          /\ Cardinality(Lacks(g, d, served \cup {node}))
               = IF d \in kids THEN Cardinality(Lacks(g, d, served)) - 1 ELSE Cardinality(Lacks(g, d, served))
      BY <2>a DEF kids
    <2>2. Lacks(g, d, served \cup {node}) \subseteq V
      BY <1>a DEF Lacks, IsLineage, Parents, InEdges
    <2>3. Cardinality(Lacks(g, d, served \cup {node})) = 0 <=> Lacks(g, d, served \cup {node}) = {}
      BY <1>4, <2>2, FS_Subset, FS_EmptySet
    <2>4. lower[d] = IF d \in kids THEN s.left[d] - 1 ELSE s.left[d]
      OBVIOUS
    <2>5. s.left[d] = Cardinality(Lacks(g, d, served))
      BY <1>1
    <2> PICK l \in Int : l = lower[d]
      BY <2>1, <2>4, <2>5
    <2> QED BY <2>1, <2>3, <2>4, <2>5
  <1>6. {d \in kids : lower[d] = 0} = fresh
    BY <1>4, <1>5 DEF Freed, kids
  <1>7. t = [out |-> Append(s.out, node), left |-> lower, ready |-> Tail(s.ready) \o new]
    BY <1>a, <1>6 DEF NextBuilt, node, kids
  <1>8. lower \in [V -> Int]
    BY <1>5
  <1> HIDE DEF t
  <1>9. fresh \subseteq V /\ fresh \in SUBSET Nat /\ IsFiniteSet(fresh)
    <2>1. fresh \subseteq V
      BY <1>4 DEF Freed, kids
    <2> HIDE DEF fresh
    <2> QED BY <1>4, <2>1, FS_Subset
  <1> HIDE DEF fresh
  <1>10. /\ K \in Nat /\ DOMAIN new = 1 .. K /\ Len(new) = K /\ new \in Seq(fresh)
         /\ \A k \in 1 .. K : new[k] \in fresh
         /\ \A d \in fresh : \E k \in 1 .. K : new[k] = d
         /\ \A k, l \in 1 .. K : new[k] = new[l] => k = l
    BY <1>9, NamesSorted
  <1> HIDE DEF new, K
  <1>11. new \in Seq(V)
    <2>1. new \in [1 .. K -> fresh]
      BY <1>10
    <2>2. new \in [1 .. K -> V]
      BY <1>9, <2>1
    <2> QED BY <1>10, <2>2
  <1>12. PICK u : u = Tail(s.ready)
    OBVIOUS
  <1>13. u \in Seq(V) /\ Len(u) = L - 1 /\ \A i \in 1 .. L - 1 : u[i] = s.ready[i + 1]
    BY <1>1, <1>2, <1>12 DEF L
  <1>14. PICK r : r = u \o new
    OBVIOUS
  <1>15. /\ r \in Seq(V) /\ Len(r) = (L - 1) + K
         /\ \A i \in 1 .. L - 1 : r[i] = u[i]
         /\ \A i \in 1 .. K : r[(L - 1) + i] = new[i]
         /\ ToSet(r) = ToSet(u) \cup ToSet(new)
    <2>1. /\ r \in Seq(V) /\ Len(r) = Len(u) + Len(new)
          /\ \A i \in 1 .. Len(u) : r[i] = u[i]
          /\ \A i \in 1 .. Len(new) : r[Len(u) + i] = new[i]
          /\ ToSet(r) = ToSet(u) \cup ToSet(new)
      <3>1. \A x, y \in Seq(V) :
              /\ x \o y \in Seq(V) /\ Len(x \o y) = Len(x) + Len(y)
              /\ \A i \in 1 .. Len(x) : (x \o y)[i] = x[i]
              /\ \A i \in 1 .. Len(y) : (x \o y)[Len(x) + i] = y[i]
              /\ ToSet(x \o y) = ToSet(x) \cup ToSet(y)
        BY ONLY SetOfConcat
      <3> QED BY ONLY <3>1, <1>11, <1>13, <1>14
    <2> QED BY <1>10, <1>13, <2>1
  <1>16. ToSet(u) = {s.ready[i] : i \in 2 .. L}
    <2>1. DOMAIN u = 1 .. L - 1
      BY <1>13
    <2>2. \A i \in 1 .. L - 1 : i + 1 \in 2 .. L
      BY <1>1
    <2>3. \A i \in 2 .. L : i - 1 \in 1 .. L - 1 /\ (i - 1) + 1 = i
      BY <1>1
    <2>4. \A i \in 2 .. L : u[i - 1] = s.ready[i]
      BY <1>13, <2>3
    <2> QED BY <1>13, <2>1, <2>2, <2>3, <2>4 DEF ToSet
  <1>17. ToSet(new) = fresh
    BY <1>10 DEF ToSet
  <1>18. Append(s.out, node) \in Seq(V)
    BY <1>1, <1>2, SetOfAppend
  <1>19. t = [out |-> Append(s.out, node), left |-> lower, ready |-> r]
    BY <1>7, <1>12, <1>14
  <1>20. t \in BuildStates(V)
    BY <1>8, <1>15, <1>18, <1>19 DEF BuildStates
  <1>21. \A k \in 1 .. K : r[(L - 1) + k] \in fresh
    BY <1>10, <1>15
  <1>22. \A k, l \in 1 .. K : r[(L - 1) + k] = r[(L - 1) + l] => k = l
    BY <1>10, <1>15
  <1>23. \A d \in V : t.left[d] = IF d \in kids THEN s.left[d] - 1 ELSE s.left[d]
    BY <1>19
  <1>24. ToSet(t.ready) = {s.ready[i] : i \in 2 .. L} \cup fresh
    BY <1>15, <1>16, <1>17, <1>19
  <1>25. t.ready = r /\ t.out = Append(s.out, node)
    BY <1>19
  <1>26. \A i \in 1 .. L - 1 : r[i] = s.ready[i + 1]
    BY <1>13, <1>15
  <1> QED BY <1>a, <1>1, <1>2, <1>9, <1>10, <1>15, <1>20, <1>21, <1>22, <1>23, <1>24, <1>25, <1>26
          DEF BuiltTurn, t, node, kids, served, fresh, L, K

LEMMA BuildingGoesOn ==
  ASSUME NEW g, IsLineage(g), NEW n \in Nat, NEW s, BuiltSoFar(g, n, s)
  PROVE  BuiltSoFar(g, n + 1, NextBuilt(g, s))
  <1>a. PICK V : V = g.nodes
    OBVIOUS
  <1>1. CASE s.ready = << >>
    BY <1>1 DEF NextBuilt, BuiltSoFar
  <1>2. CASE s.ready # << >>
    <2>p1. PICK t : t = NextBuilt(g, s)
      OBVIOUS
    <2>p2. PICK node : node = Head(s.ready)
      OBVIOUS
    <2>p3. PICK kids : kids = Children(g, node) \ {node}
      OBVIOUS
    <2>p4. PICK S : S = ToSet(s.out)
      OBVIOUS
    <2>p5. PICK Q : Q = ToSet(s.ready)
      OBVIOUS
    <2>p6. PICK T : T = S \cup {node}
      OBVIOUS
    <2>p7. PICK fresh : fresh = Freed(g, S, node)
      OBVIOUS
    <2>p8. PICK L : L = Len(s.ready)
      OBVIOUS
    <2>p9. PICK K : K = Cardinality(fresh)
      OBVIOUS
    <2>1. /\ node = s.ready[1] /\ node \in g.nodes /\ fresh \subseteq g.nodes /\ K \in Nat /\ L \in Nat /\ L >= 1
          /\ t \in BuildStates(g.nodes)
          /\ t.out = Append(s.out, node)
          /\ \A d \in g.nodes : t.left[d] = IF d \in kids THEN s.left[d] - 1 ELSE s.left[d]
          /\ Len(t.ready) = (L - 1) + K
          /\ \A i \in 1 .. L - 1 : t.ready[i] = s.ready[i + 1]
          /\ \A k \in 1 .. K : t.ready[(L - 1) + k] \in fresh
          /\ \A k, l \in 1 .. K : t.ready[(L - 1) + k] = t.ready[(L - 1) + l] => k = l
          /\ ToSet(t.ready) = {s.ready[i] : i \in 2 .. L} \cup fresh
      <3>1. BuiltTurn(g, s, t)
        BY <1>2, <2>p1, BuiltTurnIs
      <3> QED BY <3>1, <2>p2, <2>p3, <2>p4, <2>p7, <2>p8, <2>p9 DEF BuiltTurn
    <2>2. /\ s \in BuildStates(V)
          /\ Len(s.out) = n
          /\ Cardinality(S) = Len(s.out)
          /\ \A i, j \in 1 .. Len(s.out) : s.out[i] = s.out[j] => i = j
          /\ \A i, j \in 1 .. L : s.ready[i] = s.ready[j] => i = j
          /\ S \cap Q = {}
          /\ \A d \in V : s.left[d] = Cardinality(Lacks(g, d, S))
          /\ \A d \in V : Lacks(g, d, S) = {} <=> d \in S \cup Q
          /\ \A i \in 1 .. Len(s.out) : \A p \in Parents(g, s.out[i]) \ {s.out[i]} : \E j \in 1 .. i - 1 : s.out[j] = p
      BY <1>a, <1>2, <2>p4, <2>p5, <2>p8 DEF BuiltSoFar
    <2>3. s.out \in Seq(V) /\ s.ready \in Seq(V) /\ Len(s.out) \in Nat /\ IsFiniteSet(V) /\ V \subseteq Nat
      BY <1>a, <2>2 DEF BuildStates, IsLineage
    <2>4. Q = {s.ready[i] : i \in 1 .. L} /\ S = {s.out[i] : i \in 1 .. Len(s.out)}
      BY <2>3, <2>p4, <2>p5, <2>p8 DEF ToSet
    <2>5. node \in Q /\ node \notin S
      <3>1. 1 \in 1 .. L
        BY <2>1
      <3>2. node \in Q
        BY <2>1, <2>4, <3>1
      <3> QED BY <2>2, <3>2
    <2>6. {s.ready[i] : i \in 2 .. L} = Q \ {node}
      <3>1. \A i \in 2 .. L : i \in 1 .. L /\ 1 \in 1 .. L /\ i # 1
        BY <2>1
      <3>2. \A i \in 1 .. L : i # 1 => i \in 2 .. L
        BY <2>1
      <3>3. \A i \in 2 .. L : s.ready[i] # node
        BY <2>1, <2>2, <3>1
      <3> QED BY <2>1, <2>4, <3>1, <3>2, <3>3
    <2>7. /\ t.out \in Seq(V) /\ Len(t.out) = Len(s.out) + 1
          /\ \A i \in 1 .. Len(s.out) : t.out[i] = s.out[i]
          /\ t.out[Len(s.out) + 1] = node
          /\ ToSet(t.out) = T
      <3>1. /\ Append(s.out, node) \in Seq(V) /\ Len(Append(s.out, node)) = Len(s.out) + 1
            /\ \A i \in 1 .. Len(s.out) : Append(s.out, node)[i] = s.out[i]
            /\ Append(s.out, node)[Len(s.out) + 1] = node
            /\ ToSet(Append(s.out, node)) = ToSet(s.out) \cup {node}
        <4>1. node \in V
          BY <1>a, <2>1
        <4> QED BY <4>1, <2>3, SetOfAppend
      <3>2. t.out = Append(s.out, node)
        BY <2>1
      <3> QED BY <3>1, <3>2, <2>p4, <2>p6
    <2>8. ToSet(t.ready) = (Q \ {node}) \cup fresh
      BY <2>1, <2>6
    <2>9. ASSUME NEW d \in V
          PROVE  /\ t.left[d] = Cardinality(Lacks(g, d, T))
                 /\ d \in kids => Lacks(g, d, S) # {}
                 /\ Lacks(g, d, T) = {} <=> d \in T \cup ((Q \ {node}) \cup fresh)
      <3>m. PICK m : m = Cardinality(Lacks(g, d, S))
        OBVIOUS
      <3>1. /\ m \in Nat /\ (m = 0 <=> Lacks(g, d, S) = {})
            /\ IsFiniteSet(Lacks(g, d, T)) /\ Lacks(g, d, T) = Lacks(g, d, S) \ {node}
            /\ d \in Children(g, node) \ {node} => Cardinality(Lacks(g, d, T)) = m - 1
            /\ d \notin Children(g, node) \ {node} => Lacks(g, d, T) = Lacks(g, d, S)
            /\ node \in Lacks(g, d, S) <=> d \in Children(g, node) \ {node}
        <4>1. d \in g.nodes /\ node \in g.nodes /\ node \notin S /\ T = S \cup {node}
          BY <1>a, <2>1, <2>5, <2>p6
        <4> QED BY <4>1, <3>m, LacksOneLess
      <3>2. t.left[d] = IF d \in kids THEN s.left[d] - 1 ELSE s.left[d]
        BY <1>a, <2>1
      <3>3. s.left[d] = m /\ (Lacks(g, d, S) = {} <=> d \in S \cup Q)
        BY <2>2, <3>m
      <3>4. t.left[d] = Cardinality(Lacks(g, d, T))
        BY <3>1, <3>2, <3>3, <3>m, <2>p3
      <3>5. d \in kids => Lacks(g, d, S) # {}
        BY <3>1, <2>p3
      <3>8. d \in fresh <=> d \in kids /\ Lacks(g, d, T) = {}
        BY <2>p3, <2>p6, <2>p7 DEF Freed
      <3>6. CASE d \in kids
        BY <3>1, <3>3, <3>4, <3>5, <3>6, <3>8, <2>5, <2>p6
      <3>7. CASE d \notin kids
        BY <3>1, <3>3, <3>4, <3>7, <3>8, <2>5, <2>p3, <2>p6
      <3> QED BY <3>6, <3>7
    <2>10. fresh \cap (S \cup Q) = {}
      <3>1. \A d \in fresh : d \in V /\ d \in kids
        BY <1>a, <2>1, <2>p3, <2>p7 DEF Freed
      <3> QED BY <2>2, <2>9, <3>1
    <2>11. T \cap ((Q \ {node}) \cup fresh) = {}
      BY <2>2, <2>5, <2>10, <2>p6
    <2>12. Cardinality(T) = Len(t.out)
      <3>1. S \subseteq V
        BY <2>3, <2>4
      <3>2. IsFiniteSet(S)
        BY <2>3, <3>1, FS_Subset
      <3>3. Cardinality(S \cup {node}) = Cardinality(S) + 1
        BY <2>5, <3>2, FS_AddElement
      <3> QED BY <2>2, <2>7, <2>p6, <3>3
    <2>13. \A i, j \in 1 .. Len(t.out) : t.out[i] = t.out[j] => i = j
      <3>1. \A i \in 1 .. Len(t.out) : i \in 1 .. Len(s.out) \/ i = Len(s.out) + 1
        BY <2>3, <2>7
      <3>2. \A i \in 1 .. Len(s.out) : t.out[i] = s.out[i] /\ t.out[i] # node
        BY <2>4, <2>5, <2>7
      <3> QED BY <2>2, <2>7, <3>1, <3>2
    <2>14. \A i, j \in 1 .. Len(t.ready) : t.ready[i] = t.ready[j] => i = j
      <3>1. \A i \in 1 .. Len(t.ready) : i \in 1 .. L - 1 \/ \E k \in 1 .. K : i = (L - 1) + k
        <4> TAKE i \in 1 .. Len(t.ready)
        <4>0. Len(t.ready) = (L - 1) + K /\ L \in Nat /\ K \in Nat /\ L >= 1
          BY <2>1
        <4>1. ~(i <= L - 1) => i - (L - 1) \in 1 .. K /\ i = (L - 1) + (i - (L - 1))
          BY <4>0
        <4>2. i <= L - 1 => i \in 1 .. L - 1
          BY <4>0
        <4> QED BY <4>1, <4>2
      <3>2. \A i \in 1 .. L - 1 : t.ready[i] = s.ready[i + 1] /\ i + 1 \in 1 .. L /\ t.ready[i] \in Q
        <4>1. \A i \in 1 .. L - 1 : i + 1 \in 1 .. L
          BY <2>1
        <4> QED BY <2>1, <2>4, <4>1
      <3>3. \A k \in 1 .. K : t.ready[(L - 1) + k] \notin Q
        BY <2>1, <2>10
      <3>4. \A i, j \in 1 .. L - 1 : t.ready[i] = t.ready[j] => i = j
        BY <2>1, <2>2, <3>2
      <3>5. \A k, l \in 1 .. K : t.ready[(L - 1) + k] = t.ready[(L - 1) + l] => k = l
        BY <2>1
      <3> QED BY <3>1, <3>2, <3>3, <3>4, <3>5
    <2>15. ASSUME NEW i \in 1 .. Len(t.out), NEW p \in Parents(g, t.out[i]) \ {t.out[i]}
           PROVE  \E j \in 1 .. i - 1 : t.out[j] = p
      <3>1. CASE i \in 1 .. Len(s.out)
        <4>1. PICK j \in 1 .. i - 1 : s.out[j] = p
          BY <2>2, <2>7, <2>15, <3>1
        <4>2. j \in 1 .. Len(s.out)
          BY <2>3, <3>1
        <4> QED BY <2>7, <4>1, <4>2
      <3>2. CASE i \notin 1 .. Len(s.out)
        <4>1. i = Len(s.out) + 1 /\ t.out[i] = node /\ i - 1 = Len(s.out)
          BY <2>3, <2>7, <3>2
        <4>2. Lacks(g, node, S) = {}
          BY <1>a, <2>1, <2>2, <2>5
        <4>3. p \in S
          BY <2>15, <4>1, <4>2 DEF Lacks
        <4>4. PICK j \in 1 .. Len(s.out) : s.out[j] = p
          BY <2>4, <4>3
        <4> QED BY <2>7, <4>1, <4>4
      <3> QED BY <3>1, <3>2
    <2>16. Len(t.out) = n + 1 /\ t \in BuildStates(V)
      BY <1>a, <2>1, <2>2, <2>7
    <2>17. BuiltSoFar(g, n + 1, t)
      BY <1>a, <2>7, <2>8, <2>9, <2>11, <2>12, <2>13, <2>14, <2>15, <2>16 DEF BuiltSoFar
    <2> QED BY <2>17, <2>p1
  <1> QED BY <1>1, <1>2

LEMMA BuildsAreTyped ==
  ASSUME NEW g, IsLineage(g), NEW s \in BuildStates(g.nodes)
  PROVE  NextBuilt(g, s) \in BuildStates(g.nodes)
  <1>a. PICK V : V = g.nodes
    OBVIOUS
  <1>1. s.out \in Seq(V) /\ s.left \in [V -> Int] /\ s.ready \in Seq(V)
    BY <1>a DEF BuildStates
  <1>2. CASE s.ready = << >>
    BY <1>2 DEF NextBuilt
  <1>3. CASE s.ready # << >>
    <2> DEFINE node == Head(s.ready)
               kids == Children(g, node) \ {node}
               lower == [d \in V |-> IF d \in kids THEN s.left[d] - 1 ELSE s.left[d]]
               fresh == {d \in kids : lower[d] = 0}
               u == Tail(s.ready)
               new == Sorted(fresh)
    <2>1. NextBuilt(g, s) = [out |-> Append(s.out, node), left |-> lower, ready |-> u \o new]
      BY <1>a, <1>3 DEF NextBuilt
    <2>2. node \in V /\ u \in Seq(V)
      BY <1>1, <1>3
    <2> HIDE DEF node, u
    <2>3. kids \subseteq V /\ V \subseteq Nat /\ IsFiniteSet(V)
      BY <1>a DEF IsLineage, Children, OutEdges
    <2>4. Append(s.out, node) \in Seq(V) /\ lower \in [V -> Int]
      BY <1>1, <2>2, SetOfAppend
    <2> HIDE DEF kids, lower
    <2>5. fresh \subseteq V /\ fresh \in SUBSET Nat /\ IsFiniteSet(fresh)
      <3>1. fresh \subseteq V
        BY <2>3
      <3> HIDE DEF fresh
      <3> QED BY <2>3, <3>1, FS_Subset
    <2> HIDE DEF fresh
    <2>6. /\ Cardinality(fresh) \in Nat /\ DOMAIN new = 1 .. Cardinality(fresh) /\ new \in Seq(fresh)
          /\ \A k \in 1 .. Cardinality(fresh) : new[k] \in fresh
      BY <2>5, NamesSorted
    <2> HIDE DEF new
    <2>7. new \in Seq(V)
      <3>1. new \in [1 .. Cardinality(fresh) -> fresh]
        BY <2>6
      <3>2. new \in [1 .. Cardinality(fresh) -> V]
        BY <2>5, <3>1
      <3> QED BY <2>6, <3>2
    <2>8. u \o new \in Seq(V)
      BY <2>2, <2>7, SetOfConcat
    <2> QED BY <1>a, <2>1, <2>4, <2>8 DEF BuildStates
  <1> QED BY <1>2, <1>3

\* The order has every dataset once; up to a place m everyone comes after its inputs, and from there on
\* everyone lacks an input that comes there too.
KahnsOrder(g, order, m) ==
  /\ order \in Seq(g.nodes) /\ Len(order) = Cardinality(g.nodes) /\ m \in 0 .. Len(order)
  /\ ToSet(order) = g.nodes
  /\ \A i, j \in 1 .. Len(order) : order[i] = order[j] => i = j
  /\ \A i \in 1 .. m : \A p \in Parents(g, order[i]) \ {order[i]} : \E j \in 1 .. i - 1 : order[j] = p
  /\ \A i \in m + 1 .. Len(order) : \E p \in Parents(g, order[i]) \ {order[i]} :
        \E j \in m + 1 .. Len(order) : order[j] = p

BuiltFirst(g) ==
  LET degree == [d \in g.nodes |-> InDegree(g, d)]
  IN  [out |-> << >>, left |-> degree, ready |-> Sorted({d \in g.nodes : degree[d] = 0})]

LEMMA BuildingBegins ==
  ASSUME NEW g, IsLineage(g)
  PROVE  BuiltSoFar(g, 0, BuiltFirst(g))
  <1>a. PICK V : V = g.nodes
    OBVIOUS
  <1>1. V \subseteq Nat /\ IsFiniteSet(V)
    BY <1>a DEF IsLineage
  <1>2. ASSUME NEW d \in V
        PROVE  /\ InDegree(g, d) = Cardinality(Lacks(g, d, {})) /\ InDegree(g, d) \in Nat
               /\ InDegree(g, d) = 0 <=> Lacks(g, d, {}) = {}
    <2>1. Lacks(g, d, {}) = Parents(g, d) \ {d}
      BY DEF Lacks
    <2>2. Parents(g, d) \ {d} \subseteq V
      BY <1>a DEF IsLineage, Parents, InEdges
    <2>3. IsFiniteSet(Parents(g, d) \ {d})
      BY <1>1, <2>2, FS_Subset
    <2> QED BY <2>1, <2>3, FS_CardinalityType, FS_EmptySet DEF InDegree
  <1>r. PICK R : R = {d \in V : InDegree(g, d) = 0}
    OBVIOUS
  <1>3. R \subseteq V /\ R \in SUBSET Nat /\ IsFiniteSet(R)
    <2>1. R \subseteq V
      BY <1>r
    <2> QED BY <1>1, <2>1, FS_Subset
  <1>n. PICK new : new = Sorted(R)
    OBVIOUS
  <1>4. /\ Cardinality(R) \in Nat /\ DOMAIN new = 1 .. Cardinality(R) /\ Len(new) = Cardinality(R)
        /\ \A k \in 1 .. Cardinality(R) : new[k] \in R
        /\ \A d \in R : \E k \in 1 .. Cardinality(R) : new[k] = d
        /\ \A k, l \in 1 .. Cardinality(R) : new[k] = new[l] => k = l
        /\ new \in Seq(R)
    BY <1>3, <1>n, NamesSorted
  <1>5. new \in Seq(V) /\ ToSet(new) = R
    <2>1. new \in [1 .. Cardinality(R) -> R]
      BY <1>4
    <2>2. new \in [1 .. Cardinality(R) -> V]
      BY <1>3, <2>1
    <2> QED BY <1>4, <2>2 DEF ToSet
  <1>l. PICK f : f = [d \in V |-> InDegree(g, d)]
    OBVIOUS
  <1>6. f \in [V -> Int]
    BY <1>2, <1>l
  <1>s. PICK s : s = [out |-> << >>, left |-> f, ready |-> new]
    OBVIOUS
  <1>7. s = BuiltFirst(g)
    <2>1. {d \in V : f[d] = 0} = R
      BY <1>l, <1>r
    <2> QED BY <1>a, <1>n, <1>l, <1>s, <2>1 DEF BuiltFirst
  <1>8. << >> \in Seq(V) /\ Len(<< >>) = 0 /\ ToSet(<< >>) = {}
    BY DEF ToSet
  <1>9. s \in BuildStates(V) /\ s.out = << >> /\ s.ready = new /\ s.left = f
    BY <1>5, <1>6, <1>8, <1>s DEF BuildStates
  <1>10. \A d \in V : s.left[d] = Cardinality(Lacks(g, d, {})) /\ (Lacks(g, d, {}) = {} <=> d \in {} \cup R)
    BY <1>2, <1>9, <1>l, <1>r
  <1>11. \A i \in 1 .. 0 : FALSE
    OBVIOUS
  <1>12. Cardinality({}) = 0
    BY FS_EmptySet
  <1>13. BuiltSoFar(g, 0, s)
    BY <1>a, <1>4, <1>5, <1>8, <1>9, <1>10, <1>11, <1>12 DEF BuiltSoFar
  <1> QED BY <1>7, <1>13

LEMMA OrderIsBuilt ==
  ASSUME NEW g, IsLineage(g)
  PROVE  \E s : /\ BuiltSoFar(g, Cardinality(g.nodes), s)
                /\ TopologicalOrder(g) = s.out \o Sorted(g.nodes \ ToSet(s.out))
  <1> DEFINE N == Cardinality(g.nodes)
             U == BuildStates(g.nodes)
             A == BuiltFirst(g)
             F == [p \in (1 .. N) \X U |-> NextBuilt(g, p[2])]
  <1>1. N \in Nat
    BY FS_CardinalityType DEF IsLineage
  <1> HIDE DEF N
  <1>2. A \in U
    BY BuildingBegins DEF BuiltSoFar
  <1>3. F \in [(1 .. N) \X U -> U]
    BY BuildsAreTyped
  <1> HIDE DEF U, A
  <1>4. PICK f \in [0 .. N -> U] : InTurns(f, N, A, F)
    <2> HIDE DEF F
    <2> QED BY <1>1, <1>2, <1>3, TurnsExist
  <1> DEFINE Turns(h) == h = [n \in 0 .. N |-> IF n = 0 THEN A ELSE NextBuilt(g, h[n - 1])]
             taken == CHOOSE h : Turns(h)
  <1>5. TopologicalOrder(g) = taken[N].out \o Sorted(g.nodes \ ToSet(taken[N].out))
    BY DEF TopologicalOrder, NextBuilt, A, BuiltFirst, N
  <1>6. Turns(f)
    <2>1. f \in [0 .. N -> U] /\ f = [n \in 0 .. N |-> IF n = 0 THEN A ELSE F[<<n, f[n - 1]>>]]
      BY <1>4 DEF InTurns
    <2>2. ASSUME NEW n \in 0 .. N, n # 0 PROVE F[<<n, f[n - 1]>>] = NextBuilt(g, f[n - 1])
      <3>1. n \in 1 .. N /\ n - 1 \in 0 .. N
        BY <1>1, <2>2
      <3>2. f[n - 1] \in U
        BY <2>1, <3>1
      <3> QED BY <3>1, <3>2
    <2> HIDE DEF F
    <2> QED BY <2>1, <2>2
  <1>7. Turns(taken)
    <2> HIDE DEF Turns
    <2> QED BY <1>6
  <1> HIDE DEF taken
  <1>8. taken[0] = A /\ \A n \in 0 .. N : n + 1 \in 0 .. N => taken[n + 1] = NextBuilt(g, taken[n])
    <2>1. 0 \in 0 .. N /\ \A n \in 0 .. N : n + 1 # 0 /\ (n + 1) - 1 = n
      BY <1>1
    <2> QED BY <1>7, <2>1
  <1>9. BuiltSoFar(g, N, taken[N])
    <2> DEFINE Q == {n \in 0 .. N : BuiltSoFar(g, n, taken[n])}
    <2>1. 0 \in Q
      BY <1>1, <1>8, BuildingBegins DEF A
    <2>2. ASSUME NEW n \in 0 .. N, n + 1 \in 0 .. N, n \in Q PROVE n + 1 \in Q
      BY <1>8, <2>2, BuildingGoesOn
    <2>3. \A n \in 0 .. N : n \in Q
      <3> HIDE DEF Q
      <3> QED BY <1>1, <2>1, <2>2, UpTo
    <2> QED BY <1>1, <2>3
  <1> QED BY <1>5, <1>9 DEF N

\* The build order.
LEMMA OrderIsKahns ==
  ASSUME NEW g, IsLineage(g)
  PROVE  \E m : KahnsOrder(g, TopologicalOrder(g), m)
  <1>v. PICK V : V = g.nodes
    OBVIOUS
  <1>n. PICK N : N = Cardinality(V)
    OBVIOUS
  <1>s. PICK s : BuiltSoFar(g, N, s) /\ TopologicalOrder(g) = s.out \o Sorted(V \ ToSet(s.out))
    BY <1>v, <1>n, OrderIsBuilt
  <1>b. PICK B : B = ToSet(s.out)
    OBVIOUS
  <1>o. PICK out : out = s.out
    OBVIOUS
  <1>1. /\ out \in Seq(V) /\ s.ready \in Seq(V)
        /\ Len(out) = N \/ s.ready = << >>
        /\ Cardinality(B) = Len(out)
        /\ \A i, j \in 1 .. Len(out) : out[i] = out[j] => i = j
        /\ B \cap ToSet(s.ready) = {}
        /\ \A d \in V : Lacks(g, d, B) = {} <=> d \in B \cup ToSet(s.ready)
        /\ \A i \in 1 .. Len(out) : \A p \in Parents(g, out[i]) \ {out[i]} : \E j \in 1 .. i - 1 : out[j] = p
    <2>1. /\ s.out \in Seq(V) /\ s.ready \in Seq(V)
          /\ Len(s.out) = N \/ s.ready = << >>
          /\ Cardinality(ToSet(s.out)) = Len(s.out)
          /\ \A i, j \in 1 .. Len(s.out) : s.out[i] = s.out[j] => i = j
          /\ ToSet(s.out) \cap ToSet(s.ready) = {}
          /\ \A d \in V : Lacks(g, d, ToSet(s.out)) = {} <=> d \in ToSet(s.out) \cup ToSet(s.ready)
          /\ \A i \in 1 .. Len(s.out) : \A p \in Parents(g, s.out[i]) \ {s.out[i]} : \E j \in 1 .. i - 1 : s.out[j] = p
      BY <1>v, <1>s DEF BuiltSoFar, BuildStates
    <2> QED BY <1>b, <1>o, <2>1
  <1>2. Len(out) \in Nat /\ B = {out[i] : i \in 1 .. Len(out)} /\ B \subseteq V
    BY <1>1, <1>b, <1>o DEF ToSet
  <1>3. V \subseteq Nat /\ IsFiniteSet(V) /\ N \in Nat
    BY <1>v, <1>n, FS_CardinalityType DEF IsLineage
  <1>4. ToSet(s.ready) = {}
    <2>1. CASE s.ready = << >>
      BY <2>1 DEF ToSet
    <2>2. CASE Len(out) = N
      <3>1. B = V
        BY <1>1, <1>2, <1>3, <1>n, <2>2, FS_Subset
      <3>2. ToSet(s.ready) \subseteq V
        BY <1>1 DEF ToSet
      <3> QED BY <1>1, <3>1, <3>2
    <2> QED BY <1>1, <2>1, <2>2
  <1>r. PICK R : R = V \ B
    OBVIOUS
  <1>t. PICK rest : rest = Sorted(R)
    OBVIOUS
  <1>5. R \in SUBSET Nat /\ R \subseteq V /\ IsFiniteSet(R)
    BY <1>3, <1>r, FS_Subset
  <1>6. /\ Cardinality(R) \in Nat /\ rest \in Seq(R) /\ Len(rest) = Cardinality(R) /\ DOMAIN rest = 1 .. Cardinality(R)
        /\ \A k \in 1 .. Cardinality(R) : rest[k] \in R
        /\ \A d \in R : \E k \in 1 .. Cardinality(R) : rest[k] = d
        /\ \A k, l \in 1 .. Cardinality(R) : rest[k] = rest[l] => k = l
    BY <1>5, <1>t, NamesSorted
  <1>7. rest \in Seq(V) /\ ToSet(rest) = R
    <2>1. rest \in [1 .. Cardinality(R) -> R]
      BY <1>6
    <2>2. rest \in [1 .. Cardinality(R) -> V]
      BY <1>5, <2>1
    <2> QED BY <1>6, <2>2 DEF ToSet
  <1>8. Len(out) + Len(rest) = N
    <2>1. V = B \cup R /\ B \cap R = {} /\ IsFiniteSet(B)
      BY <1>2, <1>3, <1>r, FS_Subset
    <2>2. Cardinality(B \cup R) = Cardinality(B) + Cardinality(R) - Cardinality(B \cap R)
      BY <1>5, <2>1, FS_Union
    <2>3. Cardinality(B \cap R) = 0
      BY <2>1, FS_EmptySet
    <2>4. Cardinality(B \cup R) = N /\ Cardinality(B) = Len(out) /\ Cardinality(R) = Len(rest)
      BY <1>1, <1>6, <1>n, <2>1
    <2>5. N = Len(out) + Len(rest) - 0
      BY <2>2, <2>3, <2>4
    <2>6. Len(out) \in Nat /\ Len(rest) \in Nat
      BY <1>2, <1>6
    <2> QED BY <2>5, <2>6
  <1>q. PICK order : order = out \o rest
    OBVIOUS
  <1>9. /\ order \in Seq(V) /\ Len(order) = Len(out) + Len(rest)
        /\ \A i \in 1 .. Len(out) : order[i] = out[i]
        /\ \A i \in 1 .. Len(rest) : order[Len(out) + i] = rest[i]
        /\ \A i \in 1 .. Len(out) + Len(rest) : i \in 1 .. Len(out) \/ \E j \in 1 .. Len(rest) : i = Len(out) + j
        /\ ToSet(order) = ToSet(out) \cup ToSet(rest)
    BY <1>1, <1>7, <1>q, SetOfConcat
  <1>10. ToSet(order) = V
    BY <1>2, <1>7, <1>9, <1>b, <1>o, <1>r
  <1>11. ASSUME NEW i \in 1 .. Len(order), NEW j \in 1 .. Len(order), order[i] = order[j] PROVE i = j
    <2>1. \A k \in 1 .. Len(out) : order[k] \in B
      BY <1>2, <1>9
    <2>2. \A k \in 1 .. Len(rest) : order[Len(out) + k] \in R
      BY <1>6, <1>9
    <2>3. \A k, l \in 1 .. Len(rest) : order[Len(out) + k] = order[Len(out) + l] => k = l
      BY <1>6, <1>9
    <2>4. \A k, l \in 1 .. Len(out) : order[k] = order[l] => k = l
      BY <1>1, <1>9
    <2>5. i \in 1 .. Len(out) \/ \E k \in 1 .. Len(rest) : i = Len(out) + k
      BY <1>9
    <2>6. j \in 1 .. Len(out) \/ \E k \in 1 .. Len(rest) : j = Len(out) + k
      BY <1>9
    <2> QED BY <1>11, <1>r, <2>1, <2>2, <2>3, <2>4, <2>5, <2>6
  <1>12. ASSUME NEW i \in 1 .. Len(out), NEW p \in Parents(g, order[i]) \ {order[i]}
         PROVE  \E j \in 1 .. i - 1 : order[j] = p
    <2>1. PICK j \in 1 .. i - 1 : out[j] = p
      BY <1>1, <1>9
    <2>2. j \in 1 .. Len(out)
      BY <1>2
    <2> QED BY <1>9, <2>1, <2>2
  <1>13. ASSUME NEW i \in Len(out) + 1 .. Len(order)
         PROVE  \E p \in Parents(g, order[i]) \ {order[i]} : \E j \in Len(out) + 1 .. Len(order) : order[j] = p
    <2>1. i \in 1 .. Len(out) + Len(rest) /\ i \notin 1 .. Len(out)
      BY <1>2, <1>6, <1>9
    <2>2. PICK k \in 1 .. Len(rest) : i = Len(out) + k
      BY <1>9, <2>1
    <2>3. order[i] \in R
      BY <1>6, <1>9, <2>2
    <2>4. order[i] \in V /\ Lacks(g, order[i], B) # {}
      BY <1>1, <1>4, <1>r, <2>3
    <2>5. PICK p \in Parents(g, order[i]) \ {order[i]} : p \notin B
      BY <2>4 DEF Lacks
    <2>6. p \in R
      <3>1. Parents(g, order[i]) \subseteq V
        BY <1>v DEF IsLineage, Parents, InEdges
      <3> QED BY <1>r, <2>5, <3>1
    <2>7. PICK l \in 1 .. Len(rest) : rest[l] = p
      BY <1>6, <2>6
    <2>8. Len(out) + l \in Len(out) + 1 .. Len(order) /\ order[Len(out) + l] = p
      BY <1>2, <1>6, <1>9, <2>7
    <2> QED BY <2>5, <2>8
  <1>14. Len(out) \in 0 .. Len(order)
    BY <1>2, <1>6, <1>9
  <1>15. order = TopologicalOrder(g)
    BY <1>s, <1>b, <1>o, <1>r, <1>t, <1>q
  <1>16. KahnsOrder(g, order, Len(out))
    BY <1>v, <1>n, <1>8, <1>9, <1>10, <1>11, <1>12, <1>13, <1>14 DEF KahnsOrder
  <1> QED BY <1>15, <1>16

\* Where everyone has another above it, two of several are above each other.
LEMMA HeldBackByACycle ==
  ASSUME NEW g, IsLineage(g), NEW A \in SUBSET g.nodes, A # {},
         \A x \in A : \E p \in Parents(g, x) \ {x} : p \in A
  PROVE  \E c \in Cycles(g) : Cardinality(c) > 1 /\ c \cap A # {}
  <1>v. PICK V : V = g.nodes
    OBVIOUS
  <1>0. V \subseteq Nat /\ IsFiniteSet(V)
    BY <1>v DEF IsLineage
  <1> DEFINE size(x) == Cardinality(Closure(g, x))
             T == {size(x) : x \in A}
  <1>1. \A x \in A : x \in V /\ Closure(g, x) \subseteq V /\ Ancestors(g, x) \subseteq V
    BY <1>v, AncestorsAndDescendants DEF Closure
  <1>2. \A x \in A : IsFiniteSet(Closure(g, x)) /\ size(x) \in Nat
    BY <1>0, <1>1, FS_Subset, FS_CardinalityType
  <1>3. PICK n \in T : \A m \in T : n <= m
    <2>1. T \in SUBSET Nat /\ T # {}
      BY <1>2
    <2> HIDE DEF T
    <2> QED BY <2>1, LeastNumber
  <1>4. PICK x \in A : \A y \in A : size(x) <= size(y)
    BY <1>3
  <1>5. PICK y \in A : y \in Parents(g, x) /\ y # x
    OBVIOUS
  <1>6. /\ \A c \in g.nodes : \A a \in Closure(g, c) : a \in g.nodes /\ Closure(g, a) \subseteq Closure(g, c)
        /\ \A b, c \in g.nodes : c \in Ancestors(g, b) <=> b \in Descendants(g, c)
        /\ \A b \in g.nodes : Parents(g, b) \subseteq Ancestors(g, b)
        /\ \A b \in g.nodes : \A c \in Ancestors(g, b) : Ancestors(g, c) \subseteq Ancestors(g, b)
    BY AncestorsAndDescendants, WalksAgree
  <1>7. y \in Ancestors(g, x)
    BY <1>1, <1>5, <1>6, <1>v
  <1>8. Closure(g, y) \subseteq Closure(g, x)
    BY <1>1, <1>6, <1>7, <1>v DEF Closure
  <1>9. Closure(g, y) = Closure(g, x)
    <2>1. Cardinality(Closure(g, y)) <= Cardinality(Closure(g, x))
          /\ (Cardinality(Closure(g, y)) = Cardinality(Closure(g, x)) => Closure(g, y) = Closure(g, x))
      BY <1>2, <1>8, FS_Subset
    <2> QED BY <1>2, <1>4, <2>1
  <1>10. x \in Ancestors(g, y)
    BY <1>5, <1>9 DEF Closure
  <1>11. x \in Ancestors(g, x) /\ y \in Ancestors(g, y)
    BY <1>1, <1>6, <1>7, <1>10, <1>v
  <1>k. PICK c : c = {e \in V : HasPath(g, x, e) /\ HasPath(g, e, x)}
    OBVIOUS
  <1>12. x \in c /\ y \in c /\ c \subseteq V
    BY <1>1, <1>6, <1>7, <1>10, <1>11, <1>k, <1>v DEF HasPath
  <1>13. Cardinality(c) > 1
    <2>1. IsFiniteSet(c) /\ IsFiniteSet({x, y})
      BY <1>0, <1>12, FS_Subset
    <2>2. Cardinality({x}) = 1 /\ IsFiniteSet({x})
      BY FS_Singleton
    <2>3. Cardinality({x} \cup {y}) = 1 + 1
      <3>1. y \notin {x}
        BY <1>5
      <3>2. Cardinality({x} \cup {y}) = Cardinality({x}) + 1
        BY ONLY <2>2, <3>1, FS_AddElement
      <3> QED BY ONLY <2>2, <3>2
    <2>4. {x} \cup {y} \subseteq c
      BY <1>12
    <2>5. Cardinality({x} \cup {y}) <= Cardinality(c) /\ Cardinality(c) \in Nat
      BY <2>1, <2>4, FS_Subset, FS_CardinalityType
    <2> QED
      BY ONLY <2>3, <2>5
  <1>14. c \in Cycles(g)
    <2> DEFINE knot(z) == {e \in g.nodes : HasPath(g, z, e) /\ HasPath(g, e, z)}
    <2>1. c = knot(x) /\ x \in g.nodes /\ Cardinality(knot(x)) > 1
      BY <1>1, <1>13, <1>k, <1>v
    <2>2. Cycles(g) = {knot(d) : d \in {z \in g.nodes : Cardinality(knot(z)) > 1}}
                        \cup {{d} : d \in {z \in g.nodes : z \in Children(g, z)}}
      BY DEF Cycles
    <2> HIDE DEF knot
    <2> QED BY <2>1, <2>2
  <1> QED BY <1>12, <1>13, <1>14

\* What is above a dataset off the cycles is off them, and a dataset off the cycles comes after its
\* inputs.
LEMMA OffTheCycles ==
  ASSUME NEW g, IsLineage(g), NEW order, NEW m, KahnsOrder(g, order, m), NEW i \in 1 .. Len(order),
         ~Twisted(g, order[i])
  PROVE  /\ \A a \in Closure(g, order[i]) : ~Twisted(g, a)
         /\ i \in 1 .. m
         /\ \A p \in Parents(g, order[i]) \ {order[i]} : \E j \in 1 .. i - 1 : order[j] = p
  <1>v. PICK V : V = g.nodes
    OBVIOUS
  <1>d. PICK d : d = order[i]
    OBVIOUS
  <1>1. /\ order \in Seq(V) /\ m \in 0 .. Len(order) /\ ToSet(order) = V
        /\ \A k \in 1 .. m : \A p \in Parents(g, order[k]) \ {order[k]} : \E j \in 1 .. k - 1 : order[j] = p
        /\ \A k \in m + 1 .. Len(order) : \E p \in Parents(g, order[k]) \ {order[k]} :
              \E j \in m + 1 .. Len(order) : order[j] = p
    BY <1>v DEF KahnsOrder
  <1>2. Len(order) \in Nat /\ m \in Nat /\ d \in V /\ \A k \in 1 .. Len(order) : order[k] \in V
    BY <1>1, <1>d
  <1>3. /\ \A c \in V : \A a \in Closure(g, c) : a \in V /\ Closure(g, a) \subseteq Closure(g, c)
        /\ \A c \in V : Parents(g, c) \subseteq Ancestors(g, c)
    BY <1>v, AncestorsAndDescendants, WalksAgree
  <1>4. \A a \in Closure(g, d) : ~Twisted(g, a)
    <2> TAKE a \in Closure(g, d)
    <2>1. Closure(g, a) \subseteq Closure(g, d)
      BY <1>2, <1>3
    <2> QED BY <1>d, <2>1 DEF Twisted
  <1>5. i \in 1 .. m
    <2> SUFFICES ASSUME i \notin 1 .. m PROVE FALSE
      OBVIOUS
    <2>a. PICK A : A = {x \in Closure(g, d) : \E k \in m + 1 .. Len(order) : order[k] = x}
      OBVIOUS
    <2>1. d \in A
      <3>1. i \in m + 1 .. Len(order)
        BY <1>2
      <3> QED BY <1>d, <2>a, <3>1 DEF Closure
    <2>2. A \in SUBSET g.nodes
      BY <1>2, <1>3, <1>v, <2>a
    <2>3. ASSUME NEW x \in A PROVE \E p \in Parents(g, x) \ {x} : p \in A
      <3>1. PICK k \in m + 1 .. Len(order) : order[k] = x
        BY <2>a
      <3>2. PICK p \in Parents(g, x) \ {x} : \E j \in m + 1 .. Len(order) : order[j] = p
        BY <1>1, <3>1
      <3>3. x \in Closure(g, d) /\ x \in V
        BY <1>2, <1>3, <2>a
      <3>4. p \in Closure(g, x)
        BY <1>3, <3>3 DEF Closure
      <3>5. p \in Closure(g, d)
        BY <1>2, <1>3, <3>3, <3>4
      <3> QED BY <2>a, <3>2, <3>5
    <2>4. PICK c \in Cycles(g) : Cardinality(c) > 1 /\ c \cap A # {}
      BY <2>1, <2>2, <2>3, HeldBackByACycle
    <2>5. c \cap Closure(g, d) # {}
      BY <2>4, <2>a
    <2> QED BY <1>d, <2>4, <2>5 DEF Twisted
  <1>6. \A p \in Parents(g, d) \ {d} : \E j \in 1 .. i - 1 : order[j] = p
    BY <1>1, <1>5, <1>d
  <1> QED BY <1>d, <1>4, <1>5, <1>6

(***************************************************************************)
(* What flows down: graph/query.py, fold_downstream.                       *)
(***************************************************************************)
Partials(V, T) == UNION {[D -> T] : D \in SUBSET V}

\* What a dataset is given: what its inputs had when its turn came, and its own.
SeedOf(seeds, d) == {seeds[x] : x \in {d} \cap DOMAIN seeds}
Given(g, d, done, seeds) == {done[p] : p \in Parents(g, d) \cap DOMAIN done} \cup SeedOf(seeds, d)
FlowTurn(g, J, seeds, d, done) ==
  [x \in DOMAIN done \cup {d} |-> IF x # d THEN done[x] ELSE J[Given(g, d, done, seeds)]]

LEMMA PartialsAre ==
  ASSUME NEW V, NEW T, NEW f
  PROVE  f \in Partials(V, T) <=> f = [x \in DOMAIN f |-> f[x]] /\ DOMAIN f \subseteq V /\ \A x \in DOMAIN f : f[x] \in T
  <1>1. ASSUME f \in Partials(V, T)
        PROVE  f = [x \in DOMAIN f |-> f[x]] /\ DOMAIN f \subseteq V /\ \A x \in DOMAIN f : f[x] \in T
    <2>1. PICK D \in SUBSET V : f \in [D -> T]
      BY <1>1 DEF Partials
    <2> QED BY <2>1
  <1>2. ASSUME f = [x \in DOMAIN f |-> f[x]], DOMAIN f \subseteq V, \A x \in DOMAIN f : f[x] \in T
        PROVE  f \in Partials(V, T)
    <2>1. f \in [DOMAIN f -> T]
      BY <1>2
    <2>2. DOMAIN f \in SUBSET V
      BY <1>2
    <2> QED BY <2>1, <2>2 DEF Partials
  <1> QED BY <1>1, <1>2

LEMMA PartialsGrow ==
  ASSUME NEW V, NEW T, NEW f \in Partials(V, T), NEW d \in V, NEW t \in T
  PROVE  [x \in DOMAIN f \cup {d} |-> IF x = d THEN t ELSE f[x]] \in Partials(V, T)
  <1>h. PICK h : h = [x \in DOMAIN f \cup {d} |-> IF x = d THEN t ELSE f[x]]
    OBVIOUS
  <1>1. DOMAIN f \subseteq V /\ \A x \in DOMAIN f : f[x] \in T
    BY PartialsAre
  <1>2. h = [x \in DOMAIN h |-> h[x]] /\ DOMAIN h \subseteq V /\ \A x \in DOMAIN h : h[x] \in T
    BY <1>1, <1>h
  <1> QED BY <1>2, <1>h, PartialsAre

LEMMA ContributionsAre ==
  ASSUME NEW g, IsLineage(g), NEW T, NEW done \in Partials(g.nodes, T), NEW seeds \in Partials(g.nodes, T), NEW d
  PROVE  /\ Contributions(g, d, done, seeds) \in Seq(T)
         /\ ToSet(Contributions(g, d, done, seeds)) = Given(g, d, done, seeds)
  <1>p. PICK P : P = Parents(g, d) \cap DOMAIN done
    OBVIOUS
  <1>s. PICK from1 : from1 = Sorted(P)
    OBVIOUS
  <1>1. /\ DOMAIN done \subseteq g.nodes /\ \A x \in DOMAIN done : done[x] \in T
        /\ \A x \in DOMAIN seeds : seeds[x] \in T
    BY PartialsAre
  <1>2. P \in SUBSET Nat /\ IsFiniteSet(P)
    BY <1>1, <1>p, FS_Subset DEF IsLineage
  <1>3. /\ Cardinality(P) \in Nat /\ DOMAIN from1 = 1 .. Cardinality(P)
        /\ \A n \in 1 .. Cardinality(P) : from1[n] \in P
        /\ \A x \in P : \E n \in 1 .. Cardinality(P) : from1[n] = x
    BY <1>2, <1>s, NamesSorted
  <1>a. PICK a : a = [j \in DOMAIN from1 |-> done[from1[j]]]
    OBVIOUS
  <1>4. a \in [1 .. Cardinality(P) -> T]
    BY <1>1, <1>3, <1>a, <1>p
  <1>5. a \in Seq(T) /\ ToSet(a) = {done[p] : p \in P}
    <2>1. a \in Seq(T) /\ DOMAIN a = 1 .. Cardinality(P)
      BY <1>3, <1>4
    <2>2. \A n \in 1 .. Cardinality(P) : a[n] = done[from1[n]]
      BY <1>3, <1>a
    <2> QED BY <1>3, <2>1, <2>2 DEF ToSet
  <1>b. PICK b : b = IF d \in DOMAIN seeds THEN <<seeds[d]>> ELSE << >>
    OBVIOUS
  <1>6. b \in Seq(T) /\ ToSet(b) = SeedOf(seeds, d)
    <2>1. CASE d \in DOMAIN seeds
      <3>1. b = <<seeds[d]>> /\ {d} \cap DOMAIN seeds = {d}
        BY <1>b, <2>1
      <3>2. DOMAIN b = {1} /\ b[1] = seeds[d] /\ seeds[d] \in T
        BY <1>1, <2>1, <3>1
      <3>3. b \in Seq(T)
        BY <3>1, <3>2
      <3> QED BY <3>1, <3>2, <3>3 DEF ToSet, SeedOf
    <2>2. CASE d \notin DOMAIN seeds
      BY <1>b, <2>2 DEF ToSet, SeedOf
    <2> QED BY <2>1, <2>2
  <1>7. a \o b \in Seq(T) /\ ToSet(a \o b) = ToSet(a) \cup ToSet(b)
    BY <1>5, <1>6, SetOfConcat
  <1>8. Contributions(g, d, done, seeds) = a \o b
    BY <1>p, <1>s, <1>a, <1>b DEF Contributions
  <1> QED BY <1>5, <1>6, <1>7, <1>8, <1>p DEF Given

\* Combining two by two what is given, in order, is joining it.
Joins(T, C, J) ==
  /\ C \in [T \X T -> T] /\ J \in [SUBSET T -> T]
  /\ \A t \in T : J[{t}] = t
  /\ \A S \in SUBSET T, t \in T : S # {} => J[S \cup {t}] = C[<<J[S], t>>]

FirstOnes(vs, j) == {vs[i] : i \in 1 .. j}
CombinedIn(k, C, vs) == k[1] = vs[1] /\ \A j \in 2 .. Len(vs) : k[j] = C[<<k[j - 1], vs[j]>>]

LEMMA JoinedInTurn ==
  ASSUME NEW T, NEW C, NEW J, Joins(T, C, J), NEW vs \in Seq(T), vs # << >>
  PROVE  \E k \in [1 .. Len(vs) -> T] : CombinedIn(k, C, vs) /\ k[Len(vs)] = J[ToSet(vs)]
  <1>n. PICK n : n = Len(vs)
    OBVIOUS
  <1>1. n \in Nat /\ n >= 1 /\ \A i \in 1 .. n : vs[i] \in T
    BY <1>n
  <1>k. PICK k : k = [j \in 1 .. n |-> J[FirstOnes(vs, j)]]
    OBVIOUS
  <1>2. \A j \in 1 .. n : FirstOnes(vs, j) \in SUBSET T /\ FirstOnes(vs, j) # {}
    <2> TAKE j \in 1 .. n
    <2>1. \A i \in 1 .. j : i \in 1 .. n
      BY <1>1
    <2>2. 1 \in 1 .. j
      BY <1>1
    <2> QED BY <1>1, <2>1, <2>2 DEF FirstOnes
  <1>3. k \in [1 .. n -> T]
    BY <1>2, <1>k DEF Joins
  <1>4. k[1] = vs[1]
    <2>1. FirstOnes(vs, 1) = {vs[1]} /\ 1 \in 1 .. n
      BY <1>1 DEF FirstOnes
    <2> QED BY <1>1, <1>k, <2>1 DEF Joins
  <1>5. ASSUME NEW j \in 2 .. n PROVE k[j] = C[<<k[j - 1], vs[j]>>]
    <2>1. j \in 1 .. n /\ j - 1 \in 1 .. n /\ 1 .. j = (1 .. j - 1) \cup {j}
      BY <1>1
    <2>2. FirstOnes(vs, j) = FirstOnes(vs, j - 1) \cup {vs[j]}
      BY <2>1 DEF FirstOnes
    <2>3. vs[j] \in T /\ FirstOnes(vs, j - 1) \in SUBSET T /\ FirstOnes(vs, j - 1) # {}
      BY <1>1, <1>2, <2>1
    <2>4. J[FirstOnes(vs, j - 1) \cup {vs[j]}] = C[<<J[FirstOnes(vs, j - 1)], vs[j]>>]
      BY <2>3 DEF Joins
    <2> QED BY <1>k, <2>1, <2>2, <2>4
  <1>6. FirstOnes(vs, n) = ToSet(vs)
    BY <1>n DEF FirstOnes, ToSet
  <1>7. k[n] = J[ToSet(vs)]
    BY <1>1, <1>6, <1>k
  <1> QED BY <1>3, <1>4, <1>5, <1>7, <1>n DEF CombinedIn

\* What is to be carried down: each dataset joins what its inputs before it had and its own.
GivenAt(g, order, seeds, h, j) ==
  {h[p] : p \in Parents(g, order[j]) \cap FirstOnes(order, j - 1)} \cup SeedOf(seeds, order[j])
IsFlow(g, J, seeds, order, n, h) ==
  /\ DOMAIN h = FirstOnes(order, n)
  /\ \A j \in 1 .. n : h[order[j]] = J[GivenAt(g, order, seeds, h, j)]
FlowsIn(f, g, J, seeds, order) ==
  f[0] = << >> /\ \A i \in 1 .. Len(order) : f[i] = FlowTurn(g, J, seeds, order[i], f[i - 1])

LEMMA FlowTurnIs ==
  ASSUME NEW g, IsLineage(g), NEW T, NEW J \in [SUBSET T -> T], NEW seeds \in Partials(g.nodes, T), NEW d \in g.nodes,
         NEW done \in Partials(g.nodes, T)
  PROVE  /\ Given(g, d, done, seeds) \in SUBSET T
         /\ FlowTurn(g, J, seeds, d, done) \in Partials(g.nodes, T)
  <1>1. /\ DOMAIN done \subseteq g.nodes /\ \A x \in DOMAIN done : done[x] \in T
        /\ \A x \in DOMAIN seeds : seeds[x] \in T
    BY PartialsAre
  <1>2. Given(g, d, done, seeds) \in SUBSET T
    BY <1>1 DEF Given, SeedOf
  <1>v. PICK v \in T : v = J[Given(g, d, done, seeds)]
    BY <1>2
  <1>3. FlowTurn(g, J, seeds, d, done) \in [DOMAIN done \cup {d} -> T]
    BY <1>1, <1>v DEF FlowTurn
  <1>4. DOMAIN done \cup {d} \in SUBSET g.nodes
    BY <1>1
  <1> QED BY <1>2, <1>3, <1>4 DEF Partials

LEMMA FlowsExist ==
  ASSUME NEW g, IsLineage(g), NEW T, NEW J \in [SUBSET T -> T], NEW seeds \in Partials(g.nodes, T),
         NEW order \in Seq(g.nodes), \A i, j \in 1 .. Len(order) : order[i] = order[j] => i = j
  PROVE  \E f \in [0 .. Len(order) -> Partials(g.nodes, T)] :
           FlowsIn(f, g, J, seeds, order) /\ IsFlow(g, J, seeds, order, Len(order), f[Len(order)])
  <1>n. PICK N : N = Len(order)
    OBVIOUS
  <1>u. PICK U : U = Partials(g.nodes, T)
    OBVIOUS
  <1>1. N \in Nat /\ \A i \in 1 .. N : order[i] \in g.nodes
    BY <1>n
  <1>2. << >> \in U
    <2>1. << >> \in [{} -> T]
      OBVIOUS
    <2> QED BY <1>u, <2>1 DEF Partials
  <1>t. PICK F : F = [p \in (1 .. N) \X U |-> FlowTurn(g, J, seeds, order[p[1]], p[2])]
    OBVIOUS
  <1>3. F \in [(1 .. N) \X U -> U]
    <2>1. \A p \in (1 .. N) \X U : FlowTurn(g, J, seeds, order[p[1]], p[2]) \in U
      BY <1>1, <1>u, FlowTurnIs
    <2> QED BY <1>t, <2>1
  <1>4. PICK f \in [0 .. N -> U] : InTurns(f, N, << >>, F)
    BY <1>1, <1>2, <1>3, TurnsExist
  <1>5. f[0] = << >> /\ \A i \in 1 .. N : i - 1 \in 0 .. N /\ i \in 0 .. N /\ f[i] = FlowTurn(g, J, seeds, order[i], f[i - 1])
    <2>1. f = [n \in 0 .. N |-> IF n = 0 THEN << >> ELSE F[<<n, f[n - 1]>>]]
      BY <1>4 DEF InTurns
    <2>2. f[0] = << >>
      BY <1>1, <2>1
    <2>3. ASSUME NEW i \in 1 .. N PROVE i - 1 \in 0 .. N /\ i \in 0 .. N /\ f[i] = FlowTurn(g, J, seeds, order[i], f[i - 1])
      <3>1. i - 1 \in 0 .. N /\ i \in 0 .. N /\ i # 0
        BY <1>1
      <3>2. f[i] = F[<<i, f[i - 1]>>]
        BY <2>1, <3>1
      <3>3. f[i - 1] \in U
        BY <1>4, <3>1
      <3>4. <<i, f[i - 1]>> \in (1 .. N) \X U
        BY <3>3
      <3>5. F[<<i, f[i - 1]>>] = FlowTurn(g, J, seeds, order[i], f[i - 1])
        BY <1>t, <3>4
      <3> QED BY <3>1, <3>2, <3>5
    <2> QED BY <2>2, <2>3
  <1> DEFINE Q == {n \in 0 .. N : IsFlow(g, J, seeds, order, n, f[n])}
  <1>6. 0 \in Q
    <2>1. FirstOnes(order, 0) = {} /\ 0 \in 0 .. N /\ \A j \in 1 .. 0 : FALSE
      BY <1>1 DEF FirstOnes
    <2>2. DOMAIN << >> = {}
      OBVIOUS
    <2>3. IsFlow(g, J, seeds, order, 0, << >>)
      BY <2>1, <2>2 DEF IsFlow
    <2> QED BY <1>5, <2>1, <2>3
  <1>7. ASSUME NEW n \in 0 .. N, n + 1 \in 0 .. N, n \in Q PROVE n + 1 \in Q
    <2>h. PICK h : h = f[n]
      OBVIOUS
    <2>e. PICK e : e = f[n + 1]
      OBVIOUS
    <2>d. PICK d : d = order[n + 1]
      OBVIOUS
    <2>1. n + 1 \in 1 .. N /\ (n + 1) - 1 = n /\ n \in Nat
      BY <1>1, <1>7
    <2>2. e = [x \in DOMAIN h \cup {d} |-> IF x # d THEN h[x] ELSE J[Given(g, d, h, seeds)]]
      <3>1. f[n + 1] = FlowTurn(g, J, seeds, order[n + 1], f[(n + 1) - 1])
        BY <1>5, <2>1
      <3>2. e = FlowTurn(g, J, seeds, d, h)
        BY <2>1, <2>h, <2>e, <2>d, <3>1
      <3> QED BY <3>2 DEF FlowTurn
    <2>3. DOMAIN h = FirstOnes(order, n) /\ \A j \in 1 .. n : h[order[j]] = J[GivenAt(g, order, seeds, h, j)]
      BY <1>7, <2>h DEF IsFlow
    <2>4. FirstOnes(order, n + 1) = FirstOnes(order, n) \cup {d}
      <3>1. 1 .. n + 1 = (1 .. n) \cup {n + 1}
        BY <2>1
      <3> QED BY <2>d, <3>1 DEF FirstOnes
    <2>5. d \notin FirstOnes(order, n)
      <3>1. ASSUME NEW i \in 1 .. n PROVE order[i] # d
        <4>1. i \in 1 .. N /\ i # n + 1
          BY <1>1, <1>7
        <4> QED BY <2>1, <2>d, <4>1, <1>n
      <3> QED BY <3>1 DEF FirstOnes
    <2>6. DOMAIN e = FirstOnes(order, n + 1)
      BY <2>2, <2>3, <2>4
    <2>7. \A x \in FirstOnes(order, n) : e[x] = h[x]
      BY <2>2, <2>3, <2>5
    <2>8. ASSUME NEW j \in 1 .. n + 1 PROVE GivenAt(g, order, seeds, e, j) = GivenAt(g, order, seeds, h, j)
      <3>1. FirstOnes(order, j - 1) \subseteq FirstOnes(order, n)
        <4>1. \A i \in 1 .. j - 1 : i \in 1 .. n
          BY <2>1
        <4> QED BY <4>1 DEF FirstOnes
      <3> QED BY <2>7, <3>1 DEF GivenAt
    <2>9. ASSUME NEW j \in 1 .. n + 1 PROVE e[order[j]] = J[GivenAt(g, order, seeds, e, j)]
      <3>1. CASE j = n + 1
        <4>1. e[d] = J[Given(g, d, h, seeds)]
          BY <2>2
        <4>2. GivenAt(g, order, seeds, h, n + 1) = Given(g, d, h, seeds)
          BY <2>1, <2>3, <2>d DEF Given, GivenAt
        <4> QED BY <2>8, <2>d, <3>1, <4>1, <4>2
      <3>2. CASE j # n + 1
        <4>1. j \in 1 .. n
          BY <2>1, <3>2
        <4>2. order[j] \in FirstOnes(order, n)
          BY <4>1 DEF FirstOnes
        <4> QED BY <2>3, <2>7, <2>8, <4>1, <4>2
      <3> QED BY <3>1, <3>2
    <2>10. IsFlow(g, J, seeds, order, n + 1, e)
      BY <2>6, <2>9 DEF IsFlow
    <2> QED BY <1>7, <2>10, <2>e
  <1>8. \A n \in 0 .. N : n \in Q
    <2> HIDE DEF Q
    <2> QED BY <1>1, <1>6, <1>7, UpTo
  <1>9. N \in Q
    BY <1>1, <1>8
  <1> QED BY <1>4, <1>5, <1>9, <1>n, <1>u DEF FlowsIn

\* What is above a dataset is above its inputs.
LEMMA ClosureByInputs ==
  ASSUME NEW g, IsLineage(g), NEW d \in g.nodes
  PROVE  /\ Closure(g, d) = {d} \cup UNION {Closure(g, q) : q \in Parents(g, d) \ {d}}
         /\ Closure(g, d) \subseteq g.nodes /\ Parents(g, d) \subseteq Closure(g, d) /\ Parents(g, d) \subseteq g.nodes
  <1>c. PICK C : C = {d} \cup UNION {Closure(g, q) : q \in Parents(g, d) \ {d}}
    OBVIOUS
  <1>1. /\ \A c \in g.nodes : \A a \in Closure(g, c) : a \in g.nodes /\ Closure(g, a) \subseteq Closure(g, c)
        /\ \A c \in g.nodes : Parents(g, c) \subseteq Ancestors(g, c)
    BY AncestorsAndDescendants, WalksAgree
  <1>2. \A c \in g.nodes : c \in Closure(g, c) /\ Parents(g, c) \subseteq Closure(g, c)
    BY <1>1 DEF Closure
  <1>3. \A q \in Parents(g, d) \ {d} : q \in g.nodes /\ Closure(g, q) \subseteq Closure(g, d)
    BY <1>1, <1>2
  <1>4. C \subseteq Closure(g, d)
    BY <1>2, <1>3, <1>c
  <1>5. ASSUME NEW x \in C PROVE Parents(g, x) \subseteq C
    <2>1. CASE x = d
      <3> SUFFICES ASSUME NEW y \in Parents(g, x) PROVE y \in C
        OBVIOUS
      <3>1. CASE y = d
        BY <1>c, <3>1
      <3>2. CASE y # d
        <4>1. y \in Parents(g, d) \ {d} /\ y \in Closure(g, y)
          BY <1>2, <1>3, <2>1, <3>2
        <4> QED BY <1>c, <4>1
      <3> QED BY <3>1, <3>2
    <2>2. CASE x # d
      <3>1. PICK q \in Parents(g, d) \ {d} : x \in Closure(g, q)
        BY <1>5, <1>c, <2>2
      <3>2. x \in g.nodes /\ Closure(g, x) \subseteq Closure(g, q)
        BY <1>1, <1>3, <3>1
      <3>3. Parents(g, x) \subseteq Closure(g, q)
        BY <1>2, <3>2
      <3> QED BY <1>c, <3>1, <3>3
    <2> QED BY <2>1, <2>2
  <1>6. d \in C /\ C \in SUBSET g.nodes
    <2>1. d \in C
      BY <1>c
    <2> QED BY <1>1, <1>4, <2>1
  <1>7. Steps(g, {d}, FALSE) \subseteq C /\ Steps(g, C, FALSE) \subseteq C
    BY <1>5, <1>6 DEF Steps
  <1>8. Ancestors(g, d) \subseteq C
    <2>1. FindsAll(g, d, FALSE, Ancestors(g, d))
      BY WalkFindsAll DEF Ancestors, MaxDepth
    <2> QED BY <1>6, <1>7, <2>1 DEF FindsAll
  <1>9. Closure(g, d) \subseteq C
    BY <1>6, <1>8 DEF Closure
  <1>10. Closure(g, d) \subseteq g.nodes /\ Parents(g, d) \subseteq Closure(g, d)
    BY <1>1, <1>2
  <1> QED BY <1>4, <1>9, <1>10, <1>c

\* What goes down from inputs to a dataset reaches all that is off the cycles.
LEMMA DownOffTheCycles ==
  ASSUME NEW g, IsLineage(g), NEW R,
         \A d \in g.nodes : ~Twisted(g, d) /\ (\A q \in Parents(g, d) \ {d} : q \in R) => d \in R
  PROVE  \A d \in g.nodes : ~Twisted(g, d) => d \in R
  <1>o. PICK order : order = TopologicalOrder(g)
    OBVIOUS
  <1>n. PICK N : N = Len(order)
    OBVIOUS
  <1>m. PICK m : KahnsOrder(g, order, m)
    BY <1>o, OrderIsKahns
  <1>1. N \in Nat /\ ToSet(order) = g.nodes /\ \A i \in 1 .. N : order[i] \in g.nodes
    BY <1>m, <1>n DEF KahnsOrder
  <1> DEFINE Q == {n \in 0 .. N : \A i \in 1 .. n : ~Twisted(g, order[i]) => order[i] \in R}
  <1>2. 0 \in Q
    BY <1>1
  <1>3. ASSUME NEW n \in 0 .. N, n + 1 \in 0 .. N, n \in Q PROVE n + 1 \in Q
    <2>i. PICK i : i = n + 1
      OBVIOUS
    <2>1. i \in 1 .. N /\ (\A j \in 1 .. i : j \in 1 .. n \/ j = i) /\ (\A j \in 1 .. i - 1 : j \in 1 .. n)
      BY <1>1, <1>3, <2>i
    <2>2. ASSUME ~Twisted(g, order[i]) PROVE order[i] \in R
      <3>1. /\ \A a \in Closure(g, order[i]) : ~Twisted(g, a)
            /\ \A p \in Parents(g, order[i]) \ {order[i]} : \E j \in 1 .. i - 1 : order[j] = p
        BY <1>m, <1>n, <2>1, <2>2, OffTheCycles
      <3>2. Parents(g, order[i]) \subseteq Closure(g, order[i])
        BY <1>1, <2>1, ClosureByInputs
      <3>3. ASSUME NEW q \in Parents(g, order[i]) \ {order[i]} PROVE q \in R
        <4>1. PICK j \in 1 .. i - 1 : order[j] = q
          BY <3>1
        <4>2. ~Twisted(g, order[j]) /\ j \in 1 .. n
          BY <2>1, <3>1, <3>2, <4>1
        <4> QED BY <1>3, <4>1, <4>2
      <3> QED BY <1>1, <2>1, <2>2, <3>3
    <2> QED BY <1>3, <2>1, <2>2, <2>i
  <1>4. \A n \in 0 .. N : n \in Q
    <2> HIDE DEF Q
    <2> QED BY <1>1, <1>2, <1>3, UpTo
  <1>5. N \in Q
    BY <1>1, <1>4
  <1>6. \A d \in g.nodes : \E i \in 1 .. N : order[i] = d
    <2>1. order \in Seq(g.nodes)
      BY <1>m DEF KahnsOrder
    <2> QED BY <1>1, <1>n, <2>1 DEF ToSet
  <1> QED BY <1>5, <1>6

\* Off the cycles, a dataset is given what all its inputs have, and its own.
LEMMA FlowOffTheCycles ==
  ASSUME NEW g, IsLineage(g), NEW J, NEW seeds, NEW m, NEW order, NEW flow, KahnsOrder(g, order, m),
         IsFlow(g, J, seeds, order, Len(order), flow), NEW d \in g.nodes, ~Twisted(g, d)
  PROVE  flow[d] = J[{flow[q] : q \in Parents(g, d) \ {d}} \cup SeedOf(seeds, d)]
  <1>1. order \in Seq(g.nodes) /\ ToSet(order) = g.nodes
        /\ \A i, j \in 1 .. Len(order) : order[i] = order[j] => i = j
    BY DEF KahnsOrder
  <1>2. PICK i \in 1 .. Len(order) : order[i] = d
    BY <1>1 DEF ToSet
  <1>3. \A p \in Parents(g, d) \ {d} : \E j \in 1 .. i - 1 : order[j] = p
    BY <1>2, OffTheCycles
  <1>4. d \notin FirstOnes(order, i - 1)
    <2>1. \A j \in 1 .. i - 1 : j \in 1 .. Len(order) /\ j # i
      BY <1>1, <1>2
    <2> QED BY <1>1, <1>2, <2>1 DEF FirstOnes
  <1>5. Parents(g, d) \cap FirstOnes(order, i - 1) = Parents(g, d) \ {d}
    BY <1>3, <1>4 DEF FirstOnes
  <1>6. GivenAt(g, order, seeds, flow, i) = {flow[q] : q \in Parents(g, d) \ {d}} \cup SeedOf(seeds, d)
    BY <1>2, <1>5 DEF GivenAt
  <1> QED BY <1>2, <1>6 DEF IsFlow
=============================================================================
