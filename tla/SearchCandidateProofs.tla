------------------------ MODULE SearchCandidateProofs ------------------------
(***************************************************************************)
(* Candidates of a GPU search, for any inputs, pipelines, segments and     *)
(* draws.                                                                  *)
(***************************************************************************)
EXTENDS SearchCandidateInvariant, FiniteSetTheorems, WellFoundedInduction, TLAPS

-----------------------------------------------------------------------------
(* Numbers, finite sets of them, and values made step by step.             *)

\* A nonempty set of naturals has a least member.
LEMMA Least ==
    ASSUME NEW S \in SUBSET Nat, S # {}
    PROVE  \E x \in S : \A y \in S : x <= y
<1>1. PICK x \in S : \A y \in S : ~(<<y, x>> \in OpToRel(<, Nat))
  BY NatLessThanWellFounded, WFMin
<1>2. \A y \in S : <<y, x>> \in OpToRel(<, Nat) <=> y < x
  BY DEF OpToRel
<1>3. \A y \in S : ~(y < x)
  BY <1>1, <1>2, Zenon
<1>4. \A y \in S : x <= y
  BY <1>3
<1> QED
  BY <1>4

\* A subset of a finite set is finite.
LEMMA SubsetFacts ==
    ASSUME NEW T, IsFiniteSet(T), NEW S \in SUBSET T
    PROVE  /\ IsFiniteSet(S) /\ Cardinality(S) \in Nat /\ Cardinality(T) \in Nat
           /\ Cardinality(S) <= Cardinality(T)
<1>1. IsFiniteSet(S) /\ Cardinality(S) <= Cardinality(T)
  BY FS_Subset
<1> QED
  BY <1>1, FS_CardinalityType

\* A proper subset of a finite set has fewer members.
LEMMA FewerMembers ==
    ASSUME NEW T, IsFiniteSet(T), NEW S \in SUBSET T, NEW x \in T, x \notin S
    PROVE  /\ IsFiniteSet(S) /\ Cardinality(S) \in Nat /\ Cardinality(T) \in Nat
           /\ Cardinality(S) < Cardinality(T)
<1>1. IsFiniteSet(S) /\ Cardinality(S) <= Cardinality(T)
  BY FS_Subset
<1>2. Cardinality(S) # Cardinality(T)
  BY FS_Subset
<1>3. Cardinality(S) \in Nat /\ Cardinality(T) \in Nat
  BY <1>1, FS_CardinalityType
<1> QED
  BY <1>1, <1>2, <1>3

\* The greatest of finitely many numbers is one of them.
LEMMA MaxFacts ==
    ASSUME NEW S \in SUBSET Int, IsFiniteSet(S), S # {}
    PROVE  Max(S) \in S /\ \A y \in S : y <= Max(S)
<1> DEFINE above(x) == {y \in S : y > x}
           counts == {Cardinality(above(x)) : x \in S}
<1>0. ASSUME NEW x \in S PROVE IsFiniteSet(above(x)) /\ Cardinality(above(x)) \in Nat
  <2>1. above(x) \in SUBSET S
    OBVIOUS
  <2> HIDE DEF above
  <2> QED
    BY <2>1, SubsetFacts
<1>1. counts # {} /\ counts \in SUBSET Nat
  BY <1>0
<1>2. PICK n \in counts : \A k \in counts : n <= k
  <2> HIDE DEF counts
  <2> QED
    BY <1>1, Least
<1>3. PICK x \in S : n = Cardinality(above(x))
  <2> HIDE DEF above
  <2> QED
    OBVIOUS
<1>4. ASSUME NEW y \in S, y > x PROVE FALSE
  <2>0. x \in Int /\ y \in Int /\ \A z \in S : z \in Int
    BY <1>3
  <2>1. above(y) \in SUBSET above(x) /\ y \in above(x) /\ y \notin above(y)
    <3>1. \A z \in S : z > y => z > x
      BY <1>4, <2>0
    <3>2. above(y) \in SUBSET above(x)
      BY <3>1, Zenon
    <3>3. y \in above(x) /\ ~(y > y)
      BY <1>4, <2>0
    <3> QED
      BY <3>2, <3>3
  <2>2. IsFiniteSet(above(x))
    BY <1>0
  <2>3. Cardinality(above(y)) \in counts
    OBVIOUS
  <2>4. n <= Cardinality(above(y)) /\ n \in Nat /\ Cardinality(above(y)) \in Nat
    <3> HIDE DEF above, counts
    <3> QED
      BY <1>0, <1>2, <1>3, <2>3
  <2> HIDE DEF above, counts
  <2> QED
    BY <1>3, <2>1, <2>2, <2>4, FewerMembers
<1>5. \A y \in S : x >= y
  BY <1>4
<1> QED
  BY <1>5 DEF Max

\* The same for the least.
LEMMA MinOfTwo ==
    ASSUME NEW a \in Int, NEW b \in Int
    PROVE  Min({a, b}) = IF a <= b THEN a ELSE b
  BY DEF Min

\* The greatest of two numbers.
LEMMA MaxOfTwo ==
    ASSUME NEW a \in Int, NEW b \in Int
    PROVE  Max({a, b}) = IF a >= b THEN a ELSE b
  BY DEF Max

\* There is one.
LEMMA StepByStep ==
    ASSUME NEW X, NEW base \in X, NEW n \in Nat, NEW step \in [1..n -> [X -> X]]
    PROVE  \E f : MadeBySteps(f, X, base, n, step)
<1> DEFINE Made(m, f) == f[0] = base /\ \A i \in 1..m : f[i] = step[i][f[i - 1]]
           missing == {m \in 0..n : \A f \in [0..m -> X] : ~Made(m, f)}
<1>1. SUFFICES missing = {}
  <2>1. n \in 0..n
    OBVIOUS
  <2>2. \E f \in [0..n -> X] : Made(n, f)
    <3> HIDE DEF Made
    <3> QED
      BY <1>1, <2>1
  <2> QED
    BY <2>2 DEF MadeBySteps
<1> SUFFICES ASSUME missing # {} PROVE FALSE
  OBVIOUS
<1>2. PICK m \in missing : \A k \in missing : m <= k
  <2>1. missing \in SUBSET Nat
    OBVIOUS
  <2> HIDE DEF missing
  <2> QED
    BY <2>1, Least
<1>3. m \in 0..n /\ \A f \in [0..m -> X] : ~Made(m, f)
  OBVIOUS
<1>4. m # 0
  <2> DEFINE f == [i \in 0..0 |-> base]
  <2>1. f \in [0..0 -> X] /\ Made(0, f)
    OBVIOUS
  <2> QED
    BY <1>3, <2>1
<1>5. PICK f \in [0..(m - 1) -> X] : Made(m - 1, f)
  <2>1. m - 1 \in 0..n /\ m - 1 < m
    BY <1>3, <1>4
  <2>2. m - 1 \notin missing
    <3> HIDE DEF missing
    <3> QED
      BY <1>2, <1>3, <2>1
  <2> QED
    BY <2>1, <2>2
<1> DEFINE g == [i \in 0..m |-> IF i = m THEN step[m][f[m - 1]] ELSE f[i]]
<1>6. g \in [0..m -> X]
  <2>1. m \in 1..n /\ f[m - 1] \in X
    BY <1>3, <1>4
  <2>2. step[m][f[m - 1]] \in X
    BY <2>1
  <2>3. \A i \in 0..m : i # m => f[i] \in X
    BY <1>3
  <2> QED
    BY <2>2, <2>3
<1>7. Made(m, g)
  <2>1. g[0] = base
    BY <1>3, <1>4, <1>5
  <2>2. ASSUME NEW i \in 1..m PROVE g[i] = step[i][g[i - 1]]
    BY <1>3, <1>4, <1>5
  <2> QED
    BY <2>1, <2>2
<1> QED
  BY <1>3, <1>6, <1>7

\* What holds at first and is kept by every step holds in the end.
LEMMA Upward ==
    ASSUME NEW n \in Nat, NEW S \in SUBSET (0..n), 0 \in S,
           \A i \in 1..n : i - 1 \in S => i \in S
    PROVE  S = 0..n
<1> DEFINE missing == (0..n) \ S
<1>1. SUFFICES ASSUME missing # {} PROVE FALSE
  OBVIOUS
<1>2. missing \in SUBSET Nat
  OBVIOUS
<1>3. PICK m \in missing : \A k \in missing : m <= k
  <2> HIDE DEF missing
  <2> QED
    BY <1>1, <1>2, Least
<1>4. m \in 1..n /\ m - 1 \in 0..n /\ m - 1 < m
  OBVIOUS
<1>5. m - 1 \in S
  BY <1>3, <1>4
<1> QED
  BY <1>4, <1>5

\* And so do the values of a function.
LEMMA StaysIn ==
    ASSUME NEW X, NEW n \in Nat, NEW f, f = [i \in 0..n |-> f[i]], f[0] \in X,
           \A i \in 1..n : f[i - 1] \in X => f[i] \in X
    PROVE  f \in [0..n -> X]
<1> DEFINE S == {i \in 0..n : f[i] \in X}
<1>1. S \in SUBSET (0..n) /\ 0 \in S /\ \A i \in 1..n : i - 1 \in S => i \in S
  OBVIOUS
<1> HIDE DEF S
<1>2. S = 0..n
  BY <1>1, Upward
<1> QED
  BY <1>2 DEF S

-----------------------------------------------------------------------------
(* Members of a finite set in order.                                       *)

\* InOrder gives every member once, the smaller ones first.
LEMMA InOrderFacts ==
    ASSUME NEW S, IsFiniteSet(S), NEW less, StrictOrder(S, less)
    PROVE  /\ Cardinality(S) \in Nat
           /\ InOrder(S, less) \in [1..Cardinality(S) -> S]
           /\ \A i \in S : \E n \in 1..Cardinality(S) : InOrder(S, less)[n] = i
           /\ \A n \in 1..Cardinality(S), i \in S :
                InOrder(S, less)[n] = i <=> Cardinality(Under(S, less, i)) = n - 1
           /\ \A m, n \in 1..Cardinality(S) :
                m < n <=> <<InOrder(S, less)[m], InOrder(S, less)[n]>> \in less
<1> DEFINE N == Cardinality(S)
           rank == [i \in S |-> Cardinality(Under(S, less, i)) + 1]
           order == InOrder(S, less)
<1>1. N \in Nat
  BY FS_CardinalityType
<1>2. rank \in [S -> 1..N]
  <2>1. ASSUME NEW i \in S
        PROVE  Cardinality(Under(S, less, i)) + 1 \in 1..N
    <3>1. Under(S, less, i) \in SUBSET S /\ i \notin Under(S, less, i)
      BY DEF Under, StrictOrder
    <3> QED
      BY <3>1, FewerMembers
  <2> QED
    BY <2>1
<1>3. ASSUME NEW i \in S, NEW j \in S, <<i, j>> \in less
      PROVE  rank[i] < rank[j]
  <2>1. Under(S, less, i) \in SUBSET Under(S, less, j)
    BY <1>3 DEF Under, StrictOrder
  <2>2. i \in Under(S, less, j) /\ i \notin Under(S, less, i)
    BY <1>3 DEF Under, StrictOrder
  <2>3. IsFiniteSet(Under(S, less, j))
    BY FS_Subset DEF Under
  <2>4. /\ Cardinality(Under(S, less, i)) \in Nat
        /\ Cardinality(Under(S, less, j)) \in Nat
        /\ Cardinality(Under(S, less, i)) < Cardinality(Under(S, less, j))
    BY <2>1, <2>2, <2>3, FewerMembers
  <2> QED
    BY <2>4
<1> HIDE DEF rank
<1>0. ASSUME NEW i \in S
      PROVE  /\ rank[i] = Cardinality(Under(S, less, i)) + 1
             /\ Cardinality(Under(S, less, i)) \in Int
  <2>1. Under(S, less, i) \in SUBSET S
    BY DEF Under
  <2> QED
    BY <2>1, SubsetFacts DEF rank
<1>4. \A i, j \in S : /\ rank[i] \in 1..N /\ rank[j] \in 1..N
                      /\ rank[i] < rank[j] <=> <<i, j>> \in less
                      /\ rank[i] = rank[j] => i = j
  <2> SUFFICES ASSUME NEW i \in S, NEW j \in S
               PROVE  /\ rank[i] \in 1..N /\ rank[j] \in 1..N
                      /\ rank[i] < rank[j] <=> <<i, j>> \in less
                      /\ rank[i] = rank[j] => i = j
    OBVIOUS
  <2>1. rank[i] \in 1..N /\ rank[j] \in 1..N
    BY <1>2
  <2>2. CASE i = j
    BY <2>2, <2>1, <1>1 DEF StrictOrder
  <2>3. CASE <<i, j>> \in less
    BY <2>1, <2>3, <1>1, <1>3
  <2>4. CASE <<j, i>> \in less
    <3>1. rank[j] < rank[i]
      BY <2>4, <1>3
    <3>2. <<i, j>> \notin less
      BY <2>4 DEF StrictOrder
    <3> QED
      BY <2>1, <3>1, <3>2, <1>1
  <2> QED
    BY <2>2, <2>3, <2>4 DEF StrictOrder
<1>5. rank \in Surjection(S, 1..N)
  <2>1. rank \in Injection(S, 1..N)
    BY <1>2, <1>4 DEF Injection, IsInjective
  <2>2. IsFiniteSet(1..N) /\ Cardinality(1..N) = N
    BY <1>1, FS_Interval
  <2> QED
    BY <2>1, <2>2, FS_Injection
<1>6. \A n \in 1..N : \E i \in S : rank[i] = n
  BY <1>5 DEF Surjection
<1>7. \A n \in 1..N : order[n] \in S /\ rank[order[n]] = n
  <2> SUFFICES ASSUME NEW n \in 1..N PROVE order[n] \in S /\ rank[order[n]] = n
    OBVIOUS
  <2>1. order[n] = CHOOSE i \in S : Cardinality(Under(S, less, i)) = n - 1
    BY DEF InOrder, Under
  <2>2. ASSUME NEW i \in S
        PROVE  /\ rank[i] = Cardinality(Under(S, less, i)) + 1
               /\ Cardinality(Under(S, less, i)) \in Int
    BY <1>0
  <2>3. \E i \in S : Cardinality(Under(S, less, i)) = n - 1
    BY <1>6, <2>2
  <2>4. order[n] \in S /\ Cardinality(Under(S, less, order[n])) = n - 1
    BY <2>1, <2>3
  <2> QED
    BY <2>2, <2>4
<1> HIDE DEF order
<1>8. order \in [1..N -> S]
  <2>1. order = [n \in 1..N |-> order[n]]
    <3> DEFINE V(n) == CHOOSE i \in S : Cardinality({j \in S : <<j, i>> \in less}) = n - 1
    <3>1. order = [n \in 1..N |-> V(n)]
      BY DEF InOrder, order
    <3> HIDE DEF V
    <3> QED
      BY <3>1
  <2> QED
    BY <1>7, <2>1
<1>9. \A n \in 1..N, i \in S :
        order[n] = i <=> Cardinality(Under(S, less, i)) = n - 1
  <2> SUFFICES ASSUME NEW n \in 1..N, NEW i \in S
               PROVE  order[n] = i <=> Cardinality(Under(S, less, i)) = n - 1
    OBVIOUS
  <2>1. /\ rank[i] = Cardinality(Under(S, less, i)) + 1
        /\ Cardinality(Under(S, less, i)) \in Int
    BY <1>0
  <2> HIDE DEF order
  <2>2. order[n] = i <=> rank[i] = n
    BY <1>4, <1>7
  <2> QED
    BY <2>1, <2>2
<1>10. \A i \in S : \E n \in 1..N : order[n] = i
  <2> SUFFICES ASSUME NEW i \in S PROVE order[rank[i]] = i /\ rank[i] \in 1..N
    OBVIOUS
  <2> QED
    BY <1>4, <1>7
<1>11. \A m, n \in 1..N : m < n <=> <<order[m], order[n]>> \in less
  BY <1>4, <1>7
<1> QED
  BY <1>1, <1>8, <1>9, <1>10, <1>11 DEF order

\* Sets that follow one another are listed alike.
LEMMA FollowedInOrder ==
    ASSUME NEW S, IsFiniteSet(S), NEW less, StrictOrder(S, less),
           NEW T, NEW more, StrictOrder(T, more),
           NEW g, Follows(S, less, T, more, g)
    PROVE  /\ IsFiniteSet(T) /\ Cardinality(T) = Cardinality(S)
           /\ \A n \in 1..Cardinality(S) :
                InOrder(T, more)[n] = g[InOrder(S, less)[n]]
<1>1. \A i, j \in S : <<i, j>> \in less <=> <<g[i], g[j]>> \in more
  <2> SUFFICES ASSUME NEW i \in S, NEW j \in S, <<g[i], g[j]>> \in more
               PROVE  <<i, j>> \in less
    BY DEF Follows
  <2>1. g[i] \in T /\ g[j] \in T
    BY DEF Follows
  <2>2. i # j
    BY <2>1 DEF StrictOrder
  <2>3. CASE <<j, i>> \in less
    <3>1. <<g[j], g[i]>> \in more
      BY <2>3 DEF Follows
    <3>2. <<g[j], g[j]>> \in more
      BY <3>1, <2>1 DEF StrictOrder
    <3> QED
      BY <2>1, <3>2 DEF StrictOrder
  <2> QED
    BY <2>2, <2>3 DEF StrictOrder
<1>2. \A i, j \in S : g[i] = g[j] => i = j
  <2> SUFFICES ASSUME NEW i \in S, NEW j \in S, g[i] = g[j], i # j PROVE FALSE
    OBVIOUS
  <2>1. g[i] \in T /\ (<<g[i], g[j]>> \in more \/ <<g[j], g[i]>> \in more)
    BY DEF Follows, StrictOrder
  <2> QED
    BY <2>1 DEF StrictOrder
<1>3. g \in Bijection(S, T)
  BY <1>2 DEF Follows, Bijection, Injection, IsInjective, Surjection
<1>4. IsFiniteSet(T) /\ Cardinality(T) = Cardinality(S)
  BY <1>3, FS_Bijection DEF ExistsBijection
<1>5. ASSUME NEW i \in S
      PROVE  Cardinality(Under(T, more, g[i])) = Cardinality(Under(S, less, i))
  <2> DEFINE A == Under(S, less, i)
             B == Under(T, more, g[i])
             h == [j \in A |-> g[j]]
  <2>1. A \in SUBSET S /\ \A j \in A : g[j] \in B
    BY <1>1 DEF Under, Follows
  <2>2. \A k \in B : \E j \in A : g[j] = k
    BY <1>1 DEF Under, Follows
  <2>3. IsFiniteSet(A)
    BY <2>1, SubsetFacts
  <2> HIDE DEF A, B
  <2>4. h \in Bijection(A, B)
    BY <2>1, <2>2, <1>2 DEF Bijection, Injection, IsInjective, Surjection
  <2>5. ExistsBijection(A, B)
    BY <2>4 DEF ExistsBijection
  <2>6. Cardinality(B) = Cardinality(A)
    BY <2>3, <2>5, FS_Bijection
  <2> QED
    BY <2>6 DEF A, B
<1>6. ASSUME NEW n \in 1..Cardinality(S)
      PROVE  InOrder(T, more)[n] = g[InOrder(S, less)[n]]
  <2> DEFINE i == InOrder(S, less)[n]
  <2>1. i \in S /\ Cardinality(Under(S, less, i)) = n - 1
    BY InOrderFacts
  <2> HIDE DEF i
  <2>2. g[i] \in T /\ Cardinality(Under(T, more, g[i])) = n - 1 /\ n \in 1..Cardinality(T)
    BY <2>1, <1>4, <1>5 DEF Follows
  <2>3. InOrder(T, more)[n] = g[i]
    BY <2>2, <1>4, InOrderFacts
  <2> QED
    BY <2>3 DEF i
<1> QED
  BY <1>4, <1>6

-----------------------------------------------------------------------------
(* Some events of a stream.                                                *)

\* Places are numbers, and numbers are ordered.
LEMMA PlacesAreOrdered ==
    ASSUME NEW es \in Streams, NEW S \in SUBSET DOMAIN es
    PROVE  /\ Len(es) \in Nat /\ DOMAIN es = 1..Len(es)
           /\ IsFiniteSet(S) /\ StrictOrder(S, Upwards(S))
           /\ \A i, j \in S : <<i, j>> \in Upwards(S) <=> i < j
           /\ Cardinality(S) \in Nat /\ Cardinality(S) <= Len(es)
<1>1. Len(es) \in Nat /\ DOMAIN es = 1..Len(es)
  BY DEF Streams
<1>2. IsFiniteSet(1..Len(es)) /\ Cardinality(1..Len(es)) = Len(es)
  BY <1>1, FS_Interval
<1>3. IsFiniteSet(S) /\ Cardinality(S) \in Nat /\ Cardinality(S) <= Len(es)
  BY <1>1, <1>2, SubsetFacts
<1>4. \A i, j \in S : <<i, j>> \in Upwards(S) <=> i < j
  BY DEF Upwards
<1>5. \A i \in S : i \in Int
  BY <1>1
<1>6. StrictOrder(S, Upwards(S))
  BY <1>4, <1>5 DEF StrictOrder
<1> QED
  BY <1>1, <1>3, <1>4, <1>6

\* What is kept is in its order, and everything at the places is kept.
LEMMA KeptFacts ==
    ASSUME NEW es \in Streams, NEW S \in SUBSET DOMAIN es
    PROVE  /\ Kept(es, S) \in Streams
           /\ Len(Kept(es, S)) = Cardinality(S)
           /\ DOMAIN Kept(es, S) = 1..Cardinality(S)
           /\ Cardinality(S) \in Nat /\ Cardinality(S) <= Len(es)
           /\ Lists(InOrder(S, Upwards(S)), Cardinality(S), S)
           /\ \A k \in 1..Cardinality(S) :
                Kept(es, S)[k] = es[InOrder(S, Upwards(S))[k]]
<1> DEFINE order == InOrder(S, Upwards(S))
           N == Cardinality(S)
<1>1. /\ IsFiniteSet(S) /\ StrictOrder(S, Upwards(S)) /\ N \in Nat /\ N <= Len(es)
      /\ \A i, j \in S : <<i, j>> \in Upwards(S) <=> i < j
      /\ DOMAIN es = 1..Len(es)
  BY PlacesAreOrdered
<1>2. /\ order \in [1..N -> S]
      /\ \A i \in S : \E n \in 1..N : order[n] = i
      /\ \A m, n \in 1..N : m < n <=> <<order[m], order[n]>> \in Upwards(S)
  BY <1>1, InOrderFacts
<1>3. Kept(es, S) = [n \in 1..N |-> es[order[n]]]
  BY <1>2 DEF Kept, Upwards
<1> HIDE DEF order, N
<1>4. Lists(order, N, S)
  BY <1>1, <1>2 DEF Lists
<1>5. \A n \in 1..N : es[order[n]] \in Events
  BY <1>1, <1>2 DEF Streams
<1>6. Kept(es, S) \in Streams /\ Len(Kept(es, S)) = N /\ DOMAIN Kept(es, S) = 1..N
  BY <1>1, <1>3, <1>5 DEF Streams
<1> QED
  BY <1>1, <1>3, <1>4, <1>6 DEF order, N

\* Then what is kept is the same.
LEMMA MatchedKept ==
    ASSUME NEW a \in Streams, NEW S \in SUBSET DOMAIN a,
           NEW b \in Streams, NEW T \in SUBSET DOMAIN b,
           NEW g, Matches(a, S, b, T, g)
    PROVE  Kept(a, S) = Kept(b, T)
<1> DEFINE p == InOrder(S, Upwards(S))
           q == InOrder(T, Upwards(T))
           N == Cardinality(S)
<1>1. /\ IsFiniteSet(S) /\ StrictOrder(S, Upwards(S)) /\ StrictOrder(T, Upwards(T))
      /\ \A i, j \in S : <<i, j>> \in Upwards(S) <=> i < j
      /\ \A i, j \in T : <<i, j>> \in Upwards(T) <=> i < j
  BY PlacesAreOrdered
<1>2. Follows(S, Upwards(S), T, Upwards(T), g)
  BY <1>1 DEF Follows, Matches
<1>3. Cardinality(T) = N /\ \A n \in 1..N : q[n] = g[p[n]]
  BY <1>1, <1>2, FollowedInOrder
<1>4. /\ Kept(a, S) \in Streams /\ Kept(b, T) \in Streams
      /\ Len(Kept(a, S)) = N /\ Len(Kept(b, T)) = N
      /\ \A k \in 1..N : p[k] \in S /\ Kept(a, S)[k] = a[p[k]] /\ Kept(b, T)[k] = b[q[k]]
  BY <1>3, KeptFacts DEF Lists
<1> HIDE DEF p, q, N
<1>5. \A k \in 1..N : Kept(a, S)[k] = Kept(b, T)[k]
  BY <1>3, <1>4 DEF Matches
<1> QED
  BY <1>4, <1>5 DEF Streams

\* And the other way round.
LEMMA KeptMatches ==
    ASSUME NEW a \in Streams, NEW S \in SUBSET DOMAIN a,
           NEW b \in Streams, NEW T \in SUBSET DOMAIN b,
           Kept(a, S) = Kept(b, T)
    PROVE  \E g : Matches(a, S, b, T, g)
<1> DEFINE p == InOrder(S, Upwards(S))
           q == InOrder(T, Upwards(T))
           N == Cardinality(S)
           place == [i \in S |-> CHOOSE k \in 1..N : p[k] = i]
           g == [i \in S |-> q[place[i]]]
<1>1. Cardinality(T) = N /\ Lists(p, N, S) /\ Lists(q, N, T)
  BY KeptFacts
<1>2. \A k \in 1..N : a[p[k]] = b[q[k]]
  BY <1>1, KeptFacts
<1>3. /\ \A i \in S : i \in Int
      /\ \A j \in T : j \in Int
  BY DEF Streams
<1> HIDE DEF p, q, N
<1>4. \A i \in S : place[i] \in 1..N /\ p[place[i]] = i
  BY <1>1 DEF Lists
<1>5. \A k, l \in 1..N : p[k] = p[l] => k = l
  <2> SUFFICES ASSUME NEW k \in 1..N, NEW l \in 1..N, p[k] = p[l], k # l PROVE FALSE
    OBVIOUS
  <2>1. N \in Nat /\ p[k] \in S
    BY <1>1 DEF Lists
  <2>2. k < l \/ l < k
    BY <2>1
  <2>3. p[k] < p[l] \/ p[l] < p[k]
    BY <2>2, <1>1 DEF Lists
  <2> QED
    BY <2>1, <2>3, <1>3
<1> HIDE DEF place
<1>6. g \in [S -> T]
  BY <1>1, <1>4 DEF Lists
<1>7. \A j \in T : \E i \in S : g[i] = j
  <2> SUFFICES ASSUME NEW j \in T PROVE \E i \in S : g[i] = j
    OBVIOUS
  <2>1. PICK k \in 1..N : q[k] = j
    BY <1>1 DEF Lists
  <2>2. p[k] \in S /\ place[p[k]] = k
    BY <1>1, <1>4, <1>5 DEF Lists
  <2> QED
    BY <2>1, <2>2
<1>8. ASSUME NEW i \in S, NEW j \in S, i < j PROVE g[i] < g[j]
  <2>1. place[i] < place[j]
    BY <1>1, <1>4, <1>8 DEF Lists
  <2>2. q[place[i]] < q[place[j]]
    BY <1>1, <1>4, <2>1 DEF Lists
  <2> QED
    BY <2>2
<1>9. \A i \in S : a[i] = b[g[i]]
  BY <1>2, <1>4
<1>10. Matches(a, S, b, T, g)
  BY <1>6, <1>7, <1>8, <1>9 DEF Matches
<1> QED
  BY <1>10, Zenon

-----------------------------------------------------------------------------
(* Sorting and merging.                                                    *)

\* Two events are of one channel whichever is named first.
LEMMA ChannelFacts ==
    ASSUME NEW a, NEW b, NEW c, SameChannel(a, b)
    PROVE  /\ SameChannel(b, a) /\ a.time = b.time /\ a.action = b.action
           /\ SameChannel(b, c) => SameChannel(a, c)
  BY DEF SameChannel

\* The members of a stream are events.
LEMMA StreamFacts ==
    ASSUME NEW es \in Streams
    PROVE  /\ Len(es) \in Nat /\ DOMAIN es = 1..Len(es)
           /\ \A i \in DOMAIN es : /\ i \in Nat /\ es[i] \in Events
                                   /\ es[i].time \in Int /\ es[i].value \in Int
                                   /\ es[i].action \in Actions
           /\ \A i \in DOMAIN es : SameChannel(es[i], es[i])
<1>1. Len(es) \in Nat /\ DOMAIN es = 1..Len(es) /\ \A i \in DOMAIN es : es[i] \in Events
  BY DEF Streams
<1>2. \A e \in Events : e.time \in Int /\ e.value \in Int /\ e.action \in Actions
  BY DEF Events
<1>3. \A i \in DOMAIN es : i \in Nat
  BY <1>1
<1> QED
  BY <1>1, <1>2, <1>3 DEF SameChannel

\* The last event of a channel at a time.
LEMMA LatestFacts ==
    ASSUME NEW es \in Streams, NEW i \in DOMAIN es
    PROVE  /\ Max(Channelled(es, i)) \in DOMAIN es
           /\ SameChannel(es[Max(Channelled(es, i))], es[i])
           /\ \A j \in DOMAIN es : SameChannel(es[j], es[i]) => j <= Max(Channelled(es, i))
<1> DEFINE S == Channelled(es, i)
<1>1. S \in SUBSET (1..Len(es)) /\ S # {} /\ Len(es) \in Nat
  BY StreamFacts DEF Channelled
<1> HIDE DEF S
<1>2. IsFiniteSet(S) /\ S \in SUBSET Int
  <2>1. IsFiniteSet(1..Len(es))
    BY <1>1, FS_Interval
  <2>2. IsFiniteSet(S)
    BY <1>1, <2>1, SubsetFacts
  <2> QED
    BY <1>1, <2>2
<1>3. Max(S) \in S /\ \A y \in S : y <= Max(S)
  BY <1>1, <1>2, MaxFacts
<1> QED
  BY <1>3 DEF S, Channelled

\* Events can be sorted.
LEMMA FirstsAreOrdered ==
    ASSUME NEW es \in Streams
    PROVE  /\ Firsts(es) \in SUBSET DOMAIN es /\ IsFiniteSet(Firsts(es))
           /\ StrictOrder(Firsts(es), Earlier(es, Firsts(es)))
           /\ \A i, j \in Firsts(es) :
                <<i, j>> \in Earlier(es, Firsts(es)) <=> Precedes(es, i, j)
<1> DEFINE S == Firsts(es)
<1>1. S \in SUBSET DOMAIN es
  BY DEF Firsts
<1>2. IsFiniteSet(S)
  BY <1>1, PlacesAreOrdered
<1>3. \A i, j \in S : <<i, j>> \in Earlier(es, S) <=> Precedes(es, i, j)
  BY DEF Earlier, Precedes
<1>4. \A i \in S : i \in Nat /\ es[i].time \in Int
  BY <1>1, StreamFacts
<1> HIDE DEF S
<1>5. /\ \A i \in S : ~Precedes(es, i, i)
      /\ \A i, j, k \in S : Precedes(es, i, j) /\ Precedes(es, j, k) => Precedes(es, i, k)
      /\ \A i, j \in S : i # j => Precedes(es, i, j) \/ Precedes(es, j, i)
  BY <1>4 DEF Precedes
<1>6. StrictOrder(S, Earlier(es, S))
  BY <1>3, <1>5 DEF StrictOrder
<1> QED
  BY <1>1, <1>2, <1>3, <1>6 DEF S

\* A value is brought into the range of an analog channel.
LEMMA SaturateFacts ==
    ASSUME NEW v \in Int
    PROVE  Saturate(v) \in -Full..Full /\ (v \in -Full..Full => Saturate(v) = v)
  BY SearchAssumption DEF Saturate

\* What sorting and merging gives: each channel once, at its first place,
\* with its last value.
LEMMA NormalizeFacts ==
    ASSUME NEW es \in Streams
    PROVE  /\ Normalize(es) \in Streams
           /\ Cardinality(Firsts(es)) \in Nat /\ Cardinality(Firsts(es)) <= Len(es)
           /\ Len(Normalize(es)) = Cardinality(Firsts(es))
           /\ DOMAIN Normalize(es) = 1..Cardinality(Firsts(es))
           /\ NormalOrder(es) \in [1..Cardinality(Firsts(es)) -> Firsts(es)]
           /\ \A i \in Firsts(es) : \E k \in 1..Cardinality(Firsts(es)) : NormalOrder(es)[k] = i
           /\ \A k, l \in 1..Cardinality(Firsts(es)) :
                k < l <=> Precedes(es, NormalOrder(es)[k], NormalOrder(es)[l])
           /\ \A k \in 1..Cardinality(Firsts(es)) :
                /\ SameChannel(Normalize(es)[k], es[NormalOrder(es)[k]])
                /\ Normalize(es)[k] =
                    [es[Max(Channelled(es, NormalOrder(es)[k]))] EXCEPT !.value = Saturate(@)]
<1> DEFINE S == Firsts(es)
           N == Cardinality(S)
           order == NormalOrder(es)
           latest(i) == Max(Channelled(es, i))
<1>1. /\ S \in SUBSET DOMAIN es /\ IsFiniteSet(S) /\ StrictOrder(S, Earlier(es, S))
      /\ \A i, j \in S : <<i, j>> \in Earlier(es, S) <=> Precedes(es, i, j)
  BY FirstsAreOrdered
<1>2. N \in Nat /\ N <= Len(es)
  BY <1>1, PlacesAreOrdered
<1>3. /\ order \in [1..N -> S]
      /\ \A i \in S : \E n \in 1..N : order[n] = i
      /\ \A m, n \in 1..N : m < n <=> <<order[m], order[n]>> \in Earlier(es, S)
  BY <1>1, InOrderFacts DEF NormalOrder
<1>4. Normalize(es) =
        [n \in 1..N |-> [es[latest(order[n])] EXCEPT !.value = Saturate(@)]]
  <2> DEFINE last == [i \in S |-> latest(i)]
  <2>1. Normalize(es) =
          [n \in DOMAIN order |-> [es[last[order[n]]] EXCEPT !.value = Saturate(@)]]
    BY DEF Normalize, NormalOrder, Firsts, Earlier, Channelled
  <2>2. \A n \in 1..N : last[order[n]] = latest(order[n])
    BY <1>3
  <2> HIDE DEF last, latest, order, N
  <2>3. DOMAIN order = 1..N
    BY <1>3
  <2> QED
    BY <2>1, <2>2, <2>3
<1>5. \A i \in S : /\ latest(i) \in DOMAIN es
                   /\ SameChannel(es[latest(i)], es[i])
                   /\ es[latest(i)] \in Events
  BY <1>1, LatestFacts, StreamFacts
<1> HIDE DEF order, N, S, latest
<1>6. ASSUME NEW k \in 1..N
      PROVE  /\ Normalize(es)[k] \in Events
             /\ SameChannel(Normalize(es)[k], es[order[k]])
             /\ Normalize(es)[k] = [es[latest(order[k])] EXCEPT !.value = Saturate(@)]
  <2> DEFINE i == order[k]
             e == es[latest(i)]
  <2>1. i \in S
    BY <1>3
  <2>2. e \in Events /\ SameChannel(e, es[i])
    BY <2>1, <1>5
  <2>3. Normalize(es)[k] = [e EXCEPT !.value = Saturate(@)]
    BY <1>4
  <2> HIDE DEF e, i
  <2>4. Saturate(e.value) \in Int
    BY <2>2, SaturateFacts, SearchAssumption DEF Events
  <2>5. Normalize(es)[k] \in Events /\ SameChannel(Normalize(es)[k], es[i])
    BY <2>2, <2>3, <2>4 DEF Events, SameChannel
  <2> QED
    BY <2>3, <2>5 DEF e, i
<1>7. Normalize(es) \in Streams /\ Len(Normalize(es)) = N /\ DOMAIN Normalize(es) = 1..N
  <2>1. Normalize(es) \in [1..N -> Events]
    BY <1>4, <1>6
  <2>2. Normalize(es) \in Streams
    BY <2>1, <1>2 DEF Streams
  <2> QED
    BY <2>1, <2>2, <1>2 DEF Streams
<1>8. \A k, l \in 1..N : k < l <=> Precedes(es, order[k], order[l])
  BY <1>1, <1>3
<1> QED
  BY <1>2, <1>3, <1>6, <1>7, <1>8 DEF order, N, S, latest

\* A stream is sorted and merged when each channel is set once, in order of time.
LEMMA NormalizeIsCanonical ==
    ASSUME NEW es \in Streams
    PROVE  /\ Canonical(Normalize(es))
           /\ \A k \in DOMAIN Normalize(es) : /\ Normalize(es)[k].time >= 0
                                              /\ Normalize(es)[k].value \in -Full..Full
<1> DEFINE S == Firsts(es)
           N == Cardinality(S)
           order == NormalOrder(es)
           r == Normalize(es)
<1>1. /\ r \in Streams /\ DOMAIN r = 1..N /\ N \in Nat
      /\ order \in [1..N -> S]
      /\ \A k, l \in 1..N : k < l <=> Precedes(es, order[k], order[l])
      /\ \A k \in 1..N :
            /\ SameChannel(r[k], es[order[k]])
            /\ r[k] = [es[Max(Channelled(es, order[k]))] EXCEPT !.value = Saturate(@)]
  BY NormalizeFacts
<1> HIDE DEF r, order, N
<1>2. ASSUME NEW k \in 1..N
      PROVE  /\ order[k] \in S /\ order[k] \in DOMAIN es /\ order[k] \in Nat
             /\ r[k].time = es[order[k]].time /\ r[k].time \in Int /\ r[k].time >= 0
             /\ r[k].action = es[order[k]].action
             /\ r[k].value \in -Full..Full
  <2>1. order[k] \in S
    BY <1>1
  <2>2. order[k] \in DOMAIN es /\ es[order[k]].time >= 0
    BY <2>1 DEF Firsts
  <2>3. r[k].time = es[order[k]].time /\ r[k].action = es[order[k]].action
    BY <1>1 DEF SameChannel
  <2>4. order[k] \in Nat /\ es[order[k]].time \in Int
    BY <2>2, StreamFacts
  <2> DEFINE e == es[Max(Channelled(es, order[k]))]
  <2>5. e \in Events
    BY <2>2, LatestFacts, StreamFacts
  <2>6. r[k] = [e EXCEPT !.value = Saturate(@)]
    BY <1>1
  <2> HIDE DEF e
  <2>7. r[k].value = Saturate(e.value) /\ e.value \in Int
    BY <2>5, <2>6 DEF Events
  <2>8. r[k].value \in -Full..Full
    BY <2>7, SaturateFacts
  <2> QED
    BY <2>1, <2>2, <2>3, <2>4, <2>8
<1>3. Sorted(r)
  <2> SUFFICES ASSUME NEW i \in 1..N, NEW j \in 1..N, i < j
               PROVE  r[i].time <= r[j].time
    BY <1>1 DEF Sorted
  <2>1. Precedes(es, order[i], order[j])
    BY <1>1
  <2> QED
    BY <2>1, <1>2 DEF Precedes
<1>4. ASSUME NEW i \in 1..N, NEW j \in 1..N, i # j PROVE ~SameChannel(r[i], r[j])
  <2>1. SUFFICES ASSUME SameChannel(r[i], r[j]) PROVE FALSE
    OBVIOUS
  <2>2. SameChannel(es[order[i]], es[order[j]]) /\ SameChannel(es[order[j]], es[order[i]])
    BY <2>1, <1>2 DEF SameChannel
  <2>3. Precedes(es, order[i], order[j]) \/ Precedes(es, order[j], order[i])
    BY <1>1, <1>4
  <2>4. order[i] # order[j]
    BY <2>3, <1>2 DEF Precedes
  <2>5. order[i] < order[j] \/ order[j] < order[i]
    BY <2>4, <1>2
  <2> QED
    BY <1>2, <2>2, <2>5 DEF Firsts
<1>5. Canonical(r)
  BY <1>1, <1>3, <1>4 DEF Canonical
<1> QED
  BY <1>1, <1>2, <1>5 DEF r

\* A stream that is in order needs no sorting.
LEMMA CanonicalIsNormal ==
    ASSUME NEW es \in Streams, Canonical(es),
           \A i \in DOMAIN es : es[i].time >= 0 /\ es[i].value \in -Full..Full
    PROVE  Normalize(es) = es
<1> DEFINE S == Firsts(es)
           N == Len(es)
           order == NormalOrder(es)
           r == Normalize(es)
<1>1. /\ N \in Nat /\ DOMAIN es = 1..N
      /\ \A i \in 1..N : /\ es[i] \in Events /\ es[i].time \in Int /\ es[i].value \in Int
                         /\ SameChannel(es[i], es[i])
  BY StreamFacts
<1>2. S = 1..N
  <2>1. \A i \in 1..N : es[i].time >= 0
                        /\ \A j \in DOMAIN es : j < i => ~SameChannel(es[j], es[i])
    BY <1>1 DEF Canonical
  <2> QED
    BY <1>1, <2>1 DEF Firsts
<1>3. Cardinality(S) = N
  BY <1>1, <1>2, FS_Interval
<1>4. /\ r \in Streams /\ Len(r) = N
      /\ order \in [1..N -> 1..N]
      /\ \A k \in 1..N :
            r[k] = [es[Max(Channelled(es, order[k]))] EXCEPT !.value = Saturate(@)]
  BY <1>2, <1>3, NormalizeFacts
<1>5. ASSUME NEW k \in 1..N PROVE order[k] = k
  <2>1. /\ IsFiniteSet(S) /\ StrictOrder(S, Earlier(es, S))
        /\ \A i, j \in S : <<i, j>> \in Earlier(es, S) <=> Precedes(es, i, j)
    BY FirstsAreOrdered
  <2>2. \A i, j \in 1..N : Precedes(es, i, j) <=> i < j
    BY <1>1 DEF Precedes, Canonical, Sorted
  <2>3. Under(S, Earlier(es, S), k) = 1..(k - 1)
    BY <1>1, <1>2, <2>1, <2>2 DEF Under
  <2>4. Cardinality(1..(k - 1)) = k - 1
    BY <1>1, FS_Interval
  <2>5. k \in S /\ k \in 1..Cardinality(S)
    BY <1>2, <1>3
  <2> HIDE DEF S
  <2> QED
    BY <2>1, <2>3, <2>4, <2>5, InOrderFacts DEF NormalOrder, S
<1>6. ASSUME NEW k \in 1..N PROVE Max(Channelled(es, k)) = k
  <2>1. /\ Max(Channelled(es, k)) \in DOMAIN es
        /\ SameChannel(es[Max(Channelled(es, k))], es[k])
    BY <1>1, LatestFacts
  <2> QED
    BY <1>1, <2>1 DEF Canonical
<1>7. \A k \in 1..N : r[k] = es[k]
  <2> SUFFICES ASSUME NEW k \in 1..N PROVE r[k] = es[k]
    OBVIOUS
  <2> DEFINE e == es[k]
  <2>1. r[k] = [e EXCEPT !.value = Saturate(@)] /\ e \in Events
    BY <1>1, <1>4, <1>5, <1>6
  <2>2. e.value \in -Full..Full /\ Saturate(e.value) = e.value
    BY <1>1, SaturateFacts
  <2> HIDE DEF e
  <2>3. r[k] = e
    BY <2>1, <2>2 DEF Events
  <2> QED
    BY <2>3 DEF e
<1> HIDE DEF r
<1>8. r = es
  <2>1. r = [i \in 1..Len(r) |-> r[i]] /\ es = [i \in 1..Len(es) |-> es[i]] /\ Len(r) = Len(es)
    BY <1>1, <1>4 DEF Streams
  <2> QED
    BY <1>1, <1>7, <2>1
<1> QED
  BY <1>8 DEF r

\* Sorting twice is sorting once.
LEMMA NormalizeTwice ==
    ASSUME NEW es \in Streams
    PROVE  Normalize(Normalize(es)) = Normalize(es)
  BY NormalizeFacts, NormalizeIsCanonical, CanonicalIsNormal

-----------------------------------------------------------------------------
(* The events of one time.                                                 *)

\* They are some places of a stream.
LEMMA MomentsFacts ==
    ASSUME NEW es \in Streams, NEW t
    PROVE  Moments(es, t) \in SUBSET DOMAIN es /\ At(es, t) = Kept(es, Moments(es, t))
  BY DEF Moments, At

\* Sorting keeps those of them that are first in their channel, in their order.
LEMMA SortedMoments ==
    ASSUME NEW es \in Streams, NEW t
    PROVE  LET r == Normalize(es)
               o == NormalOrder(es)
               n == Cardinality(Firsts(es))
               M == Moments(es, t)
               S == Moments(r, t)
           IN /\ r \in Streams /\ DOMAIN r = 1..n /\ n \in Nat /\ S \subseteq 1..n
              /\ \A i \in M : i \in DOMAIN es /\ es[i].time = t /\ i \in Nat
              /\ \A i \in DOMAIN es : es[i].time = t => i \in M
              /\ \A i \in Firsts(es) : \E k \in 1..n : o[k] = i
              /\ \A k \in 1..n : /\ o[k] \in Firsts(es) /\ (k \in S <=> o[k] \in M)
                                 /\ r[k] = [es[Max(Channelled(es, o[k]))]
                                              EXCEPT !.value = Saturate(@)]
              /\ \A k, l \in S : k < l <=> o[k] < o[l]
<1> DEFINE r == Normalize(es)
           o == NormalOrder(es)
           n == Cardinality(Firsts(es))
           M == Moments(es, t)
           S == Moments(r, t)
<1>1. \A i \in DOMAIN es : i \in Nat /\ (i \in M <=> es[i].time = t)
  BY StreamFacts DEF Moments
<1>2. /\ r \in Streams /\ DOMAIN r = 1..n /\ n \in Nat
      /\ o \in [1..n -> Firsts(es)]
      /\ \A i \in Firsts(es) : \E k \in 1..n : o[k] = i
      /\ \A k, l \in 1..n : k < l <=> Precedes(es, o[k], o[l])
      /\ \A k \in 1..n :
            /\ SameChannel(r[k], es[o[k]])
            /\ r[k] = [es[Max(Channelled(es, o[k]))] EXCEPT !.value = Saturate(@)]
  BY NormalizeFacts
<1>3. S = {k \in 1..n : r[k].time = t}
  BY <1>2 DEF Moments
<1> HIDE DEF r, o, n, S
<1>4. \A k \in 1..n : o[k] \in Firsts(es) /\ o[k] \in DOMAIN es
  BY <1>2 DEF Firsts
<1>5. \A k \in 1..n : k \in S <=> es[o[k]].time = t
  BY <1>2, <1>3 DEF SameChannel
<1>6. \A k, l \in S : k < l <=> o[k] < o[l]
  BY <1>2, <1>3, <1>5 DEF Precedes
<1>7. \A i \in M : i \in DOMAIN es
  BY DEF Moments
<1> HIDE DEF M
<1> QED
  BY <1>1, <1>2, <1>3, <1>4, <1>5, <1>6, <1>7 DEF r, o, n, S, M

\* Streams that have the same events at a time have them after sorting too.
LEMMA NormalizeSameAt ==
    ASSUME NEW a \in Streams, NEW b \in Streams, NEW t \in Int, At(a, t) = At(b, t)
    PROVE  At(Normalize(a), t) = At(Normalize(b), t)
<1> DEFINE M == Moments(a, t)
           L == Moments(b, t)
           ra == Normalize(a)
           rb == Normalize(b)
           oa == NormalOrder(a)
           ob == NormalOrder(b)
           na == Cardinality(Firsts(a))
           nb == Cardinality(Firsts(b))
           A == Moments(ra, t)
           B == Moments(rb, t)
<1>1. PICK g : Matches(a, M, b, L, g)
  BY MomentsFacts, KeptMatches
<1>2. /\ ra \in Streams /\ DOMAIN ra = 1..na /\ na \in Nat /\ A \subseteq 1..na
      /\ \A i \in M : i \in DOMAIN a /\ a[i].time = t /\ i \in Nat
      /\ \A i \in DOMAIN a : a[i].time = t => i \in M
      /\ \A i \in Firsts(a) : \E k \in 1..na : oa[k] = i
      /\ \A k \in 1..na :
            /\ oa[k] \in Firsts(a) /\ (k \in A <=> oa[k] \in M)
            /\ ra[k] = [a[Max(Channelled(a, oa[k]))] EXCEPT !.value = Saturate(@)]
      /\ \A k, l \in A : k < l <=> oa[k] < oa[l]
  BY SortedMoments
<1>3. /\ rb \in Streams /\ DOMAIN rb = 1..nb /\ nb \in Nat /\ B \subseteq 1..nb
      /\ \A i \in L : i \in DOMAIN b /\ b[i].time = t /\ i \in Nat
      /\ \A i \in DOMAIN b : b[i].time = t => i \in L
      /\ \A i \in Firsts(b) : \E k \in 1..nb : ob[k] = i
      /\ \A k \in 1..nb :
            /\ ob[k] \in Firsts(b) /\ (k \in B <=> ob[k] \in L)
            /\ rb[k] = [b[Max(Channelled(b, ob[k]))] EXCEPT !.value = Saturate(@)]
      /\ \A k, l \in B : k < l <=> ob[k] < ob[l]
  BY SortedMoments
<1> HIDE DEF ra, rb, oa, ob, na, nb, A, B, M, L
<1>4. /\ \A i \in M : g[i] \in L /\ a[i] = b[g[i]]
      /\ \A j \in L : \E i \in M : g[i] = j
      /\ \A i, j \in M : i < j => g[i] < g[j]
  BY <1>1 DEF Matches
<1>5. ASSUME NEW i \in M, NEW j \in M PROVE i < j <=> g[i] < g[j]
  <2>1. i \in Nat /\ j \in Nat /\ g[i] \in Nat /\ g[j] \in Nat
    BY <1>2, <1>3, <1>4
  <2> QED
    BY <1>4, <2>1
<1>6. \A i \in M : i \in Firsts(a) <=> g[i] \in Firsts(b)
  <2> SUFFICES ASSUME NEW i \in M PROVE i \in Firsts(a) <=> g[i] \in Firsts(b)
    OBVIOUS
  <2>1. /\ i \in DOMAIN a /\ g[i] \in DOMAIN b /\ g[i] \in L
        /\ a[i] = b[g[i]] /\ a[i].time = t /\ b[g[i]].time = t
    BY <1>2, <1>3, <1>4
  <2>2. \A j \in DOMAIN a : SameChannel(a[j], a[i]) => j \in M
    BY <1>2, <1>3, <2>1 DEF SameChannel
  <2>3. \A j \in DOMAIN b : SameChannel(b[j], b[g[i]]) => j \in L
    BY <1>2, <1>3, <2>1 DEF SameChannel
  <2>4. ASSUME NEW j \in DOMAIN b, j < g[i], SameChannel(b[j], b[g[i]])
        PROVE  \E k \in DOMAIN a : k < i /\ SameChannel(a[k], a[i])
    <3>1. PICK k \in M : g[k] = j
      BY <1>4, <2>3, <2>4
    <3>2. k < i /\ k \in DOMAIN a /\ a[k] = b[j]
      BY <1>2, <1>3, <1>4, <1>5, <2>4, <3>1
    <3> QED
      BY <2>1, <2>4, <3>2
  <2>5. ASSUME NEW j \in DOMAIN a, j < i, SameChannel(a[j], a[i])
        PROVE  \E k \in DOMAIN b : k < g[i] /\ SameChannel(b[k], b[g[i]])
    <3>1. j \in M /\ g[j] \in L /\ a[j] = b[g[j]]
      BY <1>4, <2>2, <2>5
    <3>2. g[j] < g[i] /\ g[j] \in DOMAIN b
      BY <1>2, <1>3, <1>5, <2>5, <3>1
    <3> QED
      BY <2>1, <2>5, <3>1, <3>2
  <2> QED
    BY <2>1, <2>4, <2>5 DEF Firsts
<1>7. ASSUME NEW i \in M PROVE Max(Channelled(b, g[i])) = g[Max(Channelled(a, i))]
  <2> DEFINE u == Max(Channelled(a, i))
             v == Max(Channelled(b, g[i]))
  <2>1. i \in DOMAIN a /\ g[i] \in DOMAIN b /\ a[i] = b[g[i]] /\ a[i].time = t
    BY <1>2, <1>3, <1>4
  <2>2. /\ u \in DOMAIN a /\ SameChannel(a[u], a[i])
        /\ \A j \in DOMAIN a : SameChannel(a[j], a[i]) => j <= u
    BY <2>1, LatestFacts
  <2>3. /\ v \in DOMAIN b /\ SameChannel(b[v], b[g[i]])
        /\ \A j \in DOMAIN b : SameChannel(b[j], b[g[i]]) => j <= v
    BY <2>1, LatestFacts
  <2> HIDE DEF u, v
  <2>4. u \in M /\ v \in L
    BY <1>2, <1>3, <2>1, <2>2, <2>3 DEF SameChannel
  <2>5. PICK k \in M : g[k] = v
    BY <1>4, <2>4
  <2>6. SameChannel(a[k], a[i]) /\ SameChannel(b[g[u]], b[g[i]]) /\ g[u] \in DOMAIN b
        /\ k \in DOMAIN a
    BY <1>2, <1>3, <1>4, <2>1, <2>2, <2>3, <2>4, <2>5
  <2>7. k <= u /\ g[u] <= v
    BY <2>2, <2>3, <2>6
  <2>8. ~(u < k) /\ ~(k < u)
    <3>1. k \in Nat /\ u \in Nat /\ g[k] \in Nat /\ g[u] \in Nat
      BY <1>2, <1>3, <1>4, <2>4
    <3>2. k < u <=> g[k] < g[u]
      BY <1>5, <2>4
    <3> QED
      BY <2>5, <2>7, <3>1, <3>2
  <2>9. k = u
    BY <1>2, <1>3, <2>4, <2>8
  <2> QED
    BY <2>5, <2>9 DEF u, v
<1> DEFINE h == [k \in A |-> CHOOSE l \in 1..nb : ob[l] = g[oa[k]]]
<1>8. \A k \in A : h[k] \in 1..nb /\ ob[h[k]] = g[oa[k]] /\ h[k] \in B
  <2> SUFFICES ASSUME NEW k \in A
               PROVE  h[k] \in 1..nb /\ ob[h[k]] = g[oa[k]] /\ h[k] \in B
    OBVIOUS
  <2>1. oa[k] \in M /\ g[oa[k]] \in L /\ g[oa[k]] \in Firsts(b)
    BY <1>2, <1>4, <1>6
  <2>2. \E l \in 1..nb : ob[l] = g[oa[k]]
    BY <1>3, <2>1
  <2>3. h[k] \in 1..nb /\ ob[h[k]] = g[oa[k]]
    BY <2>2
  <2> HIDE DEF h
  <2> QED
    BY <1>3, <2>1, <2>3
<1> HIDE DEF h
<1>9. h \in [A -> B]
  <2>1. h = [k \in A |-> h[k]]
    BY DEF h
  <2> QED
    BY <1>8, <2>1
<1>10. \A j \in B : \E k \in A : h[k] = j
  <2> SUFFICES ASSUME NEW j \in B PROVE \E k \in A : h[k] = j
    OBVIOUS
  <2>1. j \in 1..nb /\ ob[j] \in Firsts(b) /\ ob[j] \in L
    BY <1>3
  <2>2. PICK i \in M : g[i] = ob[j]
    BY <1>4, <2>1
  <2>3. PICK k \in 1..na : oa[k] = i
    BY <1>2, <1>6, <2>1, <2>2
  <2>4. k \in A
    BY <1>2, <2>3
  <2>5. h[k] \in 1..nb /\ ob[h[k]] = ob[j] /\ h[k] \in B
    BY <1>8, <2>2, <2>3, <2>4
  <2>6. ob[j] \in Nat
    BY <1>2, <1>3, <2>1
  <2>7. ~(h[k] < j) /\ ~(j < h[k])
    BY <1>3, <2>1, <2>5, <2>6
  <2>8. h[k] = j
    BY <1>3, <2>1, <2>5, <2>7
  <2> QED
    BY <2>4, <2>8
<1>11. ASSUME NEW k \in A, NEW l \in A, k < l PROVE h[k] < h[l]
  <2>1. oa[k] < oa[l]
    BY <1>2, <1>11
  <2>2. g[oa[k]] < g[oa[l]]
    BY <1>2, <1>4, <2>1
  <2> QED
    BY <1>3, <1>8, <2>2
<1>12. ASSUME NEW k \in A PROVE ra[k] = rb[h[k]]
  <2> DEFINE i == oa[k]
             u == Max(Channelled(a, i))
  <2>1. i \in M /\ k \in 1..na /\ h[k] \in 1..nb /\ ob[h[k]] = g[i]
    BY <1>2, <1>8
  <2>2. i \in DOMAIN a /\ a[i].time = t
    BY <1>2, <1>3, <2>1
  <2>3. u \in DOMAIN a /\ SameChannel(a[u], a[i])
    BY <2>2, LatestFacts
  <2>4. Max(Channelled(b, g[i])) = g[u]
    BY <1>7, <2>1
  <2>5. ra[k] = [a[u] EXCEPT !.value = Saturate(@)]
    BY <1>2, <2>1
  <2> DEFINE x == h[k]
  <2>6. rb[x] = [b[g[u]] EXCEPT !.value = Saturate(@)]
    <3>1. x \in 1..nb /\ ob[x] = g[i]
      BY <2>1
    <3> HIDE DEF x
    <3>2. rb[x] = [b[Max(Channelled(b, ob[x]))] EXCEPT !.value = Saturate(@)]
      BY <1>3, <3>1
    <3> QED
      BY <2>4, <3>1, <3>2, Zenon
  <2> HIDE DEF i, u
  <2>7. u \in M
    BY <1>2, <1>3, <2>2, <2>3 DEF SameChannel
  <2>8. a[u] = b[g[u]]
    BY <1>4, <2>7
  <2> QED
    BY <2>5, <2>6, <2>8
<1>13. Matches(ra, A, rb, B, h)
  BY <1>9, <1>10, <1>11, <1>12 DEF Matches
<1>14. A \in SUBSET DOMAIN ra /\ B \in SUBSET DOMAIN rb
  BY <1>2, <1>3
<1>15. Kept(ra, A) = Kept(rb, B)
  BY <1>2, <1>3, <1>13, <1>14, MatchedKept
<1> QED
  BY <1>15 DEF ra, rb, A, B, At, Moments

\* Events of other times may be replaced, ...
LEMMA AtReplaced ==
    ASSUME NEW a \in Streams, NEW b \in Streams, NEW t, DOMAIN a = DOMAIN b,
           \A i \in DOMAIN a : a[i] = b[i] \/ (a[i].time # t /\ b[i].time # t)
    PROVE  At(a, t) = At(b, t)
<1> DEFINE S == Moments(a, t)
           g == [i \in S |-> i]
<1>1. S \in SUBSET DOMAIN a /\ At(a, t) = Kept(a, S) /\ At(b, t) = Kept(b, Moments(b, t))
  BY MomentsFacts
<1>2. Moments(b, t) = S /\ \A i \in S : a[i] = b[i]
  BY DEF Moments
<1> HIDE DEF S
<1>3. Matches(a, S, b, S, g)
  BY <1>2 DEF Matches
<1> HIDE DEF g
<1>4. Kept(a, S) = Kept(b, S)
  BY <1>1, <1>3, MatchedKept
<1> QED
  BY <1>1, <1>2, <1>4

\* left out, ...
LEMMA AtKept ==
    ASSUME NEW es \in Streams, NEW S \in SUBSET DOMAIN es, NEW t,
           \A i \in DOMAIN es : es[i].time = t => i \in S
    PROVE  At(Kept(es, S), t) = At(es, t)
<1> DEFINE r == Kept(es, S)
           p == InOrder(S, Upwards(S))
           N == Cardinality(S)
           A == Moments(r, t)
           B == Moments(es, t)
           g == [k \in A |-> p[k]]
<1>1. /\ r \in Streams /\ DOMAIN r = 1..N /\ Lists(p, N, S)
      /\ \A k \in 1..N : r[k] = es[p[k]]
  BY KeptFacts
<1>2. /\ A \in SUBSET (1..N) /\ \A k \in 1..N : k \in A <=> r[k].time = t
      /\ B \in SUBSET DOMAIN es /\ \A i \in DOMAIN es : i \in B <=> es[i].time = t
  BY <1>1 DEF Moments
<1>3. At(r, t) = Kept(r, A) /\ At(es, t) = Kept(es, B)
  BY <1>1, MomentsFacts
<1> HIDE DEF r, p, N, A, B
<1>4. \A k \in A : p[k] \in B /\ r[k] = es[p[k]]
  BY <1>1, <1>2 DEF Lists
<1>5. \A i \in B : \E k \in A : p[k] = i
  BY <1>1, <1>2 DEF Lists
<1>6. \A k, l \in A : k < l => p[k] < p[l]
  BY <1>1, <1>2 DEF Lists
<1>7. Matches(r, A, es, B, g)
  BY <1>4, <1>5, <1>6 DEF Matches
<1> HIDE DEF g
<1>8. Kept(r, A) = Kept(es, B)
  <2>1. A \in SUBSET DOMAIN r /\ B \in SUBSET DOMAIN es /\ r \in Streams
    BY <1>1, <1>2
  <2> QED
    BY <2>1, <1>7, MatchedKept
<1> QED
  BY <1>3, <1>8 DEF r

\* or appended.
LEMMA AtAppended ==
    ASSUME NEW a \in Streams, NEW b \in Streams, NEW t, Len(a) <= Len(b),
           \A i \in DOMAIN a : a[i] = b[i],
           \A i \in DOMAIN b : i > Len(a) => b[i].time # t
    PROVE  At(a, t) = At(b, t)
<1> DEFINE S == Moments(a, t)
           g == [i \in S |-> i]
<1>1. S \in SUBSET DOMAIN a /\ At(a, t) = Kept(a, S) /\ At(b, t) = Kept(b, Moments(b, t))
  BY MomentsFacts
<1>2. /\ Len(a) \in Nat /\ Len(b) \in Nat
      /\ DOMAIN a = 1..Len(a) /\ DOMAIN b = 1..Len(b)
  BY StreamFacts
<1>3. Moments(b, t) = S /\ (\A i \in S : a[i] = b[i]) /\ S \in SUBSET DOMAIN b
  BY <1>2 DEF Moments
<1> HIDE DEF S
<1>4. Matches(a, S, b, S, g)
  BY <1>3 DEF Matches
<1> HIDE DEF g
<1>5. Kept(a, S) = Kept(b, S)
  BY <1>1, <1>3, <1>4, MatchedKept
<1> QED
  BY <1>1, <1>3, <1>5

-----------------------------------------------------------------------------
(* Streams a modifier may be in the middle of, and sound ones.             *)

\* The values of switches are in the range of analog ones.
LEMMA Ranges ==
    /\ Full \in Nat /\ Full > 0 /\ 0..1 \subseteq -Full..Full
    /\ \A e \in Events : InRange(e) => e.value \in -Full..Full
    /\ \A e \in Events : InRange(e) /\ e.time >= 0 => Plausible(e)
<1>1. Full \in Nat /\ Full > 0 /\ 0..1 \subseteq -Full..Full
  BY SearchAssumption
<1> QED
  BY <1>1 DEF InRange, Plausible

\* A sound stream is plausible.
LEMMA SoundIsPlausible ==
    ASSUME NEW es, Sound(es)
    PROVE  Plausibles(es)
  BY Ranges, StreamFacts DEF Sound, Plausibles

\* Sorting brings every value into its range.
LEMMA NormalizeIsSound ==
    ASSUME NEW es, Plausibles(es)
    PROVE  /\ Sound(Normalize(es)) /\ Canonical(Normalize(es))
           /\ Len(Normalize(es)) <= Len(es)
<1> DEFINE r == Normalize(es)
<1>1. es \in Streams
  BY DEF Plausibles
<1>2. /\ r \in Streams /\ Canonical(r) /\ Len(r) <= Len(es)
      /\ \A k \in DOMAIN r : r[k].time >= 0 /\ r[k].value \in -Full..Full
  BY <1>1, NormalizeFacts, NormalizeIsCanonical
<1>3. ASSUME NEW k \in DOMAIN r PROVE InRange(r[k])
  <2> DEFINE i == NormalOrder(es)[k]
             u == Max(Channelled(es, i))
  <2>1. /\ i \in Firsts(es) /\ SameChannel(r[k], es[i])
        /\ r[k] = [es[u] EXCEPT !.value = Saturate(@)]
    BY <1>1, <1>3, NormalizeFacts
  <2>2. u \in DOMAIN es /\ SameChannel(es[u], es[i])
    BY <1>1, <2>1, LatestFacts DEF Firsts
  <2>3. es[u] \in Events /\ Plausible(es[u])
    BY <1>1, <2>2, StreamFacts DEF Plausibles
  <2> DEFINE e == es[u]
             f == r[k]
  <2>4. f = [e EXCEPT !.value = Saturate(@)] /\ e \in Events /\ Plausible(e)
        /\ f.value \in -Full..Full
    BY <1>2, <2>1, <2>3
  <2> HIDE DEF e, f, i, u
  <2>5. f.action = e.action /\ f.value = Saturate(e.value) /\ e.value \in Int
    BY <2>4 DEF Events
  <2>6. e.action \notin Analog => f.value = e.value
    BY <2>4, <2>5, Ranges, SaturateFacts DEF Plausible
  <2>7. InRange(f)
    BY <2>4, <2>5, <2>6 DEF InRange, Plausible
  <2> QED
    BY <2>7 DEF f
<1> QED
  BY <1>2, <1>3 DEF Sound

\* A sound stream in order needs no sorting.
LEMMA SoundIsNormal ==
    ASSUME NEW es, Sound(es), Canonical(es)
    PROVE  Normalize(es) = es
<1>1. es \in Streams /\ \A i \in DOMAIN es : es[i] \in Events
  BY StreamFacts DEF Sound
<1>2. \A i \in DOMAIN es : es[i].time >= 0 /\ es[i].value \in -Full..Full
  BY <1>1, Ranges DEF Sound
<1> QED
  BY <1>1, <1>2, CanonicalIsNormal

-----------------------------------------------------------------------------
(* Ticks.                                                                  *)

\* The whole ticks in a time.
LEMMA TickDivision ==
    ASSUME NEW a \in Int
    PROVE  /\ Tick \in Nat /\ Tick > 2 /\ a \div Tick \in Int
           /\ Floor(a) = (a \div Tick) * Tick /\ Floor(a) \in Int
           /\ Floor(a) <= a /\ a < Floor(a) + Tick
           /\ a >= 0 => a \div Tick >= 0
<1>1. Tick \in Nat /\ Tick > 2
  BY SearchAssumption
<1>2. a \div Tick \in Int
  BY <1>1
<1>3. (a \div Tick) * Tick \in Int
  BY <1>1, <1>2
<1>4. a = Tick * (a \div Tick) + (a % Tick) /\ a % Tick \in 0..(Tick - 1)
  BY <1>1
<1>5. (a \div Tick) * Tick <= a /\ a < (a \div Tick) * Tick + Tick
  BY <1>1, <1>2, <1>4
<1>6. a >= 0 => a \div Tick >= 0
  BY <1>1
<1> QED
  BY <1>1, <1>2, <1>3, <1>5, <1>6 DEF Floor

\* Ticks are in the order of their numbers.
LEMMA TickOrder ==
    ASSUME NEW i \in Int, NEW j \in Int
    PROVE  /\ i * Tick \in Int
           /\ i <= j <=> i * Tick <= j * Tick
           /\ i < j => i * Tick + Tick <= j * Tick
           /\ (i * Tick) \div Tick = i /\ Floor(i * Tick) = i * Tick
           /\ (i + j) * Tick = i * Tick + j * Tick /\ (i - j) * Tick = i * Tick - j * Tick
<1>1. Tick \in Nat /\ Tick > 2 /\ i * Tick \in Int /\ j * Tick \in Int
  BY SearchAssumption
<1>2. (i + j) * Tick = i * Tick + j * Tick /\ (i - j) * Tick = i * Tick - j * Tick
  BY <1>1
<1>3. ASSUME NEW k \in Nat, k >= 1 PROVE k * Tick >= Tick
  BY <1>1, <1>3
<1>4. i < j => i * Tick + Tick <= j * Tick
  <2> SUFFICES ASSUME i < j PROVE i * Tick + Tick <= j * Tick
    OBVIOUS
  <2>1. j - i \in Nat /\ j - i >= 1
    OBVIOUS
  <2>2. (j - i) * Tick >= Tick
    BY <2>1, <1>3
  <2>3. (j - i) * Tick = j * Tick - i * Tick
    BY <1>1
  <2> QED
    BY <2>2, <2>3, <1>1
<1>5. j < i => j * Tick + Tick <= i * Tick
  <2> SUFFICES ASSUME j < i PROVE j * Tick + Tick <= i * Tick
    OBVIOUS
  <2>1. i - j \in Nat /\ i - j >= 1
    OBVIOUS
  <2>2. (i - j) * Tick >= Tick
    BY <2>1, <1>3
  <2> QED
    BY <2>2, <1>1, <1>2
<1>6. i <= j <=> i * Tick <= j * Tick
  BY <1>1, <1>4, <1>5
<1>7. (i * Tick) \div Tick = i
  BY <1>1
<1> QED
  BY <1>1, <1>2, <1>4, <1>6, <1>7 DEF Floor

\* The ticks of a window are in it, but for the first that may begin earlier.
LEMMA WindowTicks ==
    ASSUME NEW w, w.first \in Int, w.last \in Int, NEW t \in TicksIn(w)
    PROVE  /\ t \in Int /\ Floor(w.first) <= t /\ t <= w.last
           /\ Floor(t) = t /\ t <= Floor(w.last)
<1>1. PICK n \in (w.first \div Tick)..(w.last \div Tick) : t = n * Tick
  BY DEF TicksIn
<1> DEFINE a == w.first \div Tick
           b == w.last \div Tick
<1>2. /\ a \in Int /\ Floor(w.first) = a * Tick
      /\ b \in Int /\ Floor(w.last) = b * Tick /\ Floor(w.last) <= w.last
  BY TickDivision
<1>3. n \in Int /\ a <= n /\ n <= b
  BY <1>1, <1>2
<1> HIDE DEF a, b
<1>4. n * Tick \in Int /\ a * Tick \in Int /\ b * Tick \in Int
      /\ a * Tick <= n * Tick /\ n * Tick <= b * Tick /\ Floor(n * Tick) = n * Tick
  BY <1>2, <1>3, TickOrder
<1> QED
  BY <1>1, <1>2, <1>4

-----------------------------------------------------------------------------
(* What may become of a stream while a modifier works in a window.         *)

\* Digital steering stays through whatever keeps it step by step.
LEMMA DigitalStaysOn ==
    ASSUME NEW a, NEW b, NEW c, DigitalStays(a, b), DigitalStays(b, c)
    PROVE  DigitalStays(a, c)
<1> SUFFICES ASSUME NEW j \in DOMAIN a, a[j].action \in Digital
             PROVE  \E i \in DOMAIN c : SameChannel(c[i], a[j])
  BY DEF DigitalStays
<1>1. PICK i \in DOMAIN b : SameChannel(b[i], a[j])
  BY DEF DigitalStays
<1>2. b[i].action \in Digital
  BY <1>1 DEF SameChannel
<1>3. PICK k \in DOMAIN c : SameChannel(c[k], b[i])
  BY <1>2 DEF DigitalStays
<1> QED
  BY <1>1, <1>3 DEF SameChannel

\* Sorting keeps every channel, with the value of its last event.
LEMMA SortedChannel ==
    ASSUME NEW es \in Streams, NEW i \in DOMAIN es, es[i].time >= 0
    PROVE  \E k \in DOMAIN Normalize(es) :
              /\ SameChannel(Normalize(es)[k], es[i])
              /\ Normalize(es)[k] =
                    [es[Max(Channelled(es, i))] EXCEPT !.value = Saturate(@)]
<1> DEFINE C == Channelled(es, i)
<1>1. DOMAIN es = 1..Len(es) /\ Len(es) \in Nat /\ \A j \in DOMAIN es : j \in Nat
  BY StreamFacts
<1>2. C \in SUBSET Nat /\ i \in C
  BY <1>1, StreamFacts DEF Channelled
<1>3. PICK j \in C : \A l \in C : j <= l
  BY <1>2, Least
<1>4. j \in DOMAIN es /\ SameChannel(es[j], es[i])
  BY DEF Channelled
<1>5. j \in Firsts(es)
  <2>1. es[j].time >= 0
    BY <1>4 DEF SameChannel
  <2>2. ASSUME NEW l \in DOMAIN es, l < j, SameChannel(es[l], es[j]) PROVE FALSE
    <3>1. SameChannel(es[l], es[i])
      BY <1>4, <2>2, ChannelFacts
    <3>2. l \in C
      BY <3>1 DEF Channelled
    <3>3. j <= l /\ j \in Nat /\ l \in Nat
      BY <1>1, <1>3, <1>4, <3>2
    <3> QED
      BY <2>2, <3>3
  <2> QED
    BY <1>4, <2>1, <2>2 DEF Firsts
<1>6. Channelled(es, j) = Channelled(es, i)
  BY <1>4 DEF Channelled, SameChannel
<1>7. PICK k \in 1..Cardinality(Firsts(es)) : NormalOrder(es)[k] = j
  BY <1>5, NormalizeFacts
<1>8. /\ k \in DOMAIN Normalize(es)
      /\ SameChannel(Normalize(es)[k], es[j])
      /\ Normalize(es)[k] = [es[Max(Channelled(es, j))] EXCEPT !.value = Saturate(@)]
  BY <1>7, NormalizeFacts
<1>9. SameChannel(Normalize(es)[k], es[i])
  BY <1>4, <1>8, ChannelFacts
<1> QED
  BY <1>6, <1>8, <1>9

\* An event of a sorted stream is the last one of its channel before.
LEMMA SortedSource ==
    ASSUME NEW es \in Streams, NEW k \in DOMAIN Normalize(es)
    PROVE  \E u \in DOMAIN es :
              /\ SameChannel(Normalize(es)[k], es[u])
              /\ \A j \in DOMAIN es : SameChannel(es[j], es[u]) => j <= u
              /\ Normalize(es)[k] = [es[u] EXCEPT !.value = Saturate(@)]
<1> DEFINE i == NormalOrder(es)[k]
           u == Max(Channelled(es, i))
<1>1. /\ i \in Firsts(es) /\ SameChannel(Normalize(es)[k], es[i])
      /\ Normalize(es)[k] = [es[u] EXCEPT !.value = Saturate(@)]
  BY NormalizeFacts
<1> HIDE DEF i
<1>2. /\ u \in DOMAIN es /\ SameChannel(es[u], es[i])
      /\ \A j \in DOMAIN es : SameChannel(es[j], es[i]) => j <= u
  BY <1>1, LatestFacts DEF Firsts
<1> HIDE DEF u
<1>3. SameChannel(Normalize(es)[k], es[u])
  BY <1>1, <1>2, ChannelFacts
<1>4. \A j \in DOMAIN es : SameChannel(es[j], es[u]) => SameChannel(es[j], es[i])
  BY <1>2 DEF SameChannel
<1> QED
  BY <1>1, <1>2, <1>3, <1>4

\* Nothing done.
LEMMA OutcomeOfNothing ==
    ASSUME NEW a, Plausibles(a), NEW w, NEW n \in Nat
    PROVE  Outcome(a, a, w, n)
  BY StreamFacts DEF Outcome, Untouched, NothingDigital, DigitalStays, Plausibles

\* One thing done after another.
LEMMA OutcomesCompose ==
    ASSUME NEW a, Plausibles(a), NEW b, NEW c, NEW w, NEW m \in Nat, NEW n \in Nat,
           Outcome(a, b, w, m), Outcome(b, c, w, n)
    PROVE  Outcome(a, c, w, m + n)
<1>1. Len(a) \in Nat /\ Len(b) \in Nat /\ Len(c) \in Nat
  BY StreamFacts DEF Outcome, Plausibles
<1>2. Len(c) <= Len(a) + (m + n)
  BY <1>1 DEF Outcome
<1>3. Untouched(a, c, w)
  BY DEF Outcome, Untouched
<1>4. NothingDigital(a, c)
  <2> SUFFICES ASSUME NEW i \in DOMAIN c, c[i].action \in Digital
               PROVE  \E j \in DOMAIN a : a[j] = c[i]
    BY DEF NothingDigital
  <2>1. PICK k \in DOMAIN b : b[k] = c[i]
    BY DEF Outcome, NothingDigital
  <2>2. b[k].action \in Digital
    BY <2>1
  <2> QED
    BY <2>1, <2>2 DEF Outcome, NothingDigital
<1>5. DigitalStays(a, c)
  BY DigitalStaysOn DEF Outcome
<1> QED
  BY <1>2, <1>3, <1>4, <1>5 DEF Outcome

\* More room does no harm.
LEMMA OutcomeOfMore ==
    ASSUME NEW a, Plausibles(a), NEW b, NEW w, NEW m \in Nat, NEW n \in Nat, m <= n,
           Outcome(a, b, w, m)
    PROVE  Outcome(a, b, w, n)
<1>1. Len(a) \in Nat /\ Len(b) \in Nat
  BY StreamFacts DEF Outcome, Plausibles
<1>2. Len(b) <= Len(a) + n
  BY <1>1 DEF Outcome
<1> QED
  BY <1>2 DEF Outcome

\* Sorting is no change.
LEMMA OutcomeSorted ==
    ASSUME NEW a, Plausibles(a), NEW b, NEW w, NEW n \in Nat, Outcome(a, b, w, n)
    PROVE  /\ Outcome(a, Normalize(b), w, n)
           /\ Sound(Normalize(b)) /\ Canonical(Normalize(b))
<1> DEFINE r == Normalize(b)
<1>1. Plausibles(b) /\ b \in Streams
  BY DEF Outcome, Plausibles
<1>2. Sound(r) /\ Canonical(r) /\ Len(r) <= Len(b)
  BY <1>1, NormalizeIsSound
<1>3. Plausibles(r) /\ r \in Streams
  BY <1>2, SoundIsPlausible DEF Plausibles
<1>4. Normalize(r) = r
  BY <1>1, NormalizeTwice
<1>5. Len(r) <= Len(a) + n
  <2>1. Len(a) \in Nat /\ Len(b) \in Nat /\ Len(r) \in Nat
    BY <1>1, <1>3, StreamFacts DEF Plausibles
  <2> HIDE DEF r
  <2> QED
    BY <1>2, <2>1 DEF Outcome
<1>6. Untouched(a, r, w)
  BY <1>4 DEF Outcome, Untouched
<1>7. NothingDigital(b, r)
  <2> SUFFICES ASSUME NEW k \in DOMAIN r, r[k].action \in Digital
               PROVE  \E j \in DOMAIN b : b[j] = r[k]
    BY DEF NothingDigital
  <2> DEFINE i == NormalOrder(b)[k]
             u == Max(Channelled(b, i))
  <2>1. /\ i \in Firsts(b) /\ SameChannel(r[k], b[i])
        /\ r[k] = [b[u] EXCEPT !.value = Saturate(@)]
    BY <1>1, NormalizeFacts
  <2>2. u \in DOMAIN b /\ SameChannel(b[u], b[i])
    BY <1>1, <2>1, LatestFacts DEF Firsts
  <2>3. b[u] \in Events /\ Plausible(b[u])
    BY <1>1, <2>2, StreamFacts DEF Plausibles
  <2> DEFINE e == b[u]
             f == r[k]
  <2>4. f = [e EXCEPT !.value = Saturate(@)] /\ e \in Events /\ Plausible(e)
        /\ f.action \in Digital
    BY <2>1, <2>3
  <2> HIDE DEF e, f, i, u
  <2>5. e.action \in Digital /\ e.action \notin Analog
    BY <2>4 DEF Events, Digital, Analog, SteerLeft, SteerRight, Gas, Steer
  <2>6. Saturate(e.value) = e.value
    BY <2>4, <2>5, Ranges, SaturateFacts DEF Plausible, Events
  <2>7. f = e
    BY <2>4, <2>6 DEF Events
  <2> QED
    BY <2>2, <2>7 DEF e, f
<1>9. DigitalStays(b, r)
  <2>1. ASSUME NEW j \in DOMAIN b, b[j].action \in Digital
        PROVE  \E i \in DOMAIN r : SameChannel(r[i], b[j])
    <3>1. b[j].time >= 0
      BY <1>1 DEF Plausibles, Plausible
    <3> QED
      BY <1>1, <3>1, SortedChannel
  <2> HIDE DEF r
  <2> QED
    BY <2>1 DEF DigitalStays
<1>10. DigitalStays(a, r)
  <2> HIDE DEF r
  <2> QED
    BY <1>9, DigitalStaysOn DEF Outcome
<1>8. NothingDigital(a, r)
  <2> HIDE DEF r
  <2> SUFFICES ASSUME NEW i \in DOMAIN r, r[i].action \in Digital
               PROVE  \E j \in DOMAIN a : a[j] = r[i]
    BY DEF NothingDigital
  <2>1. PICK k \in DOMAIN b : b[k] = r[i]
    BY <1>7 DEF NothingDigital
  <2> QED
    BY <2>1 DEF Outcome, NothingDigital
<1> QED
  BY <1>2, <1>3, <1>5, <1>6, <1>8, <1>10 DEF Outcome

\* What has the same events at a time has them after sorting.
LEMMA OutcomeByMoments ==
    ASSUME NEW a, Plausibles(a), NEW b, Plausibles(b), NEW w, NEW n,
           Len(b) <= Len(a) + n, NothingDigital(a, b), DigitalStays(a, b),
           \A t \in Int : Outside(w, t) => At(b, t) = At(a, t)
    PROVE  Outcome(a, b, w, n)
<1>1. ASSUME NEW t \in Int, Outside(w, t)
      PROVE  At(Normalize(b), t) = At(Normalize(a), t)
  <2>1. At(b, t) = At(a, t) /\ a \in Streams /\ b \in Streams
    BY <1>1 DEF Plausibles
  <2> QED
    BY <2>1, NormalizeSameAt
<1> QED
  BY <1>1 DEF Outcome, Untouched

\* The first tick of a window.
LEMMA WindowFacts ==
    ASSUME NEW w, GoodWindow(w)
    PROVE  /\ w.first \in Int /\ w.last \in Int /\ Floor(w.first) \in Int
           /\ 0 <= Floor(w.first) /\ Floor(w.first) <= w.first /\ w.first <= w.last
<1>1. w.first \in Int /\ w.last \in Int /\ 0 <= w.first /\ w.first <= w.last
  BY DEF GoodWindow
<1> DEFINE f == w.first
<1>2. /\ Floor(f) = (f \div Tick) * Tick /\ f \div Tick \in Int /\ f \div Tick >= 0
      /\ Floor(f) \in Int /\ Floor(f) <= f /\ Tick \in Nat
  <2> HIDE DEF f
  <2>1. f \in Int /\ f >= 0
    BY <1>1 DEF f
  <2> QED
    BY <2>1, TickDivision
<1>3. 0 <= (w.first \div Tick) * Tick
  BY <1>2
<1> QED
  BY <1>1, <1>2, <1>3

\* An event of a window is not outside of it.
LEMMA InsideWindow ==
    ASSUME NEW w, GoodWindow(w), NEW t \in Int, Floor(w.first) <= t, t <= w.last
    PROVE  ~Outside(w, t)
  BY WindowFacts DEF Outside

-----------------------------------------------------------------------------
(* Modifiers that change or drop events.                                   *)

\* What replacing events gives.
LEMMA ReplacedFacts ==
    ASSUME NEW a \in Streams, NEW places \in SUBSET DOMAIN a, NEW edits,
           \A i \in places : edits[i] \in SUBSET Events,
           NEW r \in Replaced(a, places, edits)
    PROVE  /\ r \in Streams /\ DOMAIN r = DOMAIN a /\ Len(r) = Len(a)
           /\ \A i \in DOMAIN a : (i \in places /\ r[i] \in edits[i])
                                   \/ (i \notin places /\ r[i] = a[i])
<1>1. PICK f \in [places -> UNION {edits[i] : i \in places}] :
        /\ \A i \in places : f[i] \in edits[i]
        /\ r = [i \in DOMAIN a |-> IF i \in places THEN f[i] ELSE a[i]]
  BY DEF Replaced
<1>2. Len(a) \in Nat /\ DOMAIN a = 1..Len(a) /\ \A i \in DOMAIN a : a[i] \in Events
  BY StreamFacts
<1>3. \A i \in DOMAIN a : (i \in places /\ r[i] \in edits[i])
                           \/ (i \notin places /\ r[i] = a[i])
  <2> SUFFICES ASSUME NEW i \in DOMAIN a
               PROVE  (i \in places /\ r[i] \in edits[i]) \/ (i \notin places /\ r[i] = a[i])
    OBVIOUS
  <2>1. r[i] = IF i \in places THEN f[i] ELSE a[i]
    BY <1>1
  <2> QED
    BY <1>1, <2>1
<1>4. \A i \in DOMAIN a : r[i] \in Events
  BY <1>2, <1>3
<1>5. r \in [1..Len(a) -> Events]
  BY <1>1, <1>2, <1>4
<1>6. r \in Streams /\ DOMAIN r = 1..Len(a) /\ Len(r) = Len(a)
  BY <1>2, <1>5 DEF Streams
<1> QED
  BY <1>2, <1>3, <1>6

\* Channels that stay where they were stay in order.
LEMMA SameChannelsSameOrder ==
    ASSUME NEW a, NEW r, DOMAIN r = DOMAIN a, Canonical(a),
           \A i \in DOMAIN a : r[i].time = a[i].time /\ r[i].action = a[i].action
    PROVE  Canonical(r)
  BY DEF Canonical, Sorted, SameChannel

\* Events that are replaced within a window.
LEMMA ReplacedInWindow ==
    ASSUME NEW a, Sound(a), NEW w, GoodWindow(w), NEW places \in SUBSET DOMAIN a, NEW edits,
           \A i \in places : InWindow(a[i], w) /\ a[i].action \notin Digital,
           \A i \in places : edits[i] \in SUBSET Events,
           \A i \in places : \A e \in edits[i] :
                InWindow(e, w) /\ InRange(e) /\ e.action \notin Digital,
           NEW r \in Replaced(a, places, edits)
    PROVE  Outcome(a, r, w, 0) /\ Sound(r)
<1>1. a \in Streams /\ Plausibles(a)
  BY SoundIsPlausible DEF Plausibles
<1>2. /\ r \in Streams /\ DOMAIN r = DOMAIN a /\ Len(r) = Len(a)
      /\ \A i \in DOMAIN a : (i \in places /\ r[i] \in edits[i])
                              \/ (i \notin places /\ r[i] = a[i])
  BY <1>1, ReplacedFacts
<1>3. /\ w.first \in Int /\ w.last \in Int /\ Floor(w.first) \in Int
      /\ 0 <= Floor(w.first) /\ Floor(w.first) <= w.first
  BY WindowFacts
<1>4. \A i \in places : InWindow(a[i], w) /\ InWindow(r[i], w) /\ InRange(r[i])
                        /\ r[i].action \notin Digital
  BY <1>2
<1>5. ASSUME NEW i \in DOMAIN r PROVE r[i].time \in Int /\ r[i].time >= 0 /\ InRange(r[i])
  <2>1. CASE i \in places
    <3>1. r[i].time \in Int
      BY <1>2, StreamFacts
    <3> QED
      BY <1>3, <1>4, <2>1, <3>1 DEF InWindow
  <2>2. CASE i \notin places
    <3>1. r[i] = a[i] /\ i \in DOMAIN a
      BY <1>2, <2>2
    <3> QED
      BY <1>1, <3>1, StreamFacts DEF Sound
  <2> QED
    BY <2>1, <2>2
<1>6. Sound(r)
  BY <1>2, <1>5 DEF Sound
<1>7. ASSUME NEW t \in Int, Outside(w, t) PROVE At(a, t) = At(r, t)
  <2>1. ASSUME NEW i \in DOMAIN a PROVE a[i] = r[i] \/ (a[i].time # t /\ r[i].time # t)
    <3>1. CASE i \in places
      BY <1>3, <1>4, <1>7, <3>1 DEF InWindow, Outside
    <3> QED
      BY <1>2, <3>1
  <2> QED
    BY <1>1, <1>2, <2>1, AtReplaced
<1>8. NothingDigital(a, r)
  BY <1>2, <1>4 DEF NothingDigital
<1>10. DigitalStays(a, r)
  BY <1>2 DEF DigitalStays, SameChannel
<1>9. Plausibles(r) /\ Len(r) <= Len(a) + 0
  BY <1>1, <1>2, <1>6, SoundIsPlausible, StreamFacts
<1> QED
  BY <1>1, <1>6, <1>7, <1>8, <1>9, <1>10, OutcomeByMoments

\* RandomSteering draws values.
LEMMA RandomSteeringFacts ==
    ASSUME NEW a, Sound(a), NEW w, GoodWindow(w), NEW r \in RandomSteering(a, w)
    PROVE  /\ Outcome(a, r, w, 0) /\ Sound(r)
           /\ Canonical(a) => Canonical(r)
<1> DEFINE places == {i \in DOMAIN a : InWindow(a[i], w) /\ a[i].action = Steer}
           edits == [i \in places |->
                        {[a[i] EXCEPT !.value = v] : v \in Draws \ {a[i].value}}]
<1>1. r \in Replaced(a, places, edits)
  BY DEF RandomSteering
<1>2. a \in Streams /\ \A i \in DOMAIN a : a[i] \in Events
  BY StreamFacts DEF Sound
<1>3. ASSUME NEW i \in places, NEW f \in edits[i]
      PROVE  /\ f \in Events /\ f.time = a[i].time /\ f.action = Steer /\ a[i].action = Steer
             /\ InWindow(f, w) /\ InRange(f) /\ f.action \notin Digital
  <2> DEFINE e == a[i]
  <2>1. e \in Events /\ e.action = Steer /\ InWindow(e, w)
    BY <1>2
  <2>2. PICK v \in Draws : f = [e EXCEPT !.value = v]
    OBVIOUS
  <2>3. v \in -Full..Full /\ v \in Int
    BY SearchAssumption
  <2> HIDE DEF e
  <2>4. f \in Events /\ f.time = e.time /\ f.action = Steer /\ f.value = v
    BY <2>1, <2>2, <2>3 DEF Events
  <2>5. InWindow(f, w) /\ InRange(f)
    BY <2>1, <2>3, <2>4 DEF InWindow, InRange, Analog
  <2> QED
    BY <2>1, <2>4, <2>5 DEF Digital, Steer, SteerLeft, SteerRight, e
<1>4. /\ places \in SUBSET DOMAIN a
      /\ \A i \in places : InWindow(a[i], w) /\ a[i].action \notin Digital
  BY DEF Digital, Steer, SteerLeft, SteerRight
<1> HIDE DEF places, edits
<1>5. \A i \in places : edits[i] \in SUBSET Events
  BY <1>3
<1>6. Outcome(a, r, w, 0) /\ Sound(r)
  BY <1>1, <1>3, <1>4, <1>5, ReplacedInWindow
<1>7. ASSUME Canonical(a) PROVE Canonical(r)
  <2>1. /\ DOMAIN r = DOMAIN a
        /\ \A i \in DOMAIN a : (i \in places /\ r[i] \in edits[i])
                                \/ (i \notin places /\ r[i] = a[i])
    BY <1>1, <1>2, <1>4, <1>5, ReplacedFacts
  <2>2. \A i \in DOMAIN a : r[i].time = a[i].time /\ r[i].action = a[i].action
    BY <1>3, <2>1
  <2> QED
    BY <1>7, <2>1, <2>2, SameChannelsSameOrder
<1> QED
  BY <1>6, <1>7

\* What is kept of a stream was in it, and keeps its order.
LEMMA KeptSource ==
    ASSUME NEW a \in Streams, NEW S \in SUBSET DOMAIN a
    PROVE  /\ Kept(a, S) \in Streams /\ Len(Kept(a, S)) <= Len(a)
           /\ \A k \in DOMAIN Kept(a, S) : \E i \in S : Kept(a, S)[k] = a[i]
           /\ \A i \in S : \E k \in DOMAIN Kept(a, S) : Kept(a, S)[k] = a[i]
           /\ Sorted(a) => Sorted(Kept(a, S))
           /\ Canonical(a) => Canonical(Kept(a, S))
<1> DEFINE r == Kept(a, S)
           p == InOrder(S, Upwards(S))
           N == Cardinality(S)
<1>1. /\ r \in Streams /\ DOMAIN r = 1..N /\ Lists(p, N, S) /\ Len(r) <= Len(a)
      /\ \A k \in 1..N : r[k] = a[p[k]]
  BY KeptFacts
<1> HIDE DEF r, p, N
<1>2. /\ N \in Nat /\ p \in [1..N -> S]
      /\ \A i \in S : \E k \in 1..N : p[k] = i
      /\ \A k, l \in 1..N : k < l <=> p[k] < p[l]
  BY <1>1 DEF Lists
<1>3. \A k \in DOMAIN r : \E i \in S : r[k] = a[i]
  BY <1>1, <1>2
<1>4. \A i \in S : \E k \in DOMAIN r : r[k] = a[i]
  BY <1>1, <1>2
<1>5. ASSUME Sorted(a) PROVE Sorted(r)
  <2> SUFFICES ASSUME NEW k \in DOMAIN r, NEW l \in DOMAIN r, k < l
               PROVE  r[k].time <= r[l].time
    BY DEF Sorted
  <2>1. p[k] \in DOMAIN a /\ p[l] \in DOMAIN a /\ p[k] < p[l]
        /\ r[k] = a[p[k]] /\ r[l] = a[p[l]]
    BY <1>1, <1>2
  <2> QED
    BY <1>5, <2>1 DEF Sorted
<1>6. ASSUME Canonical(a) PROVE Canonical(r)
  <2>1. Sorted(r)
    BY <1>5, <1>6 DEF Canonical
  <2>2. ASSUME NEW k \in DOMAIN r, NEW l \in DOMAIN r, k # l
        PROVE  ~SameChannel(r[k], r[l])
    <3>1. k \in 1..N /\ l \in 1..N /\ (k < l \/ l < k)
      BY <1>1, <1>2, <2>2
    <3>2. p[k] \in DOMAIN a /\ p[l] \in DOMAIN a /\ (p[k] < p[l] \/ p[l] < p[k])
          /\ r[k] = a[p[k]] /\ r[l] = a[p[l]]
      BY <1>1, <1>2, <3>1
    <3>3. p[k] \in Nat /\ p[l] \in Nat
      BY <3>2, StreamFacts
    <3>4. p[k] # p[l]
      BY <3>2, <3>3
    <3> QED
      BY <1>6, <3>2, <3>4 DEF Canonical
  <2> QED
    BY <2>1, <2>2 DEF Canonical
<1> QED
  BY <1>1, <1>3, <1>4, <1>5, <1>6 DEF r

\* Events that are dropped within a window.
LEMMA KeptInWindow ==
    ASSUME NEW a, Plausibles(a), NEW w, NEW S \in SUBSET DOMAIN a,
           \A i \in DOMAIN a : i \notin S =>
                ~Outside(w, a[i].time) /\ a[i].action \notin Digital
    PROVE  /\ Outcome(a, Kept(a, S), w, 0)
           /\ Sound(a) => Sound(Kept(a, S))
           /\ Canonical(a) => Canonical(Kept(a, S))
<1> DEFINE r == Kept(a, S)
<1>1. a \in Streams /\ \A i \in DOMAIN a : Plausible(a[i])
  BY DEF Plausibles
<1>2. /\ r \in Streams /\ Len(r) <= Len(a)
      /\ \A k \in DOMAIN r : \E i \in S : r[k] = a[i]
      /\ \A i \in S : \E k \in DOMAIN r : r[k] = a[i]
      /\ Canonical(a) => Canonical(r)
  BY <1>1, KeptSource
<1>3. ASSUME NEW t \in Int, Outside(w, t) PROVE At(r, t) = At(a, t)
  BY <1>1, <1>3, AtKept
<1> HIDE DEF r
<1>4. Plausibles(r)
  BY <1>1, <1>2 DEF Plausibles
<1>5. NothingDigital(a, r)
  BY <1>2 DEF NothingDigital
<1>9. DigitalStays(a, r)
  BY <1>2 DEF DigitalStays, SameChannel
<1>6. Len(r) <= Len(a) + 0
  BY <1>1, <1>2, StreamFacts
<1>7. Outcome(a, r, w, 0)
  BY <1>1, <1>3, <1>4, <1>5, <1>6, <1>9, OutcomeByMoments
<1>8. Sound(a) => Sound(r)
  BY <1>1, <1>2 DEF Sound
<1> QED
  BY <1>2, <1>7, <1>8 DEF r

\* A deletion goes on with what another left.
LEMMA DeletedChannelFacts ==
    ASSUME NEW a, Plausibles(a), NEW w, GoodWindow(w), NEW streams, NEW most,
           NEW group, group \cap Digital = {},
           \A es \in streams : Thinned(a, es, w),
           NEW r \in DeletedChannel(streams, w, most, group)
    PROVE  Thinned(a, r, w)
<1>1. PICK es \in streams :
        \E p \in SUBSET {i \in DOMAIN es : InWindow(es[i], w) /\ es[i].action \in group} :
            r = Kept(es, (DOMAIN es) \ p)
  BY DEF DeletedChannel
<1>p. PICK p \in SUBSET {i \in DOMAIN es : InWindow(es[i], w) /\ es[i].action \in group} :
        r = Kept(es, (DOMAIN es) \ p)
  BY <1>1
<1>2. Sound(es) /\ Plausibles(es) /\ Thinned(a, es, w) /\ es \in Streams
  BY SoundIsPlausible DEF Thinned, Sound
<1> DEFINE S == (DOMAIN es) \ p
<1>3. S \in SUBSET DOMAIN es /\ r = Kept(es, S)
  BY <1>p
<1>4. ASSUME NEW i \in DOMAIN es, i \notin S
      PROVE  ~Outside(w, es[i].time) /\ es[i].action \notin Digital
  <2>1. InWindow(es[i], w) /\ es[i].time \in Int /\ es[i].action \in group
    BY <1>p, <1>2, <1>4, StreamFacts
  <2> QED
    BY <2>1, WindowFacts DEF InWindow, Outside
<1> HIDE DEF S
<1>5. Outcome(es, r, w, 0) /\ Sound(r) /\ (Canonical(es) => Canonical(r))
  BY <1>2, <1>3, <1>4, KeptInWindow
<1>6. Outcome(a, r, w, 0)
  BY <1>2, <1>5, OutcomesCompose DEF Thinned
<1> QED
  BY <1>2, <1>5, <1>6 DEF Thinned

\* InputDeletion drops events.
LEMMA InputDeletionFacts ==
    ASSUME NEW a, Sound(a), NEW w, GoodWindow(w), NEW m, NEW r \in InputDeletion(a, m, w)
    PROVE  Thinned(a, r, w)
<1>1. Plausibles(a)
  BY SoundIsPlausible
<1>2. Thinned(a, a, w)
  BY <1>1, OutcomeOfNothing DEF Thinned
<1> DEFINE steering == DeletedChannel({a}, w, m.steering, {Steer})
           accelerate == DeletedChannel(steering, w, m.accelerate, {Accelerate, Gas})
<1>3. r \in DeletedChannel(accelerate, w, m.brake, {Brake})
  BY DEF InputDeletion
<1>4. \A es \in {a} : Thinned(a, es, w)
  BY <1>2
<1>7. /\ {Steer} \cap Digital = {} /\ {Accelerate, Gas} \cap Digital = {}
      /\ {Brake} \cap Digital = {}
  BY DEF Digital, Steer, SteerLeft, SteerRight, Accelerate, Gas, Brake
<1>5. \A es \in steering : Thinned(a, es, w)
  BY <1>1, <1>4, <1>7, DeletedChannelFacts
<1> HIDE DEF steering
<1>6. \A es \in accelerate : Thinned(a, es, w)
  BY <1>1, <1>5, <1>7, DeletedChannelFacts
<1> HIDE DEF accelerate
<1> QED
  BY <1>1, <1>3, <1>6, <1>7, DeletedChannelFacts

\* The types of the parameters of each kind of modifier.
LEMMA ModifierFacts ==
    ASSUME NEW m, GoodModifier(m)
    PROVE  /\ m.kind \in {"RandomSteering", "ExistingEvent", "SmoothSteering",
                          "InputInsertion", "InputDeletion"}
           /\ m.first \in Int /\ m.last \in Int /\ 0 <= m.first /\ m.first <= m.last
           /\ m.kind = "ExistingEvent" =>
                /\ m.shift \in Nat /\ m.absolute \in BOOLEAN
                /\ m.values \in SUBSET Int /\ (m.absolute => m.values \subseteq -Full..Full)
           /\ m.kind = "SmoothSteering" =>
                /\ m.deformations \in Nat /\ m.radius \in Nat /\ m.radius % Tick = 0
                /\ m.amplitudes \in SUBSET Int
                /\ \A x \in m.amplitudes, d \in 0..(m.radius \div Tick) :
                        Weighted(x, d) \in Int
           /\ m.kind = "InputInsertion" =>
                /\ m.steering \in Channel /\ m.accelerate \in Channel /\ m.brake \in Channel
                /\ m.offset \in BOOLEAN /\ m.values \in SUBSET Int
<1>1. Modifier(m) /\ 0 <= m.first /\ (m.kind = "SmoothSteering" => m.radius % Tick = 0)
  BY DEF GoodModifier
<1>2. CASE m \in [kind : {"RandomSteering"}, first : Int, last : Int]
  BY <1>1, <1>2 DEF Modifier
<1>3. CASE m \in [kind : {"ExistingEvent"}, first : Int, last : Int, fewest : Nat,
                  most : Nat, shift : Nat, absolute : BOOLEAN, values : SUBSET Int,
                  toggles : SUBSET {"accelerate", "brake"}]
  BY <1>1, <1>3 DEF Modifier
<1>4. CASE m \in [kind : {"SmoothSteering"}, first : Int, last : Int,
                  deformations : Nat, radius : Nat, amplitudes : SUBSET Int]
  BY <1>1, <1>4 DEF Modifier
<1>5. CASE m \in [kind : {"InputInsertion"}, first : Int, last : Int, steering : Channel,
                  accelerate : Channel, brake : Channel, offset : BOOLEAN,
                  values : SUBSET Int]
  BY <1>1, <1>5 DEF Modifier
<1>6. CASE m \in [kind : {"InputDeletion"}, first : Int, last : Int, steering : Nat,
                  accelerate : Nat, brake : Nat]
  BY <1>1, <1>6 DEF Modifier
<1>7. \/ m \in [kind : {"RandomSteering"}, first : Int, last : Int]
      \/ m \in [kind : {"ExistingEvent"}, first : Int, last : Int, fewest : Nat,
                most : Nat, shift : Nat, absolute : BOOLEAN, values : SUBSET Int,
                toggles : SUBSET {"accelerate", "brake"}]
      \/ m \in [kind : {"SmoothSteering"}, first : Int, last : Int,
                deformations : Nat, radius : Nat, amplitudes : SUBSET Int]
      \/ m \in [kind : {"InputInsertion"}, first : Int, last : Int, steering : Channel,
                accelerate : Channel, brake : Channel, offset : BOOLEAN,
                values : SUBSET Int]
      \/ m \in [kind : {"InputDeletion"}, first : Int, last : Int, steering : Nat,
                accelerate : Nat, brake : Nat]
  BY <1>1 DEF Modifier
<1> QED
  BY <1>2, <1>3, <1>4, <1>5, <1>6, <1>7

\* An edit of an event stays in the window and in the range of its channel.
LEMMA EditedFacts ==
    ASSUME NEW m, GoodModifier(m), m.kind = "ExistingEvent", NEW w, GoodWindow(w),
           NEW e \in Events, InRange(e), InWindow(e, w), e.action \in Eligible(m),
           NEW f \in Edited(e, m, w)
    PROVE  /\ f \in Events /\ f.action = e.action /\ f.action \notin Digital
           /\ InWindow(f, w) /\ InRange(f)
           /\ m.shift = 0 => f.time = e.time
<1>1. /\ m.shift \in Nat /\ m.absolute \in BOOLEAN
      /\ m.values \in SUBSET Int /\ (m.absolute => m.values \subseteq -Full..Full)
  BY ModifierFacts
<1>2. /\ w.first \in Int /\ w.last \in Int /\ w.first <= w.last
      /\ e.time \in Int /\ e.value \in Int
      /\ w.first <= e.time /\ e.time <= w.last
  BY WindowFacts DEF InWindow, Events
<1>3. Tick \in Nat /\ m.shift \div Tick \in Nat /\ (m.shift = 0 => m.shift \div Tick = 0)
  <2> DEFINE s == m.shift
  <2> HIDE DEF s
  <2>1. s \in Nat
    BY <1>1 DEF s
  <2>2. Tick \in Nat /\ s \div Tick \in Int /\ s \div Tick >= 0 /\ Tick > 2
    BY <2>1, TickDivision
  <2>3. s = 0 => s \div Tick = 0
    BY <2>2
  <2> QED
    BY <2>2, <2>3 DEF s
<1>4. e.action \in {Steer, Accelerate, Gas, Brake}
  BY DEF Eligible
<1> DEFINE steps == m.shift \div Tick
           values == EditedValues(e, m)
<1>5. PICK k \in -steps..steps, v \in values :
        f = Event(Clamped(e.time + k * Tick, w), e.action, v)
  BY DEF Edited
<1>6. v \in IF e.action \in Analog THEN -Full..Full ELSE 0..1
  <2>1. CASE e.action = Steer /\ m.absolute
    <3>1. v \in m.values
      BY <1>5, <2>1 DEF EditedValues, Accelerate, Brake, Gas, Steer
    <3>2. v \in -Full..Full /\ e.action \in Analog
      BY <1>1, <2>1, <3>1 DEF Analog
    <3> QED
      BY <3>2
  <2>2. CASE e.action = Steer /\ ~m.absolute
    <3>1. v \in {Saturate(e.value + d) : d \in m.values}
      BY <1>5, <2>2 DEF EditedValues, Accelerate, Brake, Gas, Steer
    <3>2. PICK d \in m.values : v = Saturate(e.value + d)
      BY <3>1
    <3>3. e.value + d \in Int
      BY <1>1, <1>2
    <3> QED
      BY <2>2, <3>2, <3>3, SaturateFacts DEF Analog
  <2>3. CASE e.action \in {Accelerate, Brake}
    <3>1. v = 1 - e.value /\ e.action \notin Analog
      BY <1>5, <2>3 DEF EditedValues, Analog, Accelerate, Brake, Gas, Steer
    <3>2. e.value \in 0..1
      BY <3>1 DEF InRange
    <3> QED
      BY <3>1, <3>2
  <2>4. CASE e.action = Gas
    <3>1. v = e.value /\ e.action \in Analog
      BY <1>5, <2>4 DEF EditedValues, Analog, Accelerate, Brake, Gas, Steer
    <3> QED
      BY <3>1 DEF InRange
  <2> QED
    BY <1>1, <1>4, <2>1, <2>2, <2>3, <2>4
<1> HIDE DEF values
<1>7. k \in Int /\ k * Tick \in Int /\ e.time + k * Tick \in Int
  BY <1>2, <1>3, <1>5
<1> DEFINE t == e.time + k * Tick
<1>8. Clamped(t, w) \in Int /\ w.first <= Clamped(t, w) /\ Clamped(t, w) <= w.last
      /\ (w.first <= t /\ t <= w.last => Clamped(t, w) = t)
  <2> HIDE DEF t
  <2>1. t \in Int
    BY <1>7 DEF t
  <2> QED
    BY <1>2, <2>1 DEF Clamped
<1>9. m.shift = 0 => Clamped(t, w) = e.time
  <2> SUFFICES ASSUME m.shift = 0 PROVE Clamped(t, w) = e.time
    OBVIOUS
  <2>1. k = 0
    BY <1>3, <1>5
  <2>2. t = e.time
    BY <1>2, <1>3, <2>1
  <2> QED
    BY <1>2, <1>8, <2>2
<1>10. Full \in Nat
  BY SearchAssumption
<1>11. v \in Int
  BY <1>6, <1>10
<1>12. e.action \in Actions
  BY DEF Events
<1> HIDE DEF t
<1>13. f = Event(Clamped(t, w), e.action, v)
  BY <1>5 DEF t
<1> DEFINE c == Clamped(t, w)
<1>14. f.time = c /\ f.action = e.action /\ f.value = v /\ f \in Events
  BY <1>8, <1>11, <1>12, <1>13 DEF Event, Events
<1> HIDE DEF c
<1>15. InRange(f) /\ InWindow(f, w)
  BY <1>6, <1>8, <1>14 DEF InRange, InWindow, c
<1> QED
  BY <1>4, <1>9, <1>14, <1>15
     DEF Digital, Steer, SteerLeft, SteerRight, Accelerate, Gas, Brake, c

\* ExistingEvent edits events.
LEMMA ExistingEventFacts ==
    ASSUME NEW m, GoodModifier(m), m.kind = "ExistingEvent", NEW w, GoodWindow(w),
           NEW a, Sound(a), NEW r \in ExistingEvent(a, m, w)
    PROVE  /\ Outcome(a, r, w, 0) /\ Sound(r)
           /\ m.shift = 0 /\ Canonical(a) => Canonical(r)
<1> DEFINE eligible == ExistingEvents(a, m, w)
<1>1. PICK places \in SUBSET eligible :
        r \in Replaced(a, places, [i \in places |-> Edited(a[i], m, w)])
  BY DEF ExistingEvent, kSubset
<1> DEFINE edits == [i \in places |-> Edited(a[i], m, w)]
<1>2. a \in Streams /\ \A i \in DOMAIN a : a[i] \in Events /\ InRange(a[i])
  BY StreamFacts DEF Sound
<1>3. /\ places \in SUBSET DOMAIN a
      /\ \A i \in places : InWindow(a[i], w) /\ a[i].action \in Eligible(m)
      /\ \A i \in places : a[i].action \notin Digital
  <2>1. \A x \in Eligible(m) : x \notin Digital
    BY DEF Eligible, Digital, Steer, SteerLeft, SteerRight, Accelerate, Gas, Brake
  <2> QED
    BY <1>1, <2>1 DEF ExistingEvents
<1>4. ASSUME NEW i \in places, NEW f \in edits[i]
      PROVE  /\ f \in Events /\ f.action = a[i].action /\ f.action \notin Digital
             /\ InWindow(f, w) /\ InRange(f)
             /\ m.shift = 0 => f.time = a[i].time
  <2>1. f \in Edited(a[i], m, w)
    OBVIOUS
  <2>2. a[i] \in Events /\ InRange(a[i]) /\ InWindow(a[i], w) /\ a[i].action \in Eligible(m)
    BY <1>2, <1>3
  <2> QED
    BY <2>1, <2>2, EditedFacts
<1>5. r \in Replaced(a, places, edits)
  BY <1>1
<1> HIDE DEF edits, eligible
<1>6. \A i \in places : edits[i] \in SUBSET Events
  BY <1>4
<1>7. Outcome(a, r, w, 0) /\ Sound(r)
  BY <1>3, <1>4, <1>5, <1>6, ReplacedInWindow
<1>8. ASSUME m.shift = 0, Canonical(a) PROVE Canonical(r)
  <2>1. /\ DOMAIN r = DOMAIN a
        /\ \A i \in DOMAIN a : (i \in places /\ r[i] \in edits[i])
                                \/ (i \notin places /\ r[i] = a[i])
    BY <1>2, <1>3, <1>5, <1>6, ReplacedFacts
  <2>2. \A i \in DOMAIN a : r[i].time = a[i].time /\ r[i].action = a[i].action
    BY <1>4, <1>8, <2>1
  <2> QED
    BY <1>8, <2>1, <2>2, SameChannelsSameOrder
<1> QED
  BY <1>7, <1>8

-----------------------------------------------------------------------------
(* Values of channels.                                                     *)

\* The largest number that a function has on a finite set.
LEMMA LargestOfFunction ==
    ASSUME NEW S, IsFiniteSet(S), S # {}, NEW f \in [S -> Int]
    PROVE  \E x \in S : \A y \in S : f[y] <= f[x]
<1> DEFINE T == {f[x] : x \in S}
<1>1. f \in Surjection(S, T)
  BY DEF Surjection
<1>2. T \in SUBSET Int /\ T # {}
  OBVIOUS
<1> HIDE DEF T
<1>3. IsFiniteSet(T)
  BY <1>1, FS_Surjection
<1>4. Max(T) \in T /\ \A y \in T : y <= Max(T)
  BY <1>2, <1>3, MaxFacts
<1> QED
  BY <1>4 DEF T

\* The value of a channel is the initial one, or that of an event of it.
LEMMA StateAtFacts ==
    ASSUME NEW es \in Streams, NEW action, NEW t \in Int, NEW initial
    PROVE  \/ StateAt(es, action, t, initial) = initial
           \/ \E i \in DOMAIN es : /\ es[i].action = action
                                   /\ StateAt(es, action, t, initial) = es[i].value
<1> DEFINE past == {i \in DOMAIN es : es[i].action = action /\ es[i].time <= t}
           latest == {i \in past : \A j \in past : es[j].time <= es[i].time}
           v == StateAt(es, action, t, initial)
<1>1. v = IF past = {} THEN initial ELSE es[Max(latest)].value
  BY DEF StateAt
<1>2. CASE past = {}
  BY <1>1, <1>2
<1>3. CASE past # {}
  <2>1. past \in SUBSET DOMAIN es /\ Len(es) \in Nat /\ DOMAIN es = 1..Len(es)
    BY StreamFacts
  <2>2. IsFiniteSet(past)
    <3> HIDE DEF past
    <3>1. IsFiniteSet(DOMAIN es)
      BY <2>1, FS_Interval
    <3> QED
      BY <2>1, <3>1, SubsetFacts
  <2> DEFINE f == [i \in past |-> es[i].time]
  <2>3. f \in [past -> Int]
    BY StreamFacts
  <2>4. \E x \in past : \A y \in past : f[y] <= f[x]
    <3> HIDE DEF past, f
    <3> QED
      BY <1>3, <2>2, <2>3, LargestOfFunction
  <2>5. latest # {} /\ latest \in SUBSET past /\ latest \in SUBSET Int
    <3>1. \E x \in past : \A y \in past : es[y].time <= es[x].time
      BY <2>4
    <3>2. latest \in SUBSET past /\ past \in SUBSET Int
      BY <2>1
    <3> HIDE DEF past
    <3> QED
      BY <3>1, <3>2
  <2>6. IsFiniteSet(latest)
    <3> HIDE DEF past, latest
    <3> QED
      BY <2>2, <2>5, SubsetFacts
  <2>7. Max(latest) \in latest
    <3> HIDE DEF past, latest
    <3> QED
      BY <2>5, <2>6, MaxFacts
  <2>8. Max(latest) \in DOMAIN es /\ es[Max(latest)].action = action
    BY <2>7
  <2> HIDE DEF latest, past
  <2> QED
    BY <1>1, <1>3, <2>8
<1> QED
  BY <1>2, <1>3

\* It may be the channel's.
LEMMA StateAtInRange ==
    ASSUME NEW es, Plausibles(es), NEW a \in Actions, NEW t \in Int,
           NEW initial \in Int, InChannel(a, initial)
    PROVE  /\ StateAt(es, a, t, initial) \in Int
           /\ a \notin Analog => StateAt(es, a, t, initial) \in 0..1
           /\ Sound(es) => InChannel(a, StateAt(es, a, t, initial))
<1>1. es \in Streams /\ \A i \in DOMAIN es : Plausible(es[i]) /\ es[i].value \in Int
  BY StreamFacts DEF Plausibles
<1>2. CASE StateAt(es, a, t, initial) = initial
  BY <1>2 DEF InChannel
<1>3. CASE \E i \in DOMAIN es : /\ es[i].action = a
                                /\ StateAt(es, a, t, initial) = es[i].value
  <2>1. PICK i \in DOMAIN es : /\ es[i].action = a
                                /\ StateAt(es, a, t, initial) = es[i].value
    BY <1>3
  <2>2. Sound(es) => InRange(es[i])
    BY DEF Sound
  <2> QED
    BY <1>1, <2>1, <2>2 DEF Plausible, InChannel, InRange
<1> QED
  BY <1>1, <1>2, <1>3, StateAtFacts

-----------------------------------------------------------------------------
(* Modifiers that add events.                                              *)

\* A stream that is not full takes one more event.
LEMMA PushFacts ==
    ASSUME GoodSearch, NEW es \in Streams, NEW e \in Events
    PROVE  /\ Push(es, e) \in Streams \cup {Overflow}
           /\ es # Overflow /\ Append(es, e) # Overflow
           /\ Len(es) < Capacity => Push(es, e) = Append(es, e)
<1>1. Overflow \notin Streams
  BY OverflowAssumption DEF Streams
<1>2. Append(es, e) \in Streams /\ Len(es) \in Nat
  BY DEF Streams
<1>3. es # Overflow /\ Append(es, e) # Overflow
  BY <1>1, <1>2
<1>4. Push(es, e) = IF Len(es) >= Capacity THEN Overflow ELSE Append(es, e)
  BY <1>3 DEF Push
<1>5. Len(es) < Capacity => ~(Len(es) >= Capacity)
  BY <1>2 DEF GoodSearch
<1> QED
  BY <1>2, <1>3, <1>4, <1>5

\* An event that is appended within a window.
LEMMA AppendedInWindow ==
    ASSUME NEW a, Plausibles(a), NEW w, NEW e, Plausible(e), ~Outside(w, e.time),
           e.action \notin Digital
    PROVE  Outcome(a, Append(a, e), w, 1)
<1> DEFINE r == Append(a, e)
<1>1. a \in Streams /\ e \in Events /\ \A i \in DOMAIN a : Plausible(a[i])
  BY DEF Plausibles, Plausible
<1>2. /\ Len(a) \in Nat /\ DOMAIN a = 1..Len(a)
      /\ r \in Streams /\ Len(r) = Len(a) + 1 /\ DOMAIN r = 1..(Len(a) + 1)
      /\ \A i \in DOMAIN a : r[i] = a[i]
      /\ r[Len(a) + 1] = e
  BY <1>1 DEF Streams
<1> HIDE DEF r
<1>3. Plausibles(r)
  <2> SUFFICES ASSUME NEW i \in DOMAIN r PROVE Plausible(r[i])
    BY <1>2 DEF Plausibles
  <2>1. i \in DOMAIN a \/ i = Len(a) + 1
    BY <1>2
  <2> QED
    BY <1>1, <1>2, <2>1
<1>4. NothingDigital(a, r)
  <2> SUFFICES ASSUME NEW i \in DOMAIN r, r[i].action \in Digital
               PROVE  \E j \in DOMAIN a : a[j] = r[i]
    BY DEF NothingDigital
  <2>1. i \in DOMAIN a \/ i = Len(a) + 1
    BY <1>2
  <2> QED
    BY <1>2, <2>1
<1>7. DigitalStays(a, r)
  BY <1>2 DEF DigitalStays, SameChannel
<1>5. ASSUME NEW t \in Int, Outside(w, t) PROVE At(r, t) = At(a, t)
  <2>1. \A i \in DOMAIN r : i > Len(a) => r[i].time # t
    BY <1>2, <1>5
  <2>2. Len(a) <= Len(r)
    BY <1>2
  <2> QED
    BY <1>1, <1>2, <2>1, <2>2, AtAppended
<1>6. Len(r) <= Len(a) + 1
  BY <1>2
<1> QED
  BY <1>3, <1>4, <1>5, <1>6, <1>7, OutcomeByMoments DEF r

\* A sample is a steering event.
LEMMA SampledEvent ==
    ASSUME GoodSearch, NEW es \in Streams, NEW t \in Int, NEW center, NEW amplitude,
           Weighted(amplitude, Abs(t - center) \div Tick) \in Int
    PROVE  LET e == Event(t, Steer, SampledValue(es, t, center, amplitude))
           IN /\ Sampled(es, t, center, amplitude) = Push(es, e)
              /\ e \in Events /\ e.time = t /\ e.action = Steer /\ InRange(e)
<1> DEFINE initial == search.boundary.value[Steer]
           v == StateAt(es, Steer, t, initial)
           d == Weighted(amplitude, Abs(t - center) \div Tick)
           e == Event(t, Steer, SampledValue(es, t, center, amplitude))
<1>1. initial \in Int /\ Steer \in Actions
  BY DEF GoodSearch, GoodControls, Actions, Steer
<1>2. v \in Int
  <2> HIDE DEF initial
  <2> QED
    BY <1>1, StateAtFacts, StreamFacts
<1>3. SampledValue(es, t, center, amplitude) = Saturate(v + d) /\ v + d \in Int
  BY <1>2 DEF SampledValue
<1>4. Saturate(v + d) \in -Full..Full /\ Saturate(v + d) \in Int
  <2> HIDE DEF v, d
  <2> QED
    BY <1>3, SaturateFacts, SearchAssumption
<1>5. e \in Events /\ e.time = t /\ e.action = Steer /\ e.value = Saturate(v + d)
  <2> HIDE DEF v, d
  <2> QED
    BY <1>1, <1>3, <1>4 DEF Event, Events
<1>6. InRange(e)
  <2> HIDE DEF v, d, e
  <2> QED
    BY <1>4, <1>5 DEF InRange, Analog
<1>7. es # Overflow
  BY OverflowAssumption DEF Streams
<1>8. Sampled(es, t, center, amplitude) = Push(es, e)
  BY <1>7 DEF Sampled, SampledValue
<1> QED
  BY <1>5, <1>6, <1>8

\* Larger times have as many ticks.
LEMMA TicksGrow ==
    ASSUME NEW a \in Int, NEW b \in Int, a <= b
    PROVE  a \div Tick <= b \div Tick
<1> DEFINE i == a \div Tick
           j == b \div Tick
<1>1. /\ i \in Int /\ i * Tick \in Int /\ i * Tick <= a
      /\ j \in Int /\ j * Tick \in Int /\ b < j * Tick + Tick /\ Tick \in Nat
  <2>1. Floor(a) = i * Tick /\ Floor(b) = j * Tick
    BY TickDivision
  <2> QED
    BY <2>1, TickDivision
<1> HIDE DEF i, j
<1>2. j < i => j * Tick + Tick <= i * Tick
  BY <1>1, TickOrder
<1>3. ~(j < i)
  BY <1>1, <1>2
<1> QED
  BY <1>1, <1>3 DEF i, j

\* They are ticks of the window, at most a radius from the center.
LEMMA SampleFacts ==
    ASSUME NEW m, GoodModifier(m), m.kind = "SmoothSteering", NEW w, GoodWindow(w),
           NEW center \in TicksIn(w)
    PROVE  /\ SampleCount(m, w, center) \in Nat /\ SampleCount(m, w, center) >= 1
           /\ SampleCount(m, w, center) <= 2 * (m.radius \div Tick) + 1
           /\ \A i \in 1..SampleCount(m, w, center) :
                /\ SampleTime(m, w, center, i) \in Int
                /\ Floor(w.first) <= SampleTime(m, w, center, i)
                /\ SampleTime(m, w, center, i) <= w.last
                /\ Abs(SampleTime(m, w, center, i) - center) \div Tick
                        \in 0..(m.radius \div Tick)
<1> DEFINE R == m.radius
           f == w.first
           l == w.last
           N == R \div Tick
           a == Max({center - R, f})
           start == Floor(a)
           end == Min({center + R, l})
           k == (end - start) \div Tick
<1>1. /\ R \in Nat /\ R % Tick = 0 /\ Tick \in Nat /\ Tick > 2
      /\ f \in Int /\ l \in Int /\ 0 <= Floor(f) /\ Floor(f) <= f /\ f <= l /\ Floor(f) \in Int
  <2>1. R \in Nat /\ R % Tick = 0
    BY ModifierFacts
  <2>2. Tick \in Nat /\ Tick > 2
    BY SearchAssumption
  <2> QED
    BY <2>1, <2>2, WindowFacts
<1>2. /\ center \in Int /\ Floor(f) <= center /\ center <= l
  BY <1>1, WindowTicks
<1> HIDE DEF R, f, l
<1>3. /\ N \in Nat /\ R = N * Tick
  <2>1. R \in Int /\ R >= 0 /\ R = Tick * (R \div Tick) + (R % Tick)
    BY <1>1
  <2>2. N \in Int /\ N >= 0
    BY <2>1, TickDivision
  <2> QED
    BY <1>1, <2>1, <2>2
<1> HIDE DEF N
<1>4. a \in Int /\ a >= center - R /\ a >= f /\ (a = center - R \/ a = f)
  <2>1. center - R \in Int
    BY <1>1, <1>2
  <2> QED
    BY <1>1, <2>1, MaxOfTwo
<1>5. end \in Int /\ end <= center + R /\ end <= l /\ center <= end
  <2>1. center + R \in Int
    BY <1>1, <1>2
  <2> QED
    BY <1>1, <1>2, <2>1, MinOfTwo
<1>6. PICK n \in Int : center = n * Tick
  <2>1. PICK n \in (w.first \div Tick)..(w.last \div Tick) : center = n * Tick
    BY DEF TicksIn
  <2> QED
    BY <2>1
<1>7. center - R = (n - N) * Tick /\ n - N \in Int /\ Floor(center - R) = center - R
  <2>1. (n - N) * Tick = n * Tick - N * Tick /\ n - N \in Int
    BY <1>3, TickOrder
  <2>2. Floor((n - N) * Tick) = (n - N) * Tick
    BY <2>1, TickOrder
  <2> QED
    BY <1>3, <1>6, <2>1, <2>2
<1> HIDE DEF a
<1>8. /\ start \in Int /\ start <= a /\ start >= Floor(f) /\ start >= center - R
      /\ start <= center
  <2>1. start \in Int /\ start <= a /\ Floor(f) = (f \div Tick) * Tick
        /\ start = (a \div Tick) * Tick /\ a \div Tick \in Int /\ f \div Tick \in Int
    BY <1>1, <1>4, TickDivision
  <2>2. f \div Tick <= a \div Tick
    BY <1>1, <1>4, TicksGrow
  <2> DEFINE x == f \div Tick
             y == a \div Tick
             z == (center - R) \div Tick
  <2>3. Floor(center - R) = z * Tick /\ z \in Int /\ z <= y
    <3> DEFINE b == center - R
    <3>1. b \in Int /\ b <= a
      BY <1>1, <1>2, <1>4
    <3> HIDE DEF b
    <3>2. Floor(b) = (b \div Tick) * Tick /\ b \div Tick \in Int /\ b \div Tick <= a \div Tick
      BY <1>4, <3>1, TickDivision, TicksGrow
    <3> QED
      BY <3>2 DEF b
  <2>4. x \in Int /\ y \in Int /\ x <= y
    BY <2>1, <2>2
  <2> HIDE DEF x, y, z
  <2>5. x * Tick <= y * Tick /\ z * Tick <= y * Tick
    BY <2>3, <2>4, TickOrder
  <2>6. start = y * Tick /\ Floor(f) = x * Tick
    BY <2>1 DEF x, y
  <2>7. start <= center
    BY <1>1, <1>2, <1>4, <1>7, <2>1
  <2> QED
    BY <1>7, <2>1, <2>3, <2>5, <2>6, <2>7
<1> HIDE DEF start, end
<1>9. /\ k \in Int /\ k >= 0 /\ k * Tick \in Int /\ k * Tick <= end - start
  <2> DEFINE d == end - start
  <2>1. d \in Int /\ d >= 0
    BY <1>2, <1>5, <1>8
  <2> HIDE DEF d
  <2>2. d \div Tick \in Int /\ d \div Tick >= 0 /\ (d \div Tick) * Tick \in Int
        /\ (d \div Tick) * Tick <= d
    <3>1. Floor(d) = (d \div Tick) * Tick
      BY <2>1, TickDivision
    <3> QED
      BY <2>1, <3>1, TickDivision
  <2> QED
    BY <2>2 DEF d
<1>10. k <= 2 * N
  <2>1. end - start <= (2 * N) * Tick
    BY <1>1, <1>2, <1>3, <1>5, <1>8
  <2>2. k * Tick <= (2 * N) * Tick /\ 2 * N \in Int
    BY <1>1, <1>3, <1>5, <1>8, <1>9, <2>1
  <2> HIDE DEF k
  <2> QED
    BY <1>9, <2>2, TickOrder
<1> HIDE DEF k
<1>11. ASSUME NEW i \in 1..(k + 1)
       PROVE  LET t == start + (i - 1) * Tick
              IN /\ t \in Int /\ Floor(f) <= t /\ t <= l
                 /\ Abs(t - center) \div Tick \in 0..N
  <2> DEFINE t == start + (i - 1) * Tick
  <2>1. i - 1 \in Int /\ 0 <= i - 1 /\ i - 1 <= k
    BY <1>9
  <2>2. (i - 1) * Tick \in Int /\ (i - 1) * Tick <= k * Tick
    BY <1>9, <2>1, TickOrder
  <2>3. 0 <= (i - 1) * Tick
    BY <1>1, <2>1
  <2>4. t \in Int /\ start <= t /\ t <= end
    BY <1>5, <1>8, <1>9, <2>2, <2>3
  <2> HIDE DEF t
  <2>5. Abs(t - center) \in Int /\ 0 <= Abs(t - center) /\ Abs(t - center) <= R
    BY <1>1, <1>2, <1>5, <1>8, <2>4 DEF Abs
  <2>6. Abs(t - center) \div Tick \in Int /\ 0 <= Abs(t - center) \div Tick
        /\ Abs(t - center) \div Tick <= N
    <3> DEFINE d == Abs(t - center)
    <3>1. d \in Int /\ 0 <= d /\ d <= R /\ R \in Int
      BY <1>1, <2>5
    <3> HIDE DEF d
    <3>2. d \div Tick \in Int /\ d \div Tick >= 0 /\ d \div Tick <= R \div Tick
      BY <3>1, TickDivision, TicksGrow
    <3> QED
      BY <3>2 DEF d, N
  <2>7. Floor(f) <= t /\ t <= l
    BY <1>1, <1>5, <1>8, <2>4
  <2> QED
    BY <1>3, <2>4, <2>6, <2>7 DEF t
<1>12. SampleStart(m, w, center) = start /\ SampleCount(m, w, center) = k + 1
  BY DEF SampleStart, SampleEnd, SampleCount, start, end, a, k, R, f, l
<1>13. \A i : SampleTime(m, w, center, i) = start + (i - 1) * Tick
  BY <1>12 DEF SampleTime
<1>14. k + 1 \in Nat /\ k + 1 >= 1 /\ k + 1 <= 2 * N + 1
  BY <1>3, <1>9, <1>10
<1> QED
  BY <1>11, <1>12, <1>13, <1>14 DEF N, R, f, l

\* Sampling leads from a stream to a stream, or out of room.
LEMMA SampledAttempt ==
    ASSUME GoodSearch, NEW x \in Attempts, NEW t \in Int, NEW center, NEW amplitude,
           Weighted(amplitude, Abs(t - center) \div Tick) \in Int
    PROVE  Sampled(x, t, center, amplitude) \in Attempts
<1>1. CASE x = Overflow
  BY <1>1 DEF Sampled, Attempts
<1>2. CASE x \in Streams
  BY <1>2, SampledEvent, PushFacts DEF Attempts
<1> QED
  BY <1>1, <1>2 DEF Attempts

\* A deformation is made sample by sample.
LEMMA DeformedSteps ==
    ASSUME GoodSearch, NEW es \in Streams, NEW m, NEW w, NEW center, NEW amplitude,
           Sampling(m, w, center, amplitude)
    PROVE  \E f \in [0..SampleCount(m, w, center) -> Attempts] :
              /\ f[0] = es
              /\ \A i \in 1..SampleCount(m, w, center) :
                    f[i] = Sampled(f[i - 1], SampleTime(m, w, center, i), center, amplitude)
              /\ Deformed(es, m, w, center, amplitude)
                    = IF f[SampleCount(m, w, center)] = Overflow THEN Overflow
                      ELSE Normalize(f[SampleCount(m, w, center)])
<1> DEFINE n == SampleCount(m, w, center)
           After(x, i) == Sampled(x, SampleStart(m, w, center) + (i - 1) * Tick, center,
                                  amplitude)
           Eq(h) == h = [i \in 0..n |-> IF i = 0 THEN es ELSE After(h[i - 1], i)]
           run == CHOOSE h : Eq(h)
           X == Attempts
           step == [i \in 1..n |-> [x \in X |-> After(x, i)]]
<1>1. n \in Nat /\ es \in X
  BY DEF Attempts, Sampling
<1>2. ASSUME NEW i \in 1..n, NEW x \in X
      PROVE  /\ After(x, i) \in X
             /\ After(x, i) = Sampled(x, SampleTime(m, w, center, i), center, amplitude)
  <2>1. After(x, i) = Sampled(x, SampleTime(m, w, center, i), center, amplitude)
    BY DEF SampleTime
  <2>2. Sampled(x, SampleTime(m, w, center, i), center, amplitude) \in X
    BY <1>2, SampledAttempt DEF Sampling
  <2> QED
    BY <2>1, <2>2
<1>3. step \in [1..n -> [X -> X]]
  <2> HIDE DEF After, X, n
  <2> QED
    BY <1>2
<1> HIDE DEF After, n, X, step
<1>4. PICK f : MadeBySteps(f, X, es, n, step)
  BY <1>1, <1>3, StepByStep
<1>5. ASSUME NEW i \in 0..n PROVE f[i] = IF i = 0 THEN es ELSE After(f[i - 1], i)
  <2>1. i = 0 \/ (i # 0 /\ i \in 1..n)
    BY <1>1
  <2> QED
    BY <1>4, <2>1 DEF step, MadeBySteps
<1>6. Eq(f)
  <2>1. f = [i \in 0..n |-> f[i]]
    BY <1>4 DEF MadeBySteps
  <2> QED
    BY <1>5, <2>1
<1>7. Eq(run)
  <2> HIDE DEF Eq
  <2> QED
    BY <1>6
<1>8. Deformed(es, m, w, center, amplitude)
        = IF run[n] = Overflow THEN Overflow ELSE Normalize(run[n])
  BY DEF Deformed, SampleCount, SampleStart, SampleEnd, n, After
<1> HIDE DEF run
<1>9. ASSUME NEW i \in 0..n PROVE run[i] = IF i = 0 THEN es ELSE After(run[i - 1], i)
  BY <1>7
<1>10. run[0] = es
  BY <1>1, <1>9
<1>11. run \in [0..n -> X]
  <2>1. run = [i \in 0..n |-> IF i = 0 THEN es ELSE After(run[i - 1], i)]
    BY <1>7
  <2>2. run = [i \in 0..n |-> run[i]]
    BY <1>9, <2>1
  <2>3. ASSUME NEW i \in 1..n, run[i - 1] \in X PROVE run[i] \in X
    <3>1. i \in 0..n /\ i # 0
      BY <1>1
    <3> QED
      BY <1>2, <1>9, <2>3, <3>1
  <2>4. n \in Nat /\ run[0] \in X
    BY <1>1, <1>10
  <2> QED
    BY <2>2, <2>3, <2>4, StaysIn
<1>12. ASSUME NEW i \in 1..n
       PROVE  run[i] = Sampled(run[i - 1], SampleTime(m, w, center, i), center, amplitude)
  <2>1. i \in 0..n /\ i # 0 /\ i - 1 \in 0..n
    BY <1>1
  <2> QED
    BY <1>2, <1>9, <1>11, <2>1
<1> QED
  BY <1>8, <1>10, <1>11, <1>12 DEF n, X

\* The samples of a deformation can be taken.
LEMMA SamplingFacts ==
    ASSUME NEW m, GoodModifier(m), m.kind = "SmoothSteering",
           NEW w, GoodWindow(w), NEW center \in TicksIn(w), NEW amplitude \in m.amplitudes
    PROVE  Sampling(m, w, center, amplitude)
  BY SampleFacts, ModifierFacts DEF Sampling

\* A deformation leads from a stream to a stream, or out of room.
LEMMA DeformedAttempt ==
    ASSUME GoodSearch, NEW m, NEW w, NEW center, NEW amplitude,
           Sampling(m, w, center, amplitude), NEW es \in Streams
    PROVE  Deformed(es, m, w, center, amplitude) \in Attempts
<1> DEFINE n == SampleCount(m, w, center)
<1>1. PICK f \in [0..n -> Attempts] :
        Deformed(es, m, w, center, amplitude)
              = IF f[n] = Overflow THEN Overflow ELSE Normalize(f[n])
  BY DeformedSteps
<1>2. n \in 0..n
  BY DEF Sampling
<1> HIDE DEF n
<1>3. f[n] \in Attempts
  BY <1>2
<1>4. CASE f[n] = Overflow
  BY <1>1, <1>4 DEF Attempts
<1>5. CASE f[n] # Overflow
  <2>1. f[n] \in Streams
    BY <1>3, <1>5 DEF Attempts
  <2>2. Normalize(f[n]) \in Streams
    BY <2>1, NormalizeFacts
  <2> QED
    BY <1>1, <1>5, <2>2 DEF Attempts
<1> QED
  BY <1>4, <1>5

\* A deformation that fits.
LEMMA DeformedFacts ==
    ASSUME GoodSearch, NEW m, GoodModifier(m), m.kind = "SmoothSteering",
           NEW w, GoodWindow(w), NEW center \in TicksIn(w), NEW amplitude \in m.amplitudes,
           NEW es, Plausibles(es)
    PROVE  Len(es) + 2 * (m.radius \div Tick) + 2 <= Capacity =>
                Smoothed(es, Deformed(es, m, w, center, amplitude), w,
                         2 * (m.radius \div Tick) + 2)
<1> DEFINE n == SampleCount(m, w, center)
           time(i) == SampleTime(m, w, center, i)
           N == m.radius \div Tick
<1>1. /\ n \in Nat /\ n >= 1 /\ n <= 2 * N + 1
      /\ \A i \in 1..n : /\ time(i) \in Int /\ Floor(w.first) <= time(i) /\ time(i) <= w.last
                         /\ Abs(time(i) - center) \div Tick \in 0..N
  BY SampleFacts
<1>2. N \in Nat
  <2> DEFINE R == m.radius
  <2>1. R \in Int /\ R >= 0
    BY ModifierFacts
  <2> HIDE DEF R
  <2>2. R \div Tick \in Int /\ R \div Tick >= 0
    BY <2>1, TickDivision
  <2> QED
    BY <2>2 DEF R
<1>3. \A i \in 1..n : Weighted(amplitude, Abs(time(i) - center) \div Tick) \in Int
  BY <1>1, ModifierFacts
<1>4. es \in Streams /\ Len(es) \in Nat
  BY StreamFacts DEF Plausibles
<1>5. PICK f \in [0..n -> Attempts] :
        /\ f[0] = es
        /\ \A i \in 1..n : f[i] = Sampled(f[i - 1], time(i), center, amplitude)
        /\ Deformed(es, m, w, center, amplitude)
              = IF f[n] = Overflow THEN Overflow ELSE Normalize(f[n])
  <2>1. Sampling(m, w, center, amplitude)
    BY <1>1, <1>3 DEF Sampling
  <2> QED
    BY <1>4, <2>1, DeformedSteps
<1> HIDE DEF n, time, N
<1>7. ASSUME Len(es) + 2 * N + 2 <= Capacity
      PROVE  Smoothed(es, Deformed(es, m, w, center, amplitude), w, 2 * N + 2)
  <2> DEFINE Good(i) == f[i] \in Streams /\ Outcome(es, f[i], w, i)
             S == {i \in 0..n : Good(i)}
  <2>1. 0 \in S
    BY <1>1, <1>4, <1>5, OutcomeOfNothing
  <2>2. ASSUME NEW i \in 1..n, i - 1 \in S PROVE i \in S
    <3> DEFINE x == f[i - 1]
               e == Event(time(i), Steer, SampledValue(x, time(i), center, amplitude))
    <3>1. x \in Streams /\ Outcome(es, x, w, i - 1) /\ i - 1 \in Nat /\ i \in 0..n
      BY <2>2
    <3>2. f[i] = Sampled(x, time(i), center, amplitude)
      BY <1>5
    <3>3. /\ Sampled(x, time(i), center, amplitude) = Push(x, e)
          /\ e \in Events /\ e.time = time(i) /\ e.action = Steer /\ InRange(e)
      <4> HIDE DEF x
      <4>1. time(i) \in Int /\ Weighted(amplitude, Abs(time(i) - center) \div Tick) \in Int
        BY <1>1, <1>3
      <4> QED
        BY <3>1, <4>1, SampledEvent
    <3> HIDE DEF e
    <3>4. Len(x) < Capacity
      <4> HIDE DEF x
      <4>1. Len(x) \in Nat /\ Len(x) <= Len(es) + (i - 1)
        BY <3>1, StreamFacts DEF Outcome
      <4> QED
        BY <1>1, <1>2, <1>4, <1>7, <4>1 DEF GoodSearch
    <3>5. f[i] = Append(x, e) /\ Append(x, e) \in Streams
      <4> HIDE DEF x
      <4>1. Append(x, e) \in Streams
        BY <3>1, <3>3 DEF Streams
      <4> QED
        BY <3>1, <3>2, <3>3, <3>4, <4>1, PushFacts
    <3>6. Plausible(e) /\ ~Outside(w, e.time) /\ e.action \notin Digital
      <4>0. time(i) \in Int /\ Floor(w.first) <= time(i) /\ time(i) <= w.last
        BY <1>1
      <4>1. e.time >= 0 /\ ~Outside(w, e.time)
        BY <3>3, <4>0, WindowFacts, InsideWindow
      <4>2. e.action \notin Digital
        BY <3>3 DEF Digital, Steer, SteerLeft, SteerRight
      <4> QED
        BY <3>3, <4>1, <4>2, Ranges
    <3>7. Outcome(x, Append(x, e), w, 1)
      <4> HIDE DEF x
      <4> QED
        BY <3>1, <3>6, AppendedInWindow DEF Outcome
    <3>8. Outcome(es, Append(x, e), w, (i - 1) + 1)
      <4> HIDE DEF x
      <4> QED
        BY <3>1, <3>7, OutcomesCompose
    <3>9. (i - 1) + 1 = i
      OBVIOUS
    <3> QED
      BY <3>1, <3>5, <3>8, <3>9
  <2>3. S \in SUBSET (0..n)
    OBVIOUS
  <2> HIDE DEF S
  <2>4. S = 0..n
    BY <1>1, <2>1, <2>2, <2>3, Upward
  <2>5. f[n] \in Streams /\ Outcome(es, f[n], w, n)
    <3>1. n \in S
      BY <1>1, <2>4
    <3> QED
      BY <3>1 DEF S
  <2>6. f[n] # Overflow
    BY <2>5, OverflowAssumption DEF Streams
  <2>7. Deformed(es, m, w, center, amplitude) = Normalize(f[n])
    BY <1>5, <2>6
  <2> DEFINE r == f[n]
  <2> HIDE DEF r
  <2>8. Outcome(es, r, w, 2 * N + 2)
    BY <1>1, <1>2, <2>5, OutcomeOfMore DEF r
  <2>9. Outcome(es, Normalize(r), w, 2 * N + 2) /\ Sound(Normalize(r))
        /\ Canonical(Normalize(r))
    BY <1>2, <2>8, OutcomeSorted
  <2> QED
    BY <2>7, <2>9 DEF Smoothed, r
<1> QED
  BY <1>7 DEF N

\* Deformations lead from attempts to attempts.
LEMMA DeformedOnceAttempts ==
    ASSUME GoodSearch, NEW m, GoodModifier(m), m.kind = "SmoothSteering",
           NEW w, GoodWindow(w), NEW streams \in SUBSET Attempts
    PROVE  DeformedOnce(streams, m, w) \in SUBSET Attempts
<1> SUFFICES ASSUME NEW r \in DeformedOnce(streams, m, w) PROVE r \in Attempts
  OBVIOUS
<1>1. PICK es \in streams :
        r \in IF es = Overflow THEN {Overflow}
              ELSE {Deformed(es, m, w, center, amplitude) :
                        center \in TicksIn(w), amplitude \in m.amplitudes}
  BY DEF DeformedOnce
<1>2. CASE es = Overflow
  BY <1>1, <1>2 DEF Attempts
<1>3. CASE es # Overflow
  <2>1. es \in Streams
    BY <1>3 DEF Attempts
  <2>2. PICK center \in TicksIn(w), amplitude \in m.amplitudes :
            r = Deformed(es, m, w, center, amplitude)
    BY <1>1, <1>3
  <2>3. Sampling(m, w, center, amplitude)
    BY SamplingFacts
  <2> QED
    BY <2>1, <2>2, <2>3, DeformedAttempt
<1> QED
  BY <1>2, <1>3

\* Smoothing is made deformation by deformation.
LEMMA SmoothSteps ==
    ASSUME GoodSearch, NEW m, GoodModifier(m), m.kind = "SmoothSteering",
           NEW w, GoodWindow(w), NEW es \in Streams
    PROVE  \E f : Deformations(f, es, m, w)
<1> DEFINE n == m.deformations
           After(x) == DeformedOnce(x, m, w)
           Eq(h) == h = [i \in 0..n |-> IF i = 0 THEN {es} ELSE After(h[i - 1])]
           runs == CHOOSE h : Eq(h)
           X == SUBSET Attempts
           step == [i \in 1..n |-> [x \in X |-> After(x)]]
<1>1. n \in Nat /\ {es} \in X
  BY ModifierFacts DEF Attempts
<1>2. ASSUME NEW x \in X PROVE After(x) \in X
  BY <1>2, DeformedOnceAttempts
<1>3. step \in [1..n -> [X -> X]]
  <2> HIDE DEF After, X, n
  <2> QED
    BY <1>2
<1> HIDE DEF After, n, X, step
<1>4. PICK f : MadeBySteps(f, X, {es}, n, step)
  BY <1>1, <1>3, StepByStep
<1>5. ASSUME NEW i \in 0..n PROVE f[i] = IF i = 0 THEN {es} ELSE After(f[i - 1])
  <2>1. i = 0 \/ (i # 0 /\ i \in 1..n)
    BY <1>1
  <2> QED
    BY <1>4, <2>1 DEF step, MadeBySteps
<1>6. Eq(f)
  <2>1. f = [i \in 0..n |-> f[i]]
    BY <1>4 DEF MadeBySteps
  <2> QED
    BY <1>5, <2>1
<1>7. Eq(runs)
  <2> HIDE DEF Eq
  <2> QED
    BY <1>6
<1>8. SmoothSteering(es, m, w) = runs[n]
  BY DEF SmoothSteering, n, After
<1> HIDE DEF runs
<1>9. ASSUME NEW i \in 0..n PROVE runs[i] = IF i = 0 THEN {es} ELSE After(runs[i - 1])
  BY <1>7
<1>10. runs[0] = {es}
  BY <1>1, <1>9
<1>11. runs \in [0..n -> X]
  <2>1. runs = [i \in 0..n |-> IF i = 0 THEN {es} ELSE After(runs[i - 1])]
    BY <1>7
  <2>2. runs = [i \in 0..n |-> runs[i]]
    BY <1>9, <2>1
  <2>3. ASSUME NEW i \in 1..n, runs[i - 1] \in X PROVE runs[i] \in X
    <3>1. i \in 0..n /\ i # 0
      BY <1>1
    <3> QED
      BY <1>2, <1>9, <2>3, <3>1
  <2>4. n \in Nat /\ runs[0] \in X
    BY <1>1, <1>10
  <2> QED
    BY <2>2, <2>3, <2>4, StaysIn
<1>12. ASSUME NEW i \in 1..n PROVE runs[i] = DeformedOnce(runs[i - 1], m, w)
  <2>1. i \in 0..n /\ i # 0
    BY <1>1
  <2> QED
    BY <1>9, <2>1 DEF After
<1> QED
  BY <1>8, <1>10, <1>11, <1>12 DEF n, X, Deformations

\* Smoothing that fits.
LEMMA SmoothSteeringFacts ==
    ASSUME GoodSearch, NEW m, GoodModifier(m), m.kind = "SmoothSteering",
           NEW w, GoodWindow(w), NEW a, Sound(a), Len(a) + Growth(m) <= Capacity,
           NEW r \in SmoothSteering(a, m, w)
    PROVE  /\ r # Overflow /\ Outcome(a, r, w, Growth(m)) /\ Sound(r) /\ Growth(m) \in Nat
           /\ m.deformations > 0 => Canonical(r)
           /\ m.deformations = 0 => r = a
<1> DEFINE n == m.deformations
           N == m.radius \div Tick
           c == 2 * N + 2
<1>1. n \in Nat /\ N \in Nat /\ c \in Nat
  <2> DEFINE R == m.radius
  <2>1. R \in Int /\ R >= 0 /\ n \in Nat
    BY ModifierFacts
  <2> HIDE DEF R
  <2>2. R \div Tick \in Int /\ R \div Tick >= 0
    BY <2>1, TickDivision
  <2> QED
    BY <2>1, <2>2 DEF R
<1>2. a \in Streams /\ Plausibles(a) /\ Len(a) \in Nat
  BY SoundIsPlausible, StreamFacts DEF Sound
<1>3. PICK f : Deformations(f, a, m, w)
  <2>1. a \in Streams
    BY <1>2
  <2> HIDE DEF n, N, c
  <2> QED
    BY <2>1, SmoothSteps
<1>f. /\ f \in [0..n -> SUBSET Attempts] /\ f[0] = {a}
      /\ \A i \in 1..n : f[i] = DeformedOnce(f[i - 1], m, w)
      /\ SmoothSteering(a, m, w) = f[n]
  BY <1>3 DEF Deformations
<1>4. Growth(m) = n * c
  BY DEF Growth
<1> HIDE DEF n, N
<1> DEFINE Good(i) == \A x \in f[i] : /\ Outcome(a, x, w, i * c) /\ Sound(x)
                                      /\ i > 0 => Canonical(x)
                                      /\ i = 0 => x = a
           S == {i \in 0..n : Good(i)}
<1>5. 0 \in S
  <2>1. Outcome(a, a, w, 0 * c) /\ 0 * c = 0
    BY <1>1, <1>2, OutcomeOfNothing
  <2> HIDE DEF c
  <2> QED
    BY <1>1, <1>f, <2>1
<1>6. ASSUME NEW i \in 1..n, i - 1 \in S PROVE i \in S
  <2>1. SUFFICES ASSUME NEW x \in f[i]
                 PROVE  Outcome(a, x, w, i * c) /\ Sound(x) /\ Canonical(x)
    <3>1. i > 0 /\ i \in 0..n
      BY <1>1
    <3> HIDE DEF c
    <3> QED
      BY <2>1, <3>1
  <2>2. f[i] = DeformedOnce(f[i - 1], m, w)
    BY <1>f
  <2>3. PICK es \in f[i - 1] :
            x \in IF es = Overflow THEN {Overflow}
                  ELSE {Deformed(es, m, w, center, amplitude) :
                            center \in TicksIn(w), amplitude \in m.amplitudes}
    BY <2>2 DEF DeformedOnce
  <2>4. Outcome(a, es, w, (i - 1) * c) /\ Sound(es) /\ i - 1 \in Nat
    <3> HIDE DEF c
    <3> QED
      BY <1>6
  <2>5. es \in Streams /\ es # Overflow /\ Plausibles(es) /\ Len(es) \in Nat
    BY <2>4, OverflowAssumption, SoundIsPlausible, StreamFacts DEF Sound, Streams
  <2>6. PICK center \in TicksIn(w), amplitude \in m.amplitudes :
            x = Deformed(es, m, w, center, amplitude)
    BY <2>3, <2>5
  <2>7. (i - 1) * c \in Nat /\ i * c \in Nat /\ (i - 1) * c + c = i * c /\ i * c <= n * c
    <3> HIDE DEF c
    <3>1. i \in Nat /\ i - 1 \in Nat /\ n - i \in Nat /\ c \in Nat /\ n \in Nat
      BY <1>1
    <3>2. (n - i) * c \in Nat /\ (n - i) * c = n * c - i * c /\ (i - 1) * c = i * c - c
      BY <3>1
    <3> QED
      BY <3>1, <3>2
  <2>8. Len(es) + 2 * N + 2 <= Capacity
    <3>1. Len(es) <= Len(a) + (i - 1) * c
      BY <2>4 DEF Outcome
    <3> DEFINE p == (i - 1) * c
               q == i * c
               z == n * c
    <3>2. /\ p \in Nat /\ q \in Nat /\ p + c = q /\ q <= z /\ z \in Nat
          /\ Len(es) <= Len(a) + p /\ Len(a) + z <= Capacity
      BY <1>1, <1>4, <2>7, <3>1
    <3> HIDE DEF p, q, z
    <3> QED
      BY <1>1, <1>2, <2>5, <3>2 DEF GoodSearch
  <2>9. Smoothed(es, x, w, c)
    BY <2>5, <2>6, <2>8, DeformedFacts DEF N
  <2>10. Outcome(a, x, w, (i - 1) * c + c)
    <3> HIDE DEF c
    <3> DEFINE p == (i - 1) * c
    <3>1. p \in Nat /\ Outcome(a, es, w, p) /\ Outcome(es, x, w, c)
      BY <2>4, <2>7, <2>9 DEF Smoothed
    <3> HIDE DEF p
    <3>2. Outcome(a, x, w, p + c)
      BY <1>1, <1>2, <3>1, OutcomesCompose
    <3> QED
      BY <3>2 DEF p
  <2> HIDE DEF c
  <2> QED
    BY <2>7, <2>9, <2>10 DEF Smoothed
<1>7. S \in SUBSET (0..n)
  OBVIOUS
<1>8. n * c \in Nat
  BY <1>1
<1> HIDE DEF S, c
<1>9. S = 0..n
  BY <1>1, <1>5, <1>6, <1>7, Upward
<1>10. Good(n) /\ r \in f[n]
  BY <1>1, <1>f, <1>9 DEF S
<1>11. r # Overflow
  BY <1>10, OverflowAssumption DEF Sound, Streams
<1> QED
  BY <1>1, <1>4, <1>8, <1>10, <1>11 DEF n

\* What an insertion may write.
LEMMA InsertedValueFacts ==
    ASSUME GoodSearch, NEW m, GoodModifier(m), m.kind = "InputInsertion",
           NEW action \in Insertable, NEW es \in Streams, NEW start \in Int,
           NEW v \in InsertedValues(es, m, action, start)
    PROVE  /\ v \in Int
           /\ Plausibles(es) /\ action \notin Analog => v \in 0..1
<1> DEFINE initial == search.boundary.value[action]
           previous == StateAt(es, action, start, initial)
<1>1. initial \in Int /\ InChannel(action, initial) /\ action \in Actions
  BY DEF GoodSearch, GoodControls, Insertable, Actions, Steer, Accelerate, Brake
<1>2. previous \in Int
  <2> HIDE DEF initial
  <2> QED
    BY <1>1, StateAtFacts, StreamFacts
<1>3. Plausibles(es) /\ action \notin Analog => previous \in 0..1
  <2> HIDE DEF initial
  <2> QED
    BY <1>1, StateAtInRange
<1>4. m.values \in SUBSET Int /\ m.offset \in BOOLEAN
  BY ModifierFacts
<1>5. InsertedValues(es, m, action, start) =
        CASE action # Steer -> {1 - previous}
          [] action = Steer /\ m.offset -> {Saturate(previous + d) : d \in m.values}
          [] action = Steer /\ ~m.offset -> m.values
  BY DEF InsertedValues
<1> HIDE DEF previous
<1>6. CASE action # Steer
  <2>1. v = 1 - previous
    BY <1>5, <1>6
  <2> QED
    BY <1>2, <1>3, <2>1
<1>7. CASE action = Steer
  <2>1. action \in Analog
    BY <1>7 DEF Analog
  <2>2. CASE m.offset
    <3>1. PICK d \in m.values : v = Saturate(previous + d)
      BY <1>5, <1>7, <2>2
    <3>2. previous + d \in Int
      BY <1>2, <1>4
    <3>3. v \in -Full..Full
      BY <3>1, <3>2, SaturateFacts
    <3> QED
      BY <2>1, <3>3, SearchAssumption
  <2>3. CASE ~m.offset
    <3>1. v \in m.values
      BY <1>5, <1>7, <2>3
    <3> QED
      BY <1>4, <2>1, <3>1
  <2> QED
    BY <2>2, <2>3
<1> QED
  BY <1>6, <1>7

\* They are events.
LEMMA HeldEventFacts ==
    ASSUME NEW action \in Insertable, NEW start \in Int, NEW v \in Int
    PROVE  /\ HeldEvent(action, start, v) \in Events
           /\ HeldEvent(action, start, v).time = start
           /\ HeldEvent(action, start, v).action = action
           /\ HeldEvent(action, start, v).value = v
<1>1. action \in Actions
  BY DEF Insertable, Actions, Steer, Accelerate, Brake
<1> QED
  BY <1>1 DEF HeldEvent, Event, Events

\* The value that is given back is one of the channel.
LEMMA ReleaseEventFacts ==
    ASSUME GoodSearch, NEW action \in Insertable, NEW before \in Streams, NEW end \in Int
    PROVE  /\ ReleaseEvent(before, action, end) \in Events
           /\ ReleaseEvent(before, action, end).time = end
           /\ ReleaseEvent(before, action, end).action = action
           /\ Plausibles(before) /\ action \notin Analog =>
                ReleaseEvent(before, action, end).value \in 0..1
<1> DEFINE initial == search.boundary.value[action]
           value == StateAt(before, action, end, initial)
<1>1. initial \in Int /\ InChannel(action, initial) /\ action \in Actions
  BY DEF GoodSearch, GoodControls, Insertable, Actions, Steer, Accelerate, Brake
<1>2. value \in Int
  <2> HIDE DEF initial
  <2> QED
    BY <1>1, StateAtFacts, StreamFacts
<1>3. Plausibles(before) /\ action \notin Analog => value \in 0..1
  <2> HIDE DEF initial
  <2> QED
    BY <1>1, StateAtInRange
<1>4. ReleaseEvent(before, action, end) = Event(end, action, value)
  BY DEF ReleaseEvent
<1> HIDE DEF value
<1>5. /\ Event(end, action, value) \in Events
      /\ Event(end, action, value).time = end
      /\ Event(end, action, value).action = action
      /\ Event(end, action, value).value = value
  BY <1>1, <1>2 DEF Event, Events
<1> QED
  BY <1>3, <1>4, <1>5

\* What is left of the stream is one.
LEMMA RestFacts ==
    ASSUME NEW es \in Streams, NEW action, NEW start, NEW end
    PROVE  RestOf(es, action, start, end) \in Streams
  BY KeptSource DEF RestOf

\* An insertion by its events.
LEMMA InsertedByEvents ==
    ASSUME NEW es, NEW before, NEW action, NEW start, NEW end, NEW v
    PROVE  Inserted(es, before, action, start, end, v) =
              IF end = start THEN Push(RestOf(es, action, start, end),
                                       HeldEvent(action, start, v))
              ELSE Push(Push(RestOf(es, action, start, end), HeldEvent(action, start, v)),
                        ReleaseEvent(before, action, end))
  BY DEF Inserted, RestOf, HeldEvent, ReleaseEvent

\* Insertions lead from a stream to a stream, or out of room.
LEMMA InsertedAttempt ==
    ASSUME GoodSearch, NEW action \in Insertable, NEW before \in Streams,
           NEW start \in Int, NEW end \in Int, NEW v \in Int, NEW es \in Streams
    PROVE  Inserted(es, before, action, start, end, v) \in Attempts
<1> DEFINE rest == RestOf(es, action, start, end)
           e == HeldEvent(action, start, v)
           f == ReleaseEvent(before, action, end)
           held == Push(rest, e)
<1>1. rest \in Streams /\ e \in Events /\ f \in Events
  BY RestFacts, HeldEventFacts, ReleaseEventFacts
<1> HIDE DEF rest, e, f
<1>2. held \in Attempts
  BY <1>1, PushFacts DEF Attempts
<1> HIDE DEF held
<1>3. Push(held, f) \in Attempts
  <2>1. CASE held = Overflow
    BY <2>1 DEF Push, Attempts
  <2>2. CASE held \in Streams
    BY <1>1, <2>2, PushFacts DEF Attempts
  <2> QED
    BY <1>2, <2>1, <2>2 DEF Attempts
<1>4. Inserted(es, before, action, start, end, v) =
        IF end = start THEN held ELSE Push(held, f)
  BY InsertedByEvents DEF held, rest, e, f
<1> QED
  BY <1>2, <1>3, <1>4

\* An insertion that fits.
LEMMA InsertedFacts ==
    ASSUME GoodSearch, NEW w, GoodWindow(w), NEW action \in Insertable,
           NEW before, Plausibles(before), NEW es, Plausibles(es),
           NEW start \in Int, NEW end \in Int, NEW v \in Int,
           action \notin Analog => v \in 0..1,
           Floor(w.first) <= start, start <= end, end <= w.last,
           Len(es) + 2 <= Capacity
    PROVE  Outcome(es, Inserted(es, before, action, start, end, v), w, 2)
<1> DEFINE S == {i \in DOMAIN es :
                    ~(es[i].action = action /\ start <= es[i].time /\ es[i].time <= end)}
           rest == RestOf(es, action, start, end)
           e == HeldEvent(action, start, v)
           f == ReleaseEvent(before, action, end)
           one == Append(rest, e)
           two == Append(one, f)
<1>1. es \in Streams /\ before \in Streams /\ Len(es) \in Nat
  BY StreamFacts DEF Plausibles
<1>2. /\ rest \in Streams /\ e \in Events /\ f \in Events
      /\ e.time = start /\ e.action = action /\ e.value = v
      /\ f.time = end /\ f.action = action
      /\ action \notin Analog => f.value \in 0..1
  <2>1. es \in Streams /\ before \in Streams
    BY <1>1
  <2>2. rest \in Streams
    BY <2>1, RestFacts
  <2>3. e \in Events /\ e.time = start /\ e.action = action /\ e.value = v
    BY HeldEventFacts
  <2>4. f \in Events /\ f.time = end /\ f.action = action
        /\ (action \notin Analog => f.value \in 0..1)
    BY <2>1, ReleaseEventFacts
  <2> HIDE DEF rest, e, f
  <2> QED
    BY <2>2, <2>3, <2>4
<1>3. /\ w.first \in Int /\ w.last \in Int /\ Floor(w.first) \in Int /\ 0 <= Floor(w.first)
  BY WindowFacts
<1>4. Outcome(es, rest, w, 0)
  <2>1. S \in SUBSET DOMAIN es /\ rest = Kept(es, S)
    BY DEF RestOf
  <2>2. ASSUME NEW i \in DOMAIN es, i \notin S
        PROVE  ~Outside(w, es[i].time) /\ es[i].action \notin Digital
    <3>3. es[i].action \notin Digital
      BY <2>2 DEF Insertable, Digital, Steer, SteerLeft, SteerRight, Accelerate, Brake
    <3>1. start <= es[i].time /\ es[i].time <= end /\ es[i].time \in Int
      BY <1>1, <2>2, StreamFacts
    <3>2. Floor(w.first) <= es[i].time /\ es[i].time <= w.last
      BY <1>3, <3>1
    <3> QED
      BY <3>1, <3>2, <3>3, InsideWindow
  <2> HIDE DEF S, rest
  <2> QED
    BY <2>1, <2>2, KeptInWindow
<1> HIDE DEF rest, e, f
<1>5. Plausible(e) /\ Plausible(f) /\ ~Outside(w, e.time) /\ ~Outside(w, f.time)
  <2>1. /\ Floor(w.first) <= e.time /\ e.time <= w.last /\ e.time \in Int /\ e.time >= 0
        /\ Floor(w.first) <= f.time /\ f.time <= w.last /\ f.time \in Int /\ f.time >= 0
    BY <1>2, <1>3
  <2>2. ~Outside(w, e.time) /\ ~Outside(w, f.time)
    BY <2>1, InsideWindow
  <2> QED
    BY <1>2, <2>1, <2>2 DEF Plausible
<1>6. e.action \notin Digital /\ f.action \notin Digital
  BY <1>2 DEF Insertable, Digital, Steer, SteerLeft, SteerRight, Accelerate, Brake
<1>7. Plausibles(rest) /\ Len(rest) \in Nat /\ Len(rest) <= Len(es)
  BY <1>1, <1>2, <1>4, StreamFacts DEF Outcome
<1>8. Outcome(rest, one, w, 1) /\ one \in Streams /\ Len(one) = Len(rest) + 1
  BY <1>2, <1>5, <1>6, <1>7, AppendedInWindow DEF Streams
<1> HIDE DEF one
<1>9. Plausibles(one) /\ Outcome(es, one, w, 1)
  <2>1. Outcome(es, one, w, 0 + 1)
    BY <1>4, <1>8, OutcomesCompose
  <2> QED
    BY <2>1 DEF Outcome
<1>10. Outcome(one, two, w, 1)
  BY <1>2, <1>5, <1>6, <1>8, <1>9, AppendedInWindow
<1> HIDE DEF two
<1>11. Outcome(es, two, w, 2) /\ Outcome(es, one, w, 2)
  <2>1. Outcome(es, two, w, 1 + 1)
    BY <1>9, <1>10, OutcomesCompose
  <2>2. Outcome(es, one, w, 2)
    BY <1>9, OutcomeOfMore
  <2> QED
    BY <2>1, <2>2
<1>12. Capacity \in Int
  BY DEF GoodSearch
<1>13. Push(rest, e) = one
  BY <1>1, <1>2, <1>7, <1>12, PushFacts DEF one
<1>14. Push(one, f) = two
  BY <1>1, <1>2, <1>7, <1>8, <1>12, PushFacts DEF two
<1>15. Inserted(es, before, action, start, end, v) = IF end = start THEN one ELSE two
  BY <1>13, <1>14, InsertedByEvents DEF rest, e, f
<1> QED
  BY <1>11, <1>15

\* One insertion of a modifier.
LEMMA InsertedOnceMembers ==
    ASSUME NEW streams, NEW before, NEW m, NEW w, NEW channel \in Channel, NEW action,
           NEW r \in InsertedOnce(streams, before, m, w, channel, action)
    PROVE  \E es \in streams : InsertedInto(r, es, before, m, w, action)
<1>1. PICK es \in streams :
        r \in IF es = Overflow THEN {Overflow}
              ELSE {Inserted(es, before, action, d[1], Min({d[1] + d[2], w.last}), d[3]) :
                       d \in InsertionDraws(es, m, w, channel, action)}
  BY DEF InsertedOnce
<1>2. CASE es = Overflow
  BY <1>1, <1>2 DEF InsertedInto
<1>3. CASE es # Overflow
  <2>1. PICK d \in InsertionDraws(es, m, w, channel, action) :
            r = Inserted(es, before, action, d[1], Min({d[1] + d[2], w.last}), d[3])
    BY <1>1, <1>3
  <2>2. PICK start \in TicksIn(w) :
            d \in {<<start, n * Tick, v>> : n \in 0..(channel.hold \div Tick),
                                            v \in InsertedValues(es, m, action, start)}
    BY DEF InsertionDraws
  <2>3. PICK n \in 0..(channel.hold \div Tick), v \in InsertedValues(es, m, action, start) :
            d = <<start, n * Tick, v>>
    BY <2>2
  <2>4. d[1] = start /\ d[2] = n * Tick /\ d[3] = v
    BY <2>3
  <2>5. n * Tick \in Nat
    <3> DEFINE h == channel.hold
    <3>1. h \in Nat /\ Tick \in Nat /\ n \in 0..(h \div Tick)
      BY SearchAssumption DEF Channel
    <3> HIDE DEF h
    <3>2. h \div Tick \in Int
      BY <3>1, TickDivision
    <3>3. n \in Nat
      BY <3>1, <3>2
    <3> QED
      BY <3>1, <3>3
  <2>6. r = Inserted(es, before, action, start, Min({start + n * Tick, w.last}), v)
    BY <2>1, <2>4
  <2> DEFINE length == n * Tick
  <2>7. length \in Nat
        /\ r = Inserted(es, before, action, start, Min({start + length, w.last}), v)
    BY <2>5, <2>6
  <2> HIDE DEF length
  <2> QED
    BY <1>3, <2>7 DEF InsertedInto
<1> QED
  BY <1>2, <1>3

\* Where it ends.
LEMMA InsertionEnds ==
    ASSUME NEW w, GoodWindow(w), NEW start \in TicksIn(w), NEW length \in Nat
    PROVE  /\ start \in Int /\ Floor(w.first) <= start
           /\ Min({start + length, w.last}) \in Int
           /\ start <= Min({start + length, w.last})
           /\ Min({start + length, w.last}) <= w.last
<1>1. w.first \in Int /\ w.last \in Int
  BY WindowFacts
<1>2. start \in Int /\ Floor(w.first) <= start /\ start <= w.last
  BY <1>1, WindowTicks
<1>3. start + length \in Int /\ start <= start + length
  BY <1>2
<1> QED
  BY <1>1, <1>2, <1>3, MinOfTwo

\* Insertions lead from attempts to attempts.
LEMMA InsertedOnceAttempts ==
    ASSUME GoodSearch, NEW m, GoodModifier(m), m.kind = "InputInsertion",
           NEW w, GoodWindow(w), NEW channel \in Channel, NEW action \in Insertable,
           NEW before \in Streams, NEW streams \in SUBSET Attempts
    PROVE  InsertedOnce(streams, before, m, w, channel, action) \in SUBSET Attempts
<1> SUFFICES ASSUME NEW r \in InsertedOnce(streams, before, m, w, channel, action)
             PROVE  r \in Attempts
  OBVIOUS
<1>1. PICK es \in streams : InsertedInto(r, es, before, m, w, action)
  BY InsertedOnceMembers
<1>2. CASE es = Overflow
  BY <1>1, <1>2 DEF Attempts, InsertedInto
<1>3. CASE es # Overflow
  <2>1. PICK start \in TicksIn(w), length \in Nat :
            \E v \in InsertedValues(es, m, action, start) :
                r = Inserted(es, before, action, start, Min({start + length, w.last}), v)
    BY <1>1, <1>3 DEF InsertedInto
  <2>2. PICK v \in InsertedValues(es, m, action, start) :
            r = Inserted(es, before, action, start, Min({start + length, w.last}), v)
    BY <2>1
  <2>3. es \in Streams
    BY <1>3 DEF Attempts
  <2>4. start \in Int /\ Min({start + length, w.last}) \in Int
    BY InsertionEnds
  <2>5. v \in Int
    BY <2>3, <2>4, InsertedValueFacts
  <2> QED
    BY <2>2, <2>3, <2>4, <2>5, InsertedAttempt
<1> QED
  BY <1>2, <1>3

\* Insertions are made one after another.
LEMMA InsertionSteps ==
    ASSUME GoodSearch, NEW m, GoodModifier(m), m.kind = "InputInsertion",
           NEW w, GoodWindow(w), NEW channel \in Channel, NEW action \in Insertable,
           NEW before \in Streams, NEW streams \in SUBSET Attempts
    PROVE  \E f : Insertions(f, streams, before, m, w, channel, action)
<1> DEFINE n == channel.most
           After(x) == InsertedOnce(x, before, m, w, channel, action)
           Eq(h) == h = [i \in 0..n |-> IF i = 0 THEN streams ELSE After(h[i - 1])]
           runs == CHOOSE h : Eq(h)
           X == SUBSET Attempts
           step == [i \in 1..n |-> [x \in X |-> After(x)]]
<1>1. n \in Nat /\ streams \in X
  BY DEF Channel
<1>2. ASSUME NEW x \in X PROVE After(x) \in X
  BY <1>2, InsertedOnceAttempts
<1>3. step \in [1..n -> [X -> X]]
  <2> HIDE DEF After, X, n
  <2> QED
    BY <1>2
<1> HIDE DEF After, n, X, step
<1>4. PICK f : MadeBySteps(f, X, streams, n, step)
  BY <1>1, <1>3, StepByStep
<1>5. ASSUME NEW i \in 0..n PROVE f[i] = IF i = 0 THEN streams ELSE After(f[i - 1])
  <2>1. i = 0 \/ (i # 0 /\ i \in 1..n)
    BY <1>1
  <2> QED
    BY <1>4, <2>1 DEF step, MadeBySteps
<1>6. Eq(f)
  <2>1. f = [i \in 0..n |-> f[i]]
    BY <1>4 DEF MadeBySteps
  <2> QED
    BY <1>5, <2>1
<1>7. Eq(runs)
  <2> HIDE DEF Eq
  <2> QED
    BY <1>6
<1>8. InsertedChannel(streams, before, m, w, channel, action)
        = UNION {runs[k] : k \in channel.fewest..channel.most}
  BY DEF InsertedChannel, n, After
<1> HIDE DEF runs
<1>9. ASSUME NEW i \in 0..n PROVE runs[i] = IF i = 0 THEN streams ELSE After(runs[i - 1])
  BY <1>7
<1>10. runs[0] = streams
  BY <1>1, <1>9
<1>11. runs \in [0..n -> X]
  <2>1. runs = [i \in 0..n |-> IF i = 0 THEN streams ELSE After(runs[i - 1])]
    BY <1>7
  <2>2. runs = [i \in 0..n |-> runs[i]]
    BY <1>9, <2>1
  <2>3. ASSUME NEW i \in 1..n, runs[i - 1] \in X PROVE runs[i] \in X
    <3>1. i \in 0..n /\ i # 0
      BY <1>1
    <3> QED
      BY <1>2, <1>9, <2>3, <3>1
  <2>4. n \in Nat /\ runs[0] \in X
    BY <1>1, <1>10
  <2> QED
    BY <2>2, <2>3, <2>4, StaysIn
<1>12. ASSUME NEW i \in 1..n
       PROVE  runs[i] = InsertedOnce(runs[i - 1], before, m, w, channel, action)
  <2>1. i \in 0..n /\ i # 0
    BY <1>1
  <2> QED
    BY <1>9, <2>1 DEF After
<1> QED
  BY <1>8, <1>10, <1>11, <1>12 DEF n, X, Insertions

\* Insertions in a channel that fit.
LEMMA InsertedChannelFacts ==
    ASSUME GoodSearch, NEW m, GoodModifier(m), m.kind = "InputInsertion",
           NEW w, GoodWindow(w), NEW channel \in Channel, NEW action \in Insertable,
           NEW a, Plausibles(a), NEW streams, NEW k \in Nat,
           \A x \in streams : Outcome(a, x, w, k),
           Len(a) + k + 2 * channel.most <= Capacity,
           NEW r \in InsertedChannel(streams, a, m, w, channel, action)
    PROVE  Outcome(a, r, w, k + 2 * channel.most)
<1> DEFINE n == channel.most
<1>1. n \in Nat /\ channel.fewest \in Nat
  BY DEF Channel
<1>2. a \in Streams /\ Len(a) \in Nat
  BY StreamFacts DEF Plausibles
<1>3. streams \in SUBSET Attempts
  BY DEF Outcome, Plausibles, Attempts
<1>4. PICK f : Insertions(f, streams, a, m, w, channel, action)
  BY <1>2, <1>3, InsertionSteps
<1>5. /\ f \in [0..n -> SUBSET Attempts] /\ f[0] = streams
      /\ \A i \in 1..n : f[i] = InsertedOnce(f[i - 1], a, m, w, channel, action)
      /\ InsertedChannel(streams, a, m, w, channel, action)
            = UNION {f[j] : j \in channel.fewest..n}
  BY <1>4 DEF Insertions
<1> HIDE DEF n
<1>6. Len(a) + k + 2 * n <= Capacity
  BY DEF n
<1> DEFINE Good(i) == \A x \in f[i] : Outcome(a, x, w, k + 2 * i)
           S == {i \in 0..n : Good(i)}
<1>7. 0 \in S
  <2>1. k + 2 * 0 = k /\ 0 \in 0..n
    BY <1>1
  <2> QED
    BY <1>5, <2>1
<1>8. ASSUME NEW i \in 1..n, i - 1 \in S PROVE i \in S
  <2>1. SUFFICES ASSUME NEW x \in f[i] PROVE Outcome(a, x, w, k + 2 * i)
    BY <1>1
  <2>2. i \in Nat /\ i - 1 \in Nat /\ i <= n
    BY <1>1
  <2>3. x \in InsertedOnce(f[i - 1], a, m, w, channel, action)
    BY <1>5
  <2>4. PICK es \in f[i - 1] : InsertedInto(x, es, a, m, w, action)
    BY <2>3, InsertedOnceMembers
  <2>5. Outcome(a, es, w, k + 2 * (i - 1))
    BY <1>8
  <2>6. Plausibles(es) /\ es \in Streams /\ es # Overflow /\ Len(es) \in Nat
    BY <2>5, OverflowAssumption, StreamFacts DEF Outcome, Plausibles, Streams
  <2>7. PICK start \in TicksIn(w), length \in Nat :
            \E v \in InsertedValues(es, m, action, start) :
                x = Inserted(es, a, action, start, Min({start + length, w.last}), v)
    BY <2>4, <2>6 DEF InsertedInto
  <2>8. PICK v \in InsertedValues(es, m, action, start) :
            x = Inserted(es, a, action, start, Min({start + length, w.last}), v)
    BY <2>7
  <2> DEFINE end == Min({start + length, w.last})
  <2>9. /\ start \in Int /\ Floor(w.first) <= start
        /\ end \in Int /\ start <= end /\ end <= w.last
    BY InsertionEnds
  <2> HIDE DEF end
  <2>10. v \in Int /\ (action \notin Analog => v \in 0..1)
    BY <2>6, <2>9, InsertedValueFacts
  <2>11. Len(es) + 2 <= Capacity
    <3>1. Len(es) <= Len(a) + (k + 2 * (i - 1))
      BY <2>5 DEF Outcome
    <3> QED
      BY <1>1, <1>2, <1>6, <2>2, <2>6, <3>1 DEF GoodSearch
  <2>12. Outcome(es, Inserted(es, a, action, start, end, v), w, 2)
    BY <2>6, <2>9, <2>10, <2>11, InsertedFacts
  <2>13. k + 2 * (i - 1) \in Nat /\ k + 2 * (i - 1) + 2 = k + 2 * i
    BY <2>2
  <2>14. Outcome(a, x, w, (k + 2 * (i - 1)) + 2)
    <3> DEFINE p == k + 2 * (i - 1)
    <3>1. p \in Nat /\ Outcome(a, es, w, p) /\ Outcome(es, x, w, 2)
      BY <2>5, <2>8, <2>12, <2>13 DEF end
    <3> HIDE DEF p
    <3>2. Outcome(a, x, w, p + 2)
      BY <3>1, OutcomesCompose
    <3> QED
      BY <3>2 DEF p
  <2> QED
    BY <2>13, <2>14
<1>9. S \in SUBSET (0..n)
  OBVIOUS
<1> HIDE DEF S
<1>10. S = 0..n
  BY <1>1, <1>7, <1>8, <1>9, Upward
<1>11. PICK j \in channel.fewest..n : r \in f[j]
  BY <1>5
<1>12. j \in S /\ j \in Nat /\ j <= n
  BY <1>1, <1>10, <1>11
<1>13. Outcome(a, r, w, k + 2 * j)
  BY <1>11, <1>12 DEF S
<1>14. k + 2 * j \in Nat /\ k + 2 * n \in Nat /\ k + 2 * j <= k + 2 * n
  BY <1>1, <1>12
<1> DEFINE p == k + 2 * j
           q == k + 2 * n
<1>15. p \in Nat /\ q \in Nat /\ p <= q /\ Outcome(a, r, w, p)
  BY <1>13, <1>14
<1> HIDE DEF p, q
<1>16. Outcome(a, r, w, q)
  BY <1>15, OutcomeOfMore
<1> QED
  BY <1>16 DEF q, n

\* An insertion that fits.
LEMMA InputInsertionFacts ==
    ASSUME GoodSearch, NEW m, GoodModifier(m), m.kind = "InputInsertion",
           NEW w, GoodWindow(w), NEW a, Sound(a), Len(a) + Growth(m) <= Capacity,
           NEW r \in InputInsertion(a, m, w)
    PROVE  r # Overflow /\ Outcome(a, r, w, Growth(m)) /\ Growth(m) \in Nat
<1> DEFINE s == m.steering.most
           c == m.accelerate.most
           b == m.brake.most
           steered == InsertedChannel({a}, a, m, w, m.steering, Steer)
           accelerated == InsertedChannel(steered, a, m, w, m.accelerate, Accelerate)
<1>1. m.steering \in Channel /\ m.accelerate \in Channel /\ m.brake \in Channel
  BY ModifierFacts
<1>2. s \in Nat /\ c \in Nat /\ b \in Nat
  BY <1>1 DEF Channel
<1>3. Growth(m) = 2 * (s + c + b)
  BY DEF Growth
<1>4. Plausibles(a) /\ Len(a) \in Nat /\ Capacity \in Int
  BY SoundIsPlausible, StreamFacts DEF Sound, GoodSearch
<1>p. Plausibles(a)
  BY <1>4
<1>5. Steer \in Insertable /\ Accelerate \in Insertable /\ Brake \in Insertable
  BY DEF Insertable
<1>6. r \in InsertedChannel(accelerated, a, m, w, m.brake, Brake)
  BY DEF InputInsertion
<1>7. \A x \in {a} : Outcome(a, x, w, 0)
  BY <1>4, OutcomeOfNothing
<1>8. Len(a) + 2 * (s + c + b) <= Capacity
  BY <1>3
<1>q. /\ Len(a) + 0 + 2 * s <= Capacity /\ Len(a) + 2 * s + 2 * c <= Capacity
      /\ Len(a) + (2 * s + 2 * c) + 2 * b <= Capacity
      /\ 2 * s \in Nat /\ 2 * s + 2 * c \in Nat
      /\ (2 * s + 2 * c) + 2 * b = 2 * (s + c + b) /\ 2 * (s + c + b) \in Nat
  <2> DEFINE L == Len(a)
  <2>1. L \in Nat /\ Capacity \in Int /\ L + 2 * (s + c + b) <= Capacity
        /\ s \in Nat /\ c \in Nat /\ b \in Nat
    BY <1>2, <1>4, <1>8
  <2> HIDE DEF L, s, c, b
  <2>2. /\ L + 0 + 2 * s <= Capacity /\ L + 2 * s + 2 * c <= Capacity
        /\ L + (2 * s + 2 * c) + 2 * b <= Capacity
        /\ 2 * s \in Nat /\ 2 * s + 2 * c \in Nat
        /\ (2 * s + 2 * c) + 2 * b = 2 * (s + c + b) /\ 2 * (s + c + b) \in Nat
    BY <2>1
  <2> QED
    BY <2>2 DEF L
<1>9. ASSUME NEW x \in steered PROVE Outcome(a, x, w, 0 + 2 * s)
  <2>1. Len(a) + 0 + 2 * m.steering.most <= Capacity
    BY <1>q
  <2> QED
    BY <1>1, <1>4, <1>5, <1>7, <1>9, <2>1, InsertedChannelFacts
<1> HIDE DEF steered
<1>10. ASSUME NEW x \in accelerated PROVE Outcome(a, x, w, 2 * s + 2 * c)
  <2> DEFINE k == 2 * s
  <2>1. k \in Nat /\ Len(a) + k + 2 * m.accelerate.most <= Capacity
    BY <1>q, Zenon
  <2>2. \A y \in steered : Outcome(a, y, w, k)
    <3>1. 0 + 2 * s = 2 * s
      BY <1>2
    <3> QED
      BY <1>9, <3>1
  <2> HIDE DEF k
  <2>3. Outcome(a, x, w, k + 2 * m.accelerate.most)
    BY <1>1, <1>4, <1>5, <1>10, <2>1, <2>2, InsertedChannelFacts
  <2> QED
    BY <2>3 DEF k
<1> HIDE DEF accelerated
<1>11. Outcome(a, r, w, (2 * s + 2 * c) + 2 * b)
  <2> DEFINE k == 2 * s + 2 * c
  <2>1. k \in Nat /\ Len(a) + k + 2 * m.brake.most <= Capacity
    BY <1>q, Zenon
  <2>2. \A y \in accelerated : Outcome(a, y, w, k)
    BY <1>10
  <2> HIDE DEF k
  <2>3. Outcome(a, r, w, k + 2 * m.brake.most)
    BY <1>1, <1>4, <1>5, <1>6, <2>1, <2>2, InsertedChannelFacts
  <2> QED
    BY <2>3 DEF k
<1>13. r # Overflow
  BY <1>11, OverflowAssumption DEF Outcome, Plausibles, Streams
<1> QED
  BY <1>3, <1>11, <1>q, <1>13

-----------------------------------------------------------------------------
(* Controls.                                                               *)

\* Events lead from controls to controls.
LEMMA AppliedFacts ==
    ASSUME NEW s \in Controls, NEW e \in Events, NEW origin \in Int
    PROVE  /\ ApplyControlEvent(s, e, origin) \in Controls
           /\ \A a \in Actions :
                /\ ApplyControlEvent(s, e, origin).value[a]
                        = IF a = e.action THEN e.value ELSE s.value[a]
                /\ ApplyControlEvent(s, e, origin).time[a]
                        = IF a = e.action THEN origin + e.time ELSE s.time[a]
<1> DEFINE r == ApplyControlEvent(s, e, origin)
           v == [s.value EXCEPT ![e.action] = e.value]
           t == [s.time EXCEPT ![e.action] = origin + e.time]
<1>1. /\ s.value \in [Actions -> Int] /\ s.time \in [Actions -> Int]
      /\ s = [value |-> s.value, time |-> s.time]
  BY DEF Controls
<1>2. e.action \in Actions /\ e.value \in Int /\ e.time \in Int
  BY DEF Events
<1>3. /\ v \in [Actions -> Int] /\ t \in [Actions -> Int]
      /\ \A a \in Actions : /\ v[a] = IF a = e.action THEN e.value ELSE s.value[a]
                            /\ t[a] = IF a = e.action THEN origin + e.time ELSE s.time[a]
  <2> DEFINE V == s.value
             T == s.time
             a == e.action
  <2>1. V \in [Actions -> Int] /\ T \in [Actions -> Int] /\ a \in Actions
        /\ v = [V EXCEPT ![a] = e.value] /\ t = [T EXCEPT ![a] = origin + e.time]
        /\ origin + e.time \in Int
    BY <1>1, <1>2
  <2> HIDE DEF V, T, a, v, t
  <2>2. v \in [Actions -> Int] /\ \A b \in Actions : v[b] = IF b = a THEN e.value ELSE V[b]
    BY <1>2, <2>1
  <2>3. /\ t \in [Actions -> Int]
        /\ \A b \in Actions : t[b] = IF b = a THEN origin + e.time ELSE T[b]
    BY <2>1
  <2> QED
    BY <2>2, <2>3 DEF V, T, a
<1>4. r = [value |-> v, time |-> t]
  BY DEF ApplyControlEvent
<1> HIDE DEF r, v, t
<1>5. r \in Controls /\ r.value = v /\ r.time = t
  BY <1>3, <1>4 DEF Controls
<1> QED
  BY <1>3, <1>5 DEF r

\* Controls are made event by event.
LEMMA ControlSteps ==
    ASSUME NEW es \in Streams, NEW initial \in Controls, NEW origin \in Int, NEW t \in Int
    PROVE  \E f : History(f, es, initial, origin, t)
<1> DEFINE n == Len(es)
           After(x, i) == IF es[i].time <= t THEN ApplyControlEvent(x, es[i], origin) ELSE x
           Eq(h) == h = [i \in 0..n |-> IF i = 0 THEN initial ELSE After(h[i - 1], i)]
           after == CHOOSE h : Eq(h)
           X == Controls
           step == [i \in 1..n |-> [x \in X |-> After(x, i)]]
<1>1. n \in Nat /\ initial \in X /\ \A i \in 1..n : es[i] \in Events
  BY StreamFacts
<1>2. ASSUME NEW i \in 1..n, NEW x \in X PROVE After(x, i) \in X
  BY <1>1, <1>2, AppliedFacts
<1>3. step \in [1..n -> [X -> X]]
  <2> HIDE DEF After, X, n
  <2> QED
    BY <1>2
<1> HIDE DEF After, n, X, step
<1>4. PICK f : MadeBySteps(f, X, initial, n, step)
  <2>1. initial \in X /\ n \in Nat /\ step \in [1..n -> [X -> X]]
    BY <1>1, <1>3
  <2> QED
    BY <2>1, StepByStep
<1>5. ASSUME NEW i \in 0..n PROVE f[i] = IF i = 0 THEN initial ELSE After(f[i - 1], i)
  <2>1. i = 0 \/ (i # 0 /\ i \in 1..n)
    BY <1>1
  <2> QED
    BY <1>4, <2>1 DEF step, MadeBySteps
<1>6. Eq(f)
  <2>1. f = [i \in 0..n |-> f[i]]
    BY <1>4 DEF MadeBySteps
  <2> QED
    BY <1>5, <2>1
<1>7. Eq(after)
  <2> HIDE DEF Eq
  <2> QED
    BY <1>6
<1>8. ControlsAt(es, initial, origin, t) = after[n]
  BY DEF ControlsAt, n, After
<1> HIDE DEF after
<1>9. after = [i \in 0..n |-> IF i = 0 THEN initial ELSE After(after[i - 1], i)]
  BY <1>7
<1>10. ASSUME NEW i \in 0..n
       PROVE  after[i] = IF i = 0 THEN initial ELSE After(after[i - 1], i)
  BY <1>9
<1>11. after[0] = initial
  BY <1>1, <1>10
<1>12. after \in [0..n -> X]
  <2>2. after = [i \in 0..n |-> after[i]]
    BY <1>9, <1>10
  <2>3. ASSUME NEW i \in 1..n, after[i - 1] \in X PROVE after[i] \in X
    <3>1. i \in 0..n /\ i # 0
      BY <1>1
    <3> QED
      BY <1>2, <1>10, <2>3, <3>1
  <2>4. n \in Nat /\ after[0] \in X
    BY <1>1, <1>11
  <2> QED
    BY <2>2, <2>3, <2>4, StaysIn
<1>13. ASSUME NEW i \in 1..n
       PROVE  after[i] = ControlsAfter(after[i - 1], es[i], origin, t)
  <2>1. i \in 0..n /\ i # 0
    BY <1>1
  <2> QED
    BY <1>10, <2>1 DEF After, ControlsAfter
<1> QED
  BY <1>8, <1>11, <1>12, <1>13 DEF n, X, History

\* The controls at a time.
LEMMA ControlsFacts ==
    ASSUME NEW es \in Streams, NEW initial \in Controls, NEW origin \in Int, NEW t \in Int
    PROVE  /\ ControlsAt(es, initial, origin, t) \in Controls
           /\ \A a \in Actions :
                \/ /\ NotSet(es, a, t)
                   /\ ControlsAt(es, initial, origin, t).value[a] = initial.value[a]
                   /\ ControlsAt(es, initial, origin, t).time[a] = initial.time[a]
                \/ \E i \in DOMAIN es :
                    /\ SetBy(es, a, t, i)
                    /\ ControlsAt(es, initial, origin, t).value[a] = es[i].value
                    /\ ControlsAt(es, initial, origin, t).time[a] = origin + es[i].time
<1> DEFINE n == Len(es)
<1>1. /\ n \in Nat /\ DOMAIN es = 1..n
      /\ \A i \in 1..n : es[i] \in Events /\ es[i].action \in Actions /\ es[i].time \in Int
  BY StreamFacts
<1>2. PICK f : History(f, es, initial, origin, t)
  BY ControlSteps
<1>3. /\ f \in [0..n -> Controls] /\ f[0] = initial
      /\ \A i \in 1..n : f[i] = ControlsAfter(f[i - 1], es[i], origin, t)
      /\ ControlsAt(es, initial, origin, t) = f[n]
  BY <1>2 DEF History
<1> HIDE DEF n
<1>4. f[n] \in Controls
  BY <1>1, <1>3
<1> DEFINE Upto(k, a) ==
                \/ /\ \A i \in 1..k : es[i].action = a => es[i].time > t
                   /\ f[k].value[a] = initial.value[a]
                   /\ f[k].time[a] = initial.time[a]
                \/ \E i \in 1..k :
                    /\ es[i].action = a /\ es[i].time <= t
                    /\ \A j \in 1..k : es[j].action = a /\ es[j].time <= t => j <= i
                    /\ f[k].value[a] = es[i].value
                    /\ f[k].time[a] = origin + es[i].time
<1>5. ASSUME NEW a \in Actions PROVE Upto(n, a)
  <2> DEFINE S == {k \in 0..n : Upto(k, a)}
  <2>1. 0 \in S
    BY <1>1, <1>3
  <2>2. ASSUME NEW k \in 1..n, k - 1 \in S PROVE k \in S
    <3>1. k \in 0..n /\ k - 1 \in 0..n /\ k \in Nat
      BY <1>1
    <3>2. Upto(k - 1, a)
      BY <2>2
    <3>3. f[k - 1] \in Controls /\ es[k] \in Events
      BY <1>1, <1>3, <3>1
    <3>4. f[k] = ControlsAfter(f[k - 1], es[k], origin, t)
      BY <1>3
    <3>5. \A i \in 1..k : i \in 1..(k - 1) \/ i = k
      BY <3>1
    <3>6. CASE es[k].action = a /\ es[k].time <= t
      <4>1. f[k].value[a] = es[k].value /\ f[k].time[a] = origin + es[k].time
        BY <3>3, <3>4, <3>6, AppliedFacts, SMTT(40) DEF ControlsAfter
      <4>2. k \in 1..k /\ \A j \in 1..k : j <= k
        BY <3>1
      <4>3. Upto(k, a)
        BY <3>6, <4>1, <4>2
      <4> QED
        BY <3>1, <4>3
    <3>7. CASE ~(es[k].action = a /\ es[k].time <= t)
      <4>1. f[k].value[a] = f[k - 1].value[a] /\ f[k].time[a] = f[k - 1].time[a]
        <5>1. CASE es[k].time <= t
          <6>1. es[k].action # a /\ f[k] = ApplyControlEvent(f[k - 1], es[k], origin)
            BY <3>4, <3>7, <5>1 DEF ControlsAfter
          <6> QED
            BY <3>3, <6>1, AppliedFacts
        <5>2. CASE ~(es[k].time <= t)
          BY <3>4, <5>2 DEF ControlsAfter
        <5> QED
          BY <5>1, <5>2
      <4>2. CASE /\ \A i \in 1..(k - 1) : es[i].action = a => es[i].time > t
                 /\ f[k - 1].value[a] = initial.value[a]
                 /\ f[k - 1].time[a] = initial.time[a]
        <5>1. es[k].action = a => es[k].time > t
          BY <1>1, <3>7
        <5>2. \A i \in 1..k : es[i].action = a => es[i].time > t
          BY <3>5, <4>2, <5>1
        <5>3. Upto(k, a)
          BY <4>1, <4>2, <5>2
        <5> QED
          BY <3>1, <5>3
      <4>3. CASE \E i \in 1..(k - 1) :
                    /\ es[i].action = a /\ es[i].time <= t
                    /\ \A j \in 1..(k - 1) : es[j].action = a /\ es[j].time <= t => j <= i
                    /\ f[k - 1].value[a] = es[i].value
                    /\ f[k - 1].time[a] = origin + es[i].time
        <5>1. PICK i \in 1..(k - 1) :
                    /\ es[i].action = a /\ es[i].time <= t
                    /\ \A j \in 1..(k - 1) : es[j].action = a /\ es[j].time <= t => j <= i
                    /\ f[k - 1].value[a] = es[i].value
                    /\ f[k - 1].time[a] = origin + es[i].time
          BY <4>3
        <5>2. i \in 1..k /\ \A j \in 1..k : es[j].action = a /\ es[j].time <= t => j <= i
          BY <3>1, <3>5, <3>7, <5>1
        <5>3. Upto(k, a)
          BY <4>1, <5>1, <5>2
        <5> QED
          BY <3>1, <5>3
      <4> QED
        BY <3>2, <4>2, <4>3
    <3> QED
      BY <3>6, <3>7
  <2>3. S \in SUBSET (0..n)
    OBVIOUS
  <2> HIDE DEF S
  <2>4. S = 0..n
    BY <1>1, <2>1, <2>2, <2>3, Upward
  <2>5. n \in S
    BY <1>1, <2>4
  <2> QED
    BY <2>5 DEF S
<1>6. ASSUME NEW a \in Actions
      PROVE  \/ /\ NotSet(es, a, t)
                /\ ControlsAt(es, initial, origin, t).value[a] = initial.value[a]
                /\ ControlsAt(es, initial, origin, t).time[a] = initial.time[a]
             \/ \E i \in DOMAIN es :
                    /\ SetBy(es, a, t, i)
                    /\ ControlsAt(es, initial, origin, t).value[a] = es[i].value
                    /\ ControlsAt(es, initial, origin, t).time[a] = origin + es[i].time
  <2> DEFINE s == ControlsAt(es, initial, origin, t)
  <2>1. s = f[n] /\ Upto(n, a) /\ DOMAIN es = 1..n
    BY <1>1, <1>3, <1>5
  <2> HIDE DEF s
  <2>2. CASE /\ \A i \in 1..n : es[i].action = a => es[i].time > t
             /\ f[n].value[a] = initial.value[a]
             /\ f[n].time[a] = initial.time[a]
    BY <2>1, <2>2 DEF NotSet, s
  <2>3. CASE \E i \in 1..n :
                    /\ es[i].action = a /\ es[i].time <= t
                    /\ \A j \in 1..n : es[j].action = a /\ es[j].time <= t => j <= i
                    /\ f[n].value[a] = es[i].value
                    /\ f[n].time[a] = origin + es[i].time
    <3>1. PICK i \in 1..n :
                    /\ es[i].action = a /\ es[i].time <= t
                    /\ \A j \in 1..n : es[j].action = a /\ es[j].time <= t => j <= i
                    /\ f[n].value[a] = es[i].value
                    /\ f[n].time[a] = origin + es[i].time
      BY <2>3
    <3>2. SetBy(es, a, t, i) /\ i \in DOMAIN es
      BY <2>1, <3>1 DEF SetBy
    <3>3. s.value[a] = es[i].value /\ s.time[a] = origin + es[i].time
      BY <2>1, <3>1
    <3> QED
      BY <3>2, <3>3 DEF s
  <2> QED
    BY <2>1, <2>2, <2>3
<1> QED
  BY <1>3, <1>4, <1>6

\* Sound events keep the channels in their ranges.
LEMMA ControlsAreGood ==
    ASSUME NEW es, Sound(es), NEW initial, GoodControls(initial), NEW origin \in Int,
           NEW t \in Int
    PROVE  GoodControls(ControlsAt(es, initial, origin, t))
<1> DEFINE s == ControlsAt(es, initial, origin, t)
<1>1. es \in Streams /\ initial \in Controls
  BY DEF Sound, GoodControls, Controls
<1>2. /\ s \in Controls
      /\ \A a \in Actions : s.value[a] = initial.value[a]
                            \/ \E i \in DOMAIN es : es[i].action = a /\ s.value[a] = es[i].value
  BY <1>1, ControlsFacts DEF SetBy
<1> HIDE DEF s
<1>3. \A a \in Actions : InChannel(a, s.value[a])
  BY <1>2 DEF Sound, GoodControls, InRange, InChannel
<1> QED
  BY <1>2, <1>3 DEF GoodControls, Controls, s

-----------------------------------------------------------------------------
(* Restoring the controls after a segment.                                 *)

\* Two streams one after the other.
LEMMA ConcatFacts ==
    ASSUME NEW a \in Streams, NEW b \in Streams
    PROVE  /\ a \o b \in Streams /\ Len(a \o b) = Len(a) + Len(b)
           /\ Len(a) \in Nat /\ Len(b) \in Nat
           /\ DOMAIN a = 1..Len(a) /\ DOMAIN b = 1..Len(b)
           /\ DOMAIN (a \o b) = 1..(Len(a) + Len(b))
           /\ \A i \in DOMAIN a : i \in DOMAIN (a \o b) /\ (a \o b)[i] = a[i]
           /\ \A j \in DOMAIN b : /\ Len(a) + j \in DOMAIN (a \o b)
                                  /\ (a \o b)[Len(a) + j] = b[j]
           /\ \A i \in DOMAIN (a \o b) :
                i \in DOMAIN a \/ (i > Len(a) /\ i - Len(a) \in DOMAIN b
                                   /\ (a \o b)[i] = b[i - Len(a)])
<1>1. Len(a) \in Nat /\ Len(b) \in Nat /\ DOMAIN a = 1..Len(a) /\ DOMAIN b = 1..Len(b)
  BY DEF Streams
<1>2. a \o b \in Streams /\ Len(a \o b) = Len(a) + Len(b)
  BY DEF Streams
<1>3. DOMAIN (a \o b) = 1..(Len(a) + Len(b))
  BY <1>2 DEF Streams
<1>4. \A i \in DOMAIN a : (a \o b)[i] = a[i]
  BY <1>1 DEF Streams
<1>5. \A i \in DOMAIN (a \o b) : i > Len(a) => (a \o b)[i] = b[i - Len(a)]
  BY <1>1, <1>3 DEF Streams
<1>6. \A j \in DOMAIN b : Len(a) + j \in DOMAIN (a \o b) /\ Len(a) + j > Len(a)
                           /\ (Len(a) + j) - Len(a) = j
  BY <1>1, <1>3
<1>7. \A i \in DOMAIN (a \o b) : i \in DOMAIN a \/ (i > Len(a) /\ i - Len(a) \in DOMAIN b)
  BY <1>1, <1>3
<1>8. \A i \in DOMAIN a : i \in DOMAIN (a \o b)
  BY <1>1, <1>3
<1>9. \A j \in DOMAIN b : (a \o b)[Len(a) + j] = b[j]
  BY <1>5, <1>6
<1> QED
  BY <1>1, <1>2, <1>3, <1>4, <1>5, <1>6, <1>7, <1>8, <1>9

\* The events that restore a group.
LEMMA RestoredFacts ==
    ASSUME NEW s, GoodControls(s), NEW end \in Nat, NEW wins \in BOOLEAN,
           NEW analog \in Analog, NEW first \in Actions \ Analog,
           NEW second \in Actions \ Analog
    PROVE  LET r == Restored(analog, first, second, wins, s, end)
           IN /\ r \in Streams /\ Len(r) = 3 /\ DOMAIN r = 1..3
              /\ r[1] = Event(AnalogTime(wins, end), analog, s.value[analog])
              /\ r[2] = Event(DigitalTime(wins, end), first, s.value[first])
              /\ r[3] = Event(DigitalTime(wins, end), second, s.value[second])
              /\ \A k \in 1..3 : /\ r[k].time \in {end + 1, end + 2}
                                 /\ InRange(r[k])
<1> DEFINE r == Restored(analog, first, second, wins, s, end)
           e == Event(AnalogTime(wins, end), analog, s.value[analog])
           f == Event(DigitalTime(wins, end), first, s.value[first])
           g == Event(DigitalTime(wins, end), second, s.value[second])
<1>1. r = <<e, f, g>>
  BY DEF Restored, AnalogTime, DigitalTime
<1>2. AnalogTime(wins, end) \in {end + 1, end + 2} /\ DigitalTime(wins, end) \in {end + 1, end + 2}
      /\ AnalogTime(wins, end) \in Int /\ DigitalTime(wins, end) \in Int
  BY DEF AnalogTime, DigitalTime
<1>3. /\ \A a \in Actions : s.value[a] \in Int /\ InChannel(a, s.value[a])
      /\ analog \in Actions /\ first \in Actions /\ second \in Actions
  BY DEF GoodControls, Analog, Actions, Gas, Steer
<1>4. \A t \in Int, a \in Actions, v \in Int :
        /\ Event(t, a, v) \in Events /\ Event(t, a, v).time = t
        /\ InChannel(a, v) => InRange(Event(t, a, v))
  BY DEF Event, Events, InChannel, InRange
<1>5. e \in Events /\ e.time \in {end + 1, end + 2} /\ InRange(e)
  BY <1>2, <1>3, <1>4
<1>6. f \in Events /\ f.time \in {end + 1, end + 2} /\ InRange(f)
  BY <1>2, <1>3, <1>4
<1>7. g \in Events /\ g.time \in {end + 1, end + 2} /\ InRange(g)
  BY <1>2, <1>3, <1>4
<1> HIDE DEF r, e, f, g
<1>8. r \in Streams /\ Len(r) = 3 /\ DOMAIN r = 1..3 /\ r[1] = e /\ r[2] = f /\ r[3] = g
  BY <1>1, <1>5, <1>6, <1>7 DEF Streams
<1>9. \A k \in 1..3 : k = 1 \/ k = 2 \/ k = 3
  OBVIOUS
<1>10. \A k \in 1..3 : r[k].time \in {end + 1, end + 2} /\ InRange(r[k])
  BY <1>5, <1>6, <1>7, <1>8, <1>9
<1> QED
  BY <1>8, <1>10 DEF r, e, f, g

\* The empty stream.
LEMMA EmptyStream == <<>> \in Streams /\ Len(<<>>) = 0 /\ DOMAIN (<<>>) = {}
  BY DEF Streams

\* A group that does not differ adds nothing.
LEMMA PartOfRestoration ==
    ASSUME NEW differs, NEW r \in Streams, Len(r) = 3, DOMAIN r = 1..3
    PROVE  LET a == IF differs THEN r ELSE <<>>
           IN /\ a \in Streams /\ Len(a) \in Nat /\ Len(a) <= 3
              /\ \A k \in DOMAIN a : k \in 1..3 /\ a[k] = r[k]
              /\ differs => DOMAIN a = 1..3
              /\ ~differs => DOMAIN a = {}
<1> DEFINE a == IF differs THEN r ELSE <<>>
<1>1. CASE differs
  <2>1. a = r
    BY <1>1
  <2> HIDE DEF a
  <2>2. Len(a) = 3 /\ DOMAIN a = 1..3
    BY <2>1
  <2>3. Len(a) \in Nat /\ Len(a) <= 3
    BY <2>2
  <2> QED
    BY <1>1, <2>1, <2>2, <2>3
<1>2. CASE ~differs
  BY <1>2, EmptyStream
<1> QED
  BY <1>1, <1>2

\* All the events that restore.
LEMMA RestorationFacts ==
    ASSUME NEW s, GoodControls(s), NEW actual, NEW end \in Nat
    PROVE  LET added == Restoration(s, actual, end)
               left == SteeringRestored(s, end)
               right == GasRestored(s, end)
           IN /\ added \in Streams /\ Len(added) \in Nat /\ Len(added) <= 6
              /\ left \in Streams /\ DOMAIN left = 1..3
              /\ right \in Streams /\ DOMAIN right = 1..3
              /\ IsRestoration(added, s, actual, end)
<1> DEFINE added == Restoration(s, actual, end)
           left == SteeringRestored(s, end)
           right == GasRestored(s, end)
           a == IF SteeringDiffers(s, actual) THEN left ELSE <<>>
           b == IF GasDiffers(s, actual) THEN right ELSE <<>>
<1>1. /\ Steer \in Analog /\ Gas \in Analog
      /\ SteerLeft \in Actions \ Analog /\ SteerRight \in Actions \ Analog
      /\ Accelerate \in Actions \ Analog /\ Brake \in Actions \ Analog
      /\ AnalogSteeringWins(s) \in BOOLEAN /\ AnalogGasWins(s) \in BOOLEAN
  BY DEF Analog, Actions, Steer, Gas, SteerLeft, SteerRight, Accelerate, Brake,
         AnalogSteeringWins, AnalogGasWins
<1>2. /\ left \in Streams /\ Len(left) = 3 /\ DOMAIN left = 1..3
      /\ \A k \in 1..3 : left[k].time \in {end + 1, end + 2} /\ InRange(left[k])
  BY <1>1, RestoredFacts DEF SteeringRestored
<1>3. /\ right \in Streams /\ Len(right) = 3 /\ DOMAIN right = 1..3
      /\ \A k \in 1..3 : right[k].time \in {end + 1, end + 2} /\ InRange(right[k])
  BY <1>1, RestoredFacts DEF GasRestored
<1>4. added = a \o b
  BY DEF Restoration, SteeringRestored, GasRestored
<1> HIDE DEF added, left, right
<1>5. /\ a \in Streams /\ Len(a) \in Nat /\ Len(a) <= 3
      /\ \A k \in DOMAIN a : k \in 1..3 /\ a[k] = left[k]
      /\ SteeringDiffers(s, actual) => DOMAIN a = 1..3
      /\ ~SteeringDiffers(s, actual) => DOMAIN a = {}
  BY <1>2, PartOfRestoration
<1>6. /\ b \in Streams /\ Len(b) \in Nat /\ Len(b) <= 3
      /\ \A k \in DOMAIN b : k \in 1..3 /\ b[k] = right[k]
      /\ GasDiffers(s, actual) => DOMAIN b = 1..3
      /\ ~GasDiffers(s, actual) => DOMAIN b = {}
  BY <1>3, PartOfRestoration
<1> HIDE DEF a, b
<1>7. /\ added \in Streams /\ Len(added) = Len(a) + Len(b)
      /\ \A i \in DOMAIN a : i \in DOMAIN added /\ added[i] = a[i]
      /\ \A j \in DOMAIN b : Len(a) + j \in DOMAIN added /\ added[Len(a) + j] = b[j]
      /\ \A i \in DOMAIN added :
            i \in DOMAIN a \/ (i > Len(a) /\ i - Len(a) \in DOMAIN b
                               /\ added[i] = b[i - Len(a)])
  <2>1. a \in Streams /\ b \in Streams
    BY <1>5, <1>6
  <2>2. /\ a \o b \in Streams /\ Len(a \o b) = Len(a) + Len(b)
        /\ \A i \in DOMAIN a : i \in DOMAIN (a \o b) /\ (a \o b)[i] = a[i]
        /\ \A j \in DOMAIN b : /\ Len(a) + j \in DOMAIN (a \o b)
                               /\ (a \o b)[Len(a) + j] = b[j]
        /\ \A i \in DOMAIN (a \o b) :
             i \in DOMAIN a \/ (i > Len(a) /\ i - Len(a) \in DOMAIN b
                                /\ (a \o b)[i] = b[i - Len(a)])
    BY <2>1, ConcatFacts
  <2> QED
    BY <1>4, <2>2
<1>8. Len(added) \in Nat /\ Len(added) <= 6
  BY <1>5, <1>6, <1>7
<1>9. ASSUME NEW k \in DOMAIN added
      PROVE  /\ added[k].time \in {end + 1, end + 2} /\ InRange(added[k])
             /\ \/ SteeringDiffers(s, actual) /\ \E j \in 1..3 : added[k] = left[j]
                \/ GasDiffers(s, actual) /\ \E j \in 1..3 : added[k] = right[j]
  <2>1. CASE k \in DOMAIN a
    <3>1. added[k] = a[k]
      BY <1>7, <2>1
    <3>2. SteeringDiffers(s, actual) /\ k \in 1..3 /\ a[k] = left[k]
      BY <1>5, <2>1
    <3> QED
      BY <1>2, <3>1, <3>2
  <2>2. CASE k - Len(a) \in DOMAIN b /\ added[k] = b[k - Len(a)]
    <3>1. GasDiffers(s, actual) /\ k - Len(a) \in 1..3 /\ b[k - Len(a)] = right[k - Len(a)]
      BY <1>6, <2>2
    <3> QED
      BY <1>3, <2>2, <3>1
  <2> QED
    BY <1>7, <2>1, <2>2
<1>10. SteeringDiffers(s, actual) =>
            \A j \in 1..3 : \E k \in DOMAIN added : added[k] = left[j]
  BY <1>5, <1>7
<1>11. GasDiffers(s, actual) =>
            \A j \in 1..3 : \E k \in DOMAIN added : added[k] = right[j]
  BY <1>6, <1>7
<1> QED
  BY <1>2, <1>3, <1>7, <1>8, <1>9, <1>10, <1>11 DEF added, left, right, IsRestoration

\* Controls that are restored where there is room.
LEMMA RestoreFacts ==
    ASSUME GoodSearch, Sound(search.baseline), NEW es, Sound(es), NEW end \in Nat,
           Len(es) + 6 <= Capacity
    PROVE  LET added == Restoration(ControlsAt(search.baseline, search.boundary, 0, end + 2),
                                    ControlsAt(es, search.boundary, 0, end + 2), end)
               r == RestoreSegmentControls(es, end)
           IN /\ added \in Streams /\ r = es \o added /\ r # Overflow
              /\ Sound(r) /\ Len(r) <= Len(es) + 6
              /\ \A t \in Int : t \notin {end + 1, end + 2} => At(r, t) = At(es, t)
<1> DEFINE s == ControlsAt(search.baseline, search.boundary, 0, end + 2)
           actual == ControlsAt(es, search.boundary, 0, end + 2)
           added == Restoration(s, actual, end)
           r == es \o added
<1>1. GoodControls(s)
  BY ControlsAreGood DEF GoodSearch
<1> HIDE DEF s, actual
<1>2. /\ added \in Streams /\ Len(added) \in Nat /\ Len(added) <= 6
      /\ \A k \in DOMAIN added : added[k].time \in {end + 1, end + 2} /\ InRange(added[k])
  BY <1>1, RestorationFacts DEF IsRestoration
<1> HIDE DEF added
<1>3. es \in Streams /\ \A i \in DOMAIN es : es[i].time >= 0 /\ InRange(es[i])
  BY DEF Sound
<1>4. /\ r \in Streams /\ Len(r) = Len(es) + Len(added) /\ Len(es) \in Nat
      /\ DOMAIN es = 1..Len(es)
      /\ \A i \in DOMAIN es : i \in DOMAIN r /\ r[i] = es[i]
      /\ \A i \in DOMAIN r : i \in DOMAIN es \/ (i > Len(es) /\ i - Len(es) \in DOMAIN added
                                                 /\ r[i] = added[i - Len(es)])
  BY <1>2, <1>3, ConcatFacts
<1> HIDE DEF r
<1>5. Sound(r)
  <2> SUFFICES ASSUME NEW i \in DOMAIN r PROVE r[i].time >= 0 /\ InRange(r[i])
    BY <1>4 DEF Sound
  <2>1. CASE i \in DOMAIN es
    BY <1>3, <1>4, <2>1
  <2>2. CASE i - Len(es) \in DOMAIN added /\ r[i] = added[i - Len(es)]
    BY <1>2, <2>2
  <2> QED
    BY <1>4, <2>1, <2>2
<1>6. ASSUME NEW t \in Int, t \notin {end + 1, end + 2} PROVE At(r, t) = At(es, t)
  <2>1. \A i \in DOMAIN r : i > Len(es) => r[i].time # t
    BY <1>2, <1>4, <1>6
  <2>2. Len(es) <= Len(r)
    BY <1>2, <1>4
  <2> QED
    BY <1>3, <1>4, <2>1, <2>2, AtAppended
<1>7. RestoreSegmentControls(es, end) =
        IF Len(es) + Len(added) > Capacity THEN Overflow ELSE r
  BY DEF RestoreSegmentControls, added, s, actual, r
<1>8. RestoreSegmentControls(es, end) = r /\ Len(r) <= Len(es) + 6
  BY <1>2, <1>4, <1>7 DEF GoodSearch
<1>9. r # Overflow
  BY <1>4, OverflowAssumption DEF Streams
<1> QED
  BY <1>2, <1>5, <1>6, <1>8, <1>9 DEF r, added, s, actual

-----------------------------------------------------------------------------
(* Dropping steering that repeats the held value.                          *)

\* It is found event by event.
LEMMA HeldSteps ==
    ASSUME NEW es \in Streams, NEW initial \in Values
    PROVE  \E f : HeldValues(f, es, initial)
<1> DEFINE After(h, e) == IF e.action = Steer THEN e.value ELSE h
           X == Values
           n == Len(es)
           step == [i \in 1..n |-> [h \in X |-> After(h, es[i])]]
<1>1. n \in Nat /\ DOMAIN es = 1..n /\ \A i \in 1..n : es[i].value \in X
  BY StreamFacts DEF Values
<1>2. ASSUME NEW i \in 1..n, NEW h \in X PROVE After(h, es[i]) \in X
  BY <1>1
<1>3. step \in [1..n -> [X -> X]]
  <2> HIDE DEF After, X, n
  <2> QED
    BY <1>2
<1> HIDE DEF After, n, X, step
<1>4. PICK f : MadeBySteps(f, X, initial, n, step)
  <2>1. initial \in X /\ n \in Nat /\ step \in [1..n -> [X -> X]]
    BY <1>1, <1>3 DEF X
  <2> QED
    BY <2>1, StepByStep
<1>5. ASSUME NEW i \in 1..n PROVE f[i] = After(f[i - 1], es[i])
  <2>1. i - 1 \in 0..n
    BY <1>1
  <2>2. step[i][f[i - 1]] = After(f[i - 1], es[i])
    BY <1>4, <2>1 DEF step, MadeBySteps
  <2> QED
    BY <1>4, <2>2 DEF MadeBySteps
<1> QED
  BY <1>4, <1>5 DEF HeldValues, After, n, X, MadeBySteps

\* Pruned drops the other ones.
LEMMA PrunedFacts ==
    ASSUME NEW es \in Streams, NEW before, search.boundary.value[Steer] \in Int
    PROVE  \E f : /\ HeldValues(f, es, search.boundary.value[Steer])
                  /\ Pruned(es, before) = Kept(es, KeptPlaces(f, es, before))
<1> DEFINE H(held, n) == IF n = 0 THEN search.boundary.value[Steer]
                         ELSE IF es[n].action = Steer THEN es[n].value ELSE held[n - 1]
           c == CHOOSE held : held = [n \in 0..Len(es) |-> H(held, n)]
<1>1. PICK f : HeldValues(f, es, search.boundary.value[Steer])
  BY HeldSteps DEF Values
<1>2. Len(es) \in Nat
  BY StreamFacts
<1>3. f = [n \in 0..Len(es) |-> H(f, n)]
  <2>1. f = [n \in 0..Len(es) |-> f[n]]
    BY <1>1 DEF HeldValues
  <2>2. \A n \in 0..Len(es) : f[n] = H(f, n)
    <3>1. \A n \in 0..Len(es) : n = 0 \/ n \in 1..Len(es)
      BY <1>2
    <3> QED
      BY <1>1, <3>1 DEF HeldValues
  <2> HIDE DEF H
  <2> QED
    BY <2>1, <2>2
<1>4. c = [n \in 0..Len(es) |-> H(c, n)]
  <2> HIDE DEF H
  <2> QED
    BY <1>3
<1>5. HeldValues(c, es, search.boundary.value[Steer])
  <2>1. /\ DOMAIN c = 0..Len(es) /\ c = [n \in 0..Len(es) |-> c[n]]
        /\ \A n \in 0..Len(es) : c[n] = H(c, n)
    <3> HIDE DEF c, H
    <3> QED
      BY <1>4
  <2> HIDE DEF c
  <2>2. c[0] = search.boundary.value[Steer]
    BY <1>2, <2>1
  <2>3. \A n \in 1..Len(es) :
            c[n] = IF es[n].action = Steer THEN es[n].value ELSE c[n - 1]
    <3>1. \A n \in 1..Len(es) : n # 0 /\ n \in 0..Len(es)
      BY <1>2
    <3> QED
      BY <2>1, <3>1
  <2>4. \A n \in 1..Len(es) : es[n].value \in Int
    BY StreamFacts
  <2>5. \A n \in 0..Len(es) : c[n] \in Int
    <3> DEFINE S == {n \in 0..Len(es) : c[n] \in Int}
    <3>1. S \in SUBSET (0..Len(es)) /\ 0 \in S
      BY <1>2, <2>2
    <3>2. \A n \in 1..Len(es) : n - 1 \in S => n \in S
      BY <1>2, <2>3, <2>4
    <3> HIDE DEF S
    <3>3. S = 0..Len(es)
      BY <1>2, <3>1, <3>2, Upward
    <3> QED
      BY <3>3 DEF S
  <2> QED
    BY <2>1, <2>2, <2>3, <2>5 DEF HeldValues, Values
<1>6. Pruned(es, before) = Kept(es, KeptPlaces(c, es, before))
  BY DEF Pruned, KeptPlaces, c, H
<1> QED
  BY <1>5, <1>6

\* Only steering that is not of the stream before is dropped, ...
LEMMA KeptPlacesFacts ==
    ASSUME NEW es \in Streams, NEW f, NEW before
    PROVE  /\ KeptPlaces(f, es, before) \in SUBSET DOMAIN es
           /\ \A n \in DOMAIN es : n \notin KeptPlaces(f, es, before) =>
                /\ es[n].action = Steer /\ es[n].value = f[n - 1]
                /\ \A i \in DOMAIN before : before[i] # es[n]
BY DEF KeptPlaces

\* ... so that what a modifier left alone is left alone still.
LEMMA PrunedOutcome ==
    ASSUME GoodSearch, NEW a, Sound(a), Canonical(a), NEW w, NEW n \in Nat,
           NEW b, Sound(b), Canonical(b), Outcome(a, b, w, n)
    PROVE  Outcome(a, Pruned(b, a), w, n) /\ Sound(Pruned(b, a)) /\ Canonical(Pruned(b, a))
<1>1. a \in Streams /\ b \in Streams /\ Plausibles(a) /\ Plausibles(b)
  BY SoundIsPlausible DEF Sound
<1>2. search.boundary.value[Steer] \in Int
  BY DEF GoodSearch, GoodControls, Actions, Steer
<1>3. PICK f : Pruned(b, a) = Kept(b, KeptPlaces(f, b, a))
  BY <1>1, <1>2, PrunedFacts
<1> DEFINE S == KeptPlaces(f, b, a)
<1>4. /\ S \in SUBSET DOMAIN b
      /\ \A i \in DOMAIN b : i \notin S =>
            b[i].action \notin Digital /\ \A j \in DOMAIN a : a[j] # b[i]
  BY <1>1, KeptPlacesFacts DEF Digital, Steer, SteerLeft, SteerRight
<1> HIDE DEF S
<1>5. ASSUME NEW i \in DOMAIN b, i \notin S, Outside(w, b[i].time) PROVE FALSE
  <2> DEFINE t == b[i].time
  <2>1. t \in Int
    BY <1>1, StreamFacts
  <2>2. At(Normalize(b), t) = At(Normalize(a), t) /\ Outside(w, t)
    BY <1>5, <2>1 DEF Outcome, Untouched
  <2>3. Normalize(b) = b /\ Normalize(a) = a
    BY SoundIsNormal
  <2>4. i \in Moments(b, t)
    BY DEF Moments
  <2> HIDE DEF t
  <2>5. Moments(a, t) \in SUBSET DOMAIN a /\ Moments(b, t) \in SUBSET DOMAIN b
        /\ Kept(b, Moments(b, t)) = Kept(a, Moments(a, t))
    BY <1>1, <2>2, <2>3, MomentsFacts
  <2>6. PICK g : Matches(b, Moments(b, t), a, Moments(a, t), g)
    BY <1>1, <2>5, KeptMatches
  <2>7. g[i] \in DOMAIN a /\ b[i] = a[g[i]]
    BY <2>4, <2>5, <2>6 DEF Matches
  <2> QED
    BY <1>4, <1>5, <2>7
<1>6. /\ Outcome(b, Kept(b, S), w, 0) /\ Sound(Kept(b, S)) /\ Canonical(Kept(b, S))
  BY <1>1, <1>4, <1>5, KeptInWindow
<1>7. Outcome(a, Kept(b, S), w, n + 0)
  BY <1>1, <1>6, OutcomesCompose
<1> QED
  BY <1>3, <1>6, <1>7 DEF S

\* Where sorting ends a modifier.
LEMMA SettleFacts ==
    ASSUME Sound(events), normalized \in BOOLEAN, NEW w, NEW n \in Nat,
           NEW es, Outcome(events, es, w, n), Sound(es)
    PROVE  /\ Modified(Settled(es), w, n)
           /\ (normalized => Canonical(es)) => Modified(Settle(es), w, n)
<1>1. Plausibles(events)
  BY SoundIsPlausible
<1>2. /\ Outcome(events, Normalize(es), w, n)
      /\ Sound(Normalize(es)) /\ Canonical(Normalize(es))
  BY <1>1, OutcomeSorted
<1>3. Modified(Settled(es), w, n)
  BY <1>2 DEF Modified, PrunedAtMost, Settled, Result
<1>4. ASSUME normalized, Canonical(es) PROVE Modified(AsIs(es, TRUE), w, n)
  BY <1>4 DEF Modified, PrunedAtMost, AsIs, Result
<1> QED
  BY <1>3, <1>4 DEF Settle

\* Every kind of modifier changes its window, and finds room.
LEMMA ApplyModifierFacts ==
    ASSUME GoodSearch, Sound(events), normalized \in BOOLEAN,
           normalized => Canonical(events),
           NEW m, GoodModifier(m), NEW w, GoodWindow(w), Len(events) + Growth(m) <= Capacity,
           NEW r \in ApplyModifier(m, w)
    PROVE  Modified(r, w, Growth(m)) /\ Growth(m) \in Nat
<1>1. m.kind \in {"RandomSteering", "ExistingEvent", "SmoothSteering",
                  "InputInsertion", "InputDeletion"}
  BY ModifierFacts
<1>2. Plausibles(events) /\ Outcome(events, events, w, 0)
  BY SoundIsPlausible, OutcomeOfNothing
<1>3. CASE m.kind = "RandomSteering"
  <2>1. Growth(m) = 0
    BY <1>3 DEF Growth
  <2>2. PICK es \in RandomSteering(events, w) : r = Settle(es)
    BY <1>3 DEF ApplyModifier
  <2>3. Outcome(events, es, w, 0) /\ Sound(es) /\ (Canonical(events) => Canonical(es))
    BY RandomSteeringFacts
  <2> QED
    BY <2>1, <2>2, <2>3, SettleFacts
<1>4. CASE m.kind = "ExistingEvent"
  <2>1. Growth(m) = 0
    BY <1>4 DEF Growth
  <2>2. CASE ExistingEvents(events, m, w) = {}
    <3>1. r = AsIs(events, normalized)
      BY <1>4, <2>2 DEF ApplyModifier
    <3> QED
      BY <1>2, <2>1, <3>1 DEF Modified, PrunedAtMost, AsIs, Result
  <2>3. CASE ExistingEvents(events, m, w) # {}
    <3>1. PICK es \in ExistingEvent(events, m, w) : r = SettleExisting(m, es)
      BY <1>4, <2>3 DEF ApplyModifier
    <3>2. Outcome(events, es, w, 0) /\ Sound(es)
          /\ (m.shift = 0 /\ Canonical(events) => Canonical(es))
      BY <1>4, ExistingEventFacts
    <3>3. Modified(Settled(es), w, 0)
          /\ ((normalized => Canonical(es)) => Modified(Settle(es), w, 0))
      BY <3>2, SettleFacts
    <3> QED
      BY <2>1, <3>1, <3>2, <3>3 DEF SettleExisting
  <2> QED
    BY <2>2, <2>3
<1>5. CASE m.kind = "SmoothSteering"
  <2>1. PICK es \in SmoothSteering(events, m, w) :
            r = IF es = Overflow THEN Fails ELSE AsIs(es, normalized \/ m.deformations > 0)
    BY <1>5 DEF ApplyModifier
  <2>2. /\ es # Overflow /\ Outcome(events, es, w, Growth(m)) /\ Sound(es)
        /\ Growth(m) \in Nat
        /\ m.deformations > 0 => Canonical(es)
        /\ m.deformations = 0 => es = events
    BY <1>5, SmoothSteeringFacts
  <2>3. m.deformations \in Nat
    BY <1>5, ModifierFacts
  <2>4. m.deformations > 0 \/ m.deformations = 0
    BY <2>3
  <2>5. normalized \/ m.deformations > 0 => Canonical(es)
    BY <2>2, <2>4
  <2>6. r = AsIs(es, normalized \/ m.deformations > 0)
    BY <2>1, <2>2
  <2> QED
    BY <2>2, <2>5, <2>6 DEF Modified, PrunedAtMost, AsIs, Result
<1>6. CASE m.kind = "InputInsertion"
  <2>1. PICK es \in InputInsertion(events, m, w) : r = AfterInsertion(es)
    BY <1>6 DEF ApplyModifier
  <2>2. es # Overflow /\ Outcome(events, es, w, Growth(m)) /\ Growth(m) \in Nat
    BY <1>6, InputInsertionFacts
  <2> DEFINE whole == Normalize(es)
  <2>3. Outcome(events, whole, w, Growth(m)) /\ Sound(whole) /\ Canonical(whole)
    BY <1>2, <2>2, OutcomeSorted
  <2>4. normalized => /\ Outcome(events, Pruned(whole, events), w, Growth(m))
                      /\ Sound(Pruned(whole, events)) /\ Canonical(Pruned(whole, events))
    BY <2>2, <2>3, PrunedOutcome
  <2>5. r = Result(IF search.prunes /\ normalized THEN Pruned(whole, events) ELSE whole,
                   TRUE, whole)
    BY <2>1, <2>2 DEF AfterInsertion
  <2> HIDE DEF whole
  <2> QED
    BY <2>2, <2>3, <2>4, <2>5 DEF Modified, PrunedAtMost, Result
<1>7. CASE m.kind = "InputDeletion"
  <2>1. Growth(m) = 0
    BY <1>7 DEF Growth
  <2>2. PICK es \in InputDeletion(events, m, w) : r = Settle(es)
    BY <1>7 DEF ApplyModifier
  <2>3. Thinned(events, es, w)
    BY InputDeletionFacts
  <2> QED
    BY <2>1, <2>2, <2>3, SettleFacts DEF Thinned
<1> QED
  BY <1>1, <1>3, <1>4, <1>5, <1>6, <1>7

-----------------------------------------------------------------------------
(* What the executor makes of a request.                                   *)

\* The events of a stream before a time, and those from it on.
LEMMA CutFacts ==
    ASSUME NEW es \in Streams, NEW t \in Int
    PROVE  /\ Before(es, t) \in Streams /\ From(es, t) \in Streams
           /\ \A k \in DOMAIN Before(es, t) :
                Before(es, t)[k].time < t /\ \E i \in DOMAIN es : Before(es, t)[k] = es[i]
           /\ \A k \in DOMAIN From(es, t) :
                From(es, t)[k].time >= t /\ \E i \in DOMAIN es : From(es, t)[k] = es[i]
           /\ Sorted(es) => Sorted(Before(es, t)) /\ Sorted(From(es, t))
           /\ Canonical(es) => Canonical(Before(es, t))
<1> DEFINE S == {i \in DOMAIN es : es[i].time < t}
           T == {i \in DOMAIN es : es[i].time >= t}
<1>1. S \in SUBSET DOMAIN es /\ \A i \in S : i \in DOMAIN es /\ es[i].time < t
  OBVIOUS
<1>2. T \in SUBSET DOMAIN es /\ \A i \in T : i \in DOMAIN es /\ es[i].time >= t
  OBVIOUS
<1>3. Before(es, t) = Kept(es, S) /\ From(es, t) = Kept(es, T)
  BY DEF Before, From
<1> HIDE DEF S, T
<1>4. /\ Kept(es, S) \in Streams
      /\ \A k \in DOMAIN Kept(es, S) : \E i \in S : Kept(es, S)[k] = es[i]
      /\ Sorted(es) => Sorted(Kept(es, S))
      /\ Canonical(es) => Canonical(Kept(es, S))
  BY <1>1, KeptSource
<1>5. /\ Kept(es, T) \in Streams
      /\ \A k \in DOMAIN Kept(es, T) : \E i \in T : Kept(es, T)[k] = es[i]
      /\ Sorted(es) => Sorted(Kept(es, T))
  BY <1>2, KeptSource
<1>6. \A k \in DOMAIN Kept(es, S) :
        Kept(es, S)[k].time < t /\ \E i \in DOMAIN es : Kept(es, S)[k] = es[i]
  BY <1>1, <1>4
<1>7. \A k \in DOMAIN Kept(es, T) :
        Kept(es, T)[k].time >= t /\ \E i \in DOMAIN es : Kept(es, T)[k] = es[i]
  BY <1>2, <1>5
<1> QED
  BY <1>3, <1>4, <1>5, <1>6, <1>7

\* The events of a stream with other times.
LEMMA ShiftedFacts ==
    ASSUME NEW es \in Streams, NEW by \in Int
    PROVE  /\ Shifted(es, by) \in Streams /\ DOMAIN Shifted(es, by) = DOMAIN es
           /\ \A i \in DOMAIN es : /\ Shifted(es, by)[i].time = es[i].time + by
                                   /\ Shifted(es, by)[i].action = es[i].action
                                   /\ Shifted(es, by)[i].value = es[i].value
           /\ Sorted(es) => Sorted(Shifted(es, by))
<1> DEFINE r == Shifted(es, by)
           E(i) == [es[i] EXCEPT !.time = @ + by]
<1>1. /\ Len(es) \in Nat /\ DOMAIN es = 1..Len(es)
      /\ \A i \in DOMAIN es : es[i] \in Events /\ es[i].time \in Int
  BY StreamFacts
<1>2. ASSUME NEW i \in DOMAIN es
      PROVE  /\ E(i) \in Events /\ E(i).time = es[i].time + by
             /\ E(i).action = es[i].action /\ E(i).value = es[i].value
  BY <1>1 DEF Events
<1>3. r = [i \in DOMAIN es |-> E(i)]
  BY DEF Shifted
<1> HIDE DEF E, r
<1>4. DOMAIN r = DOMAIN es /\ \A i \in DOMAIN es : r[i] = E(i)
  BY <1>3
<1>5. r \in Streams
  <2>1. r \in [1..Len(es) -> Events]
    BY <1>1, <1>2, <1>3
  <2> QED
    BY <1>1, <2>1 DEF Streams
<1>6. \A i \in DOMAIN es : r[i].time = es[i].time + by
  BY <1>2, <1>4
<1>7. Sorted(es) => Sorted(r)
  BY <1>1, <1>4, <1>6 DEF Sorted
<1> QED
  BY <1>2, <1>4, <1>5, <1>7 DEF r

\* A modifier with times counted from the mutable boundary.
LEMMA RelativeModifier ==
    ASSUME NEW m, Modifier(m), m.last >= Origin,
           m.kind = "SmoothSteering" => m.radius % Tick = 0
    PROVE  /\ GoodModifier(Relative(m))
           /\ Relative(m).last = m.last - Origin /\ Relative(m).last \in Int
<1> DEFINE f == Max({m.first, Origin}) - Origin
           l == m.last - Origin
           r == [m EXCEPT !.first = f, !.last = l]
<1>1. m.first \in Int /\ m.last \in Int /\ m.first <= m.last /\ Origin \in Int
  BY SearchAssumption DEF Modifier
<1>2. f \in Int /\ 0 <= f /\ f <= l /\ l \in Int
  <2>1. Max({m.first, Origin}) = IF m.first >= Origin THEN m.first ELSE Origin
    BY <1>1, MaxOfTwo
  <2> QED
    BY <1>1, <2>1
<1>3. Relative(m) = r
  BY DEF Relative
<1> HIDE DEF f, l
<1>4. CASE m \in [kind : {"RandomSteering"}, first : Int, last : Int]
  <2>1. r \in [kind : {"RandomSteering"}, first : Int, last : Int] /\ r.first = f /\ r.last = l
    BY <1>2, <1>4
  <2>2. r.kind = "RandomSteering"
    BY <2>1
  <2> HIDE DEF r
  <2> QED
    BY <1>2, <1>3, <2>1, <2>2 DEF GoodModifier, Modifier, l
<1>5. CASE m \in [kind : {"ExistingEvent"}, first : Int, last : Int, fewest : Nat,
                  most : Nat, shift : Nat, absolute : BOOLEAN, values : SUBSET Int,
                  toggles : SUBSET {"accelerate", "brake"}]
  <2>1. /\ r \in [kind : {"ExistingEvent"}, first : Int, last : Int, fewest : Nat,
                  most : Nat, shift : Nat, absolute : BOOLEAN, values : SUBSET Int,
                  toggles : SUBSET {"accelerate", "brake"}]
        /\ r.first = f /\ r.last = l
    BY <1>2, <1>5
  <2>2. r.kind = "ExistingEvent" /\ r.absolute = m.absolute /\ r.values = m.values
        /\ m.kind = "ExistingEvent"
    BY <1>5
  <2>3. m.absolute => m.values \subseteq -Full..Full
    BY <2>2 DEF Modifier
  <2> HIDE DEF r
  <2>4. Modifier(r)
    BY <1>2, <2>1, <2>2, <2>3 DEF Modifier
  <2> QED
    BY <1>2, <1>3, <2>1, <2>2, <2>4 DEF GoodModifier, l
<1>6. CASE m \in [kind : {"SmoothSteering"}, first : Int, last : Int,
                  deformations : Nat, radius : Nat, amplitudes : SUBSET Int]
  <2>1. /\ r \in [kind : {"SmoothSteering"}, first : Int, last : Int,
                  deformations : Nat, radius : Nat, amplitudes : SUBSET Int]
        /\ r.first = f /\ r.last = l
    BY <1>2, <1>6
  <2>2. r.kind = "SmoothSteering" /\ r.radius = m.radius /\ r.amplitudes = m.amplitudes
        /\ m.kind = "SmoothSteering"
    BY <1>6
  <2>3. \A a \in m.amplitudes, d \in 0..(m.radius \div Tick) : Weighted(a, d) \in Int
    BY <2>2 DEF Modifier
  <2> HIDE DEF r
  <2>4. Modifier(r)
    BY <1>2, <2>1, <2>2, <2>3 DEF Modifier
  <2> QED
    BY <1>2, <1>3, <2>1, <2>2, <2>4 DEF GoodModifier, l
<1>7. CASE m \in [kind : {"InputInsertion"}, first : Int, last : Int, steering : Channel,
                  accelerate : Channel, brake : Channel, offset : BOOLEAN,
                  values : SUBSET Int]
  <2>1. /\ r \in [kind : {"InputInsertion"}, first : Int, last : Int, steering : Channel,
                  accelerate : Channel, brake : Channel, offset : BOOLEAN,
                  values : SUBSET Int]
        /\ r.first = f /\ r.last = l
    BY <1>2, <1>7
  <2>2. r.kind = "InputInsertion"
    BY <2>1
  <2> HIDE DEF r
  <2> QED
    BY <1>2, <1>3, <2>1, <2>2 DEF GoodModifier, Modifier, l
<1>8. CASE m \in [kind : {"InputDeletion"}, first : Int, last : Int, steering : Nat,
                  accelerate : Nat, brake : Nat]
  <2>1. /\ r \in [kind : {"InputDeletion"}, first : Int, last : Int, steering : Nat,
                  accelerate : Nat, brake : Nat]
        /\ r.first = f /\ r.last = l
    BY <1>2, <1>8
  <2>2. r.kind = "InputDeletion"
    BY <2>1
  <2> HIDE DEF r
  <2> QED
    BY <1>2, <1>3, <2>1, <2>2 DEF GoodModifier, Modifier, l
<1> QED
  BY <1>4, <1>5, <1>6, <1>7, <1>8 DEF Modifier

\* A time that whole ticks lead to is one.
LEMMA WholeTicks ==
    ASSUME NEW a \in Int, a % Tick = 0
    PROVE  Floor(a - Origin) = a - Origin
<1>1. Tick \in Nat /\ Tick > 2 /\ Origin \in Int /\ Origin % Tick = 0
  BY SearchAssumption
<1>2. \A b \in Int : b % Tick = 0 => b \div Tick \in Int /\ b = (b \div Tick) * Tick
  <2> TAKE b \in Int
  <2> HAVE b % Tick = 0
  <2>1. b = Tick * (b \div Tick) + (b % Tick) /\ b \div Tick \in Int
    BY <1>1
  <2> QED
    BY <1>1, <2>1
<1> DEFINE i == a \div Tick
           j == Origin \div Tick
<1>3. i \in Int /\ j \in Int /\ a = i * Tick /\ Origin = j * Tick
  BY <1>1, <1>2
<1> HIDE DEF i, j
<1>4. (i - j) * Tick = i * Tick - j * Tick
  BY <1>3, TickOrder
<1>5. i - j \in Int
  BY <1>3
<1>6. Floor((i - j) * Tick) = (i - j) * Tick
  BY <1>5, TickOrder
<1> QED
  BY <1>3, <1>4, <1>6

\* The segments of an accepted request.
LEMMA RelativeSegments ==
    ASSUME NEW s, SearchForm(s), Accepted(s)
    PROVE  GoodSegments([i \in DOMAIN s.segments |-> Relative(s.segments[i])])
<1> DEFINE g == s.segments
           n == Len(g)
           r == [i \in DOMAIN g |-> Relative(g[i])]
<1>1. /\ g \in Seq(Window) /\ n \in Nat /\ DOMAIN g = 1..n /\ Origin \in Int
      /\ \A i \in 1..n : g[i] \in Window /\ g[i].first \in Int /\ g[i].last \in Int
  <2>1. g \in Seq(Window)
    BY DEF SearchForm
  <2>2. n \in Nat /\ DOMAIN g = 1..n /\ \A i \in 1..n : g[i] \in Window
    BY <2>1
  <2> QED
    BY <2>1, <2>2, SearchAssumption DEF Window
<1>2. \A i \in 1..n : /\ g[i].first > (IF i = 1 THEN Origin - 1 ELSE g[i - 1].last)
                      /\ g[i].first <= g[i].last
                      /\ g[i].first % Tick = 0 /\ g[i].last % Tick = 0
  BY <1>1 DEF Accepted
<1> HIDE DEF g, n
<1> DEFINE S == {j \in 0..n : j > 0 =>
                    /\ g[j].first >= Origin
                    /\ \A i \in 1..n : i < j => g[i].last < g[j].first}
<1>3. S \in SUBSET (0..n) /\ 0 \in S
  BY <1>1
<1>4. ASSUME NEW j \in 1..n, j - 1 \in S PROVE j \in S
  <2>1. CASE j = 1
    BY <1>1, <1>2, <2>1
  <2>2. CASE j > 1
    <3>1. j - 1 \in 1..n /\ j - 1 > 0
      BY <1>1, <2>2
    <3>2. g[j].first > g[j - 1].last /\ g[j - 1].first <= g[j - 1].last
      BY <1>2, <2>2, <3>1
    <3>3. g[j - 1].first >= Origin /\ \A i \in 1..n : i < j - 1 => g[i].last < g[j - 1].first
      BY <1>4, <3>1
    <3>4. /\ g[j].first \in Int /\ g[j - 1].first \in Int /\ g[j - 1].last \in Int
          /\ \A i \in 1..n : g[i].last \in Int
      BY <1>1, <3>1
    <3>5. g[j].first >= Origin
      BY <1>1, <3>2, <3>3, <3>4
    <3>6. ASSUME NEW i \in 1..n, i < j PROVE g[i].last < g[j].first
      <4>1. i = j - 1 \/ i < j - 1
        BY <3>6
      <4> QED
        BY <3>2, <3>3, <3>4, <4>1
    <3> QED
      BY <3>5, <3>6
  <2> QED
    BY <2>1, <2>2
<1> HIDE DEF S
<1>5. S = 0..n
  BY <1>1, <1>3, <1>4, Upward
<1>6. \A j \in 1..n : /\ g[j].first >= Origin
                      /\ \A i \in 1..n : i < j => g[i].last < g[j].first
  BY <1>5 DEF S
<1>7. ASSUME NEW i \in 1..n
      PROVE  /\ r[i] \in Window /\ r[i].first = g[i].first - Origin
             /\ r[i].last = g[i].last - Origin
  <2> DEFINE f == Max({g[i].first, Origin})
  <2>1. f = g[i].first
    BY <1>1, <1>6, MaxOfTwo
  <2> HIDE DEF f
  <2>2. r[i] = Relative(g[i])
    BY <1>1
  <2>3. Relative(g[i]) = [g[i] EXCEPT !.first = f - Origin, !.last = g[i].last - Origin]
    BY DEF Relative, f
  <2>4. /\ g[i] \in [first : Int, last : Int]
        /\ f - Origin \in Int /\ g[i].last - Origin \in Int
    BY <1>1, <2>1 DEF Window
  <2> HIDE DEF r
  <2> QED
    BY <2>1, <2>2, <2>3, <2>4 DEF Window
<1>8. DOMAIN r = 1..n /\ r \in [1..n -> Window]
  BY <1>1, <1>7
<1> HIDE DEF r
<1>9. r \in Seq(Window)
  BY <1>1, <1>8
<1>10. \A i \in 1..n : Floor(r[i].first) = r[i].first /\ Floor(r[i].last) = r[i].last
  BY <1>1, <1>2, <1>7, WholeTicks
<1>11. \A i \in 1..n : 0 <= r[i].first /\ r[i].first <= r[i].last
  <2> SUFFICES ASSUME NEW i \in 1..n PROVE 0 <= r[i].first /\ r[i].first <= r[i].last
    OBVIOUS
  <2>1. g[i].first \in Int /\ g[i].last \in Int /\ Origin \in Int
    BY <1>1
  <2>2. g[i].first >= Origin /\ g[i].first <= g[i].last
    BY <1>2, <1>6
  <2> QED
    BY <1>7, <2>1, <2>2
<1>12. \A i, j \in 1..n : i < j => r[i].last < r[j].first
  BY <1>1, <1>6, <1>7
<1>13. GoodSegments(r)
  BY <1>8, <1>9, <1>10, <1>11, <1>12 DEF GoodSegments
<1> QED
  BY <1>13 DEF r, g

\* The pipeline of an accepted request, counted from the boundary, is one.
LEMMA RelativePipeline ==
    ASSUME NEW s, SearchForm(s), Accepted(s)
    PROVE  GoodPipeline([i \in DOMAIN s.pipeline |-> Relative(s.pipeline[i])])
<1> DEFINE g == s.pipeline
           n == Len(g)
           r == [i \in DOMAIN g |-> Relative(g[i])]
<1>1. n \in Nat \ {0} /\ DOMAIN g = 1..n
  BY DEF SearchForm
<1>2. \A i \in 1..n : Modifier(g[i])
  BY <1>1 DEF SearchForm
<1>3. \A i \in 1..n : g[i].last >= Origin
                      /\ (g[i].kind = "SmoothSteering" => g[i].radius % Tick = 0)
  BY <1>1 DEF Accepted
<1> HIDE DEF g, n
<1>4. \A i \in 1..n : GoodModifier(Relative(g[i]))
  BY <1>2, <1>3, RelativeModifier
<1>5. DOMAIN r = 1..n /\ \A i \in 1..n : r[i] = Relative(g[i])
  BY <1>1
<1>6. Len(r) = n
  <2> DEFINE T == {Relative(g[i]) : i \in 1..n}
  <2>1. r \in [1..n -> T]
    BY <1>1
  <2> HIDE DEF T, r
  <2>2. r \in Seq(T)
    BY <1>1, <2>1
  <2> QED
    BY <1>1, <1>5, <2>2
<1> HIDE DEF r
<1>7. GoodPipeline(r)
  BY <1>1, <1>4, <1>5, <1>6 DEF GoodPipeline
<1> QED
  BY <1>7 DEF r, g

\* The inputs of an accepted request, cut and counted from the boundary.
LEMMA SuffixFacts ==
    ASSUME NEW s, SearchForm(s), Accepted(s)
    PROVE  /\ Suffix(s) \in Streams /\ Sorted(Suffix(s))
           /\ \A i \in DOMAIN Suffix(s) : Suffix(s)[i].time >= 0 /\ InRange(Suffix(s)[i])
<1> DEFINE g == s.inputs
           c == From(g, Origin)
<1>1. /\ g \in Streams /\ Sorted(g) /\ Origin \in Int
      /\ \A i \in DOMAIN g : InRange(g[i])
  BY SearchAssumption DEF SearchForm, Accepted, Streams
<1> HIDE DEF g
<1>2. /\ c \in Streams /\ Sorted(c)
      /\ \A k \in DOMAIN c : c[k].time >= Origin /\ \E i \in DOMAIN g : c[k] = g[i]
  BY <1>1, CutFacts
<1>3. Suffix(s) = Shifted(c, -Origin)
  BY DEF Suffix, g
<1> HIDE DEF c
<1>4. -Origin \in Int
  BY <1>1
<1>5. /\ Shifted(c, -Origin) \in Streams /\ DOMAIN Shifted(c, -Origin) = DOMAIN c
      /\ \A i \in DOMAIN c : /\ Shifted(c, -Origin)[i].time = c[i].time + -Origin
                             /\ Shifted(c, -Origin)[i].action = c[i].action
                             /\ Shifted(c, -Origin)[i].value = c[i].value
      /\ Sorted(Shifted(c, -Origin))
  BY <1>2, <1>4, ShiftedFacts
<1>6. \A i \in DOMAIN c : c[i].time \in Int /\ c[i].time >= Origin /\ InRange(c[i])
  BY <1>1, <1>2, StreamFacts
<1>7. \A i \in DOMAIN c : Shifted(c, -Origin)[i].time >= 0
  BY <1>1, <1>5, <1>6
<1>8. \A i \in DOMAIN c : InRange(Shifted(c, -Origin)[i])
  BY <1>5, <1>6 DEF InRange
<1> QED
  BY <1>3, <1>5, <1>7, <1>8

\* The numbers a function has on a finite set.
LEMMA ImageFacts ==
    ASSUME NEW S, IsFiniteSet(S), NEW f \in [S -> Int]
    PROVE  {f[x] : x \in S} \in SUBSET Int /\ IsFiniteSet({f[x] : x \in S})
<1> DEFINE T == {f[x] : x \in S}
<1>1. T \in SUBSET Int
  OBVIOUS
<1>2. f \in [S -> T] /\ \A y \in T : \E x \in S : f[x] = y
  OBVIOUS
<1> HIDE DEF T
<1>3. f \in Surjection(S, T)
  BY <1>2 DEF Surjection
<1>4. IsFiniteSet(T)
  BY <1>3, FS_Surjection
<1> QED
  BY <1>1, <1>4 DEF T

\* The end of the mutable part is a number, and nothing of the request lies
\* after it.
LEMMA EndOfRequest ==
    ASSUME NEW s, SearchForm(s), Accepted(s)
    PROVE  \E end \in Int : /\ Ends(Prepared(s), end)
                            /\ Prepared(s).baseline = Before(Suffix(s), end + 1)
                            /\ Prepared(s).tail = From(Suffix(s), end + 1)
<1> DEFINE pipeline == [i \in DOMAIN s.pipeline |-> Relative(s.pipeline[i])]
           segments == [i \in DOMAIN s.segments |-> Relative(s.segments[i])]
           A == {s.horizon - Origin}
           P == [i \in DOMAIN pipeline |-> pipeline[i].last]
           Q == [i \in DOMAIN segments |-> segments[i].last + Tick]
           B == {P[i] : i \in DOMAIN pipeline}
           C == {Q[i] : i \in DOMAIN segments}
           end == Max(A \cup B \cup C)
           p == Prepared(s)
<1>1. /\ p.pipeline = pipeline /\ p.segments = segments
      /\ p.baseline = Before(Suffix(s), end + 1) /\ p.tail = From(Suffix(s), end + 1)
  BY DEF Prepared
<1>2. GoodPipeline(pipeline) /\ GoodSegments(segments)
  BY RelativePipeline, RelativeSegments
<1>3. s.horizon - Origin \in Int /\ Tick \in Int
  BY SearchAssumption DEF SearchForm
<1> HIDE DEF pipeline, segments, p
<1>4. A \in SUBSET Int /\ IsFiniteSet(A) /\ A # {}
  BY <1>3, FS_Singleton
<1>5. B \in SUBSET Int /\ IsFiniteSet(B)
  <2>1. IsFiniteSet(DOMAIN pipeline)
    <3>1. IsFiniteSet(1..Len(pipeline))
      BY <1>2, FS_Interval DEF GoodPipeline
    <3> QED
      BY <1>2, <3>1 DEF GoodPipeline
  <2>2. \A i \in DOMAIN pipeline : pipeline[i].last \in Int
    BY <1>2, ModifierFacts DEF GoodPipeline
  <2>3. P \in [DOMAIN pipeline -> Int]
    BY <2>2
  <2> HIDE DEF P
  <2> QED
    BY <2>1, <2>3, ImageFacts
<1>6. C \in SUBSET Int /\ IsFiniteSet(C)
  <2>1. segments \in Seq(Window)
    BY <1>2 DEF GoodSegments
  <2>2. DOMAIN segments = 1..Len(segments) /\ Len(segments) \in Nat
        /\ \A i \in DOMAIN segments : segments[i] \in Window
    BY <2>1
  <2>3. IsFiniteSet(1..Len(segments))
    BY <2>2, FS_Interval
  <2>4. IsFiniteSet(DOMAIN segments)
    BY <2>2, <2>3
  <2>5. \A i \in DOMAIN segments : segments[i].last + Tick \in Int
    BY <1>3, <2>2 DEF Window
  <2>6. Q \in [DOMAIN segments -> Int]
    BY <2>5
  <2> HIDE DEF Q
  <2> QED
    BY <2>4, <2>6, ImageFacts
<1> DEFINE U == A \cup B \cup C
<1>7. U \in SUBSET Int /\ U # {} /\ A \subseteq U /\ B \subseteq U /\ C \subseteq U
  BY <1>4, <1>5, <1>6
<1>8. IsFiniteSet(U)
  <2> HIDE DEF A, B, C
  <2>1. IsFiniteSet(A \cup B)
    BY <1>4, <1>5, FS_Union
  <2> QED
    BY <1>6, <2>1, FS_Union
<1>9. end = Max(U)
  OBVIOUS
<1>10. \A i \in DOMAIN pipeline : pipeline[i].last \in U
  <2>1. \A i \in DOMAIN pipeline : pipeline[i].last \in B
    OBVIOUS
  <2> HIDE DEF B, U
  <2> QED
    BY <1>7, <2>1
<1>11. \A i \in DOMAIN segments : segments[i].last + Tick \in U
  <2>1. \A i \in DOMAIN segments : segments[i].last + Tick \in C
    OBVIOUS
  <2> HIDE DEF C, U
  <2> QED
    BY <1>7, <2>1
<1> HIDE DEF A, B, C, P, Q, U, end
<1>12. end \in Int /\ \A u \in U : u <= end
  BY <1>7, <1>8, <1>9, MaxFacts
<1>13. Suffix(s) \in Streams /\ end + 1 \in Int
  BY <1>12, SuffixFacts
<1>14. \A i \in DOMAIN p.baseline : p.baseline[i].time < end + 1
  BY <1>1, <1>13, CutFacts
<1>15. \A i \in DOMAIN p.tail : p.tail[i].time >= end + 1
  BY <1>1, <1>13, CutFacts
<1>16. /\ \A i \in DOMAIN p.baseline : p.baseline[i].time \in Int
       /\ \A i \in DOMAIN p.tail : p.tail[i].time \in Int
  <2>1. p.baseline \in Streams /\ p.tail \in Streams
    BY <1>1, <1>13, CutFacts
  <2> QED
    BY <2>1, StreamFacts
<1>17. \A i \in DOMAIN p.baseline : p.baseline[i].time <= end
  BY <1>12, <1>14, <1>16
<1>18. \A i \in DOMAIN p.tail : p.tail[i].time > end
  BY <1>12, <1>15, <1>16
<1>19. Ends(p, end)
  BY <1>1, <1>10, <1>11, <1>12, <1>17, <1>18 DEF Ends
<1> QED
  BY <1>1, <1>12, <1>19 DEF p

\* An accepted request is well prepared.
LEMMA PreparedFacts ==
    ASSUME NEW s, SearchForm(s), Accepted(s)
    PROVE  WellPrepared(Prepared(s))
<1> DEFINE p == Prepared(s)
           g == s.inputs
           c == Before(g, Origin)
<1>1. /\ p.pipeline = [i \in DOMAIN s.pipeline |-> Relative(s.pipeline[i])]
      /\ p.segments = [i \in DOMAIN s.segments |-> Relative(s.segments[i])]
      /\ p.prefix = c /\ p.boundary = ControlsAt(c, NoControls, 0, Origin)
  BY DEF Prepared
<1>2. GoodPipeline(p.pipeline) /\ GoodSegments(p.segments)
  BY <1>1, RelativePipeline, RelativeSegments
<1>3. PICK end \in Int : /\ Ends(p, end)
                         /\ p.baseline = Before(Suffix(s), end + 1)
                         /\ p.tail = From(Suffix(s), end + 1)
  BY EndOfRequest
<1>4. /\ Suffix(s) \in Streams /\ Sorted(Suffix(s)) /\ end + 1 \in Int
      /\ \A i \in DOMAIN Suffix(s) : Suffix(s)[i].time >= 0 /\ InRange(Suffix(s)[i])
  BY <1>3, SuffixFacts
<1>5. Sound(p.baseline) /\ Sorted(p.baseline)
  <2>1. /\ p.baseline \in Streams /\ Sorted(p.baseline)
        /\ \A k \in DOMAIN p.baseline : \E i \in DOMAIN Suffix(s) :
                p.baseline[k] = Suffix(s)[i]
    BY <1>3, <1>4, CutFacts
  <2> HIDE DEF p
  <2>2. \A k \in DOMAIN p.baseline : p.baseline[k].time >= 0 /\ InRange(p.baseline[k])
    BY <1>4, <2>1
  <2> QED
    BY <2>1, <2>2 DEF Sound
<1>6. p.segments # <<>> => Canonical(p.baseline)
  <2> SUFFICES ASSUME p.segments # <<>> PROVE Canonical(p.baseline)
    OBVIOUS
  <2>1. s.segments # <<>>
    BY <1>1
  <2>2. Canonical(Suffix(s))
    BY <2>1 DEF Accepted
  <2> QED
    BY <1>3, <1>4, <2>2, CutFacts
<1>7. p.tail \in Streams /\ Sorted(p.tail)
  BY <1>3, <1>4, CutFacts
<1>8. /\ g \in Streams /\ Sorted(g) /\ Origin \in Int
      /\ \A i \in DOMAIN g : InRange(g[i]) /\ g[i].time >= 0
  BY SearchAssumption DEF SearchForm, Accepted, Streams
<1>9. /\ c \in Streams /\ Sorted(c) /\ \A k \in DOMAIN c : c[k].time < Origin
      /\ \A k \in DOMAIN c : \E i \in DOMAIN g : c[k] = g[i]
  BY <1>8, CutFacts
<1> HIDE DEF p, g, c
<1>10. Sound(c)
  BY <1>8, <1>9 DEF Sound
<1>11. GoodControls(NoControls)
  BY SearchAssumption DEF NoControls, GoodControls, InChannel
<1>12. GoodControls(p.boundary)
  BY <1>1, <1>8, <1>10, <1>11, ControlsAreGood
<1>13. WellPrepared(p)
  BY <1>1, <1>2, <1>3, <1>5, <1>6, <1>7, <1>9, <1>12 DEF WellPrepared
<1> QED
  BY <1>13 DEF p

\* How much a modifier lengthens a stream is a number.
LEMMA GrowthFacts ==
    ASSUME NEW m, GoodModifier(m)
    PROVE  Growth(m) \in Nat
<1>1. CASE m.kind = "SmoothSteering"
  <2> DEFINE R == m.radius
  <2>1. m.deformations \in Nat /\ R \in Nat
    BY <1>1, ModifierFacts
  <2> HIDE DEF R
  <2>2. R \div Tick \in Int /\ R \div Tick >= 0
    <3>1. R \in Int /\ R >= 0
      BY <2>1
    <3> QED
      BY <3>1, TickDivision
  <2>3. 2 * (R \div Tick) + 2 \in Nat
    BY <2>2
  <2>4. m.deformations * (2 * (R \div Tick) + 2) \in Nat
    BY <2>1, <2>3
  <2> QED
    BY <1>1, <2>4 DEF Growth, R
<1>2. CASE m.kind = "InputInsertion"
  <2>1. m.steering.most \in Nat /\ m.accelerate.most \in Nat /\ m.brake.most \in Nat
    BY <1>2, ModifierFacts DEF Channel
  <2> QED
    BY <1>2, <2>1 DEF Growth
<1>3. CASE m.kind # "SmoothSteering" /\ m.kind # "InputInsertion"
  BY <1>3 DEF Growth
<1> QED
  BY <1>1, <1>2, <1>3

\* The growth of a pipeline accumulates modifier by modifier.
LEMMA GrowthSteps ==
    ASSUME NEW pipeline, GoodPipeline(pipeline)
    PROVE  Growths(GrowthUpTo(pipeline), pipeline)
<1> DEFINE After(h, m) == h + Growth(m)
           X == Values
           n == Len(pipeline)
           zero == 0
           H(sum, i) == IF i = 0 THEN 0 ELSE sum[i - 1] + Growth(pipeline[i])
           c == CHOOSE sum : sum = [i \in 0..n |-> H(sum, i)]
           step == [i \in 1..n |-> [h \in X |-> After(h, pipeline[i])]]
<1>1. n \in Nat /\ \A i \in 1..n : Growth(pipeline[i]) \in X
  BY GrowthFacts DEF GoodPipeline, Values
<1>2. ASSUME NEW i \in 1..n, NEW h \in X PROVE After(h, pipeline[i]) \in X
  BY <1>1 DEF Values
<1>3. step \in [1..n -> [X -> X]]
  <2> HIDE DEF After, X, n
  <2> QED
    BY <1>2
<1> HIDE DEF After, n, X, step, H, c, zero
<1>4. PICK f : MadeBySteps(f, X, zero, n, step)
  <2>1. zero \in X /\ n \in Nat /\ step \in [1..n -> [X -> X]]
    BY <1>1, <1>3 DEF X, Values, zero
  <2> QED
    BY <2>1, StepByStep
<1>5. ASSUME NEW i \in 1..n PROVE f[i] = f[i - 1] + Growth(pipeline[i])
  <2>1. i - 1 \in 0..n
    BY <1>1
  <2>2. step[i][f[i - 1]] = After(f[i - 1], pipeline[i])
    BY <1>4, <2>1 DEF step, MadeBySteps
  <2> QED
    BY <1>4, <2>2 DEF After, MadeBySteps
<1>6. f = [i \in 0..n |-> H(f, i)]
  <2>1. f = [i \in 0..n |-> f[i]]
    BY <1>4 DEF MadeBySteps
  <2>2. \A i \in 0..n : f[i] = H(f, i)
    <3>1. \A i \in 0..n : i = 0 \/ (i # 0 /\ i \in 1..n)
      BY <1>1
    <3> QED
      BY <1>4, <1>5, <3>1 DEF H, zero, MadeBySteps
  <2> QED
    BY <2>1, <2>2
<1>7. c = [i \in 0..n |-> H(c, i)]
  BY <1>6 DEF c
<1>8. /\ DOMAIN c = 0..n /\ c = [i \in 0..n |-> c[i]]
      /\ \A i \in 0..n : c[i] = H(c, i)
  BY <1>7
<1>9. c[0] = 0 /\ \A i \in 1..n : c[i] = c[i - 1] + Growth(pipeline[i])
  <2>1. 0 \in 0..n /\ \A i \in 1..n : i # 0 /\ i \in 0..n
    BY <1>1
  <2> QED
    BY <1>8, <2>1 DEF H
<1>10. \A i \in 0..n : c[i] \in X
  <2> DEFINE S == {i \in 0..n : c[i] \in X}
  <2>1. S \in SUBSET (0..n) /\ 0 \in S
    BY <1>1, <1>9 DEF X, Values
  <2>2. \A i \in 1..n : i - 1 \in S => i \in S
    BY <1>1, <1>9 DEF X, Values
  <2> HIDE DEF S
  <2>3. S = 0..n
    BY <1>1, <2>1, <2>2, Upward
  <2> QED
    BY <2>3 DEF S
<1>11. GrowthUpTo(pipeline) = c
  BY DEF GrowthUpTo, c, H, n
<1> QED
  BY <1>8, <1>9, <1>10, <1>11 DEF Growths, n, X

\* It is a number, and no more than that of the whole pipeline.
LEMMA GrowthUpToFacts ==
    ASSUME NEW pipeline, GoodPipeline(pipeline)
    PROVE  /\ GrowthUpTo(pipeline)[0] = 0
           /\ \A n \in 0..Len(pipeline) :
                /\ GrowthUpTo(pipeline)[n] \in Nat
                /\ GrowthUpTo(pipeline)[n] <= PipelineGrowth(pipeline)
           /\ \A n \in 1..Len(pipeline) :
                GrowthUpTo(pipeline)[n] = GrowthUpTo(pipeline)[n - 1] + Growth(pipeline[n])
           /\ PipelineGrowth(pipeline) \in Nat
<1> DEFINE n == Len(pipeline)
           f == GrowthUpTo(pipeline)
           S == {i \in 0..n : f[i] \in Nat /\ \A j \in 0..i : f[j] \in Nat /\ f[j] <= f[i]}
<1>1. n \in Nat /\ \A i \in 1..n : Growth(pipeline[i]) \in Nat
  BY GrowthFacts DEF GoodPipeline
<1>2. f[0] = 0 /\ \A i \in 1..n : f[i] = f[i - 1] + Growth(pipeline[i])
  BY GrowthSteps DEF Growths
<1> HIDE DEF n, f
<1>3. S \in SUBSET (0..n) /\ 0 \in S
  BY <1>1, <1>2
<1>4. ASSUME NEW i \in 1..n, i - 1 \in S PROVE i \in S
  <2>1. f[i - 1] \in Nat /\ f[i] \in Nat /\ f[i - 1] <= f[i]
    BY <1>1, <1>2, <1>4
  <2>2. ASSUME NEW j \in 0..i PROVE f[j] \in Nat /\ f[j] <= f[i]
    <3>1. j = i \/ j \in 0..(i - 1)
      BY <1>1
    <3> QED
      BY <1>4, <2>1, <3>1
  <2> QED
    BY <1>1, <2>1, <2>2
<1> HIDE DEF S
<1>5. S = 0..n
  BY <1>1, <1>3, <1>4, Upward
<1>6. f[n] \in Nat /\ \A j \in 0..n : f[j] \in Nat /\ f[j] <= f[n]
  <2>1. n \in S
    BY <1>1, <1>5
  <2> QED
    BY <2>1 DEF S
<1> QED
  BY <1>2, <1>6 DEF PipelineGrowth, f, n

-----------------------------------------------------------------------------
(* The inductive invariant.                                                *)

\* The request in numbers.
LEMMA RequestFacts ==
    ASSUME Requested
    PROVE  /\ WellPrepared(search) /\ GoodSearch
           /\ Len(search.segments) \in Nat /\ DOMAIN search.segments = 1..Len(search.segments)
           /\ Flat <=> Len(search.segments) = 0
           /\ Parts \in Nat \ {0} /\ (Flat => Parts = 1)
           /\ ~Flat => Parts = Len(search.segments)
           /\ Len(search.baseline) \in Nat
           /\ PipelineGrowth(search.pipeline) \in Nat
           /\ Capacity = Len(search.baseline)
                + (IF Flat THEN PipelineGrowth(search.pipeline)
                   ELSE Len(search.segments) * (PipelineGrowth(search.pipeline) + 6))
<1>1. WellPrepared(search)
  <2>1. PICK s \in Searches : Accepted(s) /\ search = Prepared(s)
    BY DEF Requested
  <2>2. SearchForm(s)
    BY SearchesAssumption
  <2> QED
    BY <2>1, <2>2, PreparedFacts
<1>2. search.segments \in Seq(Window)
  BY <1>1 DEF WellPrepared, GoodSegments
<1> DEFINE g == search.segments
           n == Len(g)
           G == PipelineGrowth(search.pipeline)
           b == Len(search.baseline)
<1>3. n \in Nat /\ DOMAIN g = 1..n /\ (g = <<>> <=> n = 0)
  BY <1>2
<1>4. GoodPipeline(search.pipeline)
  BY <1>1 DEF WellPrepared
<1>5. G \in Nat
  BY <1>4, GrowthUpToFacts
<1>6. b \in Nat
  <2>1. search.baseline \in Streams
    BY <1>1 DEF WellPrepared, Sound
  <2> QED
    BY <2>1, StreamFacts
<1>7. Capacity = b + (IF Flat THEN G ELSE n * (G + 6))
  BY DEF Capacity
<1>8. Flat <=> n = 0
  BY <1>3 DEF Flat
<1> HIDE DEF g, n, G, b
<1>9. Capacity \in Int
  <2>1. n * (G + 6) \in Int
    BY <1>3, <1>5
  <2> QED
    BY <1>5, <1>6, <1>7, <2>1
<1>10. GoodSearch
  BY <1>1, <1>9 DEF GoodSearch, WellPrepared
<1>11. Parts = IF Flat THEN 1 ELSE n
  BY DEF Parts, n, g
<1>12. Parts \in Nat \ {0} /\ (Flat => Parts = 1) /\ (~Flat => Parts = n)
  BY <1>3, <1>8, <1>11
<1> QED
  BY <1>1, <1>3, <1>5, <1>6, <1>7, <1>8, <1>10, <1>12 DEF g, n, G, b

\* Products in order.
LEMMA Products ==
    ASSUME NEW i \in Int, NEW j \in Int, NEW k \in Nat, i <= j
    PROVE  /\ i * k \in Int /\ j * k \in Int /\ i * k <= j * k
           /\ (i + 1) * k = i * k + k /\ (i - 1) * k = i * k - k
           /\ 1 * k = k /\ 0 * k = 0
<1>1. i * k \in Int /\ j * k \in Int /\ (j - i) * k = j * k - i * k
  OBVIOUS
<1>2. j - i \in Nat
  OBVIOUS
<1>3. \A d \in Nat : d * k >= 0
  OBVIOUS
<1>4. (j - i) * k >= 0
  BY <1>2, <1>3
<1>5. i * k <= j * k
  BY <1>1, <1>4
<1>6. (i + 1) * k = i * k + k /\ (i - 1) * k = i * k - k /\ 1 * k = k /\ 0 * k = 0
  OBVIOUS
<1> QED
  BY <1>1, <1>5, <1>6

\* There is room for the modifier in work.
LEMMA RoomForModifier ==
    ASSUME SuffixInvariant, InWork, pass <= Len(search.pipeline)
    PROVE  /\ Growth(search.pipeline[pass]) \in Nat
           /\ Len(events) + Growth(search.pipeline[pass]) <= Capacity
           /\ GrowthUpTo(search.pipeline)[pass]
                = GrowthUpTo(search.pipeline)[pass - 1] + Growth(search.pipeline[pass])
           /\ GrowthUpTo(search.pipeline)[pass - 1] \in Nat
<1> DEFINE n == Len(search.segments)
           G == PipelineGrowth(search.pipeline)
           b == Len(search.baseline)
           l == Len(events)
           f == GrowthUpTo(search.pipeline)
           c == Growth(search.pipeline[pass])
           N == Len(search.pipeline)
<1>1. /\ n \in Nat /\ G \in Nat /\ b \in Nat
      /\ Parts \in Nat \ {0} /\ (Flat => Parts = 1) /\ (~Flat => Parts = n)
      /\ Capacity = b + (IF Flat THEN G ELSE n * (G + 6))
  BY RequestFacts DEF SuffixInvariant
<1>2. GoodPipeline(search.pipeline)
  BY RequestFacts DEF SuffixInvariant, WellPrepared
<1>3. /\ N \in Nat \ {0} /\ \A i \in 1..N : GoodModifier(search.pipeline[i])
  BY <1>2 DEF GoodPipeline
<1>4. pass \in 1..N /\ part \in 1..Parts /\ pass - 1 \in 0..N
  BY <1>1, <1>3 DEF SuffixInvariant, PlaceInWork, InWork
<1>5. c \in Nat
  BY <1>3, <1>4, GrowthFacts
<1>6. f[pass] = f[pass - 1] + c /\ f[pass - 1] \in Nat /\ f[pass] \in Nat /\ f[pass] <= G
  BY <1>2, <1>4, GrowthUpToFacts
<1>7. l \in Nat
  BY StreamFacts DEF SuffixInvariant, FlagIsTrue, Sound
<1>8. l <= b + (part - 1) * (G + 6) + f[pass - 1]
  BY DEF SuffixInvariant, RoomIsLeft
<1> HIDE DEF n, G, b, l, f, c, N
<1>9. l + c <= b + (part - 1) * (G + 6) + G
  <2> DEFINE k == (part - 1) * (G + 6)
  <2>1. k \in Int
    BY <1>1, <1>4
  <2> HIDE DEF k
  <2> QED
    BY <1>1, <1>5, <1>6, <1>7, <1>8, <2>1 DEF k
<1>10. CASE Flat
  <2>1. part = 1
    BY <1>1, <1>4, <1>10
  <2>2. (part - 1) * (G + 6) = 0
    BY <1>1, <2>1
  <2> QED
    BY <1>1, <1>5, <1>6, <1>9, <1>10, <2>2 DEF l, c, f
<1>11. CASE ~Flat
  <2> DEFINE h == G + 6
  <2>1. part \in Int /\ n \in Int /\ part <= n /\ h \in Nat
    BY <1>1, <1>4, <1>11
  <2>2. Capacity = b + n * h /\ l + c <= b + (part - 1) * h + G /\ G + 6 = h
    BY <1>1, <1>9, <1>11
  <2> HIDE DEF h
  <2>3. part * h <= n * h /\ (part - 1) * h = part * h - h /\ part * h \in Int /\ n * h \in Int
    BY <2>1, Products
  <2>4. l + c <= Capacity
    BY <1>1, <1>5, <1>7, <2>1, <2>2, <2>3
  <2> QED
    BY <1>5, <1>6, <2>4 DEF l, c, f
<1> QED
  BY <1>10, <1>11

\* And for the restoration after the segment in work.
LEMMA RoomForRestoration ==
    ASSUME SuffixInvariant, InWork, ~Flat
    PROVE  Len(events) + 6 <= Capacity
           /\ Len(events) + 6 <= Len(search.baseline)
                                    + part * (PipelineGrowth(search.pipeline) + 6)
<1> DEFINE n == Len(search.segments)
           G == PipelineGrowth(search.pipeline)
           b == Len(search.baseline)
           l == Len(events)
           f == GrowthUpTo(search.pipeline)
           N == Len(search.pipeline)
           h == G + 6
<1>1. /\ n \in Nat /\ G \in Nat /\ b \in Nat
      /\ Parts = n /\ Capacity = b + n * h
  BY RequestFacts DEF SuffixInvariant
<1>2. GoodPipeline(search.pipeline)
  BY RequestFacts DEF SuffixInvariant, WellPrepared
<1>3. N \in Nat \ {0}
  BY <1>2 DEF GoodPipeline
<1>4. part \in 1..n /\ pass - 1 \in 0..N
  BY <1>1, <1>3 DEF SuffixInvariant, PlaceInWork, InWork
<1>5. f[pass - 1] \in Nat /\ f[pass - 1] <= G
  BY <1>2, <1>4, GrowthUpToFacts
<1>6. l \in Nat
  BY StreamFacts DEF SuffixInvariant, FlagIsTrue, Sound
<1>7. l <= b + (part - 1) * h + f[pass - 1]
  BY DEF SuffixInvariant, RoomIsLeft
<1> HIDE DEF n, G, b, l, f, N
<1>8. part \in Int /\ n \in Int /\ part <= n /\ h \in Nat /\ h = G + 6
  BY <1>1, <1>4
<1> HIDE DEF h
<1>9. part * h <= n * h /\ (part - 1) * h = part * h - h /\ part * h \in Int /\ n * h \in Int
  BY <1>8, Products
<1>10. l + 6 <= b + part * h /\ l + 6 <= Capacity
  BY <1>1, <1>5, <1>6, <1>7, <1>8, <1>9
<1> QED
  BY <1>10 DEF l, b, h, G

\* Ticks grow with the times in them.
LEMMA FloorGrows ==
    ASSUME NEW a \in Int, NEW b \in Int, a <= b
    PROVE  Floor(a) <= Floor(b) /\ Floor(a) \in Int /\ Floor(b) \in Int
<1> DEFINE i == a \div Tick
           j == b \div Tick
<1>1. /\ i \in Int /\ Floor(a) = i * Tick /\ Floor(a) \in Int
      /\ j \in Int /\ Floor(b) = j * Tick /\ Floor(b) \in Int
  BY TickDivision
<1>2. i <= j
  BY TicksGrow
<1> HIDE DEF i, j
<1>3. i * Tick <= j * Tick
  BY <1>1, <1>2, TickOrder
<1> QED
  BY <1>1, <1>3

\* The members of a pipeline and the segments, in numbers.
LEMMA PartsFacts ==
    ASSUME Requested
    PROVE  /\ \A i \in DOMAIN search.segments :
                /\ search.segments[i].first \in Int /\ search.segments[i].last \in Int
                /\ 0 <= search.segments[i].first
                /\ search.segments[i].first <= search.segments[i].last
                /\ Floor(search.segments[i].first) = search.segments[i].first
                /\ Floor(search.segments[i].last) = search.segments[i].last
           /\ \A i, j \in DOMAIN search.segments :
                i < j => search.segments[i].last < search.segments[j].first
           /\ Len(search.pipeline) \in Nat /\ DOMAIN search.pipeline = 1..Len(search.pipeline)
           /\ \A i \in DOMAIN search.pipeline :
                /\ GoodModifier(search.pipeline[i])
                /\ search.pipeline[i].first \in Int /\ search.pipeline[i].last \in Int
                /\ 0 <= search.pipeline[i].first
                /\ search.pipeline[i].first <= search.pipeline[i].last
<1> DEFINE g == search.segments
           p == search.pipeline
<1>1. GoodSegments(g) /\ GoodPipeline(p)
  BY RequestFacts DEF WellPrepared
<1> HIDE DEF g, p
<1>2. g \in Seq(Window)
  BY <1>1 DEF GoodSegments
<1>3. \A i \in DOMAIN g : g[i] \in Window
  BY <1>2
<1>4. \A i \in DOMAIN g : g[i].first \in Int /\ g[i].last \in Int
  BY <1>3 DEF Window
<1>5. Len(p) \in Nat /\ DOMAIN p = 1..Len(p) /\ \A i \in DOMAIN p : GoodModifier(p[i])
  BY <1>1 DEF GoodPipeline
<1>6. \A i \in DOMAIN p : /\ p[i].first \in Int /\ p[i].last \in Int
                          /\ 0 <= p[i].first /\ p[i].first <= p[i].last
  BY <1>5, ModifierFacts
<1> QED
  BY <1>1, <1>4, <1>5, <1>6 DEF GoodSegments, g, p

\* The window a modifier works in is open.
LEMMA WindowIsOpen ==
    ASSUME Requested, selected \subseteq DOMAIN search.segments,
           part \in 1..Parts, Mutates, NEW k \in DOMAIN search.pipeline,
           WindowOf(search.pipeline[k]).first <= WindowOf(search.pipeline[k]).last
    PROVE  /\ GoodWindow(WindowOf(search.pipeline[k]))
           /\ \A t \in Int : ~Writable(t) => Outside(WindowOf(search.pipeline[k]), t)
           /\ ~Flat => search.segments[part].first <= Floor(WindowOf(search.pipeline[k]).first)
<1> DEFINE m == search.pipeline[k]
           w == WindowOf(m)
           s == search.segments[part]
<1>1. /\ m.first \in Int /\ m.last \in Int /\ 0 <= m.first /\ m.first <= m.last
      /\ Floor(m.first) \in Int /\ w.first <= w.last
  <2>1. m.first \in Int /\ m.last \in Int /\ 0 <= m.first /\ m.first <= m.last
    BY PartsFacts
  <2> HIDE DEF m
  <2>2. Floor(m.first) \in Int
    BY <2>1, TickDivision
  <2> QED
    BY <2>1, <2>2 DEF m
<1>2. \A t \in Int : Floor(m.first) <= t /\ t <= m.last /\ (Flat \/ InSelected(t)) => Writable(t)
  BY DEF Writable
<1> HIDE DEF m
<1>3. CASE Flat
  <2>1. w.first = m.first /\ w.last = m.last
    BY <1>3 DEF WindowOf
  <2> HIDE DEF w
  <2>2. GoodWindow(w)
    BY <1>1, <2>1 DEF GoodWindow
  <2>3. \A t \in Int : ~Writable(t) => Outside(w, t)
    BY <1>1, <1>2, <1>3, <2>1 DEF Outside
  <2> QED
    BY <1>3, <2>2, <2>3 DEF w, m
<1>4. CASE ~Flat
  <2>1. part \in selected /\ part \in DOMAIN search.segments
    BY <1>4 DEF Mutates
  <2>2. /\ s.first \in Int /\ s.last \in Int /\ 0 <= s.first /\ s.first <= s.last
        /\ Floor(s.first) = s.first
    BY <2>1, PartsFacts
  <2>3. \A t \in Int : s.first <= t /\ t <= s.last => InSelected(t)
    BY <2>1 DEF InSelected, InWindow
  <2>4. w.first = Max({m.first, s.first}) /\ w.last = Min({m.last, s.last})
    BY <1>4 DEF WindowOf
  <2> HIDE DEF s, w
  <2>5. /\ w.first \in Int /\ w.first >= m.first /\ w.first >= s.first
        /\ w.last \in Int /\ w.last <= m.last /\ w.last <= s.last
    <3>1. Max({m.first, s.first}) = IF m.first >= s.first THEN m.first ELSE s.first
      BY <1>1, <2>2, MaxOfTwo
    <3>2. Min({m.last, s.last}) = IF m.last <= s.last THEN m.last ELSE s.last
      BY <1>1, <2>2, MinOfTwo
    <3> QED
      BY <1>1, <2>2, <2>4, <3>1, <3>2
  <2>6. GoodWindow(w)
    BY <1>1, <2>2, <2>5 DEF GoodWindow, w
  <2>7. Floor(m.first) <= Floor(w.first) /\ s.first <= Floor(w.first) /\ Floor(w.first) \in Int
    <3>1. Floor(m.first) <= Floor(w.first) /\ Floor(w.first) \in Int
      BY <1>1, <2>5, FloorGrows
    <3>2. Floor(s.first) <= Floor(w.first)
      BY <2>2, <2>5, FloorGrows
    <3> QED
      BY <2>2, <3>1, <3>2
  <2>8. ASSUME NEW t \in Int, ~Writable(t) PROVE Outside(w, t)
    <3> SUFFICES ASSUME ~Outside(w, t) PROVE FALSE
      OBVIOUS
    <3>1. Floor(w.first) <= t /\ t <= w.last
      BY <2>5, <2>7 DEF Outside
    <3>2. Floor(m.first) <= t /\ t <= m.last /\ s.first <= t /\ t <= s.last
      BY <1>1, <2>2, <2>5, <2>7, <3>1
    <3> QED
      BY <1>2, <2>3, <2>8, <3>2
  <2> QED
    BY <2>6, <2>7, <2>8 DEF w, m, s
<1> QED
  BY <1>3, <1>4

\* It holds of the baseline's suffix, which a candidate starts from, ...
LEMMA SuffixInvariantAtFirst ==
    ASSUME Requested, NEW chosen \in Chosen(search)
    PROVE  /\ chosen \subseteq DOMAIN search.segments
           /\ Sound(search.baseline)
           /\ ~Flat => Canonical(search.baseline)
           /\ Canonical(search.baseline) \in BOOLEAN
           /\ 1 \in 1..(Parts + 1) /\ 1 \in 1..(Len(search.pipeline) + 1)
           /\ ~(1 > Parts)
           /\ Len(search.baseline) <= Len(search.baseline)
                + (1 - 1) * (PipelineGrowth(search.pipeline) + 6)
                + GrowthUpTo(search.pipeline)[1 - 1]
<1>1. /\ Parts \in Nat \ {0} /\ Len(search.baseline) \in Nat
      /\ PipelineGrowth(search.pipeline) \in Nat /\ WellPrepared(search)
  BY RequestFacts
<1>2. Len(search.pipeline) \in Nat
  BY PartsFacts
<1>3. GrowthUpTo(search.pipeline)[0] = 0
  BY <1>1, GrowthUpToFacts DEF WellPrepared
<1>4. chosen \subseteq DOMAIN search.segments
  BY DEF Chosen
<1>5. Sound(search.baseline) /\ (~Flat => Canonical(search.baseline))
  BY <1>1 DEF WellPrepared, Flat
<1>6. Canonical(search.baseline) \in BOOLEAN
  BY DEF Canonical
<1>7. Len(search.baseline) <= Len(search.baseline)
                + (1 - 1) * (PipelineGrowth(search.pipeline) + 6)
                + GrowthUpTo(search.pipeline)[1 - 1]
  <2> DEFINE b == Len(search.baseline)
             h == PipelineGrowth(search.pipeline) + 6
             f == GrowthUpTo(search.pipeline)
  <2>1. b \in Nat /\ h \in Int /\ f[0] = 0
    BY <1>1, <1>3
  <2> HIDE DEF b, h, f
  <2>2. b <= b + (1 - 1) * h + f[1 - 1]
    BY <2>1
  <2> QED
    BY <2>2 DEF b, h, f
<1>8. 1 \in 1..(Parts + 1) /\ 1 \in 1..(Len(search.pipeline) + 1) /\ ~(1 > Parts)
  BY <1>1, <1>2
<1> QED
  BY <1>4, <1>5, <1>6, <1>7, <1>8

\* ... so it holds at first, ...
LEMMA SuffixInvariantInit ==
    Init => SuffixInvariant
<1> SUFFICES ASSUME Init PROVE SuffixInvariant
  OBVIOUS
<1>1. Requested
  BY DEF Init, Requested
<1>2. selected \in Chosen(search)
  BY DEF Init
<1>3. ClosedIsKept
  BY DEF Init, ClosedIsKept
<1>4. PlaceInWork
  BY <1>1, <1>2, SuffixInvariantAtFirst DEF Init, PlaceInWork, Delivered
<1>5. FlagIsTrue
  BY <1>1, <1>2, SuffixInvariantAtFirst DEF Init, FlagIsTrue
<1>6. RoomIsLeft
  BY <1>1, <1>2, SuffixInvariantAtFirst DEF Init, RoomIsLeft
<1> QED
  BY <1>1, <1>3, <1>4, <1>5, <1>6 DEF SuffixInvariant

\* ... and when the slot is used for the next candidate.
LEMMA SuffixInvariantNextCandidate ==
    ASSUME SuffixInvariant, NextCandidate
    PROVE  SuffixInvariant'
<1>1. search' = search
  BY DEF NextCandidate
<1>2. PICK chosen \in Chosen(search) : Begin(search, chosen)
  BY DEF NextCandidate
<1>3. Requested /\ Requested'
  BY <1>1 DEF SuffixInvariant, Requested
<1>4. Flat' = Flat /\ Parts' = Parts /\ (status' = "Mutating")
  BY <1>1, <1>2 DEF Flat, Parts, Begin
<1>5. ClosedIsKept'
  BY <1>1, <1>2 DEF ClosedIsKept, Begin
<1>6. PlaceInWork'
  BY <1>1, <1>2, <1>3, <1>4, SuffixInvariantAtFirst DEF Begin, PlaceInWork, Delivered
<1>7. FlagIsTrue'
  BY <1>1, <1>2, <1>3, <1>4, SuffixInvariantAtFirst DEF Begin, FlagIsTrue
<1>8. RoomIsLeft'
  BY <1>1, <1>2, <1>3, SuffixInvariantAtFirst DEF Begin, RoomIsLeft
<1> QED
  BY <1>3, <1>5, <1>6, <1>7, <1>8 DEF SuffixInvariant

\* A segment that is not selected leaves the room it might have needed, ...
LEMMA SuffixInvariantSkipSegment ==
    ASSUME SuffixInvariant, SkipSegment
    PROVE  SuffixInvariant'
<1>1. UNCHANGED <<search, selected, events, normalized, pass, status>> /\ part' = part + 1
      /\ InWork /\ ~Mutates
  BY DEF SkipSegment
<1>2. Requested /\ Requested' /\ Flat' = Flat /\ Parts' = Parts /\ ~Flat
  BY <1>1 DEF SuffixInvariant, Requested, Flat, Parts, Mutates
<1>3. Parts \in Nat \ {0} /\ part \in 1..Parts /\ PipelineGrowth(search.pipeline) \in Nat
      /\ Len(search.baseline) \in Nat
  BY <1>1, <1>2, RequestFacts DEF SuffixInvariant, PlaceInWork, InWork
<1>4. PlaceInWork'
  BY <1>1, <1>2, <1>3 DEF SuffixInvariant, PlaceInWork, Delivered, InWork
<1>5. FlagIsTrue'
  BY <1>1, <1>2 DEF SuffixInvariant, FlagIsTrue
<1>6. RoomIsLeft'
  <2> DEFINE b == Len(search.baseline)
             h == PipelineGrowth(search.pipeline) + 6
             f == GrowthUpTo(search.pipeline)[pass - 1]
             l == Len(events)
  <2>1. GoodPipeline(search.pipeline) /\ pass - 1 \in 0..Len(search.pipeline)
    BY <1>2, RequestFacts, PartsFacts DEF SuffixInvariant, PlaceInWork, WellPrepared
  <2>2. f \in Nat
    BY <2>1, GrowthUpToFacts
  <2>3. b \in Nat /\ h \in Nat /\ l \in Nat
    BY <1>3, StreamFacts DEF SuffixInvariant, FlagIsTrue, Sound
  <2>4. l <= b + (part - 1) * h + f
    BY DEF SuffixInvariant, RoomIsLeft
  <2> HIDE DEF b, h, f, l
  <2>5. part - 1 \in Int /\ part + 1 - 1 \in Int /\ part - 1 <= part + 1 - 1
    BY <1>3
  <2>6. /\ (part - 1) * h <= (part + 1 - 1) * h
        /\ (part - 1) * h \in Int /\ (part + 1 - 1) * h \in Int
    BY <2>3, <2>5, Products
  <2>7. l <= b + (part + 1 - 1) * h + f
    BY <2>2, <2>3, <2>4, <2>6
  <2>8. RoomIsLeft' <=>
            Len(events) <= Len(search.baseline)
                + (part + 1 - 1) * (PipelineGrowth(search.pipeline) + 6)
                + GrowthUpTo(search.pipeline)[pass - 1]
    <3>1. part \in Int /\ pass \in Int
      BY <1>2, RequestFacts, PartsFacts DEF SuffixInvariant, PlaceInWork
    <3> QED
      BY <1>1, <3>1 DEF RoomIsLeft
  <2> QED
    BY <2>7, <2>8 DEF b, h, f, l
<1>7. ClosedIsKept'
  BY <1>1 DEF SuffixInvariant, ClosedIsKept, Closed, Writable, RestoreTime, InSelected, Flat
<1> QED
  BY <1>2, <1>4, <1>5, <1>6, <1>7 DEF SuffixInvariant

\* ... and so does a modifier whose window does not meet the segment in work.
LEMMA SuffixInvariantSkipModifier ==
    ASSUME SuffixInvariant, SkipModifier
    PROVE  SuffixInvariant'
<1>1. UNCHANGED <<search, selected, events, normalized, part, status>> /\ pass' = pass + 1
      /\ InWork /\ pass <= Len(search.pipeline)
  BY DEF SkipModifier
<1>2. Requested /\ Requested' /\ Flat' = Flat /\ Parts' = Parts
  BY <1>1 DEF SuffixInvariant, Requested, Flat, Parts
<1>3. PlaceInWork'
  BY <1>1, <1>2, PartsFacts DEF SuffixInvariant, PlaceInWork, Delivered, InWork
<1>4. FlagIsTrue'
  BY <1>1, <1>2 DEF SuffixInvariant, FlagIsTrue
<1>5. RoomIsLeft'
  <2> DEFINE b == Len(search.baseline)
             h == PipelineGrowth(search.pipeline) + 6
             f == GrowthUpTo(search.pipeline)
             l == Len(events)
             c == Growth(search.pipeline[pass])
  <2>1. c \in Nat /\ f[pass] = f[pass - 1] + c /\ f[pass - 1] \in Nat
    BY <1>1, RoomForModifier
  <2>2. b \in Nat /\ h \in Nat /\ l \in Nat
    BY <1>2, RequestFacts, StreamFacts DEF SuffixInvariant, FlagIsTrue, Sound
  <2>3. l <= b + (part - 1) * h + f[pass - 1] /\ part \in Int /\ pass \in Int
    BY <1>2, RequestFacts, PartsFacts DEF SuffixInvariant, RoomIsLeft, PlaceInWork
  <2>4. l <= b + (part - 1) * h + f[pass + 1 - 1]
    <3> HIDE DEF b, h, f, l, c
    <3>1. (part - 1) * h \in Int /\ pass + 1 - 1 = pass
      BY <2>2, <2>3
    <3> QED
      BY <2>1, <2>2, <2>3, <3>1
  <2>5. RoomIsLeft' <=>
            Len(events) <= Len(search.baseline)
                + (part - 1) * (PipelineGrowth(search.pipeline) + 6)
                + GrowthUpTo(search.pipeline)[pass + 1 - 1]
    BY <1>1, <2>3 DEF RoomIsLeft
  <2> QED
    BY <2>4, <2>5
<1>6. ClosedIsKept'
  BY <1>1 DEF SuffixInvariant, ClosedIsKept, Closed, Writable, RestoreTime, InSelected, Flat
<1> QED
  BY <1>2, <1>3, <1>4, <1>5, <1>6 DEF SuffixInvariant

\* What a modifier does, in the segment that is in work.
LEMMA MutateFacts ==
    ASSUME SuffixInvariant, Mutate
    PROVE  LET m == search.pipeline[pass]
               w == WindowOf(m)
           IN /\ search' = search /\ selected' = selected /\ part' = part
              /\ pass' = pass + 1 /\ status' = status
              /\ part \in 1..Parts /\ pass \in DOMAIN search.pipeline /\ GoodModifier(m) /\ GoodWindow(w)
              /\ Growth(m) \in Nat /\ Len(events) + Growth(m) <= Capacity
              /\ \A t \in Int : ~Writable(t) => Outside(w, t)
              /\ \E r \in ApplyModifier(m, w) :
                    /\ Modified(r, w, Growth(m))
                    /\ events' = r.events /\ unpruned' = r.unpruned
                    /\ normalized' = r.normalized
              /\ ~Flat => search.segments[part].first <= Floor(w.first)
<1> DEFINE m == search.pipeline[pass]
           w == WindowOf(m)
<1>1. /\ InWork /\ Mutates /\ pass <= Len(search.pipeline) /\ w.first <= w.last
      /\ search' = search /\ selected' = selected /\ part' = part
  BY DEF Mutate
<1>2. /\ Requested /\ selected \subseteq DOMAIN search.segments
      /\ part \in 1..(Parts + 1) /\ pass \in 1..(Len(search.pipeline) + 1)
      /\ Sound(events) /\ normalized \in BOOLEAN /\ (normalized => Canonical(events))
  BY DEF SuffixInvariant, PlaceInWork, FlagIsTrue
<1>3. part \in 1..Parts /\ pass \in DOMAIN search.pipeline
  <2>1. Parts \in Nat /\ Len(search.pipeline) \in Nat
        /\ DOMAIN search.pipeline = 1..Len(search.pipeline)
    BY <1>2, RequestFacts, PartsFacts
  <2> QED
    BY <1>1, <1>2, <2>1 DEF InWork
<1>4. /\ GoodWindow(w) /\ \A t \in Int : ~Writable(t) => Outside(w, t)
      /\ ~Flat => search.segments[part].first <= Floor(w.first)
  BY <1>1, <1>2, <1>3, WindowIsOpen
<1>5. GoodModifier(m) /\ GoodSearch
  BY <1>2, <1>3, PartsFacts, RequestFacts
<1>6. Growth(m) \in Nat /\ Len(events) + Growth(m) <= Capacity
  BY <1>1, RoomForModifier
<1>7. PICK r \in ApplyModifier(m, w) :
        r.room => /\ events' = r.events /\ unpruned' = r.unpruned
                  /\ normalized' = r.normalized /\ pass' = pass + 1 /\ status' = status
  BY DEF Mutate
<1> HIDE DEF m, w
<1>8. Modified(r, w, Growth(m))
  BY <1>2, <1>4, <1>5, <1>6, ApplyModifierFacts
<1>9. r.room
  BY <1>8 DEF Modified
<1>10. \E x \in ApplyModifier(m, w) : /\ Modified(x, w, Growth(m))
                                      /\ events' = x.events /\ unpruned' = x.unpruned
                                      /\ normalized' = x.normalized
  BY <1>7, <1>8, <1>9
<1> QED
  BY <1>1, <1>3, <1>4, <1>5, <1>6, <1>7, <1>9, <1>10 DEF m, w

\* A modifier writes into its window only, and within the room left for it.
LEMMA SuffixInvariantMutate ==
    ASSUME SuffixInvariant, Mutate
    PROVE  SuffixInvariant'
<1> DEFINE m == search.pipeline[pass]
           w == WindowOf(m)
           c == Growth(m)
<1>1. /\ search' = search /\ selected' = selected /\ part' = part
      /\ pass' = pass + 1 /\ status' = status
      /\ part \in 1..Parts /\ pass \in DOMAIN search.pipeline
      /\ c \in Nat /\ \A t \in Int : ~Writable(t) => Outside(w, t)
  BY MutateFacts
<1>2. Requested /\ Requested' /\ Flat' = Flat /\ Parts' = Parts
  BY <1>1 DEF SuffixInvariant, Requested, Flat, Parts
<1>3. /\ Len(search.pipeline) \in Nat /\ DOMAIN search.pipeline = 1..Len(search.pipeline)
      /\ Parts \in Nat /\ part \in Int /\ pass \in Int /\ selected \subseteq DOMAIN search.segments
  BY <1>1, <1>2, RequestFacts, PartsFacts DEF SuffixInvariant, PlaceInWork
<1>4. GrowthUpTo(search.pipeline)[pass] = GrowthUpTo(search.pipeline)[pass - 1] + c
      /\ GrowthUpTo(search.pipeline)[pass - 1] \in Nat
  BY RoomForModifier DEF Mutate
<1>5. PICK r \in ApplyModifier(m, w) :
        /\ Modified(r, w, c)
        /\ events' = r.events /\ unpruned' = r.unpruned
        /\ normalized' = r.normalized
  BY MutateFacts
<1> HIDE DEF m, w, c
<1>6. PlaceInWork'
  BY <1>1, <1>2, <1>3 DEF SuffixInvariant, PlaceInWork, Delivered
<1>7. FlagIsTrue'
  <2>1. Sound(events') /\ normalized' \in BOOLEAN /\ (normalized' => Canonical(events'))
        /\ (normalized => normalized')
    BY <1>5 DEF Modified
  <2>2. ~Flat \/ part > Parts => normalized
    BY DEF SuffixInvariant, FlagIsTrue
  <2> QED
    BY <1>1, <1>2, <2>1, <2>2 DEF FlagIsTrue
<1>8. RoomIsLeft'
  <2> DEFINE b == Len(search.baseline)
             h == PipelineGrowth(search.pipeline) + 6
             f == GrowthUpTo(search.pipeline)
             l == Len(events)
             k == Len(r.events)
  <2>1. b \in Nat /\ h \in Nat /\ l \in Nat /\ k \in Nat
    BY <1>2, <1>5, RequestFacts, StreamFacts
    DEF SuffixInvariant, FlagIsTrue, Sound, Modified
  <2>2. l <= b + (part - 1) * h + f[pass - 1]
    BY DEF SuffixInvariant, RoomIsLeft
  <2>3. k <= l + c
    BY <1>5 DEF Modified, Outcome
  <2>4. k <= b + (part - 1) * h + f[pass + 1 - 1]
    <3> HIDE DEF b, h, f, l, k
    <3>1. (part - 1) * h \in Int /\ pass + 1 - 1 = pass
      BY <1>3, <2>1
    <3>2. f[pass] = f[pass - 1] + c /\ f[pass - 1] \in Nat
      BY <1>4 DEF f
    <3> QED
      BY <1>1, <2>1, <2>2, <2>3, <3>1, <3>2
  <2>5. RoomIsLeft' <=>
            Len(r.events) <= Len(search.baseline)
                + (part - 1) * (PipelineGrowth(search.pipeline) + 6)
                + GrowthUpTo(search.pipeline)[pass + 1 - 1]
    BY <1>1, <1>3, <1>5 DEF RoomIsLeft
  <2> QED
    BY <2>4, <2>5
<1>9. ClosedIsKept'
  <2>1. \A t \in Int : Closed(t)' <=> Closed(t)
    BY <1>1 DEF Closed, Writable, RestoreTime, InSelected, Flat
  <2>2. \A t \in Int : Closed(t) => At(Normalize(r.events), t) = At(Normalize(events), t)
    BY <1>1, <1>5 DEF Modified, Outcome, Untouched, Closed
  <2>3. \A t \in Int : Closed(t) =>
            At(Normalize(r.events), t) = At(Normalize(search.baseline), t)
    BY <2>2 DEF SuffixInvariant, ClosedIsKept
  <2> QED
    BY <1>1, <1>5, <2>1, <2>3 DEF ClosedIsKept
<1> QED
  BY <1>2, <1>6, <1>7, <1>8, <1>9 DEF SuffixInvariant

\* After a segment, up to six events are written, at the two times after it.
LEMMA EndSegmentFacts ==
    ASSUME SuffixInvariant, EndSegment
    PROVE  LET end == search.segments[part].last
               restored == IF InSelected(end + Tick) THEN events
                           ELSE RestoreSegmentControls(events, end)
           IN /\ normalized /\ InWork /\ ~Flat /\ part \in selected
              /\ part \in 1..Parts /\ end \in Nat
              /\ Sound(restored) /\ Len(restored) <= Len(events) + 6
              /\ \A t \in Int : t \notin {end + 1, end + 2} => At(restored, t) = At(events, t)
              /\ events' = Normalize(restored) /\ normalized' = TRUE
              /\ part' = part + 1 /\ pass' = 1
              /\ search' = search /\ selected' = selected /\ status' = status
              /\ unpruned' = events'
<1> DEFINE end == search.segments[part].last
           restored == IF InSelected(end + Tick) THEN events
                       ELSE RestoreSegmentControls(events, end)
<1>1. /\ InWork /\ ~Flat /\ Mutates /\ part \in selected
      /\ UNCHANGED <<search, selected>>
  BY DEF EndSegment, Mutates
<1>2. normalized
  BY <1>1 DEF SuffixInvariant, FlagIsTrue
<1>3. Requested
  BY DEF SuffixInvariant
<1>4. Parts \in Nat /\ part \in 1..Parts /\ part \in DOMAIN search.segments
  BY <1>1, <1>3, RequestFacts DEF SuffixInvariant, PlaceInWork, InWork
<1>5. end \in Nat
  <2>1. \A i \in DOMAIN search.segments :
            /\ search.segments[i].first \in Int /\ search.segments[i].last \in Int
            /\ 0 <= search.segments[i].first
            /\ search.segments[i].first <= search.segments[i].last
    BY <1>3, PartsFacts
  <2> QED
    BY <1>4, <2>1
<1>6. IF restored = Overflow THEN TRUE
      ELSE /\ events' = Normalize(restored) /\ normalized' = TRUE
           /\ part' = part + 1 /\ pass' = 1 /\ UNCHANGED status /\ unpruned' = events'
  BY <1>2 DEF EndSegment
<1>7. Sound(events) /\ GoodSearch /\ Sound(search.baseline)
  BY <1>3, RequestFacts DEF SuffixInvariant, FlagIsTrue, WellPrepared
<1>8. Len(events) + 6 <= Capacity
  BY <1>1, RoomForRestoration
<1> HIDE DEF end
<1>9. LET r == RestoreSegmentControls(events, end)
      IN /\ r # Overflow /\ Sound(r) /\ Len(r) <= Len(events) + 6
         /\ \A t \in Int : t \notin {end + 1, end + 2} => At(r, t) = At(events, t)
  BY <1>5, <1>7, <1>8, RestoreFacts
<1>10. events # Overflow /\ Len(events) <= Len(events) + 6
  BY <1>7, StreamFacts, OverflowAssumption DEF Sound, Streams
<1>11. /\ restored # Overflow /\ Sound(restored) /\ Len(restored) <= Len(events) + 6
       /\ \A t \in Int : t \notin {end + 1, end + 2} => At(restored, t) = At(events, t)
  BY <1>7, <1>9, <1>10
<1> HIDE DEF restored
<1>12. /\ Sound(restored) /\ Len(restored) <= Len(events) + 6
       /\ \A t \in Int : t \notin {end + 1, end + 2} => At(restored, t) = At(events, t)
       /\ events' = Normalize(restored) /\ normalized' = TRUE
       /\ part' = part + 1 /\ pass' = 1 /\ status' = status /\ unpruned' = events'
  BY <1>6, <1>11
<1> QED
  BY <1>1, <1>2, <1>4, <1>5, <1>12 DEF restored, end

\* They fit, and these times are not closed.
LEMMA SuffixInvariantEndSegment ==
    ASSUME SuffixInvariant, EndSegment
    PROVE  SuffixInvariant'
<1> DEFINE end == search.segments[part].last
           r == IF InSelected(end + Tick) THEN events
                ELSE RestoreSegmentControls(events, end)
<1>1. /\ normalized /\ InWork /\ ~Flat /\ part \in selected
      /\ part \in 1..Parts /\ end \in Nat
      /\ Sound(r) /\ Len(r) <= Len(events) + 6
      /\ \A t \in Int : t \notin {end + 1, end + 2} => At(r, t) = At(events, t)
      /\ events' = Normalize(r) /\ normalized' = TRUE
      /\ part' = part + 1 /\ pass' = 1
      /\ search' = search /\ selected' = selected /\ status' = status
  BY EndSegmentFacts, SMTT(40)
<1>2. Requested /\ Requested' /\ Flat' = Flat /\ Parts' = Parts
  BY <1>1 DEF SuffixInvariant, Requested, Flat, Parts
<1>3. \A t \in Int : t \in {end + 1, end + 2} => RestoreTime(t)
  BY <1>1 DEF RestoreTime
<1> HIDE DEF r, end
<1>4. /\ Parts \in Nat /\ Len(search.pipeline) \in Nat /\ part \in Int
      /\ Len(search.baseline) \in Nat /\ PipelineGrowth(search.pipeline) \in Nat
      /\ GrowthUpTo(search.pipeline)[0] = 0
  <2>1. GoodPipeline(search.pipeline) /\ Parts \in Nat
        /\ Len(search.baseline) \in Nat
    BY <1>2, RequestFacts DEF WellPrepared
  <2> QED
    BY <1>1, <1>2, <2>1, PartsFacts, GrowthUpToFacts
<1>5. /\ Sound(Normalize(r)) /\ Canonical(Normalize(r)) /\ Len(Normalize(r)) <= Len(r)
      /\ r \in Streams /\ Normalize(r) \in Streams /\ Len(r) \in Nat
      /\ Len(Normalize(r)) \in Nat
  <2>1. Plausibles(r) /\ r \in Streams
    BY <1>1, SoundIsPlausible DEF Sound
  <2>2. Sound(Normalize(r)) /\ Canonical(Normalize(r)) /\ Len(Normalize(r)) <= Len(r)
    BY <2>1, NormalizeIsSound
  <2>3. Normalize(r) \in Streams
    BY <2>2 DEF Sound
  <2> QED
    BY <2>1, <2>2, <2>3, StreamFacts
<1>6. PlaceInWork'
  BY <1>1, <1>2, <1>4 DEF SuffixInvariant, PlaceInWork, Delivered, InWork
<1>7. FlagIsTrue'
  BY <1>1, <1>5 DEF FlagIsTrue
<1>8. RoomIsLeft'
  <2> DEFINE b == Len(search.baseline)
             h == PipelineGrowth(search.pipeline) + 6
             f == GrowthUpTo(search.pipeline)
             l == Len(events)
             k == Len(Normalize(r))
  <2>1. l + 6 <= b + part * h
    BY <1>1, RoomForRestoration
  <2>2. l \in Nat /\ b \in Nat /\ h \in Nat /\ f[0] = 0 /\ k \in Nat /\ k <= l + 6
    <3>1. l \in Nat
      BY StreamFacts DEF SuffixInvariant, FlagIsTrue, Sound
    <3> HIDE DEF l, k
    <3> QED
      BY <1>1, <1>4, <1>5, <3>1 DEF l, k
  <2>3. k <= b + (part + 1 - 1) * h + f[1 - 1]
    <3> HIDE DEF b, h, f, l, k
    <3>1. part * h \in Int /\ part + 1 - 1 = part /\ 1 - 1 = 0
      BY <1>4, <2>2
    <3> QED
      BY <2>1, <2>2, <3>1
  <2>4. RoomIsLeft' <=>
            Len(Normalize(r)) <= Len(search.baseline)
                + (part + 1 - 1) * (PipelineGrowth(search.pipeline) + 6)
                + GrowthUpTo(search.pipeline)[1 - 1]
    BY <1>1, <1>4 DEF RoomIsLeft
  <2> QED
    BY <2>3, <2>4
<1>9. ClosedIsKept'
  <2>1. \A t \in Int : Closed(t)' <=> Closed(t)
    BY <1>1 DEF Closed, Writable, RestoreTime, InSelected, Flat
  <2>2. Normalize(Normalize(r)) = Normalize(r)
    BY <1>5, NormalizeTwice
  <2>3. ASSUME NEW t \in Int, Closed(t)
        PROVE  At(Normalize(Normalize(r)), t) = At(Normalize(search.baseline), t)
    <3>1. t \notin {end + 1, end + 2}
      BY <1>3, <2>3 DEF Closed
    <3>2. At(r, t) = At(events, t)
      BY <1>1, <3>1
    <3>3. events \in Streams
      BY DEF SuffixInvariant, FlagIsTrue, Sound
    <3>4. At(Normalize(r), t) = At(Normalize(events), t)
      BY <1>5, <3>2, <3>3, NormalizeSameAt
    <3>5. At(Normalize(events), t) = At(Normalize(search.baseline), t)
      BY <2>3 DEF SuffixInvariant, ClosedIsKept
    <3> QED
      BY <2>2, <3>4, <3>5
  <2> QED
    BY <1>1, <2>1, <2>3 DEF ClosedIsKept
<1> QED
  BY <1>2, <1>6, <1>7, <1>8, <1>9 DEF SuffixInvariant

\* After the pipeline, a search without segments sorts a suffix that is not yet.
LEMMA SuffixInvariantEndPipeline ==
    ASSUME SuffixInvariant, EndPipeline
    PROVE  SuffixInvariant'
<1> DEFINE r == IF normalized THEN events ELSE Normalize(events)
<1>1. /\ InWork /\ Flat /\ pass > Len(search.pipeline)
      /\ events' = r /\ normalized' = TRUE /\ part' = part + 1
      /\ search' = search /\ selected' = selected /\ pass' = pass /\ status' = status
  BY DEF EndPipeline
<1>2. Requested /\ Requested' /\ Flat' = Flat /\ Parts' = Parts
  BY <1>1 DEF SuffixInvariant, Requested, Flat, Parts
<1>3. /\ Parts = 1 /\ part \in 1..Parts /\ part = 1 /\ pass \in Int
      /\ Len(search.pipeline) \in Nat
      /\ Len(search.baseline) \in Nat /\ PipelineGrowth(search.pipeline) \in Nat
  BY <1>1, <1>2, RequestFacts, PartsFacts DEF SuffixInvariant, PlaceInWork, InWork
<1>4. Sound(events) /\ events \in Streams /\ Plausibles(events) /\ Len(events) \in Nat
  BY SoundIsPlausible, StreamFacts DEF SuffixInvariant, FlagIsTrue, Sound
<1>5. /\ Sound(Normalize(events)) /\ Canonical(Normalize(events))
      /\ Len(Normalize(events)) <= Len(events)
  BY <1>4, NormalizeIsSound
<1>6. /\ Sound(r) /\ Canonical(r) /\ Len(r) <= Len(events)
      /\ Normalize(r) = Normalize(events)
  <2>1. CASE normalized
    BY <1>4, <2>1 DEF SuffixInvariant, FlagIsTrue
  <2>2. CASE ~normalized
    BY <1>4, <1>5, <2>2, NormalizeTwice
  <2> QED
    BY <2>1, <2>2
<1> HIDE DEF r
<1>7. PlaceInWork'
  BY <1>1, <1>2, <1>3 DEF SuffixInvariant, PlaceInWork, Delivered, InWork
<1>8. FlagIsTrue'
  BY <1>1, <1>6 DEF FlagIsTrue
<1>9. RoomIsLeft'
  <2> DEFINE b == Len(search.baseline)
             h == PipelineGrowth(search.pipeline) + 6
             f == GrowthUpTo(search.pipeline)
             l == Len(events)
             k == Len(r)
  <2>1. l <= b + (part - 1) * h + f[pass - 1]
    BY DEF SuffixInvariant, RoomIsLeft
  <2>2. f[pass - 1] \in Nat
    <3>1. GoodPipeline(search.pipeline) /\ pass - 1 \in 0..Len(search.pipeline)
      BY <1>2, <1>3, RequestFacts DEF SuffixInvariant, PlaceInWork, WellPrepared
    <3> QED
      BY <3>1, GrowthUpToFacts
  <2>3. b \in Nat /\ h \in Nat /\ l \in Nat /\ k \in Nat /\ k <= l
    BY <1>3, <1>4, <1>6, StreamFacts DEF Sound
  <2>4. k <= b + (part + 1 - 1) * h + f[pass - 1]
    <3> HIDE DEF b, h, f, l, k
    <3>1. (part - 1) * h = 0 /\ (part + 1 - 1) * h = h
      BY <1>3, <2>3
    <3> QED
      BY <2>1, <2>2, <2>3, <3>1
  <2>5. RoomIsLeft' <=>
            Len(r) <= Len(search.baseline)
                + (part + 1 - 1) * (PipelineGrowth(search.pipeline) + 6)
                + GrowthUpTo(search.pipeline)[pass - 1]
    BY <1>1, <1>3 DEF RoomIsLeft
  <2> QED
    BY <2>4, <2>5
<1>10. ClosedIsKept'
  <2>1. \A t \in Int : Closed(t)' <=> Closed(t)
    BY <1>1 DEF Closed, Writable, RestoreTime, InSelected, Flat
  <2> QED
    BY <1>1, <1>6, <2>1 DEF SuffixInvariant, ClosedIsKept
<1> QED
  BY <1>2, <1>7, <1>8, <1>9, <1>10 DEF SuffixInvariant

\* Handing the candidate out changes nothing of its suffix.
LEMMA SuffixInvariantDeliver ==
    ASSUME SuffixInvariant, Deliver \/ UNCHANGED vars
    PROVE  SuffixInvariant'
<1>1. /\ search' = search /\ selected' = selected /\ events' = events
      /\ normalized' = normalized /\ part' = part /\ pass' = pass
      /\ status' = status \/ (part > Parts /\ status' \in {"Active", "Unchanged"})
  BY DEF Deliver, vars
<1>2. Requested' /\ Flat' = Flat /\ Parts' = Parts
  BY <1>1 DEF SuffixInvariant, Requested, Flat, Parts
<1>3. PlaceInWork'
  BY <1>1, <1>2 DEF SuffixInvariant, PlaceInWork, Delivered
<1>4. FlagIsTrue'
  BY <1>1, <1>2 DEF SuffixInvariant, FlagIsTrue
<1>5. RoomIsLeft'
  <2>1. part \in Int /\ pass \in Int
    BY RequestFacts, PartsFacts DEF SuffixInvariant, PlaceInWork
  <2> QED
    BY <1>1, <2>1 DEF SuffixInvariant, RoomIsLeft
<1>6. ClosedIsKept'
  BY <1>1 DEF SuffixInvariant, ClosedIsKept, Closed, Writable, RestoreTime, InSelected, Flat
<1> QED
  BY <1>2, <1>3, <1>4, <1>5, <1>6 DEF SuffixInvariant

\* The invariant of the suffix holds of every candidate.
THEOREM SuffixInvariance == Spec => []SuffixInvariant
<1>1. Init => SuffixInvariant
  BY SuffixInvariantInit
<1>2. SuffixInvariant /\ [Next]_vars => SuffixInvariant'
  <2> SUFFICES ASSUME SuffixInvariant, [Next]_vars PROVE SuffixInvariant'
    OBVIOUS
  <2>1. CASE SkipSegment
    BY <2>1, SuffixInvariantSkipSegment
  <2>2. CASE SkipModifier
    BY <2>2, SuffixInvariantSkipModifier
  <2>3. CASE Mutate
    BY <2>3, SuffixInvariantMutate
  <2>4. CASE EndSegment
    BY <2>4, SuffixInvariantEndSegment
  <2>5. CASE EndPipeline
    BY <2>5, SuffixInvariantEndPipeline
  <2>6. CASE Deliver \/ UNCHANGED vars
    BY <2>6, SuffixInvariantDeliver
  <2>7. CASE NextCandidate
    BY <2>7, SuffixInvariantNextCandidate
  <2> QED
    BY <2>1, <2>2, <2>3, <2>4, <2>5, <2>6, <2>7 DEF Next
<1> QED
  BY <1>1, <1>2, PTL DEF Spec

-----------------------------------------------------------------------------
(* What follows from it.                                                   *)

\* The room that the caller computed from the request is enough for every
\* draw of every pipeline: no candidate is refused for its length.
THEOREM CapacityIsEnough == Spec => []CapacitySuffices
<1>1. SuffixInvariant => CapacitySuffices
  BY DEF SuffixInvariant, PlaceInWork, CapacitySuffices
<1> QED
  BY <1>1, SuffixInvariance, PTL

\* A time after the end of the mutable part is closed.
LEMMA AfterTheEnd ==
    ASSUME Requested, selected \subseteq DOMAIN search.segments,
           NEW end \in Int, Ends(search, end), NEW t \in Int, t > end
    PROVE  Closed(t)
<1>1. ~Writable(t)
  <2> SUFFICES ASSUME NEW i \in DOMAIN search.pipeline, t <= search.pipeline[i].last
               PROVE FALSE
    BY DEF Writable
  <2>1. search.pipeline[i].last <= end /\ search.pipeline[i].last \in Int
    BY PartsFacts DEF Ends
  <2> QED
    BY <2>1
<1>2. ~RestoreTime(t)
  <2> SUFFICES ASSUME NEW i \in selected, t - search.segments[i].last \in 1..2 PROVE FALSE
    BY DEF RestoreTime
  <2>1. search.segments[i].last + Tick <= end /\ search.segments[i].last \in Int
    BY PartsFacts DEF Ends
  <2>2. Tick \in Nat /\ Tick > 2
    BY SearchAssumption
  <2> QED
    BY <2>1, <2>2
<1> QED
  BY <1>1, <1>2 DEF Closed

\* Sorting gives no event a time that none had.
LEMMA NormalTimes ==
    ASSUME NEW es \in Streams, NEW k \in DOMAIN Normalize(es)
    PROVE  \E i \in DOMAIN es : Normalize(es)[k].time = es[i].time
<1> DEFINE i == NormalOrder(es)[k]
<1>1. i \in Firsts(es) /\ SameChannel(Normalize(es)[k], es[i])
  BY NormalizeFacts
<1> HIDE DEF i
<1>2. i \in DOMAIN es
  BY <1>1 DEF Firsts
<1> QED
  BY <1>1, <1>2, ChannelFacts

\* The suffix of a canonical candidate lies in the mutable part.
LEMMA SuffixEnds ==
    ASSUME SuffixInvariant, normalized, NEW end \in Int, Ends(search, end),
           NEW i \in DOMAIN events
    PROVE  events[i].time <= end
<1> DEFINE t == events[i].time
           b == Normalize(search.baseline)
<1>1. events \in Streams /\ t \in Int /\ Normalize(events) = events
  <2>1. Sound(events) /\ Canonical(events) /\ events \in Streams
    BY DEF SuffixInvariant, FlagIsTrue, Sound
  <2> QED
    BY <2>1, SoundIsNormal, StreamFacts
<1>2. search.baseline \in Streams /\ b \in Streams
  <2>1. search.baseline \in Streams
    BY RequestFacts DEF SuffixInvariant, WellPrepared, Sound
  <2> QED
    BY <2>1, NormalizeFacts
<1> SUFFICES ASSUME t > end PROVE FALSE
  BY <1>1
<1>3. i \in Moments(events, t)
  BY DEF Moments
<1> HIDE DEF t, b
<1>4. Closed(t)
  BY <1>1, AfterTheEnd DEF SuffixInvariant, PlaceInWork
<1>5. At(events, t) = At(b, t)
  BY <1>1, <1>4 DEF SuffixInvariant, ClosedIsKept, b
<1>6. Kept(events, Moments(events, t)) = Kept(b, Moments(b, t))
      /\ Moments(events, t) \in SUBSET DOMAIN events /\ Moments(b, t) \in SUBSET DOMAIN b
  BY <1>1, <1>2, <1>5, MomentsFacts
<1>7. PICK g : Matches(events, Moments(events, t), b, Moments(b, t), g)
  BY <1>1, <1>2, <1>6, KeptMatches
<1>8. g[i] \in Moments(b, t)
  BY <1>3, <1>7 DEF Matches
<1>9. g[i] \in DOMAIN b /\ b[g[i]].time = t
  BY <1>8 DEF Moments
<1>10. PICK j \in DOMAIN search.baseline : t = search.baseline[j].time
  BY <1>2, <1>9, NormalTimes DEF b
<1>11. search.baseline[j].time <= end
  BY <1>10 DEF Ends
<1> QED
  BY <1>1, <1>10, <1>11

\* Streams that follow one another make one in order.
LEMMA ConcatInOrder ==
    ASSUME NEW a \in Streams, NEW b \in Streams, Sorted(a), Sorted(b),
           \A i \in DOMAIN a, j \in DOMAIN b : a[i].time <= b[j].time
    PROVE  a \o b \in Streams /\ Sorted(a \o b)
<1> DEFINE c == a \o b
           l == Len(a)
<1>1. /\ c \in Streams /\ l \in Nat /\ DOMAIN a = 1..l
      /\ DOMAIN c = 1..(l + Len(b)) /\ Len(b) \in Nat /\ DOMAIN b = 1..Len(b)
      /\ \A i \in DOMAIN a : i \in DOMAIN c /\ c[i] = a[i]
      /\ \A i \in DOMAIN c : i \in DOMAIN a \/ (i > l /\ i - l \in DOMAIN b
                                                /\ c[i] = b[i - l])
  BY ConcatFacts
<1> HIDE DEF c, l
<1>2. ASSUME NEW i \in DOMAIN c, NEW j \in DOMAIN c, i < j
      PROVE  c[i].time <= c[j].time
  <2>1. CASE i \in DOMAIN a /\ j \in DOMAIN a
    BY <1>1, <1>2, <2>1 DEF Sorted
  <2>2. CASE i \in DOMAIN a /\ j \notin DOMAIN a
    BY <1>1, <2>2
  <2>3. CASE i \notin DOMAIN a
    <3>1. i > l /\ i - l \in DOMAIN b /\ c[i] = b[i - l]
      BY <1>1, <2>3
    <3>2. j \notin DOMAIN a
      BY <1>1, <1>2, <3>1
    <3>3. j > l /\ j - l \in DOMAIN b /\ c[j] = b[j - l]
      BY <1>1, <3>2
    <3>4. i - l < j - l
      BY <1>1, <1>2
    <3> QED
      BY <3>1, <3>3, <3>4 DEF Sorted
  <2> QED
    BY <2>1, <2>2, <2>3
<1>3. Sorted(c)
  BY <1>2 DEF Sorted
<1> QED
  BY <1>1, <1>3 DEF c

\* The canonical flag is never set on a suffix out of order or with a channel
\* set twice at a time, no value leaves the range of its channel, and what is
\* delivered is in order together with the inputs before and after it.
THEOREM CandidatesAreCanonical == Spec => []CandidateIsCanonical
<1>1. SuffixInvariant => CandidateIsCanonical
  <2> SUFFICES ASSUME SuffixInvariant PROVE CandidateIsCanonical
    OBVIOUS
  <2>1. Sound(events) /\ (normalized => Canonical(events)) /\ events \in Streams
        /\ \A i \in DOMAIN events : InRange(events[i]) /\ events[i].time >= 0
    BY DEF SuffixInvariant, FlagIsTrue, Sound
  <2>2. ASSUME Delivered
        PROVE  /\ normalized
               /\ Sorted(search.prefix \o Shifted(events, Origin)
                         \o Shifted(search.tail, Origin))
    <3> DEFINE p == search.prefix
               a == Shifted(events, Origin)
               z == Shifted(search.tail, Origin)
    <3>1. normalized
      BY <2>2 DEF SuffixInvariant, PlaceInWork, FlagIsTrue
    <3>2. WellPrepared(search) /\ Origin \in Int
      BY RequestFacts, SearchAssumption DEF SuffixInvariant
    <3>3. /\ p \in Streams /\ Sorted(p) /\ \A i \in DOMAIN p : p[i].time < Origin
          /\ search.tail \in Streams /\ Sorted(search.tail)
      BY <3>2 DEF WellPrepared
    <3>4. PICK end \in Int : Ends(search, end)
      BY <3>2 DEF WellPrepared
    <3>5. Sorted(events)
      BY <2>1, <3>1 DEF Canonical
    <3>6. /\ a \in Streams /\ DOMAIN a = DOMAIN events /\ Sorted(a)
          /\ \A i \in DOMAIN events : a[i].time = events[i].time + Origin
      BY <2>1, <3>2, <3>5, ShiftedFacts
    <3>7. /\ z \in Streams /\ DOMAIN z = DOMAIN search.tail /\ Sorted(z)
          /\ \A i \in DOMAIN search.tail : z[i].time = search.tail[i].time + Origin
      BY <3>2, <3>3, ShiftedFacts
    <3> HIDE DEF p, a, z
    <3>8. \A i \in DOMAIN a : /\ a[i].time \in Int /\ a[i].time >= Origin
                              /\ a[i].time <= end + Origin
      <4> SUFFICES ASSUME NEW i \in DOMAIN a
                   PROVE  /\ a[i].time \in Int /\ a[i].time >= Origin
                          /\ a[i].time <= end + Origin
        OBVIOUS
      <4>1. events[i].time \in Int /\ events[i].time >= 0 /\ i \in DOMAIN events
        BY <2>1, <3>6, StreamFacts
      <4>2. events[i].time <= end
        BY <3>1, <3>4, <4>1, SuffixEnds
      <4>3. a[i].time = events[i].time + Origin
        BY <3>6, <4>1
      <4> QED
        BY <3>2, <4>1, <4>2, <4>3
    <3>9. \A i \in DOMAIN z : z[i].time \in Int /\ z[i].time > end + Origin
      <4> SUFFICES ASSUME NEW i \in DOMAIN z
                   PROVE  z[i].time \in Int /\ z[i].time > end + Origin
        OBVIOUS
      <4>1. search.tail[i].time \in Int /\ search.tail[i].time > end
        BY <3>3, <3>4, <3>7, StreamFacts DEF Ends
      <4>2. z[i].time = search.tail[i].time + Origin
        BY <3>7
      <4> QED
        BY <3>2, <4>1, <4>2
    <3>10. \A i \in DOMAIN p : p[i].time \in Int /\ p[i].time < Origin
      BY <3>3, StreamFacts
    <3>11. p \o a \in Streams /\ Sorted(p \o a)
      <4>1. \A i \in DOMAIN p, j \in DOMAIN a : p[i].time <= a[j].time
        BY <3>2, <3>8, <3>10
      <4> QED
        BY <3>3, <3>6, <4>1, ConcatInOrder
    <3>12. \A i \in DOMAIN (p \o a) : (p \o a)[i].time \in Int
                                      /\ (p \o a)[i].time <= end + Origin
      <4> SUFFICES ASSUME NEW i \in DOMAIN (p \o a)
                   PROVE  (p \o a)[i].time \in Int /\ (p \o a)[i].time <= end + Origin
        OBVIOUS
      <4>1. CASE i \in DOMAIN p
        <5>1. (p \o a)[i] = p[i]
          BY <3>3, <3>6, <4>1, ConcatFacts
        <5>2. p[i].time \in Int /\ p[i].time < Origin
          BY <3>10, <4>1
        <5>3. end >= 0
          <6>1. 1 \in DOMAIN search.pipeline
            BY <3>2 DEF WellPrepared, GoodPipeline
          <6>2. search.pipeline[1].last \in Int /\ search.pipeline[1].first \in Int
                /\ 0 <= search.pipeline[1].first
                /\ search.pipeline[1].first <= search.pipeline[1].last
            BY <6>1, PartsFacts DEF SuffixInvariant
          <6>3. search.pipeline[1].last <= end
            BY <3>4, <6>1 DEF Ends
          <6> QED
            BY <3>4, <6>2, <6>3
        <5> QED
          BY <3>2, <3>4, <5>1, <5>2, <5>3
      <4>2. CASE i \notin DOMAIN p
        <5>1. i - Len(p) \in DOMAIN a /\ (p \o a)[i] = a[i - Len(p)]
          BY <3>3, <3>6, <4>2, ConcatFacts
        <5> QED
          BY <3>8, <5>1
      <4> QED
        BY <4>1, <4>2
    <3>13. Sorted((p \o a) \o z)
      <4>1. \A i \in DOMAIN (p \o a), j \in DOMAIN z : (p \o a)[i].time <= z[j].time
        BY <3>2, <3>9, <3>12
      <4> QED
        BY <3>7, <3>11, <4>1, ConcatInOrder
    <3> QED
      BY <3>1, <3>13 DEF p, a, z
  <2> QED
    BY <2>1, <2>2 DEF CandidateIsCanonical
<1> QED
  BY <1>1, SuffixInvariance, PTL

\* Only what the caller opened is changed: an input at any other time is the
\* baseline's, however often the suffix was sorted, merged or pruned.
THEOREM OnlyOpenTimesChange == Spec => []OnlyWindowsChange
<1>1. SuffixInvariant => OnlyWindowsChange
  <2> SUFFICES ASSUME SuffixInvariant PROVE OnlyWindowsChange
    OBVIOUS
  <2>1. events \in Streams /\ search.baseline \in Streams
    BY RequestFacts DEF SuffixInvariant, FlagIsTrue, WellPrepared, Sound
  <2>2. /\ \A i \in DOMAIN events : events[i].time \in Int
        /\ \A i \in DOMAIN search.baseline : search.baseline[i].time \in Int
    BY <2>1, StreamFacts
  <2> QED
    BY <2>2 DEF SuffixInvariant, ClosedIsKept, Closed, OnlyWindowsChange
<1> QED
  BY <1>1, SuffixInvariance, PTL

-----------------------------------------------------------------------------
(* What the car feels: the last event of each channel.                     *)

\* Streams that have the same events at a time, event by event.
LEMMA SameMoments ==
    ASSUME NEW a \in Streams, NEW b \in Streams, NEW t, At(a, t) = At(b, t),
           NEW i \in DOMAIN a, a[i].time = t
    PROVE  \E j \in DOMAIN b : b[j] = a[i]
<1>1. /\ Moments(a, t) \in SUBSET DOMAIN a /\ Moments(b, t) \in SUBSET DOMAIN b
      /\ Kept(a, Moments(a, t)) = Kept(b, Moments(b, t))
  BY MomentsFacts
<1>2. PICK g : Matches(a, Moments(a, t), b, Moments(b, t), g)
  BY <1>1, KeptMatches
<1>3. i \in Moments(a, t)
  BY DEF Moments
<1> QED
  BY <1>1, <1>2, <1>3 DEF Matches

\* A canonical stream sets a channel at most once at a time.
LEMMA OnceAtATime ==
    ASSUME NEW es \in Streams, Canonical(es), NEW i \in DOMAIN es, NEW j \in DOMAIN es,
           SameChannel(es[i], es[j])
    PROVE  es[i] = es[j]
  BY DEF Canonical

\* The controls at a time are those of the last events.
LEMMA ControlsByLast ==
    ASSUME NEW es \in Streams, Canonical(es), NEW initial \in Controls,
           NEW origin \in Int, NEW t \in Int, NEW c \in Actions
    PROVE  LET s == ControlsAt(es, initial, origin, t)
           IN /\ s \in Controls
              /\ NotSet(es, c, t) => s.value[c] = initial.value[c] /\ s.time[c] = initial.time[c]
              /\ \A e : LastOf(es, c, t, e) =>
                    s.value[c] = e.value /\ s.time[c] = origin + e.time
              /\ NotSet(es, c, t) \/ \E e \in Events : LastOf(es, c, t, e)
<1> DEFINE s == ControlsAt(es, initial, origin, t)
<1>1. s \in Controls
  BY ControlsFacts
<1>2. CASE NotSet(es, c, t)
  <2>1. \A i \in DOMAIN es : ~SetBy(es, c, t, i)
    <3> SUFFICES ASSUME NEW i \in DOMAIN es, SetBy(es, c, t, i) PROVE FALSE
      OBVIOUS
    <3>1. es[i].time > t /\ es[i].time <= t /\ es[i].time \in Int
      BY <1>2, StreamFacts DEF NotSet, SetBy
    <3> QED
      BY <3>1
  <2>2. s.value[c] = initial.value[c] /\ s.time[c] = initial.time[c]
    BY <2>1, ControlsFacts
  <2>3. ASSUME NEW e, LastOf(es, c, t, e) PROVE FALSE
    <3>1. PICK i \in DOMAIN es : es[i] = e
      BY <2>3 DEF LastOf
    <3>2. es[i].time > t /\ es[i].time <= t /\ es[i].time \in Int
      BY <1>2, <2>3, <3>1, StreamFacts DEF NotSet, LastOf
    <3> QED
      BY <3>2
  <2> QED
    BY <1>1, <1>2, <2>2, <2>3
<1>3. CASE ~NotSet(es, c, t)
  <2>1. PICK i \in DOMAIN es : /\ SetBy(es, c, t, i)
                               /\ s.value[c] = es[i].value
                               /\ s.time[c] = origin + es[i].time
    BY <1>3, ControlsFacts
  <2>2. /\ es[i] \in Events /\ es[i].action = c /\ es[i].time <= t
        /\ \A j \in DOMAIN es : es[j].action = c /\ es[j].time <= t => j <= i
    BY <2>1, StreamFacts DEF SetBy
  <2>3. ASSUME NEW j \in DOMAIN es, es[j].action = c, es[j].time <= t
        PROVE  es[j].time <= es[i].time
    <3>1. j <= i /\ i \in Int /\ j \in Int /\ es[i].time \in Int
      BY <2>2, <2>3, StreamFacts
    <3>2. CASE j = i
      BY <3>1, <3>2
    <3>3. CASE j < i
      BY <3>3 DEF Canonical, Sorted
    <3> QED
      BY <3>1, <3>2, <3>3
  <2>4. LastOf(es, c, t, es[i])
    BY <2>2, <2>3 DEF LastOf
  <2>5. ASSUME NEW e, LastOf(es, c, t, e) PROVE e = es[i]
    <3>1. PICK j \in DOMAIN es : es[j] = e
      BY <2>5 DEF LastOf
    <3>2. es[j].action = c /\ es[j].time <= t /\ es[i].time <= es[j].time
      BY <2>2, <2>5, <3>1 DEF LastOf
    <3>3. es[j].time <= es[i].time /\ es[j].time \in Int /\ es[i].time \in Int
      BY <2>3, <3>2, StreamFacts
    <3>4. SameChannel(es[j], es[i])
      BY <2>2, <3>2, <3>3 DEF SameChannel
    <3> QED
      BY <3>1, <3>4, OnceAtATime
  <2> QED
    BY <1>1, <1>3, <2>1, <2>2, <2>4, <2>5
<1> QED
  BY <1>2, <1>3

\* A channel that is not set is as it was at first, ...
LEMMA ControlsNotSet ==
    ASSUME NEW es \in Streams, Canonical(es), NEW initial \in Controls,
           NEW origin \in Int, NEW t \in Int, NEW c \in Actions, NotSet(es, c, t)
    PROVE  /\ ControlsAt(es, initial, origin, t).value[c] = initial.value[c]
           /\ ControlsAt(es, initial, origin, t).time[c] = initial.time[c]
  BY ControlsByLast

\* ... another one as its last event set it.
LEMMA ControlsSetLast ==
    ASSUME NEW es \in Streams, Canonical(es), NEW initial \in Controls,
           NEW origin \in Int, NEW t \in Int, NEW c \in Actions, NEW e, LastOf(es, c, t, e)
    PROVE  /\ ControlsAt(es, initial, origin, t).value[c] = e.value
           /\ ControlsAt(es, initial, origin, t).time[c] = origin + e.time
  BY ControlsByLast

\* A last event of the stretch is that of both.
LEMMA LastInCommon ==
    ASSUME NEW a \in Streams, NEW b \in Streams, NEW s \in Int, NEW t \in Int,
           Agree(a, b, s, t), NEW c \in Actions, NEW e, LastOf(a, c, t, e), e.time > s
    PROVE  LastOf(b, c, t, e)
<1>1. PICK i \in DOMAIN a : a[i] = e
  BY DEF LastOf
<1>2. e.time \in Int /\ e.action = c /\ e.time <= t
  BY <1>1, StreamFacts DEF LastOf
<1>3. PICK j \in DOMAIN b : b[j] = e
  BY <1>1, <1>2, SameMoments DEF Agree
<1>4. ASSUME NEW k \in DOMAIN b, b[k].action = c, b[k].time <= t PROVE b[k].time <= e.time
  <2> SUFFICES ASSUME b[k].time > e.time PROVE FALSE
    BY <1>2, StreamFacts
  <2>1. b[k].time \in Int /\ s < b[k].time
    BY <1>2, StreamFacts
  <2>2. At(b, b[k].time) = At(a, b[k].time)
    BY <1>4, <2>1 DEF Agree
  <2>3. PICK l \in DOMAIN a : a[l] = b[k]
    BY <2>2, SameMoments
  <2>4. a[l].time <= e.time
    BY <1>4, <2>3 DEF LastOf
  <2> QED
    BY <1>2, <2>1, <2>3, <2>4
<1> QED
  BY <1>2, <1>3, <1>4 DEF LastOf

\* A channel that is not set on a stretch keeps what it had.
LEMMA QuietChannel ==
    ASSUME NEW es \in Streams, Canonical(es), NEW initial \in Controls, NEW origin \in Int,
           NEW s \in Int, NEW t \in Int, s <= t, NEW c \in Actions,
           \A i \in DOMAIN es : es[i].action = c /\ es[i].time <= t => es[i].time <= s
    PROVE  LET p == ControlsAt(es, initial, origin, s)
               q == ControlsAt(es, initial, origin, t)
           IN q.value[c] = p.value[c] /\ q.time[c] = p.time[c]
<1> DEFINE p == ControlsAt(es, initial, origin, s)
           q == ControlsAt(es, initial, origin, t)
<1>1. \A i \in DOMAIN es : es[i].time \in Int
  BY StreamFacts
<1>2. CASE NotSet(es, c, t)
  <2>1. NotSet(es, c, s)
    BY <1>1, <1>2 DEF NotSet
  <2> QED
    BY <1>2, <2>1, ControlsByLast
<1>3. CASE ~NotSet(es, c, t)
  <2>1. PICK e \in Events : LastOf(es, c, t, e)
    BY <1>3, ControlsByLast
  <2>2. e.time <= s
    BY <2>1 DEF LastOf
  <2>3. LastOf(es, c, s, e)
    BY <1>1, <2>1, <2>2 DEF LastOf
  <2> QED
    BY <2>1, <2>3, ControlsByLast
<1> QED
  BY <1>2, <1>3

\* Either it was set on the stretch or not.
LEMMA ChannelAfter ==
    ASSUME NEW a \in Streams, Canonical(a), NEW b \in Streams, Canonical(b),
           NEW initial \in Controls, NEW origin \in Int,
           NEW s \in Int, NEW t \in Int, s <= t, Agree(a, b, s, t), NEW c \in Actions
    PROVE  LET as == ControlsAt(a, initial, origin, s)
               at == ControlsAt(a, initial, origin, t)
               bs == ControlsAt(b, initial, origin, s)
               bt == ControlsAt(b, initial, origin, t)
           IN \/ AsBefore(at, bt, c) /\ at.time[c] > origin + s
              \/ AsBefore(as, at, c) /\ AsBefore(bs, bt, c)
<1> DEFINE as == ControlsAt(a, initial, origin, s)
           at == ControlsAt(a, initial, origin, t)
           bs == ControlsAt(b, initial, origin, s)
           bt == ControlsAt(b, initial, origin, t)
<1>1. \A u \in Int : s < u /\ u <= t => At(b, u) = At(a, u)
  BY DEF Agree
<1>2. ASSUME NEW e \in Events, LastOf(a, c, t, e), e.time > s
      PROVE  AsBefore(at, bt, c) /\ at.time[c] > origin + s
  <2>1. LastOf(b, c, t, e)
    BY <1>2, LastInCommon
  <2>2. at.value[c] = e.value /\ at.time[c] = origin + e.time
    BY <1>2, ControlsByLast
  <2>3. bt.value[c] = e.value /\ bt.time[c] = origin + e.time
    BY <2>1, ControlsByLast
  <2>4. e.time \in Int
    BY DEF Events
  <2> QED
    BY <1>2, <2>2, <2>3, <2>4 DEF AsBefore
<1>3. CASE \A i \in DOMAIN a : a[i].action = c /\ a[i].time <= t => a[i].time <= s
  <2>1. ASSUME NEW j \in DOMAIN b, b[j].action = c, b[j].time <= t PROVE b[j].time <= s
    <3> SUFFICES ASSUME b[j].time > s PROVE FALSE
      BY StreamFacts
    <3>1. b[j].time \in Int
      BY StreamFacts
    <3>2. PICK i \in DOMAIN a : a[i] = b[j]
      BY <1>1, <2>1, <3>1, SameMoments
    <3>3. a[i].time <= s /\ a[i].time > s
      BY <1>3, <2>1, <3>2
    <3> QED
      BY <3>1, <3>2, <3>3
  <2>2. AsBefore(as, at, c)
    BY <1>3, QuietChannel DEF AsBefore
  <2>3. AsBefore(bs, bt, c)
    BY <2>1, QuietChannel DEF AsBefore
  <2> QED
    BY <2>2, <2>3
<1>4. CASE ~\A i \in DOMAIN a : a[i].action = c /\ a[i].time <= t => a[i].time <= s
  <2>1. PICK i \in DOMAIN a : a[i].action = c /\ a[i].time <= t /\ a[i].time > s
    BY <1>4, StreamFacts
  <2>2. ~NotSet(a, c, t)
    BY <2>1, StreamFacts DEF NotSet
  <2>3. PICK e \in Events : LastOf(a, c, t, e)
    BY <2>2, ControlsByLast
  <2>4. e.time \in Int /\ a[i].time \in Int /\ a[i].time <= e.time
    BY <2>1, <2>3, StreamFacts DEF Events, LastOf
  <2> QED
    BY <1>2, <2>1, <2>3, <2>4
<1> QED
  BY <1>3, <1>4

\* Controls with the same channels are the same.
LEMMA SameControls ==
    ASSUME NEW p \in Controls, NEW q \in Controls, \A c \in Actions : AsBefore(p, q, c)
    PROVE  p = q
<1>1. p.value \in [Actions -> Int] /\ q.value \in [Actions -> Int]
      /\ p.time \in [Actions -> Int] /\ q.time \in [Actions -> Int]
  BY DEF Controls
<1>2. p.value = q.value
  BY <1>1 DEF AsBefore
<1>3. p.time = q.time
  BY <1>1 DEF AsBefore
<1> QED
  BY <1>2, <1>3 DEF Controls

\* Streams that agree up to a time give the same controls there.
LEMMA AgreeingControls ==
    ASSUME NEW a, Sound(a), Canonical(a), NEW b, Sound(b), Canonical(b),
           NEW initial \in Controls, NEW origin \in Int, NEW t \in Int, t >= 0,
           \A u \in Int : u <= t => At(a, u) = At(b, u)
    PROVE  ControlsAt(a, initial, origin, t) = ControlsAt(b, initial, origin, t)
<1>1. a \in Streams /\ b \in Streams /\ Agree(a, b, -1, t)
  BY DEF Sound, Agree
<1>2. \A c \in Actions : NotSet(a, c, -1) /\ NotSet(b, c, -1)
  <2>1. /\ \A i \in DOMAIN a : a[i].time > -1
        /\ \A i \in DOMAIN b : b[i].time > -1
    BY <1>1, StreamFacts DEF Sound
  <2> QED
    BY <2>1 DEF NotSet
<1> DEFINE at == ControlsAt(a, initial, origin, t)
           bt == ControlsAt(b, initial, origin, t)
           as == ControlsAt(a, initial, origin, -1)
           bs == ControlsAt(b, initial, origin, -1)
<1>3. at \in Controls /\ bt \in Controls
  BY <1>1, ControlsFacts
<1>4. ASSUME NEW c \in Actions PROVE AsBefore(at, bt, c)
  <2>1. \/ AsBefore(at, bt, c)
        \/ AsBefore(as, at, c) /\ AsBefore(bs, bt, c)
    <3>1. -1 \in Int /\ -1 <= t
      OBVIOUS
    <3> QED
      BY <1>1, <3>1, ChannelAfter
  <2>2. as.value[c] = initial.value[c] /\ as.time[c] = initial.time[c]
    BY <1>1, <1>2, ControlsByLast
  <2>3. bs.value[c] = initial.value[c] /\ bs.time[c] = initial.time[c]
    BY <1>1, <1>2, ControlsByLast
  <2> QED
    BY <2>1, <2>2, <2>3 DEF AsBefore
<1> QED
  BY <1>3, <1>4, SameControls

-----------------------------------------------------------------------------
(* Which of the analog and the digital channels has priority.              *)

\* The channels are numbers.
LEMMA ChannelNumbers ==
    ASSUME NEW s \in Controls, NEW c \in Actions
    PROVE  s.value[c] \in Int /\ s.time[c] \in Int
  BY DEF Controls

\* The priority of the steering, ...
LEMMA SteeringPriority ==
    ASSUME NEW s \in Controls
    PROVE  AnalogSteeringWins(s) <=> Wins(s, Steer, SteerLeft, SteerRight, SteeringTie(s))
<1>1. /\ s.time[Steer] \in Int /\ s.time[SteerLeft] \in Int /\ s.time[SteerRight] \in Int
  BY ChannelNumbers DEF Actions, Steer, SteerLeft, SteerRight
<1>2. Later(s, SteerLeft, SteerRight) =
        IF s.time[SteerLeft] >= s.time[SteerRight] THEN s.time[SteerLeft]
        ELSE s.time[SteerRight]
  BY <1>1, MaxOfTwo DEF Later
<1>3. AnalogSteeringWins(s) <=>
        \/ s.time[Steer] > Later(s, SteerLeft, SteerRight)
        \/ s.time[Steer] = Later(s, SteerLeft, SteerRight) /\ SteeringTie(s)
  BY DEF AnalogSteeringWins, SteeringTie
<1> QED
  BY <1>1, <1>2, <1>3 DEF Wins, Reaches, Passes

\* ... and of the gas.
LEMMA GasPriority ==
    ASSUME NEW s \in Controls
    PROVE  AnalogGasWins(s) <=> Wins(s, Gas, Accelerate, Brake, GasTie(s))
<1>1. /\ s.time[Gas] \in Int /\ s.time[Accelerate] \in Int /\ s.time[Brake] \in Int
  BY ChannelNumbers DEF Actions, Gas, Accelerate, Brake
<1>2. Later(s, Accelerate, Brake) =
        IF s.time[Accelerate] >= s.time[Brake] THEN s.time[Accelerate] ELSE s.time[Brake]
  BY <1>1, MaxOfTwo DEF Later
<1>3. AnalogGasWins(s) <=>
        \/ s.time[Gas] > Later(s, Accelerate, Brake)
        \/ s.time[Gas] = Later(s, Accelerate, Brake) /\ GasTie(s)
  BY DEF AnalogGasWins, GasTie
<1> QED
  BY <1>1, <1>2, <1>3 DEF Wins, Reaches, Passes

\* Every channel is of one of the two.
LEMMA Groups ==
    /\ SteeringGroup \cup GasGroup = Actions /\ SteeringGroup \cap GasGroup = {}
    /\ Steer \in SteeringGroup /\ SteerLeft \in SteeringGroup /\ SteerRight \in SteeringGroup
    /\ Gas \in GasGroup /\ Accelerate \in GasGroup /\ Brake \in GasGroup
    /\ Digital = {SteerLeft, SteerRight} /\ Digital \subseteq SteeringGroup
    /\ Steer # SteerLeft /\ Steer # SteerRight /\ SteerLeft # SteerRight
    /\ Gas # Accelerate /\ Gas # Brake /\ Accelerate # Brake
  BY DEF SteeringGroup, GasGroup, Actions, Steer, SteerLeft, SteerRight, Gas, Accelerate,
         Brake, Digital

\* The steering follows from the values and the priority, ...
LEMMA SteeringByValues ==
    ASSUME NEW p, NEW q, SameValues(p, q, SteeringGroup),
           AnalogSteeringWins(p) <=> AnalogSteeringWins(q)
    PROVE  Steering(p) = Steering(q)
<1>1. /\ q.value[Steer] = p.value[Steer] /\ q.value[SteerLeft] = p.value[SteerLeft]
      /\ q.value[SteerRight] = p.value[SteerRight]
  BY Groups DEF SameValues
<1>2. CASE AnalogSteeringWins(p)
  BY <1>1, <1>2 DEF Steering
<1>3. CASE ~AnalogSteeringWins(p)
  BY <1>1, <1>3 DEF Steering
<1> QED
  BY <1>2, <1>3

\* ... and so do the gates.
LEMMA GatesByValues ==
    ASSUME NEW p, NEW q, SameValues(p, q, GasGroup),
           AnalogGasWins(p) <=> AnalogGasWins(q)
    PROVE  Gates(p) = Gates(q)
<1>1. /\ q.value[Gas] = p.value[Gas] /\ q.value[Accelerate] = p.value[Accelerate]
      /\ q.value[Brake] = p.value[Brake]
  BY Groups DEF SameValues
<1>2. CASE AnalogGasWins(p)
  BY <1>1, <1>2 DEF Gates
<1>3. CASE ~AnalogGasWins(p)
  BY <1>1, <1>3 DEF Gates
<1> QED
  BY <1>2, <1>3

\* Ties are settled by values.
LEMMA TiesByValues ==
    ASSUME NEW p, NEW q
    PROVE  /\ SameValues(p, q, SteeringGroup) => (SteeringTie(p) <=> SteeringTie(q))
           /\ SameValues(p, q, GasGroup) => (GasTie(p) <=> GasTie(q))
  BY Groups DEF SameValues, SteeringTie, GasTie

\* The steering is that of controls that are the same in the group, ...
LEMMA SteeringUnchanged ==
    ASSUME NEW p \in Controls, NEW q \in Controls, \A c \in SteeringGroup : AsBefore(p, q, c)
    PROVE  Steering(p) = Steering(q)
<1>1. SameValues(p, q, SteeringGroup)
  BY DEF AsBefore, SameValues
<1>2. SteeringTie(p) <=> SteeringTie(q)
  BY <1>1, TiesByValues
<1>3. Wins(p, Steer, SteerLeft, SteerRight, SteeringTie(p))
        <=> Wins(q, Steer, SteerLeft, SteerRight, SteeringTie(q))
  BY <1>2, Groups DEF Wins, Reaches, Passes, AsBefore
<1> QED
  BY <1>1, <1>3, SteeringPriority, SteeringByValues

\* ... and the gates too.
LEMMA GatesUnchanged ==
    ASSUME NEW p \in Controls, NEW q \in Controls, \A c \in GasGroup : AsBefore(p, q, c)
    PROVE  Gates(p) = Gates(q)
<1>1. SameValues(p, q, GasGroup)
  BY DEF AsBefore, SameValues
<1>2. GasTie(p) <=> GasTie(q)
  BY <1>1, TiesByValues
<1>3. Wins(p, Gas, Accelerate, Brake, GasTie(p)) <=> Wins(q, Gas, Accelerate, Brake, GasTie(q))
  BY <1>2, Groups DEF Wins, Reaches, Passes, AsBefore
<1> QED
  BY <1>1, <1>3, GasPriority, GatesByValues

\* Numbers that are the same where they are large keep their order.
LEMMA SameOrder ==
    ASSUME NEW n \in Int, NEW a \in Int, NEW f \in Int, NEW s \in Int,
           NEW x \in Int, NEW y \in Int, NEW z \in Int,
           (x = a /\ a > n) \/ (a <= n /\ x <= n),
           (y = f /\ f > n) \/ (f <= n /\ y <= n),
           (z = s /\ s > n) \/ (s <= n /\ z <= n)
    PROVE  \/ /\ a >= f /\ a >= s <=> x >= y /\ x >= z
              /\ a > f /\ a > s <=> x > y /\ x > z
           \/ ~(a > n) /\ ~(f > n) /\ ~(s > n)
  OBVIOUS

\* Unless all is as it was, the priority is the same.
LEMMA PriorityFollows ==
    ASSUME NEW as, NEW bs, NEW at, NEW bt, NEW time, NEW analog \in Actions,
           NEW first \in Actions, NEW second \in Actions,
           Follow(as, bs, at, bt, time, {analog, first, second})
    PROVE  \/ SamePriority(at, bt, analog, first, second)
           \/ \A c \in {analog, first, second} : AsBefore(as, at, c) /\ AsBefore(bs, bt, c)
<1> DEFINE a == at.time[analog]
           f == at.time[first]
           s == at.time[second]
           x == bt.time[analog]
           y == bt.time[first]
           z == bt.time[second]
<1>1. /\ a \in Int /\ f \in Int /\ s \in Int /\ x \in Int /\ y \in Int /\ z \in Int
      /\ time \in Int
  <2>1. at \in Controls /\ bt \in Controls /\ time \in Int
    BY DEF Follow
  <2> QED
    BY <2>1, ChannelNumbers
<1>2. \A c \in {analog, first, second} :
        \/ bt.time[c] = at.time[c] /\ at.time[c] > time
        \/ /\ AsBefore(as, at, c) /\ AsBefore(bs, bt, c)
           /\ at.time[c] <= time /\ bt.time[c] <= time
  BY DEF Follow, AsBefore
<1>3. /\ (x = a /\ a > time) \/ (a <= time /\ x <= time)
      /\ a > time \/ (AsBefore(as, at, analog) /\ AsBefore(bs, bt, analog))
  BY <1>2
<1>4. /\ (y = f /\ f > time) \/ (f <= time /\ y <= time)
      /\ f > time \/ (AsBefore(as, at, first) /\ AsBefore(bs, bt, first))
  BY <1>2
<1>5. /\ (z = s /\ s > time) \/ (s <= time /\ z <= time)
      /\ s > time \/ (AsBefore(as, at, second) /\ AsBefore(bs, bt, second))
  BY <1>2
<1> HIDE DEF a, f, s, x, y, z
<1>6. \/ /\ a >= f /\ a >= s <=> x >= y /\ x >= z
         /\ a > f /\ a > s <=> x > y /\ x > z
      \/ ~(a > time) /\ ~(f > time) /\ ~(s > time)
  BY <1>1, <1>3, <1>4, <1>5, SameOrder
<1>7. CASE ~(a > time) /\ ~(f > time) /\ ~(s > time)
  BY <1>3, <1>4, <1>5, <1>7
<1>8. CASE /\ a >= f /\ a >= s <=> x >= y /\ x >= z
           /\ a > f /\ a > s <=> x > y /\ x > z
  BY <1>8 DEF SamePriority, Reaches, Passes, a, f, s, x, y, z
<1> QED
  BY <1>6, <1>7, <1>8

\* The same values and controls before, the same done to both: the same after.
LEMMA ControlsFollow ==
    ASSUME NEW as, NEW bs, NEW at, NEW bt, NEW time, Follow(as, bs, at, bt, time, Actions),
           SameValues(as, bs, Actions), ControlsFromState(as) = ControlsFromState(bs)
    PROVE  ControlsFromState(at) = ControlsFromState(bt)
<1>1. /\ Steering(as) = Steering(bs) /\ Gates(as) = Gates(bs)
      /\ as \in Controls /\ bs \in Controls /\ at \in Controls /\ bt \in Controls
  BY DEF ControlsFromState, Follow
<1>2. \A c \in Actions : at.value[c] = bt.value[c]
  BY DEF Follow, SameValues, AsBefore
<1>3. SameValues(at, bt, SteeringGroup) /\ SameValues(at, bt, GasGroup)
  BY <1>2, Groups DEF SameValues
<1>4. Steering(at) = Steering(bt)
  <2>1. {Steer, SteerLeft, SteerRight} = SteeringGroup
    BY DEF SteeringGroup
  <2>2. Follow(as, bs, at, bt, time, {Steer, SteerLeft, SteerRight})
    BY <2>1, Groups DEF Follow
  <2>3. SteeringTie(at) <=> SteeringTie(bt)
    BY <1>3, TiesByValues
  <2>4. Steer \in Actions /\ SteerLeft \in Actions /\ SteerRight \in Actions
    BY Groups
  <2>5. \/ SamePriority(at, bt, Steer, SteerLeft, SteerRight)
        \/ \A c \in SteeringGroup : AsBefore(as, at, c) /\ AsBefore(bs, bt, c)
    <3>1. \/ SamePriority(at, bt, Steer, SteerLeft, SteerRight)
          \/ \A c \in {Steer, SteerLeft, SteerRight} :
                AsBefore(as, at, c) /\ AsBefore(bs, bt, c)
      BY <2>2, <2>4, PriorityFollows
    <3> QED
      BY <2>1, <3>1
  <2>6. CASE SamePriority(at, bt, Steer, SteerLeft, SteerRight)
    <3>1. Wins(at, Steer, SteerLeft, SteerRight, SteeringTie(at))
            <=> Wins(bt, Steer, SteerLeft, SteerRight, SteeringTie(bt))
      BY <2>3, <2>6 DEF Wins, SamePriority
    <3> QED
      BY <1>1, <1>3, <3>1, SteeringPriority, SteeringByValues
  <2>7. CASE \A c \in SteeringGroup : AsBefore(as, at, c) /\ AsBefore(bs, bt, c)
    BY <1>1, <2>7, SteeringUnchanged
  <2> QED
    BY <2>5, <2>6, <2>7
<1>5. Gates(at) = Gates(bt)
  <2>1. {Gas, Accelerate, Brake} = GasGroup
    BY DEF GasGroup
  <2>2. Follow(as, bs, at, bt, time, {Gas, Accelerate, Brake})
    BY <2>1, Groups DEF Follow
  <2>3. GasTie(at) <=> GasTie(bt)
    BY <1>3, TiesByValues
  <2>4. Gas \in Actions /\ Accelerate \in Actions /\ Brake \in Actions
    BY Groups
  <2>5. \/ SamePriority(at, bt, Gas, Accelerate, Brake)
        \/ \A c \in GasGroup : AsBefore(as, at, c) /\ AsBefore(bs, bt, c)
    <3>1. \/ SamePriority(at, bt, Gas, Accelerate, Brake)
          \/ \A c \in {Gas, Accelerate, Brake} :
                AsBefore(as, at, c) /\ AsBefore(bs, bt, c)
      BY <2>2, <2>4, PriorityFollows
    <3> QED
      BY <2>1, <3>1
  <2>6. CASE SamePriority(at, bt, Gas, Accelerate, Brake)
    <3>1. Wins(at, Gas, Accelerate, Brake, GasTie(at))
            <=> Wins(bt, Gas, Accelerate, Brake, GasTie(bt))
      BY <2>3, <2>6 DEF Wins, SamePriority
    <3> QED
      BY <1>1, <1>3, <3>1, GasPriority, GatesByValues
  <2>7. CASE \A c \in GasGroup : AsBefore(as, at, c) /\ AsBefore(bs, bt, c)
    BY <1>1, <2>7, GatesUnchanged
  <2> QED
    BY <2>5, <2>6, <2>7
<1> QED
  BY <1>4, <1>5 DEF ControlsFromState

-----------------------------------------------------------------------------
(* After a stretch of time on which two streams agree.                     *)

\* A channel was last set at a time that has come.
LEMMA SetByNow ==
    ASSUME NEW es \in Streams, Canonical(es), NEW initial \in Controls,
           NEW origin \in Int, NEW t \in Int, NEW c \in Actions,
           initial.time[c] <= origin + t
    PROVE  ControlsAt(es, initial, origin, t).time[c] <= origin + t
<1>1. CASE NotSet(es, c, t)
  BY <1>1, ControlsByLast
<1>2. CASE ~NotSet(es, c, t)
  <2>1. PICK e \in Events : LastOf(es, c, t, e)
    BY <1>2, ControlsByLast
  <2>2. e.time \in Int /\ e.time <= t
    BY <2>1 DEF LastOf, Events
  <2>3. ControlsAt(es, initial, origin, t).time[c] = origin + e.time
    BY <2>1, ControlsByLast
  <2> QED
    BY <2>2, <2>3
<1> QED
  BY <1>1, <1>2

\* Values that were the same are the same still, ...
LEMMA ValuesAfter ==
    ASSUME NEW a \in Streams, Canonical(a), NEW b \in Streams, Canonical(b),
           NEW initial \in Controls, NEW origin \in Int,
           NEW s \in Int, NEW t \in Int, s <= t, Agree(a, b, s, t),
           ControlsAt(a, initial, origin, s).value = ControlsAt(b, initial, origin, s).value
    PROVE  ControlsAt(a, initial, origin, t).value = ControlsAt(b, initial, origin, t).value
<1> DEFINE as == ControlsAt(a, initial, origin, s)
           at == ControlsAt(a, initial, origin, t)
           bs == ControlsAt(b, initial, origin, s)
           bt == ControlsAt(b, initial, origin, t)
<1>1. at \in Controls /\ bt \in Controls /\ as.value = bs.value
  BY ControlsFacts
<1>2. ASSUME NEW c \in Actions PROVE at.value[c] = bt.value[c]
  <2>1. \/ AsBefore(at, bt, c) /\ at.time[c] > origin + s
        \/ AsBefore(as, at, c) /\ AsBefore(bs, bt, c)
    BY ChannelAfter
  <2> HIDE DEF as, bs, at, bt
  <2> QED
    BY <1>1, <2>1 DEF AsBefore
<1>3. at.value \in [Actions -> Int] /\ bt.value \in [Actions -> Int]
  BY <1>1 DEF Controls
<1> HIDE DEF at, bt
<1>4. at.value = bt.value
  BY <1>2, <1>3
<1> QED
  BY <1>4 DEF at, bt

\* ... and so is what the car feels.
LEMMA ControlsAfterStretch ==
    ASSUME NEW a \in Streams, Canonical(a), NEW b \in Streams, Canonical(b),
           NEW initial \in Controls, NEW origin \in Int,
           NEW s \in Int, NEW t \in Int, s <= t, Agree(a, b, s, t),
           \A c \in Actions : initial.time[c] <= origin + s,
           ControlsAt(a, initial, origin, s).value = ControlsAt(b, initial, origin, s).value,
           ControlsFromState(ControlsAt(a, initial, origin, s))
                = ControlsFromState(ControlsAt(b, initial, origin, s))
    PROVE  ControlsFromState(ControlsAt(a, initial, origin, t))
                = ControlsFromState(ControlsAt(b, initial, origin, t))
<1> DEFINE p == ControlsAt(a, initial, origin, s)
           pt == ControlsAt(a, initial, origin, t)
           q == ControlsAt(b, initial, origin, s)
           qt == ControlsAt(b, initial, origin, t)
           edge == origin + s
<1>1. /\ p \in Controls /\ q \in Controls /\ pt \in Controls /\ qt \in Controls
      /\ edge \in Int
  BY ControlsFacts
<1>2. \A c \in Actions : p.time[c] <= edge /\ q.time[c] <= edge
  BY SetByNow
<1>3. \A c \in Actions : \/ AsBefore(pt, qt, c) /\ pt.time[c] > edge
                         \/ AsBefore(p, pt, c) /\ AsBefore(q, qt, c)
  BY ChannelAfter
<1>4. p.value = q.value /\ ControlsFromState(p) = ControlsFromState(q)
  OBVIOUS
<1> HIDE DEF p, q, pt, qt, edge
<1>5. Follow(p, q, pt, qt, edge, Actions)
  BY <1>1, <1>2, <1>3 DEF Follow
<1>6. SameValues(p, q, Actions)
  BY <1>4 DEF SameValues
<1>7. ControlsFromState(pt) = ControlsFromState(qt)
  BY <1>4, <1>5, <1>6, ControlsFollow
<1> QED
  BY <1>7 DEF pt, qt

-----------------------------------------------------------------------------
(* Times counted from the boundary, and race times.                        *)

\* The origin changes the times of the controls and nothing else.
LEMMA ValuesOfOrigins ==
    ASSUME NEW es \in Streams, Canonical(es), NEW initial \in Controls, NEW t \in Int,
           NEW c \in Actions
    PROVE  ControlsAt(es, initial, Origin, t).value[c] = ControlsAt(es, initial, 0, t).value[c]
<1> DEFINE V(origin) == ControlsAt(es, initial, origin, t).value[c]
<1>1. ASSUME NEW origin \in Int
      PROVE  /\ NotSet(es, c, t) => V(origin) = initial.value[c]
             /\ \A e : LastOf(es, c, t, e) => V(origin) = e.value
             /\ NotSet(es, c, t) \/ \E e \in Events : LastOf(es, c, t, e)
  BY ControlsByLast
<1>2. Origin \in Int /\ 0 \in Int
  BY SearchAssumption
<1> HIDE DEF V
<1>3. V(Origin) = V(0)
  <2>1. CASE NotSet(es, c, t)
    <3>1. V(Origin) = initial.value[c]
      BY <1>1, <1>2, <2>1
    <3>2. V(0) = initial.value[c]
      BY <1>1, <1>2, <2>1
    <3> QED
      BY <3>1, <3>2
  <2>2. CASE ~NotSet(es, c, t)
    <3>1. PICK e \in Events : LastOf(es, c, t, e)
      BY <1>1, <1>2, <2>2
    <3>2. V(Origin) = e.value
      BY <1>1, <1>2, <3>1
    <3>3. V(0) = e.value
      BY <1>1, <1>2, <3>1
    <3> QED
      BY <3>2, <3>3
  <2> QED
    BY <2>1, <2>2
<1> QED
  BY <1>3 DEF V

\* No channel has been set at first.
LEMMA NoControlsFacts ==
    /\ NoControls \in Controls
    /\ \A c \in Actions : NoControls.value[c] = 0 /\ NoControls.time[c] = 0
  BY DEF NoControls, Controls

\* Where nothing was set before the boundary, race times are times from the
\* boundary shifted.
LEMMA ShiftedTimes ==
    ASSUME NEW es, Sound(es), Canonical(es), NEW t \in Int, NEW c \in Actions
    PROVE  LET p == ControlsAt(es, NoControls, 0, t)
               q == ControlsAt(es, NoControls, Origin, t)
           IN /\ Shift(p, q, c)
              /\ NotSet(es, c, t) => p.time[c] = 0 /\ q.time[c] = 0 /\ p.value[c] = 0
              /\ ~NotSet(es, c, t) => q.time[c] = Origin + p.time[c] /\ q.time[c] > 0
              /\ ~NotSet(es, c, t) /\ (\A i \in DOMAIN es : es[i].time > 0) => p.time[c] > 0
<1> DEFINE p == ControlsAt(es, NoControls, 0, t)
           q == ControlsAt(es, NoControls, Origin, t)
<1>1. /\ Origin \in Int /\ Origin > 0 /\ es \in Streams
      /\ \A i \in DOMAIN es : es[i].time \in Int /\ es[i].time >= 0
  BY SearchAssumption, StreamFacts DEF Sound
<1>2. NoControls \in Controls /\ NoControls.value[c] = 0 /\ NoControls.time[c] = 0
  BY NoControlsFacts
<1>3. CASE NotSet(es, c, t)
  <2>1. p.value[c] = 0 /\ p.time[c] = 0
    BY <1>1, <1>2, <1>3, ControlsByLast
  <2>2. q.value[c] = 0 /\ q.time[c] = 0
    BY <1>1, <1>2, <1>3, ControlsByLast
  <2> HIDE DEF p, q
  <2>3. p.value[c] = 0 /\ p.time[c] = 0 /\ q.time[c] = 0 /\ NotSet(es, c, t)
    BY <1>3, <2>1, <2>2
  <2> QED
    BY <2>3 DEF Shift, p, q
<1>4. CASE ~NotSet(es, c, t)
  <2>1. PICK e \in Events : LastOf(es, c, t, e)
    BY <1>1, <1>2, <1>4, ControlsByLast
  <2>2. e.time \in Int /\ e.time >= 0 /\ ((\A i \in DOMAIN es : es[i].time > 0) => e.time > 0)
    BY <1>1, <2>1 DEF LastOf
  <2>3. p.time[c] = 0 + e.time
    BY <1>1, <1>2, <2>1, ControlsByLast
  <2>4. q.time[c] = Origin + e.time
    BY <1>1, <1>2, <2>1, ControlsByLast
  <2> HIDE DEF p, q
  <2>5. /\ p.time[c] = e.time /\ q.time[c] = Origin + p.time[c] /\ p.time[c] >= 0
        /\ q.time[c] > 0 /\ ((\A i \in DOMAIN es : es[i].time > 0) => p.time[c] > 0)
    BY <1>1, <2>2, <2>3, <2>4
  <2>6. Shift(p, q, c)
    BY <2>5 DEF Shift
  <2> QED
    BY <1>4, <2>5, <2>6 DEF p, q
<1> QED
  BY <1>3, <1>4

-----------------------------------------------------------------------------
(* What the restoration after a segment leaves.                            *)

\* Sorting leaves an event alone that is in range.
LEMMA SaturatedEvent ==
    ASSUME NEW e \in Events, InRange(e)
    PROVE  [e EXCEPT !.value = Saturate(@)] = e
<1>1. e.value \in -Full..Full
  BY Ranges
<1>2. Saturate(e.value) = e.value /\ e.value \in Int
  BY <1>1, SaturateFacts DEF Events
<1> QED
  BY <1>2 DEF Events

\* Events that are appended and sorted in take the place of those of their
\* channels and times, and of no others.
LEMMA WrittenOver ==
    ASSUME NEW a, Sound(a), Canonical(a), NEW b \in Streams,
           \A j \in DOMAIN b : b[j].time >= 0 /\ InRange(b[j]),
           \A i, j \in DOMAIN b : SameChannel(b[i], b[j]) => b[i] = b[j]
    PROVE  LET r == Normalize(a \o b)
           IN /\ r \in Streams
              /\ \A j \in DOMAIN b : \E k \in DOMAIN r : r[k] = b[j]
              /\ \A i \in DOMAIN a :
                    \/ \E j \in DOMAIN b : SameChannel(b[j], a[i])
                    \/ \E k \in DOMAIN r : r[k] = a[i]
              /\ \A k \in DOMAIN r :
                    \/ \E j \in DOMAIN b : r[k] = b[j]
                    \/ \E i \in DOMAIN a : /\ r[k] = a[i]
                                           /\ \A j \in DOMAIN b : ~SameChannel(b[j], a[i])
<1> DEFINE c == a \o b
           r == Normalize(c)
           n == Len(a)
<1>1. /\ a \in Streams /\ c \in Streams /\ n \in Nat
      /\ DOMAIN a = 1..n /\ DOMAIN b = 1..Len(b) /\ Len(b) \in Nat
      /\ \A i \in DOMAIN a : i \in DOMAIN c /\ c[i] = a[i]
      /\ \A j \in DOMAIN b : n + j \in DOMAIN c /\ c[n + j] = b[j]
      /\ \A i \in DOMAIN c :
            i \in DOMAIN a \/ (i > n /\ i - n \in DOMAIN b /\ c[i] = b[i - n])
  BY ConcatFacts DEF Sound
<1>2. r \in Streams
  BY <1>1, NormalizeFacts
<1>3. \A i \in DOMAIN c : c[i].time >= 0 /\ [c[i] EXCEPT !.value = Saturate(@)] = c[i]
                          /\ i \in Nat
  <2> SUFFICES ASSUME NEW i \in DOMAIN c
               PROVE  /\ c[i].time >= 0 /\ [c[i] EXCEPT !.value = Saturate(@)] = c[i]
                      /\ i \in Nat
    OBVIOUS
  <2>1. c[i] \in Events /\ i \in Nat
    BY <1>1, StreamFacts
  <2>2. c[i].time >= 0 /\ InRange(c[i])
    BY <1>1 DEF Sound
  <2> QED
    BY <2>1, <2>2, SaturatedEvent
<1> HIDE DEF c, n
<1>4. ASSUME NEW i \in DOMAIN c
      PROVE  \E k \in DOMAIN r, u \in DOMAIN c :
                /\ r[k] = c[u] /\ SameChannel(c[u], c[i]) /\ i <= u
  <2>1. PICK k \in DOMAIN r :
            r[k] = [c[Max(Channelled(c, i))] EXCEPT !.value = Saturate(@)]
    BY <1>1, <1>3, SortedChannel
  <2>2. /\ Max(Channelled(c, i)) \in DOMAIN c
        /\ SameChannel(c[Max(Channelled(c, i))], c[i])
        /\ \A j \in DOMAIN c : SameChannel(c[j], c[i]) => j <= Max(Channelled(c, i))
    BY <1>1, LatestFacts
  <2>3. SameChannel(c[i], c[i])
    BY DEF SameChannel
  <2> QED
    BY <1>3, <2>1, <2>2, <2>3
<1>5. ASSUME NEW k \in DOMAIN r
      PROVE  \E u \in DOMAIN c :
                /\ r[k] = c[u]
                /\ \A j \in DOMAIN c : SameChannel(c[j], c[u]) => j <= u
  BY <1>1, <1>3, SortedSource
<1> HIDE DEF r
<1>6. ASSUME NEW j \in DOMAIN b PROVE \E k \in DOMAIN r : r[k] = b[j]
  <2>1. n + j \in DOMAIN c /\ c[n + j] = b[j] /\ j \in Nat /\ j > 0
    BY <1>1
  <2>2. PICK k \in DOMAIN r, u \in DOMAIN c :
            r[k] = c[u] /\ SameChannel(c[u], b[j]) /\ n + j <= u
    BY <1>4, <2>1
  <2>3. u \in Nat /\ u > n
    BY <1>1, <1>3, <2>1, <2>2
  <2>4. u - n \in DOMAIN b /\ c[u] = b[u - n]
    BY <1>1, <2>3
  <2> QED
    BY <2>2, <2>4
<1>7. ASSUME NEW i \in DOMAIN a, \A j \in DOMAIN b : ~SameChannel(b[j], a[i])
      PROVE  \E k \in DOMAIN r : r[k] = a[i]
  <2>1. PICK k \in DOMAIN r, u \in DOMAIN c : r[k] = c[u] /\ SameChannel(c[u], a[i])
    BY <1>1, <1>4
  <2>2. u \in DOMAIN a /\ c[u] = a[u]
    BY <1>1, <1>7, <2>1
  <2>3. a[u] = a[i]
    BY <1>1, <2>1, <2>2, OnceAtATime
  <2> QED
    BY <2>1, <2>2, <2>3
<1>8. ASSUME NEW k \in DOMAIN r
      PROVE  \/ \E j \in DOMAIN b : r[k] = b[j]
             \/ \E i \in DOMAIN a : /\ r[k] = a[i]
                                    /\ \A j \in DOMAIN b : ~SameChannel(b[j], a[i])
  <2>1. PICK u \in DOMAIN c : /\ r[k] = c[u]
                              /\ \A j \in DOMAIN c : SameChannel(c[j], c[u]) => j <= u
    BY <1>5
  <2>2. CASE u \in DOMAIN a
    <3>1. c[u] = a[u] /\ u <= n /\ u \in Nat
      BY <1>1, <2>2
    <3>2. ASSUME NEW j \in DOMAIN b, SameChannel(b[j], a[u]) PROVE FALSE
      <4>1. n + j \in DOMAIN c /\ c[n + j] = b[j] /\ j \in Nat /\ j > 0
        BY <1>1
      <4>2. n + j <= u
        BY <2>1, <3>1, <3>2, <4>1
      <4> QED
        BY <1>1, <3>1, <4>1, <4>2
    <3> QED
      BY <2>1, <2>2, <3>1, <3>2
  <2>3. CASE u \notin DOMAIN a
    BY <1>1, <2>1, <2>3
  <2> QED
    BY <2>2, <2>3
<1> QED
  BY <1>2, <1>6, <1>7, <1>8 DEF r, c

\* Each is written at one of two times.
LEMMA RestoringEventFacts ==
    ASSUME NEW s, GoodControls(s), NEW end \in Nat, NEW c \in Actions
    PROVE  LET e == RestoringEvent(s, end, c)
           IN /\ e \in Events /\ e.action = c /\ e.value = s.value[c]
              /\ e.time = RestoredAt(s, end, c)
              /\ RestoredAt(s, end, c) \in {end + 1, end + 2}
<1>1. s.value[c] \in Int
  BY DEF GoodControls
<1>2. RestoredAt(s, end, c) \in {end + 1, end + 2}
  <2>1. \A w : AnalogTime(w, end) \in {end + 1, end + 2}
               /\ DigitalTime(w, end) \in {end + 1, end + 2}
    BY DEF AnalogTime, DigitalTime
  <2> QED
    BY <2>1 DEF RestoredAt
<1>3. RestoredAt(s, end, c) \in Int
  BY <1>2
<1> QED
  BY <1>1, <1>2, <1>3 DEF RestoringEvent, Event, Events

\* The restoring events are those of the restored channels.
LEMMA RestorationByChannels ==
    ASSUME NEW s, GoodControls(s), NEW actual, NEW end \in Nat
    PROVE  LET added == Restoration(s, actual, end)
           IN /\ added \in Streams
              /\ \A k \in DOMAIN added :
                    /\ InRange(added[k]) /\ added[k].time >= 0
                    /\ \E c \in Actions : /\ IsRestored(s, actual, c)
                                          /\ added[k] = RestoringEvent(s, end, c)
              /\ \A c \in Actions : IsRestored(s, actual, c) =>
                    \E k \in DOMAIN added : added[k] = RestoringEvent(s, end, c)
              /\ \A i, j \in DOMAIN added :
                    SameChannel(added[i], added[j]) => added[i] = added[j]
<1> DEFINE added == Restoration(s, actual, end)
           left == SteeringRestored(s, end)
           right == GasRestored(s, end)
           E(c) == RestoringEvent(s, end, c)
<1>1. added \in Streams /\ IsRestoration(added, s, actual, end)
  BY RestorationFacts
<1>2. /\ Steer \in Analog /\ Gas \in Analog /\ {SteerLeft, SteerRight} \subseteq Actions \ Analog
      /\ {Accelerate, Brake} \subseteq Actions \ Analog
  BY DEF Analog, Actions, Steer, Gas, SteerLeft, SteerRight, Accelerate, Brake
<1>3. AnalogSteeringWins(s) \in BOOLEAN /\ AnalogGasWins(s) \in BOOLEAN
  BY DEF AnalogSteeringWins, AnalogGasWins
<1>4. /\ left[1] = Event(AnalogTime(AnalogSteeringWins(s), end), Steer, s.value[Steer])
      /\ left[2] = Event(DigitalTime(AnalogSteeringWins(s), end), SteerLeft,
                         s.value[SteerLeft])
      /\ left[3] = Event(DigitalTime(AnalogSteeringWins(s), end), SteerRight,
                         s.value[SteerRight])
  BY <1>2, <1>3, RestoredFacts DEF SteeringRestored
<1>5. /\ right[1] = Event(AnalogTime(AnalogGasWins(s), end), Gas, s.value[Gas])
      /\ right[2] = Event(DigitalTime(AnalogGasWins(s), end), Accelerate,
                          s.value[Accelerate])
      /\ right[3] = Event(DigitalTime(AnalogGasWins(s), end), Brake, s.value[Brake])
  BY <1>2, <1>3, RestoredFacts DEF GasRestored
<1>6. left[1] = E(Steer) /\ left[2] = E(SteerLeft) /\ left[3] = E(SteerRight)
  BY <1>4 DEF RestoringEvent, RestoredAt, Digital, Steer, Gas, SteerLeft, SteerRight
<1>7. right[1] = E(Gas) /\ right[2] = E(Accelerate) /\ right[3] = E(Brake)
  BY <1>5 DEF RestoringEvent, RestoredAt, Digital, Steer, Gas, SteerLeft, SteerRight,
              Accelerate, Brake
<1>8. /\ \A c \in SteeringGroup :
            c \in Actions /\ (IsRestored(s, actual, c) <=> SteeringDiffers(s, actual))
      /\ \A c \in GasGroup :
            c \in Actions /\ (IsRestored(s, actual, c) <=> GasDiffers(s, actual))
      /\ \A c \in Actions : c \in SteeringGroup \/ c \in GasGroup
  BY Groups DEF IsRestored
<1> HIDE DEF added, left, right, E
<1>9. ASSUME NEW k \in DOMAIN added
       PROVE  \E c \in Actions : IsRestored(s, actual, c) /\ added[k] = E(c)
  <2>1. CASE SteeringDiffers(s, actual) /\ \E j \in 1..3 : added[k] = left[j]
    <3>1. PICK j \in 1..3 : added[k] = left[j]
      BY <2>1
    <3>2. added[k] \in {E(Steer), E(SteerLeft), E(SteerRight)}
      <4>1. j = 1 \/ j = 2 \/ j = 3
        OBVIOUS
      <4> QED
        BY <1>6, <3>1, <4>1
    <3> QED
      BY <1>8, <2>1, <3>2, Groups
  <2>2. CASE GasDiffers(s, actual) /\ \E j \in 1..3 : added[k] = right[j]
    <3>1. PICK j \in 1..3 : added[k] = right[j]
      BY <2>2
    <3>2. added[k] \in {E(Gas), E(Accelerate), E(Brake)}
      <4>1. j = 1 \/ j = 2 \/ j = 3
        OBVIOUS
      <4> QED
        BY <1>7, <3>1, <4>1
    <3> QED
      BY <1>8, <2>2, <3>2, Groups
  <2> QED
    BY <1>1, <2>1, <2>2 DEF IsRestoration, left, right
<1>10. ASSUME NEW c \in Actions, IsRestored(s, actual, c)
       PROVE  \E k \in DOMAIN added : added[k] = E(c)
  <2>1. CASE c \in SteeringGroup
    <3>1. SteeringDiffers(s, actual)
      BY <1>8, <1>10, <2>1
    <3>2. \E j \in 1..3 : E(c) = left[j]
      <4>1. c = Steer \/ c = SteerLeft \/ c = SteerRight
        BY <2>1 DEF SteeringGroup
      <4> QED
        BY <1>6, <4>1
    <3> QED
      BY <1>1, <3>1, <3>2 DEF IsRestoration, left, right
  <2>2. CASE c \in GasGroup
    <3>1. GasDiffers(s, actual)
      BY <1>8, <1>10, <2>2
    <3>2. \E j \in 1..3 : E(c) = right[j]
      <4>1. c = Gas \/ c = Accelerate \/ c = Brake
        BY <2>2 DEF GasGroup
      <4> QED
        BY <1>7, <4>1
    <3> QED
      BY <1>1, <3>1, <3>2 DEF IsRestoration, left, right
  <2> QED
    BY <1>8, <2>1, <2>2
<1>11. ASSUME NEW i \in DOMAIN added, NEW j \in DOMAIN added,
              SameChannel(added[i], added[j])
       PROVE  added[i] = added[j]
  <2>1. PICK c \in Actions : added[i] = E(c)
    BY <1>9
  <2>2. PICK d \in Actions : added[j] = E(d)
    BY <1>9
  <2>3. E(c).action = c /\ E(d).action = d
    BY RestoringEventFacts DEF E
  <2> QED
    BY <1>11, <2>1, <2>2, <2>3 DEF SameChannel
<1>12. \A k \in DOMAIN added : InRange(added[k]) /\ added[k].time >= 0
  BY <1>1 DEF IsRestoration
<1> QED
  BY <1>1, <1>9, <1>10, <1>11, <1>12 DEF added, E

-----------------------------------------------------------------------------
(* The controls when a segment has been restored.                          *)

\* Streams that have the same events of a channel give it the same controls.
LEMMA SameChannelControls ==
    ASSUME NEW a \in Streams, Canonical(a), NEW b \in Streams, Canonical(b),
           NEW initial \in Controls, NEW origin \in Int, NEW t \in Int, NEW c \in Actions,
           \A i \in DOMAIN a : a[i].action = c => \E j \in DOMAIN b : b[j] = a[i],
           \A j \in DOMAIN b : b[j].action = c => \E i \in DOMAIN a : a[i] = b[j]
    PROVE  AsBefore(ControlsAt(a, initial, origin, t), ControlsAt(b, initial, origin, t), c)
<1>1. CASE NotSet(a, c, t)
  <2>1. NotSet(b, c, t)
    BY <1>1 DEF NotSet
  <2> QED
    BY <1>1, <2>1, ControlsByLast DEF AsBefore
<1>2. CASE ~NotSet(a, c, t)
  <2>1. PICK e \in Events : LastOf(a, c, t, e)
    BY <1>2, ControlsByLast
  <2>2. e.action = c /\ e.time <= t
    BY <2>1 DEF LastOf
  <2>3. \E j \in DOMAIN b : b[j] = e
    BY <2>1, <2>2 DEF LastOf
  <2>4. \A j \in DOMAIN b : b[j].action = c /\ b[j].time <= t => b[j].time <= e.time
    BY <2>1 DEF LastOf
  <2>5. LastOf(b, c, t, e)
    BY <2>2, <2>3, <2>4 DEF LastOf
  <2> QED
    BY <2>1, <2>5, ControlsByLast DEF AsBefore
<1> QED
  BY <1>1, <1>2

\* That is what appending and sorting gives.
LEMMA WrittenBackFacts ==
    ASSUME NEW b, Sound(b), Canonical(b), NEW es, Sound(es), Canonical(es),
           NEW initial, GoodControls(initial), NEW end \in Nat
    PROVE  LET r == WrittenBackTo(es, b, initial, end)
               expected == Expected(b, initial, end)
               found == Found(es, initial, end)
           IN /\ r \in Streams /\ Canonical(r)
              /\ GoodControls(expected) /\ GoodControls(found)
              /\ RestoredWith(r, es, expected, found, end)
<1> DEFINE expected == Expected(b, initial, end)
           found == Found(es, initial, end)
           added == Restoration(expected, found, end)
           r == Normalize(es \o added)
<1>1. GoodControls(expected) /\ GoodControls(found)
  BY ControlsAreGood DEF Expected, Found
<1> HIDE DEF expected, found
<1>2. /\ added \in Streams
      /\ \A k \in DOMAIN added : InRange(added[k]) /\ added[k].time >= 0
      /\ \A k \in DOMAIN added :
            \E c \in Actions : /\ IsRestored(expected, found, c)
                               /\ added[k] = RestoringEvent(expected, end, c)
      /\ \A c \in Actions : IsRestored(expected, found, c) =>
            \E k \in DOMAIN added : added[k] = RestoringEvent(expected, end, c)
      /\ \A i, j \in DOMAIN added : SameChannel(added[i], added[j]) => added[i] = added[j]
  BY <1>1, RestorationByChannels
<1> HIDE DEF added
<1>3. /\ r \in Streams
      /\ \A j \in DOMAIN added : \E k \in DOMAIN r : r[k] = added[j]
      /\ \A i \in DOMAIN es :
            \/ \E j \in DOMAIN added : SameChannel(added[j], es[i])
            \/ \E k \in DOMAIN r : r[k] = es[i]
      /\ \A k \in DOMAIN r :
            \/ \E j \in DOMAIN added : r[k] = added[j]
            \/ \E i \in DOMAIN es : r[k] = es[i]
  BY <1>2, WrittenOver
<1>4. Canonical(r)
  <2>1. es \o added \in Streams
    BY <1>2, ConcatFacts DEF Sound
  <2> QED
    BY <2>1, NormalizeIsCanonical
<1>5. r = WrittenBackTo(es, b, initial, end)
  BY DEF WrittenBackTo, added, expected, found
<1> HIDE DEF r
<1>6. ASSUME NEW c \in Actions, IsRestored(expected, found, c)
      PROVE  \E k \in DOMAIN r : r[k] = RestoringEvent(expected, end, c)
  BY <1>2, <1>3, <1>6
<1>7. ASSUME NEW i \in DOMAIN es
      PROVE  \/ \E k \in DOMAIN r : r[k] = es[i]
             \/ \E c \in Actions : /\ IsRestored(expected, found, c)
                                   /\ SameChannel(RestoringEvent(expected, end, c), es[i])
  <2>1. CASE \E j \in DOMAIN added : SameChannel(added[j], es[i])
    <3>1. PICK j \in DOMAIN added : SameChannel(added[j], es[i])
      BY <2>1
    <3> QED
      BY <1>2, <3>1
  <2> QED
    BY <1>3, <2>1
<1>8. ASSUME NEW k \in DOMAIN r
      PROVE  \/ \E c \in Actions : /\ IsRestored(expected, found, c)
                                   /\ r[k] = RestoringEvent(expected, end, c)
             \/ \E i \in DOMAIN es : r[k] = es[i]
  <2>1. CASE \E j \in DOMAIN added : r[k] = added[j]
    BY <1>2, <2>1
  <2> QED
    BY <1>3, <2>1
<1>9. RestoredWith(r, es, expected, found, end)
  BY <1>6, <1>7, <1>8 DEF RestoredWith
<1> QED
  BY <1>1, <1>3, <1>4, <1>5, <1>9 DEF expected, found

\* A restored channel has the value that was expected, set at the last of the
\* two times, or the one before it.
LEMMA RestoredChannel ==
    ASSUME NEW b, Sound(b), Canonical(b), NEW es, Sound(es), Canonical(es),
           NEW initial, GoodControls(initial), NEW end \in Nat,
           At(es, end + 2) = At(b, end + 2), NEW origin \in Int, NEW c \in Actions,
           IsRestored(Expected(b, initial, end), Found(es, initial, end), c)
    PROVE  LET s == end + 2
               expected == Expected(b, initial, end)
               now == ControlsAt(WrittenBackTo(es, b, initial, end), initial, origin, s)
           IN /\ now.value[c] = expected.value[c]
              /\ RestoredAt(expected, end, c) = s \/ SetAt(b, c, s) => now.time[c] = origin + s
              /\ RestoredAt(expected, end, c) # s /\ ~SetAt(b, c, s) =>
                    now.time[c] = origin + s - 1
<1> DEFINE s == end + 2
           expected == Expected(b, initial, end)
           found == Found(es, initial, end)
           r == WrittenBackTo(es, b, initial, end)
           now == ControlsAt(r, initial, origin, s)
           x == RestoringEvent(expected, end, c)
<1>1. /\ r \in Streams /\ Canonical(r) /\ GoodControls(expected)
      /\ RestoredWith(r, es, expected, found, end)
  BY WrittenBackFacts
<1>2. s \in Int /\ initial \in Controls /\ b \in Streams /\ es \in Streams
  BY DEF GoodControls, Controls, Sound
<1>3. IsRestored(expected, found, c) /\ At(es, s) = At(b, s)
  OBVIOUS
<1> HIDE DEF expected, found, r
<1>4. \A d \in Actions : /\ RestoringEvent(expected, end, d) \in Events
                         /\ RestoringEvent(expected, end, d).action = d
  BY <1>1, RestoringEventFacts
<1>5. /\ x \in Events /\ x.action = c /\ x.value = expected.value[c]
      /\ x.time = RestoredAt(expected, end, c) /\ x.time \in {s - 1, s}
  <2>1. x.time \in {end + 1, end + 2}
    BY <1>1, RestoringEventFacts
  <2>2. x \in Events /\ x.action = c /\ x.value = expected.value[c]
        /\ x.time = RestoredAt(expected, end, c)
    BY <1>1, RestoringEventFacts
  <2> QED
    BY <2>1, <2>2
<1>6. \E k \in DOMAIN r : r[k] = x
  BY <1>1, <1>3 DEF RestoredWith
<1>7. ASSUME NEW k \in DOMAIN r, r[k].action = c
      PROVE  r[k] = x \/ \E i \in DOMAIN es : r[k] = es[i]
  <2>1. CASE \E d \in Actions : /\ IsRestored(expected, found, d)
                                /\ r[k] = RestoringEvent(expected, end, d)
    <3>1. PICK d \in Actions : r[k] = RestoringEvent(expected, end, d)
      BY <2>1
    <3>2. d = c
      BY <1>4, <1>7, <3>1
    <3> QED
      BY <3>1, <3>2
  <2> QED
    BY <1>1, <2>1 DEF RestoredWith
<1> HIDE DEF s, x
<1>8. CASE x.time = s \/ ~SetAt(b, c, s)
  <2>1. ASSUME NEW k \in DOMAIN r, r[k].action = c, r[k].time <= s
        PROVE  r[k].time <= x.time
    <3>1. r[k].time \in Int
      BY <1>1, StreamFacts
    <3>2. CASE x.time = s
      BY <2>1, <3>2
    <3>3. CASE x.time # s /\ r[k] = x
      BY <1>2, <1>5, <3>3
    <3>4. CASE x.time # s /\ \E i \in DOMAIN es : r[k] = es[i]
      <4>1. PICK i \in DOMAIN es : r[k] = es[i]
        BY <3>4
      <4>2. ASSUME r[k].time = s PROVE FALSE
        <5>1. \E j \in DOMAIN b : b[j] = es[i]
          BY <1>2, <1>3, <4>1, <4>2, SameMoments
        <5> QED
          BY <1>8, <2>1, <3>4, <4>1, <4>2, <5>1 DEF SetAt
      <4> QED
        BY <1>2, <1>5, <2>1, <3>1, <3>4, <4>2
    <3> QED
      BY <1>7, <2>1, <3>2, <3>3, <3>4
  <2>2. x.time <= s
    BY <1>2, <1>5
  <2>3. LastOf(r, c, s, x)
    BY <1>5, <1>6, <2>1, <2>2 DEF LastOf
  <2>4. now.value[c] = x.value /\ now.time[c] = origin + x.time
    BY <1>1, <1>2, <2>3, ControlsByLast
  <2> HIDE DEF now
  <2>5. x.time \in Int
    BY <1>2, <1>5
  <2>6. x.time = s => now.time[c] = origin + s
    BY <2>4
  <2>7. x.time # s => now.time[c] = origin + s - 1 /\ ~SetAt(b, c, s)
    BY <1>2, <1>5, <1>8, <2>4, <2>5
  <2> QED
    BY <1>5, <2>4, <2>6, <2>7 DEF s, now, r, expected
<1>9. CASE x.time # s /\ SetAt(b, c, s)
  <2>1. PICK y \in Events : y.action = c /\ y.time = s /\ \E i \in DOMAIN b : b[i] = y
    BY <1>2, <1>9, StreamFacts DEF SetAt
  <2>2. PICK j \in DOMAIN es : es[j] = y
    BY <1>2, <1>3, <2>1, SameMoments
  <2>3. ASSUME NEW d \in Actions, SameChannel(RestoringEvent(expected, end, d), es[j])
        PROVE  FALSE
    <3>1. d = c
      BY <1>4, <2>1, <2>2, <2>3 DEF SameChannel
    <3>2. x.time = s
      BY <2>1, <2>2, <2>3, <3>1 DEF SameChannel, x
    <3> QED
      BY <1>9, <3>2
  <2>4. \E k \in DOMAIN r : r[k] = es[j]
    BY <1>1, <2>3 DEF RestoredWith
  <2>5. LastOf(r, c, s, y)
    BY <1>2, <2>1, <2>2, <2>4 DEF LastOf
  <2>6. LastOf(b, c, s, y)
    BY <1>2, <2>1 DEF LastOf
  <2>7. now.value[c] = y.value /\ now.time[c] = origin + y.time
    BY <1>1, <1>2, <2>5, ControlsByLast
  <2>8. expected.value[c] = y.value
    <3>1. ControlsAt(b, initial, 0, s).value[c] = y.value
      BY <1>2, <2>6, ControlsByLast
    <3> QED
      BY <3>1 DEF expected, Expected, s
  <2> HIDE DEF now
  <2>9. now.value[c] = expected.value[c] /\ now.time[c] = origin + s
    BY <2>1, <2>7, <2>8
  <2> QED
    BY <1>9, <2>9 DEF s, now, r, expected
<1> QED
  BY <1>8, <1>9

\* A channel that is not restored is as the stream had it.
LEMMA OtherChannel ==
    ASSUME NEW b, Sound(b), Canonical(b), NEW es, Sound(es), Canonical(es),
           NEW initial, GoodControls(initial), NEW end \in Nat,
           NEW origin \in Int, NEW t \in Int, NEW c \in Actions,
           ~IsRestored(Expected(b, initial, end), Found(es, initial, end), c)
    PROVE  AsBefore(ControlsAt(es, initial, origin, t),
                    ControlsAt(WrittenBackTo(es, b, initial, end), initial, origin, t), c)
<1> DEFINE expected == Expected(b, initial, end)
           found == Found(es, initial, end)
           r == WrittenBackTo(es, b, initial, end)
<1>1. /\ r \in Streams /\ Canonical(r) /\ GoodControls(expected)
      /\ RestoredWith(r, es, expected, found, end)
  BY WrittenBackFacts
<1>2. initial \in Controls /\ es \in Streams
  BY DEF GoodControls, Controls, Sound
<1>3. ~IsRestored(expected, found, c)
  OBVIOUS
<1> HIDE DEF expected, found
<1>4. \A d \in Actions : RestoringEvent(expected, end, d).action = d
  BY <1>1, RestoringEventFacts
<1> HIDE DEF r
<1>5. \A k \in DOMAIN r : r[k].action = c => \E i \in DOMAIN es : es[i] = r[k]
  BY <1>1, <1>3, <1>4 DEF RestoredWith
<1>6. \A i \in DOMAIN es : es[i].action = c => \E k \in DOMAIN r : r[k] = es[i]
  BY <1>1, <1>3, <1>4 DEF RestoredWith, SameChannel
<1>7. AsBefore(ControlsAt(es, initial, origin, t), ControlsAt(r, initial, origin, t), c)
  BY <1>1, <1>2, <1>5, <1>6, SameChannelControls
<1> QED
  BY <1>7 DEF r

-----------------------------------------------------------------------------
(* Priorities, counted from the boundary and in race times.                *)

\* Race times are in the same order, unless a channel was set at the boundary
\* and another one never.
LEMMA RacedOrder ==
    ASSUME NEW a \in Int, NEW f \in Int, NEW s \in Int,
           NEW x \in Int, NEW y \in Int, NEW z \in Int,
           Raced(a, x), Raced(f, y), Raced(s, z)
    PROVE  \/ /\ a >= f /\ a >= s <=> x >= y /\ x >= z
              /\ a > f /\ a > s <=> x > y /\ x > z
           \/ a = 0 /\ x = Origin /\ f = 0 /\ y = 0 /\ s = 0 /\ z = 0
           \/ a = 0 /\ x = 0 /\ ~(x >= y /\ x >= z) /\ f >= 0 /\ s >= 0
<1>1. Origin \in Int /\ Origin > 0
  BY SearchAssumption
<1> QED
  BY <1>1 DEF Raced

\* The same for the channels of a group.
LEMMA ShiftedPriority ==
    ASSUME NEW p \in Controls, NEW q \in Controls, NEW analog \in Actions,
           NEW first \in Actions, NEW second \in Actions,
           \A c \in {analog, first, second} : Shift(p, q, c)
    PROVE  \/ SamePriority(p, q, analog, first, second)
           \/ /\ p.time[analog] = 0 /\ p.time[first] = 0 /\ p.time[second] = 0
              /\ q.time[analog] = Origin /\ q.time[first] = 0 /\ q.time[second] = 0
           \/ /\ p.time[analog] = 0 /\ q.time[analog] = 0
              /\ ~Reaches(q, analog, first, second)
              /\ p.time[first] >= 0 /\ p.time[second] >= 0
<1> DEFINE a == p.time[analog]
           f == p.time[first]
           s == p.time[second]
           x == q.time[analog]
           y == q.time[first]
           z == q.time[second]
<1>1. /\ a \in Int /\ f \in Int /\ s \in Int /\ x \in Int /\ y \in Int /\ z \in Int
  BY ChannelNumbers
<1>2. Raced(a, x) /\ Raced(f, y) /\ Raced(s, z)
  BY DEF Shift, Raced
<1> HIDE DEF a, f, s, x, y, z
<1>3. \/ /\ a >= f /\ a >= s <=> x >= y /\ x >= z
         /\ a > f /\ a > s <=> x > y /\ x > z
      \/ a = 0 /\ x = Origin /\ f = 0 /\ y = 0 /\ s = 0 /\ z = 0
      \/ a = 0 /\ x = 0 /\ ~(x >= y /\ x >= z) /\ f >= 0 /\ s >= 0
  BY <1>1, <1>2, RacedOrder
<1> QED
  BY <1>3 DEF SamePriority, Reaches, Passes, a, f, s, x, y, z

\* A channel that has a race time of zero was never set.
LEMMA NeverSet ==
    ASSUME NEW p \in Controls, NEW q \in Controls, NEW c \in Actions, Shift(p, q, c),
           q.time[c] = 0
    PROVE  p.value[c] = 0
<1>1. p.time[c] \in Int /\ Origin \in Int /\ Origin > 0
  BY ChannelNumbers, SearchAssumption
<1> QED
  BY <1>1 DEF Shift

\* The steering in race times, where a wheel that is turned at the boundary
\* wins, ...
LEMMA SteeringOfOrigins ==
    ASSUME NEW p \in Controls, NEW q \in Controls,
           \A c \in SteeringGroup : Shift(p, q, c) /\ q.value[c] = p.value[c],
           q.time[SteerLeft] = 0 /\ q.time[SteerRight] = 0 =>
                p.value[Steer] = 0 \/ AnalogSteeringWins(p)
    PROVE  Steering(p) = Steering(q)
<1>1. SameValues(p, q, SteeringGroup)
  BY DEF SameValues
<1>2. SteeringTie(p) <=> SteeringTie(q)
  BY <1>1, TiesByValues
<1>3. /\ Steer \in Actions /\ SteerLeft \in Actions /\ SteerRight \in Actions
      /\ {Steer, SteerLeft, SteerRight} = SteeringGroup
  BY Groups DEF SteeringGroup
<1>4. \/ SamePriority(p, q, Steer, SteerLeft, SteerRight)
      \/ /\ p.time[Steer] = 0 /\ p.time[SteerLeft] = 0 /\ p.time[SteerRight] = 0
         /\ q.time[Steer] = Origin /\ q.time[SteerLeft] = 0 /\ q.time[SteerRight] = 0
      \/ /\ p.time[Steer] = 0 /\ q.time[Steer] = 0
         /\ ~Reaches(q, Steer, SteerLeft, SteerRight)
         /\ p.time[SteerLeft] >= 0 /\ p.time[SteerRight] >= 0
  BY <1>3, ShiftedPriority
<1>5. CASE SamePriority(p, q, Steer, SteerLeft, SteerRight)
  <2>1. Wins(p, Steer, SteerLeft, SteerRight, SteeringTie(p))
            <=> Wins(q, Steer, SteerLeft, SteerRight, SteeringTie(q))
    BY <1>2, <1>5 DEF Wins, SamePriority
  <2> QED
    BY <1>1, <2>1, SteeringPriority, SteeringByValues
<1>6. CASE /\ p.time[Steer] = 0 /\ p.time[SteerLeft] = 0 /\ p.time[SteerRight] = 0
           /\ q.time[Steer] = Origin /\ q.time[SteerLeft] = 0 /\ q.time[SteerRight] = 0
  <2>1. p.value[SteerLeft] = 0 /\ p.value[SteerRight] = 0
    BY <1>3, <1>6, NeverSet, Groups
  <2>2. q.value[SteerLeft] = 0 /\ q.value[SteerRight] = 0 /\ q.value[Steer] = p.value[Steer]
    BY <2>1, Groups
  <2>3. CASE AnalogSteeringWins(p)
    <3>1. Wins(p, Steer, SteerLeft, SteerRight, SteeringTie(p))
      BY <2>3, SteeringPriority
    <3>2. SteeringTie(p)
      BY <1>6, <3>1 DEF Wins, Passes
    <3>3. Origin \in Int /\ Origin > 0
      BY SearchAssumption
    <3>4. Wins(q, Steer, SteerLeft, SteerRight, SteeringTie(q))
      BY <1>2, <1>6, <3>2, <3>3 DEF Wins, Reaches
    <3>5. AnalogSteeringWins(q)
      BY <3>4, SteeringPriority
    <3> QED
      BY <1>1, <2>3, <3>5, SteeringByValues
  <2>4. CASE p.value[Steer] = 0
    <3>1. Steering(p) = 0
      BY <2>1, <2>4 DEF Steering
    <3>2. Steering(q) = 0
      BY <2>2, <2>4 DEF Steering
    <3> QED
      BY <3>1, <3>2
  <2> QED
    BY <1>6, <2>3, <2>4
<1>7. CASE /\ p.time[Steer] = 0 /\ q.time[Steer] = 0
           /\ ~Reaches(q, Steer, SteerLeft, SteerRight)
           /\ p.time[SteerLeft] >= 0 /\ p.time[SteerRight] >= 0
  <2>1. p.value[Steer] = 0
    BY <1>3, <1>7, NeverSet
  <2>2. ~SteeringTie(p)
    <3>1. Abs(0) = 0 /\ DeadZone \in Int /\ DeadZone >= 0
      BY SearchAssumption DEF Abs
    <3> QED
      BY <2>1, <3>1 DEF SteeringTie
  <2>3. ~Passes(p, Steer, SteerLeft, SteerRight)
    <3>1. p.time[SteerLeft] \in Int
      BY <1>3, ChannelNumbers
    <3> QED
      BY <1>7, <3>1 DEF Passes
  <2>4. ~Passes(q, Steer, SteerLeft, SteerRight)
    <3>1. q.time[SteerLeft] \in Int /\ q.time[SteerRight] \in Int /\ q.time[Steer] \in Int
      BY <1>3, ChannelNumbers
    <3> QED
      BY <1>7, <3>1 DEF Passes, Reaches
  <2>5. ~AnalogSteeringWins(p) /\ ~AnalogSteeringWins(q)
    BY <1>2, <2>2, <2>3, <2>4, SteeringPriority DEF Wins
  <2> QED
    BY <1>1, <2>5, SteeringByValues
<1> QED
  BY <1>4, <1>5, <1>6, <1>7

\* ... and the gates.
LEMMA GatesOfOrigins ==
    ASSUME NEW p \in Controls, NEW q \in Controls,
           \A c \in GasGroup : Shift(p, q, c) /\ q.value[c] = p.value[c]
    PROVE  Gates(p) = Gates(q)
<1>1. SameValues(p, q, GasGroup)
  BY DEF SameValues
<1>2. GasTie(p) <=> GasTie(q)
  BY <1>1, TiesByValues
<1>3. /\ Gas \in Actions /\ Accelerate \in Actions /\ Brake \in Actions
      /\ {Gas, Accelerate, Brake} = GasGroup
  BY Groups DEF GasGroup
<1>4. \/ SamePriority(p, q, Gas, Accelerate, Brake)
      \/ /\ p.time[Gas] = 0 /\ p.time[Accelerate] = 0 /\ p.time[Brake] = 0
         /\ q.time[Gas] = Origin /\ q.time[Accelerate] = 0 /\ q.time[Brake] = 0
      \/ /\ p.time[Gas] = 0 /\ q.time[Gas] = 0
         /\ ~Reaches(q, Gas, Accelerate, Brake)
         /\ p.time[Accelerate] >= 0 /\ p.time[Brake] >= 0
  BY <1>3, ShiftedPriority
<1>5. CASE SamePriority(p, q, Gas, Accelerate, Brake)
  <2>1. Wins(p, Gas, Accelerate, Brake, GasTie(p)) <=> Wins(q, Gas, Accelerate, Brake, GasTie(q))
    BY <1>2, <1>5 DEF Wins, SamePriority
  <2> QED
    BY <1>1, <2>1, GasPriority, GatesByValues
<1>6. CASE /\ p.time[Gas] = 0 /\ p.time[Accelerate] = 0 /\ p.time[Brake] = 0
           /\ q.time[Gas] = Origin /\ q.time[Accelerate] = 0 /\ q.time[Brake] = 0
  <2>1. p.value[Accelerate] = 0 /\ p.value[Brake] = 0
    BY <1>3, <1>6, NeverSet, Groups
  <2>2. GasTie(p)
    BY <2>1 DEF GasTie
  <2>3. Origin \in Int /\ Origin > 0
    BY SearchAssumption
  <2>4. Reaches(p, Gas, Accelerate, Brake) /\ Reaches(q, Gas, Accelerate, Brake)
    BY <1>6, <2>3 DEF Reaches
  <2>5. AnalogGasWins(p) /\ AnalogGasWins(q)
    BY <1>2, <2>2, <2>4, GasPriority DEF Wins
  <2> QED
    BY <1>1, <2>5, GatesByValues
<1>7. CASE /\ p.time[Gas] = 0 /\ q.time[Gas] = 0
           /\ ~Reaches(q, Gas, Accelerate, Brake)
           /\ p.time[Accelerate] >= 0 /\ p.time[Brake] >= 0
  <2>1. p.value[Gas] = 0
    BY <1>3, <1>7, NeverSet
  <2>2. ~Passes(p, Gas, Accelerate, Brake)
    <3>1. p.time[Accelerate] \in Int
      BY <1>3, ChannelNumbers
    <3> QED
      BY <1>7, <3>1 DEF Passes
  <2>3. ~Passes(q, Gas, Accelerate, Brake)
    <3>1. q.time[Accelerate] \in Int /\ q.time[Brake] \in Int /\ q.time[Gas] \in Int
      BY <1>3, ChannelNumbers
    <3> QED
      BY <1>7, <3>1 DEF Passes, Reaches
  <2>4. ~AnalogGasWins(q)
    BY <1>7, <2>3, GasPriority DEF Wins
  <2>5. CASE GasTie(p)
    <3>1. q.value[Accelerate] = 0 /\ q.value[Brake] = 0
      BY <1>2, <2>5 DEF GasTie
    <3>2. Gates(q) = <<0 = 1, 0 = 1>>
      BY <2>4, <3>1 DEF Gates
    <3>3. CASE AnalogGasWins(p)
      <4>1. Gates(p) = <<0 <= -GasThreshold, 0 >= GasThreshold>>
        BY <2>1, <3>3 DEF Gates
      <4>2. (0 <= -GasThreshold) = (0 = 1)
        BY SearchAssumption
      <4>3. (0 >= GasThreshold) = (0 = 1)
        BY SearchAssumption
      <4> QED
        BY <3>2, <4>1, <4>2, <4>3, Zenon
    <3>4. CASE ~AnalogGasWins(p)
      BY <1>1, <2>4, <3>4, GatesByValues
    <3> QED
      BY <3>3, <3>4
  <2>6. CASE ~GasTie(p)
    <3>1. ~AnalogGasWins(p)
      BY <2>2, <2>6, GasPriority DEF Wins
    <3> QED
      BY <1>1, <2>4, <3>1, GatesByValues
  <2> QED
    BY <2>5, <2>6
<1> QED
  BY <1>4, <1>5, <1>6, <1>7

-----------------------------------------------------------------------------
(* The car has the baseline's controls after a segment.                    *)

\* Every channel has the value of the baseline.
LEMMA RestoredValues ==
    ASSUME NEW b, Sound(b), Canonical(b), NEW es, Sound(es), Canonical(es),
           NEW initial, GoodControls(initial), NEW end \in Nat,
           At(es, end + 2) = At(b, end + 2)
    PROVE  ControlsAt(WrittenBackTo(es, b, initial, end), initial, Origin, end + 2).value
                = ControlsAt(b, initial, Origin, end + 2).value
<1> DEFINE s == end + 2
           expected == Expected(b, initial, end)
           found == Found(es, initial, end)
           r == WrittenBackTo(es, b, initial, end)
           now == ControlsAt(r, initial, Origin, s)
           base == ControlsAt(b, initial, Origin, s)
<1>1. /\ b \in Streams /\ es \in Streams /\ r \in Streams /\ initial \in Controls
      /\ Origin \in Int /\ s \in Int
  BY WrittenBackFacts, SearchAssumption DEF Sound, GoodControls, Controls
<1>2. now \in Controls /\ base \in Controls
  BY <1>1, ControlsFacts
<1>3. ASSUME NEW c \in Actions PROVE now.value[c] = base.value[c]
  <2>1. base.value[c] = expected.value[c]
    <3>1. ControlsAt(b, initial, Origin, s).value[c] = ControlsAt(b, initial, 0, s).value[c]
      BY <1>1, ValuesOfOrigins
    <3> QED
      BY <3>1 DEF Expected
  <2>2. CASE IsRestored(expected, found, c)
    <3>1. now.value[c] = expected.value[c]
      BY <1>1, <2>2, RestoredChannel
    <3> QED
      BY <2>1, <3>1
  <2>3. CASE ~IsRestored(expected, found, c)
    <3>1. AsBefore(ControlsAt(es, initial, Origin, s), now, c)
      BY <1>1, <2>3, OtherChannel
    <3>2. now.value[c] = ControlsAt(es, initial, Origin, s).value[c]
      BY <3>1 DEF AsBefore
    <3>3. ControlsAt(es, initial, Origin, s).value[c] = found.value[c]
      <4>1. ControlsAt(es, initial, Origin, s).value[c] = ControlsAt(es, initial, 0, s).value[c]
        BY <1>1, ValuesOfOrigins
      <4> QED
        BY <4>1 DEF Found
    <3>4. expected.value[c] = found.value[c]
      <4> HIDE DEF expected, found
      <4>1. c \in SteeringGroup \/ c \in GasGroup
        BY Groups
      <4> QED
        BY <2>3, <4>1, Groups DEF IsRestored, SteeringDiffers, GasDiffers, Differ,
                                  SteeringGroup, GasGroup
    <3> QED
      BY <2>1, <3>2, <3>3, <3>4
  <2> QED
    BY <2>2, <2>3
<1>4. now.value \in [Actions -> Int] /\ base.value \in [Actions -> Int]
  BY <1>2 DEF Controls
<1> HIDE DEF now, base
<1>5. now.value = base.value
  BY <1>3, <1>4
<1> QED
  BY <1>5 DEF now, base, r, s

\* The times of its channels.
LEMMA ExpectedTimes ==
    ASSUME NEW b, Sound(b), Canonical(b), Begun(b), NEW t \in Int, t > 0, NEW c \in Actions
    PROVE  LET p == ControlsAt(b, NoControls, 0, t)
               q == ControlsAt(b, NoControls, Origin, t)
           IN /\ p \in Controls /\ q \in Controls
              /\ p.time[c] <= t /\ (p.time[c] = t <=> SetAt(b, c, t))
              /\ (p.time[c] = 0 /\ q.time[c] = 0 /\ p.value[c] = 0)
                    \/ (p.time[c] > 0 /\ q.time[c] = Origin + p.time[c])
              /\ NotSet(b, c, t) => p.value[c] = 0
              /\ ~NotSet(b, c, t) => p.time[c] > 0
<1> DEFINE p == ControlsAt(b, NoControls, 0, t)
           q == ControlsAt(b, NoControls, Origin, t)
<1>1. /\ b \in Streams /\ NoControls \in Controls /\ Origin \in Int /\ 0 \in Int
      /\ t \in Int /\ NoControls.value[c] = 0 /\ NoControls.time[c] = 0
  BY NoControlsFacts, SearchAssumption DEF Sound
<1>2. p \in Controls /\ q \in Controls
  BY <1>1, ControlsFacts
<1>3. CASE NotSet(b, c, t)
  <2>1. p.value[c] = NoControls.value[c] /\ p.time[c] = NoControls.time[c]
    BY <1>1, <1>3, ControlsNotSet
  <2>2. q.value[c] = NoControls.value[c] /\ q.time[c] = NoControls.time[c]
    BY <1>1, <1>3, ControlsNotSet
  <2>3. ~SetAt(b, c, t)
    <3> SUFFICES ASSUME NEW i \in DOMAIN b, b[i].action = c, b[i].time = t PROVE FALSE
      BY DEF SetAt
    <3> QED
      BY <1>3 DEF NotSet
  <2> HIDE DEF p, q
  <2> QED
    BY <1>1, <1>2, <1>3, <2>1, <2>2, <2>3 DEF p, q
<1>4. CASE ~NotSet(b, c, t)
  <2>1. PICK e \in Events : LastOf(b, c, t, e)
    BY <1>1, <1>4, ControlsByLast
  <2>2. e.time \in Int /\ e.time > 0 /\ e.time <= t
    BY <2>1 DEF LastOf, Events, Begun
  <2>3. p.time[c] = 0 + e.time
    BY <1>1, <2>1, ControlsSetLast
  <2>4. q.time[c] = Origin + e.time
    BY <1>1, <2>1, ControlsSetLast
  <2>5. e.time = t <=> SetAt(b, c, t)
    <3>1. ASSUME e.time = t PROVE SetAt(b, c, t)
      BY <2>1, <3>1 DEF LastOf, SetAt
    <3>2. ASSUME SetAt(b, c, t) PROVE e.time = t
      <4>1. PICK i \in DOMAIN b : b[i].action = c /\ b[i].time = t
        BY <3>2 DEF SetAt
      <4>2. t <= e.time
        BY <2>1, <4>1 DEF LastOf
      <4> QED
        BY <2>2, <4>2
    <3> QED
      BY <3>1, <3>2
  <2> HIDE DEF p, q
  <2>6. p.time[c] = e.time /\ q.time[c] = Origin + p.time[c]
    BY <2>2, <2>3, <2>4
  <2> QED
    BY <1>2, <1>4, <2>2, <2>5, <2>6 DEF p, q
<1> QED
  BY <1>3, <1>4

\* Where nothing is set at the boundary, race times keep the order.
LEMMA ExpectedPriority ==
    ASSUME NEW b, Sound(b), Canonical(b), Begun(b), NEW t \in Int, t > 0
    PROVE  LET p == ControlsAt(b, NoControls, 0, t)
               q == ControlsAt(b, NoControls, Origin, t)
           IN ControlsFromState(p) = ControlsFromState(q)
<1> DEFINE p == ControlsAt(b, NoControls, 0, t)
           q == ControlsAt(b, NoControls, Origin, t)
<1>1. p \in Controls /\ q \in Controls
  BY ControlsFacts, NoControlsFacts, SearchAssumption DEF Sound
<1>2. ASSUME NEW c \in Actions
      PROVE  /\ Shift(p, q, c) /\ q.value[c] = p.value[c]
             /\ q.time[c] = 0 => p.time[c] = 0
             /\ p.value[c] = 0 \/ p.time[c] > 0
  <2>1. q.value[c] = p.value[c]
    BY ValuesOfOrigins, NoControlsFacts DEF Sound
  <2>2. (p.time[c] = 0 /\ q.time[c] = 0 /\ p.value[c] = 0)
            \/ (p.time[c] > 0 /\ q.time[c] = Origin + p.time[c])
    BY ExpectedTimes
  <2>3. p.time[c] \in Int /\ Origin \in Int /\ Origin > 0
    BY <1>1, ChannelNumbers, SearchAssumption
  <2> HIDE DEF p, q
  <2> QED
    BY <2>1, <2>2, <2>3 DEF Shift
<1> HIDE DEF p, q
<1>3. Gates(p) = Gates(q)
  BY <1>1, <1>2, Groups, GatesOfOrigins
<1>4. Steering(p) = Steering(q)
  <2>1. \A c \in SteeringGroup : Shift(p, q, c) /\ q.value[c] = p.value[c]
    BY <1>2, Groups
  <2>2. ASSUME q.time[SteerLeft] = 0, q.time[SteerRight] = 0
        PROVE  p.value[Steer] = 0 \/ AnalogSteeringWins(p)
    <3>1. p.time[SteerLeft] = 0 /\ p.time[SteerRight] = 0
      BY <1>2, <2>2, Groups
    <3>2. p.value[Steer] = 0 \/ p.time[Steer] > 0
      BY <1>2, Groups
    <3>3. p.time[Steer] > 0 => Wins(p, Steer, SteerLeft, SteerRight, SteeringTie(p))
      <4>1. p.time[Steer] \in Int
        BY <1>1, Groups, ChannelNumbers
      <4> QED
        BY <3>1, <4>1 DEF Wins, Reaches, Passes
    <3> QED
      BY <1>1, <3>2, <3>3, SteeringPriority
  <2> QED
    BY <1>1, <2>1, <2>2, SteeringOfOrigins
<1>5. ControlsFromState(p) = ControlsFromState(q)
  BY <1>3, <1>4 DEF ControlsFromState
<1> QED
  BY <1>5 DEF p, q

\* Writing the channel that has priority last gives it priority.
LEMMA LastWins ==
    ASSUME NEW s \in Int, NEW a \in Int, NEW f \in Int, NEW g \in Int,
           a <= s, f <= s, g <= s,
           NEW x \in Int, NEW y \in Int, NEW z \in Int, NEW o \in Int,
           x = o + s, y = o + s \/ (f # s /\ y = o + s - 1),
           z = o + s \/ (g # s /\ z = o + s - 1)
    PROVE  /\ x >= y /\ x >= z
           /\ a > f /\ a > g => x > y \/ y = o + s
           /\ (f = s \/ y = o + s - 1) /\ (g = s \/ z = o + s - 1) /\ a > f /\ a > g =>
                x > y /\ x > z
  OBVIOUS

\* Writing it first takes it away.
LEMMA FirstLoses ==
    ASSUME NEW s \in Int, NEW a \in Int, NEW f \in Int, NEW g \in Int,
           a <= s, f <= s, g <= s,
           NEW x \in Int, NEW y \in Int, NEW z \in Int, NEW o \in Int,
           y = o + s, z = o + s, x = o + s \/ x = o + s - 1
    PROVE  /\ ~(x > y /\ x > z)
           /\ ~(a >= f /\ a >= g) /\ (a = s \/ x = o + s - 1) => ~(x >= y /\ x >= z)
  OBVIOUS

\* A group that is written back has the priority that was expected.
LEMMA RestoredPriority ==
    ASSUME NEW p \in Controls, NEW q \in Controls, NEW end \in Nat, NEW analog \in Actions,
           NEW first \in Actions, NEW second \in Actions, NEW tie \in BOOLEAN, NEW wins,
           wins <=> Wins(p, analog, first, second, tie),
           WrittenAt(p, q, end, analog, AnalogTime(wins, end)),
           \A c \in {first, second} : WrittenAt(p, q, end, c, DigitalTime(wins, end))
    PROVE  Wins(p, analog, first, second, tie) <=> Wins(q, analog, first, second, tie)
<1> DEFINE s == end + 2
           a == p.time[analog]
           f == p.time[first]
           g == p.time[second]
           x == q.time[analog]
           y == q.time[first]
           z == q.time[second]
           at == AnalogTime(wins, end)
           dt == DigitalTime(wins, end)
<1>1. /\ a \in Int /\ f \in Int /\ g \in Int /\ x \in Int /\ y \in Int /\ z \in Int
      /\ Origin \in Int /\ s \in Int
  BY ChannelNumbers, SearchAssumption
<1>2. /\ a <= s /\ f <= s /\ g <= s
      /\ (at = s \/ a = s => x = Origin + s) /\ (at # s /\ a # s => x = Origin + s - 1)
      /\ (dt = s \/ f = s => y = Origin + s) /\ (dt # s /\ f # s => y = Origin + s - 1)
      /\ (dt = s \/ g = s => z = Origin + s) /\ (dt # s /\ g # s => z = Origin + s - 1)
  BY DEF WrittenAt
<1>3. (wins => at = s /\ dt # s) /\ (~wins => at # s /\ dt = s)
  BY DEF AnalogTime, DigitalTime
<1> HIDE DEF at, dt, s
<1>4. CASE wins
  <2>1. /\ x = Origin + s
        /\ y = Origin + s \/ (f # s /\ y = Origin + s - 1)
        /\ z = Origin + s \/ (g # s /\ z = Origin + s - 1)
        /\ (f = s \/ y = Origin + s - 1) /\ (g = s \/ z = Origin + s - 1)
    BY <1>2, <1>3, <1>4
  <2>2. Wins(p, analog, first, second, tie) /\ (tie \/ (a > f /\ a > g))
    BY <1>4 DEF Wins, Passes
  <2> HIDE DEF a, f, g, x, y, z
  <2>3. x >= y /\ x >= z /\ (a > f /\ a > g => x > y /\ x > z)
    BY <1>1, <1>2, <2>1, LastWins
  <2>4. Reaches(q, analog, first, second)
        /\ (a > f /\ a > g => Passes(q, analog, first, second))
    BY <2>3 DEF Reaches, Passes, x, y, z
  <2> QED
    BY <2>2, <2>4 DEF Wins
<1>5. CASE ~wins
  <2>1. /\ y = Origin + s /\ z = Origin + s
        /\ (a = s \/ x = Origin + s - 1) /\ (x = Origin + s \/ x = Origin + s - 1)
    BY <1>2, <1>3, <1>5
  <2>2. ~Wins(p, analog, first, second, tie) /\ (tie => ~(a >= f /\ a >= g))
    BY <1>5 DEF Wins, Reaches
  <2> HIDE DEF a, f, g, x, y, z
  <2>3. ~(x > y /\ x > z) /\ (~(a >= f /\ a >= g) => ~(x >= y /\ x >= z))
    BY <1>1, <1>2, <2>1, FirstLoses
  <2>4. ~Passes(q, analog, first, second)
        /\ (~(a >= f /\ a >= g) => ~Reaches(q, analog, first, second))
    BY <2>3 DEF Reaches, Passes, x, y, z
  <2> QED
    BY <2>2, <2>4 DEF Wins
<1> QED
  BY <1>4, <1>5

\* That is so.
LEMMA AroundRestoration ==
    ASSUME NEW b, Sound(b), Canonical(b), Begun(b), NEW es, Sound(es), Canonical(es),
           NEW end \in Nat, At(es, end + 2) = At(b, end + 2)
    PROVE  Around(Before0(b, end), Found0(es, end), After0(es, b, end),
                  ControlsAt(es, NoControls, Origin, end + 2), end)
<1> DEFINE s == end + 2
           p == Before0(b, end)
           f == Found0(es, end)
           q == After0(es, b, end)
           m == ControlsAt(es, NoControls, Origin, s)
           r == WrittenBackTo(es, b, NoControls, end)
<1>1. /\ NoControls \in Controls /\ GoodControls(NoControls) /\ b \in Streams /\ es \in Streams
      /\ s \in Int /\ s > 0 /\ Origin \in Int /\ r \in Streams
  <2>1. GoodControls(NoControls)
    <3>1. /\ NoControls = [value |-> NoControls.value, time |-> NoControls.time]
          /\ NoControls.value \in [Actions -> Int] /\ NoControls.time \in [Actions -> Int]
      BY DEF NoControls
    <3>2. 0 \in -Full..Full /\ 0 \in 0..1
      BY Ranges
    <3>3. \A a \in Actions : NoControls.value[a] = 0
      BY NoControlsFacts
    <3>4. \A a \in Actions : InChannel(a, NoControls.value[a])
      BY <3>2, <3>3 DEF InChannel
    <3> QED
      BY <3>1, <3>4 DEF GoodControls
  <2>2. r \in Streams
    BY <2>1, WrittenBackFacts
  <2> QED
    BY <2>1, <2>2, NoControlsFacts, SearchAssumption DEF Sound
<1>2. p \in Controls /\ f \in Controls
  BY <1>1, ControlsFacts DEF Before0, Found0, Expected, Found
<1>3. q \in Controls /\ m \in Controls
  BY <1>1, ControlsFacts DEF After0
<1>4. ASSUME NEW c \in Actions
      PROVE  q.value[c] = p.value[c] /\ p.time[c] <= s /\ (p.time[c] = s <=> SetAt(b, c, s))
  <2>1. q.value = ControlsAt(b, NoControls, Origin, s).value
    BY <1>1, RestoredValues DEF After0
  <2>2. ControlsAt(b, NoControls, Origin, s).value[c] = p.value[c]
    <3>1. ControlsAt(b, NoControls, Origin, s).value[c]
            = ControlsAt(b, NoControls, 0, s).value[c]
      BY <1>1, ValuesOfOrigins
    <3> QED
      BY <3>1 DEF Before0, Expected
  <2>3. p.time[c] <= s /\ (p.time[c] = s <=> SetAt(b, c, s))
    <3> HIDE DEF s
    <3>1. LET x == ControlsAt(b, NoControls, 0, s)
          IN x.time[c] <= s /\ (x.time[c] = s <=> SetAt(b, c, s))
      BY <1>1, ExpectedTimes
    <3> QED
      BY <3>1 DEF Before0, Expected, s
  <2> QED
    BY <2>1, <2>2, <2>3
<1>5. ASSUME NEW c \in Actions PROVE Shift(f, m, c) /\ m.value[c] = f.value[c]
  <2>1. Shift(ControlsAt(es, NoControls, 0, s), m, c)
    BY <1>1, ShiftedTimes
  <2>2. m.value[c] = ControlsAt(es, NoControls, 0, s).value[c]
    BY <1>1, ValuesOfOrigins
  <2> QED
    BY <2>1, <2>2 DEF Found0, Found
<1>6. ASSUME NEW c \in Actions, IsRestored(p, f, c)
      PROVE  WrittenAt(p, q, end, c, RestoredAt(p, end, c))
  <2>1. IsRestored(Expected(b, NoControls, end), Found(es, NoControls, end), c)
    BY <1>6 DEF Before0, Found0
  <2>2. LET x == Expected(b, NoControls, end)
        IN /\ RestoredAt(x, end, c) = s \/ SetAt(b, c, s) => q.time[c] = Origin + s
           /\ RestoredAt(x, end, c) # s /\ ~SetAt(b, c, s) => q.time[c] = Origin + s - 1
    BY <1>1, <2>1, RestoredChannel DEF After0
  <2> QED
    BY <1>4, <2>2 DEF Before0, WrittenAt
<1>7. ASSUME NEW c \in Actions, ~IsRestored(p, f, c) PROVE AsBefore(m, q, c)
  <2>1. ~IsRestored(Expected(b, NoControls, end), Found(es, NoControls, end), c)
    BY <1>7 DEF Before0, Found0
  <2> QED
    BY <1>1, <2>1, OtherChannel DEF After0
<1> HIDE DEF p, f, q, m
<1>8. Around(p, f, q, m, end)
  BY <1>2, <1>3, <1>4, <1>5, <1>6, <1>7 DEF Around
<1> QED
  BY <1>8 DEF p, f, q, m

\* The steering is the baseline's again, ...
LEMMA RestoredSteering ==
    ASSUME NEW b, Sound(b), Canonical(b), Begun(b), NEW es, Sound(es), Canonical(es),
           DigitalStays(b, es), NEW end \in Nat, At(es, end + 2) = At(b, end + 2)
    PROVE  Steering(After0(es, b, end)) = Steering(Before0(b, end))
<1> DEFINE s == end + 2
           p == Before0(b, end)
           f == Found0(es, end)
           q == After0(es, b, end)
           m == ControlsAt(es, NoControls, Origin, s)
<1>1. Around(p, f, q, m, end)
  BY AroundRestoration
<1>2. /\ SteeringGroup \subseteq Actions /\ Steer \in Actions
      /\ SteerLeft \in Actions /\ SteerRight \in Actions
      /\ {Steer, SteerLeft, SteerRight} = SteeringGroup
  BY Groups DEF SteeringGroup
<1>3. SameValues(p, q, SteeringGroup)
  BY <1>1, <1>2 DEF SameValues, Around
<1>4. s \in Int /\ s > 0 /\ Origin \in Int /\ end \in Int
  BY SearchAssumption
<1>5. CASE SteeringDiffers(p, f)
  <2> HIDE DEF p, f, q, m
  <2>1. \A c \in SteeringGroup : WrittenAt(p, q, end, c, RestoredAt(p, end, c))
    BY <1>1, <1>2, <1>5, Groups DEF Around, IsRestored
  <2>2. /\ RestoredAt(p, end, Steer) = AnalogTime(AnalogSteeringWins(p), end)
        /\ RestoredAt(p, end, SteerLeft) = DigitalTime(AnalogSteeringWins(p), end)
        /\ RestoredAt(p, end, SteerRight) = DigitalTime(AnalogSteeringWins(p), end)
    BY Groups DEF RestoredAt, Steer, Gas, SteerLeft, SteerRight, Accelerate, Brake, Digital
  <2>3. SteeringTie(p) \in BOOLEAN /\ (SteeringTie(p) <=> SteeringTie(q))
    BY <1>3, TiesByValues DEF SteeringTie
  <2>4. AnalogSteeringWins(p) <=> Wins(p, Steer, SteerLeft, SteerRight, SteeringTie(p))
    BY <1>1, SteeringPriority DEF Around
  <2>5. Wins(p, Steer, SteerLeft, SteerRight, SteeringTie(p))
            <=> Wins(q, Steer, SteerLeft, SteerRight, SteeringTie(p))
    BY <1>1, <1>2, <2>1, <2>2, <2>3, <2>4, RestoredPriority DEF Around
  <2>6. Wins(p, Steer, SteerLeft, SteerRight, SteeringTie(p))
            <=> Wins(q, Steer, SteerLeft, SteerRight, SteeringTie(q))
    BY <2>3, <2>5 DEF Wins
  <2>7. Steering(p) = Steering(q)
    BY <1>1, <1>3, <2>6, SteeringPriority, SteeringByValues DEF Around
  <2> QED
    BY <2>7 DEF p, q
<1>6. CASE ~SteeringDiffers(p, f)
  <2>1. SameValues(f, p, SteeringGroup) /\ (AnalogSteeringWins(p) <=> AnalogSteeringWins(f))
    <3> HIDE DEF p, f
    <3> QED
      BY <1>2, <1>6 DEF SteeringDiffers, Differ, SameValues
  <2>2. \A c \in SteeringGroup : AsBefore(m, q, c)
    <3> HIDE DEF p, f, q, m
    <3> QED
      BY <1>1, <1>2, <1>6 DEF IsRestored, Around
  <2>3. ASSUME m.time[SteerLeft] = 0, m.time[SteerRight] = 0, ~AnalogSteeringWins(f)
        PROVE  f.value[Steer] = 0
    <3>1. NotSet(es, SteerLeft, s) /\ NotSet(es, SteerRight, s)
      <4>1. \A c \in Actions : ~NotSet(es, c, s) => m.time[c] > 0
        BY <1>4, ShiftedTimes
      <4> QED
        BY <1>2, <2>3, <4>1
    <3>2. ASSUME NEW c \in {SteerLeft, SteerRight}, ~NotSet(b, c, s) PROVE FALSE
      <4>1. PICK j \in DOMAIN b : b[j].action = c /\ b[j].time <= s
        <5>1. \A j \in DOMAIN b : b[j].time \in Int
          BY StreamFacts DEF Sound
        <5> QED
          BY <1>4, <3>2, <5>1 DEF NotSet
      <4>2. PICK i \in DOMAIN es : SameChannel(es[i], b[j])
        BY <3>2, <4>1 DEF DigitalStays, Digital
      <4>3. es[i].action = c /\ es[i].time <= s /\ es[i].time \in Int
        BY <4>1, <4>2, StreamFacts DEF SameChannel, Sound
      <4>4. NotSet(es, c, s)
        BY <3>1, <3>2
      <4> QED
        BY <1>4, <4>3, <4>4 DEF NotSet
    <3>3. \A c \in Actions : /\ NotSet(b, c, s) => p.value[c] = 0
                             /\ ~NotSet(b, c, s) => p.time[c] > 0
                             /\ p.value[c] = 0 \/ p.time[c] > 0
      <4> SUFFICES ASSUME NEW c \in Actions
                   PROVE  /\ NotSet(b, c, s) => p.value[c] = 0
                          /\ ~NotSet(b, c, s) => p.time[c] > 0
                          /\ p.value[c] = 0 \/ p.time[c] > 0
        OBVIOUS
      <4> HIDE DEF s
      <4>1. LET x == ControlsAt(b, NoControls, 0, s)
            IN /\ NotSet(b, c, s) => x.value[c] = 0
               /\ ~NotSet(b, c, s) => x.time[c] > 0
               /\ x.value[c] = 0 \/ x.time[c] > 0
        BY <1>4, ExpectedTimes
      <4> QED
        BY <4>1 DEF Before0, Expected, s
    <3>4. p.time[SteerLeft] = 0 /\ p.time[SteerRight] = 0
      <4>1. NotSet(b, SteerLeft, s) /\ NotSet(b, SteerRight, s)
        BY <3>2
      <4>2. \A c \in Actions : NotSet(b, c, s) => p.time[c] = 0
        <5> SUFFICES ASSUME NEW c \in Actions, NotSet(b, c, s) PROVE p.time[c] = 0
          OBVIOUS
        <5> HIDE DEF s
        <5>1. ControlsAt(b, NoControls, 0, s).time[c] = NoControls.time[c]
          BY <1>4, NoControlsFacts, ControlsNotSet DEF Sound
        <5> QED
          BY <5>1, NoControlsFacts DEF Before0, Expected, s
      <4> QED
        BY <1>2, <4>1, <4>2
    <3>5. ASSUME p.time[Steer] > 0 PROVE FALSE
      <4> HIDE DEF p, f
      <4>1. Wins(p, Steer, SteerLeft, SteerRight, SteeringTie(p))
        <5>1. p.time[Steer] \in Int
          BY <1>1, <1>2, ChannelNumbers DEF Around
        <5> QED
          BY <3>4, <3>5, <5>1 DEF Wins, Reaches, Passes
      <4> QED
        BY <1>1, <2>1, <2>3, <4>1, SteeringPriority DEF Around
    <3>6. p.value[Steer] = 0
      BY <1>2, <3>3, <3>5
    <3> QED
      BY <1>2, <2>1, <3>6 DEF SameValues, SteeringGroup
  <2> HIDE DEF p, f, q, m
  <2>4. Steering(f) = Steering(m)
    <3>1. \A c \in SteeringGroup : Shift(f, m, c) /\ m.value[c] = f.value[c]
      BY <1>1, <1>2 DEF Around
    <3> QED
      BY <1>1, <2>3, <3>1, SteeringOfOrigins DEF Around
  <2>5. Steering(m) = Steering(q)
    BY <1>1, <2>2, SteeringUnchanged DEF Around
  <2>6. Steering(f) = Steering(p)
    BY <2>1, SteeringByValues
  <2>7. Steering(q) = Steering(p)
    BY <2>4, <2>5, <2>6
  <2> QED
    BY <2>7 DEF p, q
<1> QED
  BY <1>5, <1>6

\* ... and so are the gates, ...
LEMMA RestoredGates ==
    ASSUME NEW b, Sound(b), Canonical(b), Begun(b), NEW es, Sound(es), Canonical(es),
           DigitalStays(b, es), NEW end \in Nat, At(es, end + 2) = At(b, end + 2)
    PROVE  Gates(After0(es, b, end)) = Gates(Before0(b, end))
<1> DEFINE s == end + 2
           p == Before0(b, end)
           f == Found0(es, end)
           q == After0(es, b, end)
           m == ControlsAt(es, NoControls, Origin, s)
<1>1. Around(p, f, q, m, end)
  BY AroundRestoration
<1>2. /\ GasGroup \subseteq Actions /\ Gas \in Actions
      /\ Accelerate \in Actions /\ Brake \in Actions
      /\ {Gas, Accelerate, Brake} = GasGroup
  BY Groups DEF GasGroup
<1>3. SameValues(p, q, GasGroup)
  BY <1>1, <1>2 DEF SameValues, Around
<1>4. s \in Int /\ s > 0 /\ Origin \in Int /\ end \in Int
  BY SearchAssumption
<1>5. CASE GasDiffers(p, f)
  <2> HIDE DEF p, f, q, m
  <2>1. \A c \in GasGroup : WrittenAt(p, q, end, c, RestoredAt(p, end, c))
    BY <1>1, <1>2, <1>5, Groups DEF Around, IsRestored
  <2>2. /\ RestoredAt(p, end, Gas) = AnalogTime(AnalogGasWins(p), end)
        /\ RestoredAt(p, end, Accelerate) = DigitalTime(AnalogGasWins(p), end)
        /\ RestoredAt(p, end, Brake) = DigitalTime(AnalogGasWins(p), end)
    BY Groups DEF RestoredAt, Steer, Gas, SteerLeft, SteerRight, Accelerate, Brake, Digital
  <2>3. GasTie(p) \in BOOLEAN /\ (GasTie(p) <=> GasTie(q))
    BY <1>3, TiesByValues DEF GasTie
  <2>4. AnalogGasWins(p) <=> Wins(p, Gas, Accelerate, Brake, GasTie(p))
    BY <1>1, GasPriority DEF Around
  <2>5. Wins(p, Gas, Accelerate, Brake, GasTie(p))
            <=> Wins(q, Gas, Accelerate, Brake, GasTie(p))
    BY <1>1, <1>2, <2>1, <2>2, <2>3, <2>4, RestoredPriority DEF Around
  <2>6. Wins(p, Gas, Accelerate, Brake, GasTie(p))
            <=> Wins(q, Gas, Accelerate, Brake, GasTie(q))
    BY <2>3, <2>5 DEF Wins
  <2>7. Gates(p) = Gates(q)
    BY <1>1, <1>3, <2>6, GasPriority, GatesByValues DEF Around
  <2> QED
    BY <2>7 DEF p, q
<1>6. CASE ~GasDiffers(p, f)
  <2>1. SameValues(f, p, GasGroup) /\ (AnalogGasWins(p) <=> AnalogGasWins(f))
    <3> HIDE DEF p, f
    <3> QED
      BY <1>2, <1>6 DEF GasDiffers, Differ, SameValues
  <2>2. \A c \in GasGroup : AsBefore(m, q, c)
    <3> HIDE DEF p, f, q, m
    <3> QED
      BY <1>1, <1>2, <1>6, Groups DEF IsRestored, Around
  <2> HIDE DEF p, f, q, m
  <2>4. Gates(f) = Gates(m)
    <3>1. \A c \in GasGroup : Shift(f, m, c) /\ m.value[c] = f.value[c]
      BY <1>1, <1>2 DEF Around
    <3> QED
      BY <1>1, <3>1, GatesOfOrigins DEF Around
  <2>5. Gates(m) = Gates(q)
    BY <1>1, <2>2, GatesUnchanged DEF Around
  <2>6. Gates(f) = Gates(p)
    BY <2>1, GatesByValues
  <2>7. Gates(q) = Gates(p)
    BY <2>4, <2>5, <2>6
  <2> QED
    BY <2>7 DEF p, q
<1> QED
  BY <1>5, <1>6

\* ... and all that the car feels.
LEMMA RestoredFeel ==
    ASSUME NEW b, Sound(b), Canonical(b), Begun(b), NEW es, Sound(es), Canonical(es),
           DigitalStays(b, es), NEW end \in Nat, At(es, end + 2) = At(b, end + 2)
    PROVE  ControlsFromState(ControlsAt(WrittenBackTo(es, b, NoControls, end),
                                        NoControls, Origin, end + 2))
                = ControlsFromState(ControlsAt(b, NoControls, Origin, end + 2))
<1>1. end + 2 \in Int /\ end + 2 > 0
  OBVIOUS
<1>2. ControlsFromState(ControlsAt(b, NoControls, 0, end + 2))
        = ControlsFromState(ControlsAt(b, NoControls, Origin, end + 2))
  BY <1>1, ExpectedPriority
<1>3. Steering(After0(es, b, end)) = Steering(Before0(b, end))
  BY RestoredSteering
<1>4. Gates(After0(es, b, end)) = Gates(Before0(b, end))
  BY RestoredGates
<1>5. ControlsFromState(After0(es, b, end)) = ControlsFromState(Before0(b, end))
  BY <1>3, <1>4 DEF ControlsFromState
<1> QED
  BY <1>2, <1>5 DEF After0, Before0, Expected

-----------------------------------------------------------------------------
(* The controls after a segment, from its restoration on.                  *)

\* It does where the streams agree up to now, ...
LEMMA FeelOfAgreement ==
    ASSUME NEW a, Sound(a), Canonical(a), NEW b, Sound(b), Canonical(b),
           NEW initial \in Controls, NEW t \in Int, t >= 0,
           \A u \in Int : u <= t => At(a, u) = At(b, u)
    PROVE  SameFeel(a, b, initial, t)
<1>1. Origin \in Int
  BY SearchAssumption
<1>2. ControlsAt(a, initial, Origin, t) = ControlsAt(b, initial, Origin, t)
  BY <1>1, AgreeingControls
<1> QED
  BY <1>2 DEF SameFeel

\* ... after a change that lies ahead, ...
LEMMA FeelIsKept ==
    ASSUME NEW a, Sound(a), Canonical(a), NEW b, NEW c, Sound(c), Canonical(c),
           NEW initial \in Controls, NEW t \in Int, t >= 0,
           \A u \in Int : u <= t => At(c, u) = At(a, u), SameFeel(a, b, initial, t)
    PROVE  SameFeel(c, b, initial, t)
<1>1. Origin \in Int
  BY SearchAssumption
<1>2. ControlsAt(c, initial, Origin, t) = ControlsAt(a, initial, Origin, t)
  BY <1>1, AgreeingControls
<1> QED
  BY <1>2 DEF SameFeel

\* ... for as long as the streams agree, ...
LEMMA FeelLasts ==
    ASSUME NEW a, Sound(a), Canonical(a), NEW b, Sound(b), Canonical(b),
           NEW initial \in Controls, NEW s \in Int, s >= 0, NEW t \in Int, s <= t,
           Agree(a, b, s, t), SameFeel(a, b, initial, s)
    PROVE  SameFeel(a, b, initial, t)
<1>1. /\ Origin \in Int /\ Origin >= 0 /\ a \in Streams /\ b \in Streams
      /\ ControlsAt(a, initial, Origin, s).value = ControlsAt(b, initial, Origin, s).value
  BY SearchAssumption DEF Sound, SameFeel
<1>2. ControlsAt(a, initial, Origin, t).value = ControlsAt(b, initial, Origin, t).value
  BY <1>1, ValuesAfter
<1>3. ASSUME initial = NoControls, Begun(b)
      PROVE  ControlsFromState(ControlsAt(a, initial, Origin, t))
                = ControlsFromState(ControlsAt(b, initial, Origin, t))
  <2>1. ControlsFromState(ControlsAt(a, initial, Origin, s))
            = ControlsFromState(ControlsAt(b, initial, Origin, s))
    BY <1>3 DEF SameFeel
  <2>2. \A c \in Actions : initial.time[c] <= Origin + s
    BY <1>1, <1>3, NoControlsFacts
  <2> QED
    BY <1>1, <2>1, <2>2, ControlsAfterStretch
<1> QED
  BY <1>2, <1>3 DEF SameFeel

\* ... and after a restoration.
LEMMA FeelOfRestoration ==
    ASSUME NEW b, Sound(b), Canonical(b), NEW es, Sound(es), Canonical(es),
           NEW initial, GoodControls(initial), DigitalStays(b, es),
           NEW end \in Nat, At(es, end + 2) = At(b, end + 2)
    PROVE  SameFeel(WrittenBackTo(es, b, initial, end), b, initial, end + 2)
<1>1. ControlsAt(WrittenBackTo(es, b, initial, end), initial, Origin, end + 2).value
        = ControlsAt(b, initial, Origin, end + 2).value
  BY RestoredValues
<1>2. ASSUME initial = NoControls, Begun(b)
      PROVE  ControlsFromState(ControlsAt(WrittenBackTo(es, b, initial, end),
                                          initial, Origin, end + 2))
                = ControlsFromState(ControlsAt(b, initial, Origin, end + 2))
  BY <1>2, RestoredFeel
<1> QED
  BY <1>1, <1>2 DEF SameFeel

\* Whole ticks that follow one another are a tick apart.
LEMMA TicksApart ==
    ASSUME NEW a \in Int, NEW b \in Int, Floor(a) = a, Floor(b) = b, a < b
    PROVE  a + Tick <= b
<1> DEFINE p == a \div Tick
           q == b \div Tick
<1>1. p \in Int /\ q \in Int /\ a = p * Tick /\ b = q * Tick /\ Tick \in Nat /\ Tick > 0
  BY SearchAssumption DEF Floor
<1> HIDE DEF p, q
<1>2. p < q
  <2> SUFFICES ASSUME q <= p PROVE FALSE
    BY <1>1
  <2>1. q * Tick <= p * Tick
    BY <1>1, Products
  <2> QED
    BY <1>1, <2>1
<1>3. p + 1 <= q /\ p + 1 \in Int
  BY <1>1, <1>2
<1>4. (p + 1) * Tick <= q * Tick /\ (p + 1) * Tick = p * Tick + Tick
  BY <1>1, <1>3, Products
<1> QED
  BY <1>1, <1>4

\* Between segments there is at least a tick.
LEMMA SegmentsApart ==
    ASSUME Requested, NEW i \in DOMAIN search.segments, NEW j \in DOMAIN search.segments,
           i < j
    PROVE  search.segments[i].last + Tick <= search.segments[j].first
<1>1. /\ search.segments[i].last \in Int /\ search.segments[j].first \in Int
      /\ Floor(search.segments[i].last) = search.segments[i].last
      /\ Floor(search.segments[j].first) = search.segments[j].first
      /\ search.segments[i].last < search.segments[j].first
  BY PartsFacts
<1> QED
  BY <1>1, TicksApart

\* The streams of a search by segments.
LEMMA SegmentStreams ==
    ASSUME SuffixInvariant, ~Flat
    PROVE  /\ Requested /\ selected \subseteq DOMAIN search.segments /\ normalized
           /\ Sound(events) /\ Canonical(events) /\ Normalize(events) = events
           /\ Sound(search.baseline) /\ Canonical(search.baseline)
           /\ Normalize(search.baseline) = search.baseline
           /\ GoodControls(search.boundary) /\ search.boundary \in Controls
           /\ Parts = Len(search.segments) /\ DOMAIN search.segments = 1..Parts
           /\ Parts \in Nat /\ part \in Int
<1>1. Requested /\ selected \subseteq DOMAIN search.segments /\ normalized
      /\ Sound(events) /\ Canonical(events) /\ part \in 1..(Parts + 1)
  BY DEF SuffixInvariant, PlaceInWork, FlagIsTrue
<1>2. WellPrepared(search)
  BY <1>1, RequestFacts
<1>3. Sound(search.baseline) /\ Canonical(search.baseline) /\ GoodControls(search.boundary)
  BY <1>2 DEF WellPrepared, Flat
<1>4. search.boundary \in Controls
  BY <1>3 DEF GoodControls, Controls
<1>5. Normalize(events) = events /\ Normalize(search.baseline) = search.baseline
  BY <1>1, <1>3, SoundIsNormal
<1>6. Parts = Len(search.segments) /\ DOMAIN search.segments = 1..Parts /\ Parts \in Nat
      /\ part \in Int
  BY <1>1, RequestFacts
<1> QED
  BY <1>1, <1>3, <1>4, <1>5, <1>6

\* A change ahead of the restored segments leaves them restored.
LEMMA RestoredStay ==
    ASSUME SuffixInvariant, ~Flat, RestoredIsKept, part \in 1..Parts,
           NEW r, Sound(r), Canonical(r),
           \A u \in Int : u < search.segments[part].first => At(r, u) = At(events, u),
           NEW i \in selected, HandedBack(i)
    PROVE  SameFeel(r, search.baseline, search.boundary, search.segments[i].last + 2)
<1> DEFINE s == search.segments[i].last + 2
<1>1. /\ Requested /\ i \in DOMAIN search.segments /\ part \in DOMAIN search.segments
      /\ Sound(events) /\ Canonical(events) /\ search.boundary \in Controls
  BY SegmentStreams
<1>2. /\ search.segments[i].last \in Int /\ 0 <= search.segments[i].last
      /\ search.segments[part].first \in Int
  BY <1>1, PartsFacts
<1>3. search.segments[i].last + Tick <= search.segments[part].first
  BY <1>1, SegmentsApart DEF HandedBack
<1>4. s \in Int /\ s >= 0 /\ s < search.segments[part].first
  BY <1>2, <1>3, SearchAssumption
<1>5. SameFeel(events, search.baseline, search.boundary, s)
  BY DEF RestoredIsKept
<1> HIDE DEF s
<1>6. \A u \in Int : u <= s => At(r, u) = At(events, u)
  BY <1>2, <1>4
<1>7. SameFeel(r, search.baseline, search.boundary, s)
  BY <1>1, <1>4, <1>5, <1>6, FeelIsKept
<1> QED
  BY <1>7 DEF s

\* The invariant where nothing is written, and no segment is done with that
\* was mutated.
LEMMA RestorationUnwritten ==
    ASSUME RestorationInvariant, selected \subseteq DOMAIN search.segments,
           search' = search, selected' = selected, events' = events,
           part' = part \/ (part' = part + 1 /\ part \notin selected),
           part \in Int, DOMAIN search.segments \subseteq Int
    PROVE  RestorationInvariant'
<1>1. \A i \in selected : i \in Int
  OBVIOUS
<1>2. \A i \in selected : (i < part)' <=> i < part
  BY <1>1
<1>3. (Flat' <=> Flat) /\ \A t : (InSelected(t)' <=> InSelected(t))
  BY DEF Flat, InSelected
<1>4. ASSUME ~Flat PROVE PendingIsKept' /\ RestoredIsKept'
  <2>1. PendingIsKept /\ RestoredIsKept
    BY <1>4 DEF RestorationInvariant
  <2>2. \A t : (Writable(t)' <=> Writable(t)) /\ (WrittenBack(t)' <=> WrittenBack(t))
    BY <1>2, <1>3 DEF Writable, WrittenBack
  <2>3. \A i \in selected : HandedBack(i)' <=> HandedBack(i)
    BY <1>2, <1>3 DEF HandedBack
  <2>4. PendingIsKept'
    BY <2>1, <2>2 DEF PendingIsKept
  <2>5. RestoredIsKept'
    BY <2>1, <2>3 DEF RestoredIsKept
  <2> QED
    BY <2>4, <2>5
<1> QED
  BY <1>3, <1>4 DEF RestorationInvariant

\* It holds at first, and when the slot is used again.
LEMMA RestorationAtFirst ==
    /\ Init => RestorationInvariant
    /\ SuffixInvariant /\ NextCandidate => RestorationInvariant'
<1>1. ASSUME Init PROVE RestorationInvariant
  <2>1. SuffixInvariant
    BY <1>1, SuffixInvariantInit
  <2>2. events = search.baseline /\ part = 1
    BY <1>1 DEF Init
  <2>3. ASSUME ~Flat PROVE RestoredIsKept
    <3>1. \A i \in selected : i \in Int /\ i >= 1
      BY <2>1, <2>3, SegmentStreams
    <3> QED
      BY <2>2, <3>1 DEF RestoredIsKept, HandedBack
  <2> QED
    BY <2>2, <2>3 DEF RestorationInvariant, PendingIsKept, DigitalStays, SameChannel
<1>2. ASSUME SuffixInvariant, NextCandidate PROVE RestorationInvariant'
  <2>1. SuffixInvariant'
    BY <1>2, SuffixInvariantNextCandidate
  <2>2. events' = search.baseline /\ part' = 1 /\ search' = search
    BY <1>2 DEF NextCandidate, Begin
  <2>3. Flat' <=> Flat
    BY <2>2 DEF Flat
  <2>4. ASSUME ~Flat PROVE RestoredIsKept'
    <3>1. selected' \subseteq DOMAIN search.segments
      BY <2>1, <2>2 DEF SuffixInvariant, PlaceInWork
    <3>2. \A i \in selected' : i \in Int /\ i >= 1
      BY <1>2, <2>4, <3>1, SegmentStreams
    <3>3. \A i \in selected' : ~(i < part')
      BY <2>2, <3>2
    <3> QED
      BY <3>3 DEF RestoredIsKept, HandedBack
  <2>5. PendingIsKept'
    BY <2>2 DEF PendingIsKept
  <2>6. DigitalStays(search.baseline, events)'
    BY <2>2 DEF DigitalStays, SameChannel
  <2> QED
    BY <2>3, <2>4, <2>5, <2>6 DEF RestorationInvariant
<1> QED
  BY <1>1, <1>2

\* It writes ahead of the segments before.
LEMMA MutateWritesAhead ==
    ASSUME SuffixInvariant, Mutate, ~Flat
    PROVE  /\ Sound(events') /\ Canonical(events')
           /\ \A t \in Int : ~Writable(t) => At(events', t) = At(events, t)
           /\ \A u \in Int : u < search.segments[part].first => At(events', u) = At(events, u)
<1> DEFINE m == search.pipeline[pass]
           w == WindowOf(m)
<1>1. /\ search' = search /\ part \in 1..Parts /\ GoodWindow(w)
      /\ \A t \in Int : ~Writable(t) => Outside(w, t)
      /\ \E r \in ApplyModifier(m, w) : Modified(r, w, Growth(m)) /\ events' = r.events
      /\ search.segments[part].first <= Floor(w.first)
  BY MutateFacts
<1> HIDE DEF m, w
<1>2. Requested /\ part \in DOMAIN search.segments /\ Normalize(events) = events
  BY <1>1, SegmentStreams
<1>3. Sound(events') /\ Canonical(events') /\ Normalize(events') = events'
  <2>1. Flat' <=> Flat
    BY <1>1 DEF Flat
  <2>2. Sound(events') /\ Canonical(events')
    BY <2>1, SuffixInvariantMutate DEF SuffixInvariant, FlagIsTrue
  <2> QED
    BY <2>2, SoundIsNormal
<1>4. Outcome(events, events', w, Growth(m))
  BY <1>1 DEF Modified
<1>5. \A t \in Int : Outside(w, t) => At(events', t) = At(events, t)
  BY <1>2, <1>3, <1>4 DEF Outcome, Untouched
<1>6. search.segments[part].first \in Int /\ Floor(w.first) \in Int
  BY <1>1, <1>2, PartsFacts, WindowFacts
<1>7. \A u \in Int : u < search.segments[part].first => Outside(w, u)
  BY <1>1, <1>6 DEF Outside
<1> QED
  BY <1>1, <1>3, <1>5, <1>7

\* The segments before stay restored.
LEMMA RestorationMutate ==
    ASSUME SuffixInvariant, RestorationInvariant, Mutate
    PROVE  RestorationInvariant'
<1>1. search' = search /\ selected' = selected /\ part' = part /\ part \in 1..Parts
  BY MutateFacts
<1>2. (Flat' <=> Flat) /\ \A t : (InSelected(t)' <=> InSelected(t))
  BY <1>1 DEF Flat, InSelected
<1> SUFFICES ASSUME ~Flat
             PROVE  /\ PendingIsKept' /\ RestoredIsKept'
                    /\ DigitalStays(search.baseline, events)'
  BY <1>2 DEF RestorationInvariant
<1>3. PendingIsKept /\ RestoredIsKept /\ DigitalStays(search.baseline, events)
  BY DEF RestorationInvariant
<1>4. /\ Sound(events') /\ Canonical(events')
      /\ \A t \in Int : ~Writable(t) => At(events', t) = At(events, t)
      /\ \A u \in Int : u < search.segments[part].first => At(events', u) = At(events, u)
  BY MutateWritesAhead
<1>5. PendingIsKept'
  <2>1. \A t : (Writable(t)' <=> Writable(t)) /\ (WrittenBack(t)' <=> WrittenBack(t))
    BY <1>1, <1>2 DEF Writable, WrittenBack
  <2> QED
    BY <1>1, <1>3, <1>4, <2>1 DEF PendingIsKept
<1>6. DigitalStays(search.baseline, events')
  <2>1. DigitalStays(events, events')
    BY MutateFacts DEF Modified, Outcome
  <2> QED
    BY <1>3, <2>1, DigitalStaysOn
<1>7. RestoredIsKept'
  <2>1. \A i \in selected : HandedBack(i) =>
            SameFeel(events', search.baseline, search.boundary, search.segments[i].last + 2)
    BY <1>1, <1>3, <1>4, RestoredStay
  <2>2. \A i \in selected : HandedBack(i)' <=> HandedBack(i)
    BY <1>1, <1>2 DEF HandedBack
  <2> QED
    BY <1>1, <2>1, <2>2 DEF RestoredIsKept
<1> QED
  BY <1>1, <1>5, <1>6, <1>7

\* What the end of a segment writes, in the place of what was there.
LEMMA EndSegmentWrites ==
    ASSUME SuffixInvariant, EndSegment
    PROVE  LET end == search.segments[part].last
           IN /\ \A t \in Int : t \notin {end + 1, end + 2} => At(events', t) = At(events, t)
              /\ InSelected(end + Tick) => events' = events
              /\ ~InSelected(end + Tick) =>
                    events' = WrittenBackTo(events, search.baseline, search.boundary, end)
<1> DEFINE end == search.segments[part].last
           r == IF InSelected(end + Tick) THEN events ELSE RestoreSegmentControls(events, end)
<1>1. /\ ~Flat /\ part \in selected /\ end \in Nat /\ Sound(r)
      /\ \A t \in Int : t \notin {end + 1, end + 2} => At(r, t) = At(events, t)
      /\ events' = Normalize(r)
  BY EndSegmentFacts, SMTT(40)
<1>2. Sound(events) /\ Normalize(events) = events
  BY <1>1, SegmentStreams
<1> HIDE DEF end
<1>3. ASSUME ~InSelected(end + Tick)
      PROVE  r = events \o Restoration(ControlsAt(search.baseline, search.boundary, 0, end + 2),
                                       ControlsAt(events, search.boundary, 0, end + 2), end)
  <2>1. r = RestoreSegmentControls(events, end)
    BY <1>3
  <2>2. r # Overflow
    BY <1>1, OverflowAssumption DEF Sound, Streams
  <2> QED
    BY <2>1, <2>2 DEF RestoreSegmentControls
<1>4. InSelected(end + Tick) => r = events
  OBVIOUS
<1> HIDE DEF r
<1>5. ASSUME NEW t \in Int, t \notin {end + 1, end + 2}
      PROVE  At(events', t) = At(events, t)
  <2>1. At(r, t) = At(events, t) /\ r \in Streams /\ events \in Streams
    BY <1>1, <1>2, <1>5 DEF Sound
  <2>2. At(Normalize(r), t) = At(Normalize(events), t)
    BY <2>1, NormalizeSameAt
  <2> QED
    BY <1>1, <1>2, <2>2
<1>6. InSelected(end + Tick) => events' = events
  BY <1>1, <1>2, <1>4
<1>7. ~InSelected(end + Tick) =>
        events' = WrittenBackTo(events, search.baseline, search.boundary, end)
  BY <1>1, <1>3 DEF WrittenBackTo, Expected, Found
<1> QED
  BY <1>5, <1>6, <1>7 DEF end

\* The last of the two times after the segment is the baseline's still.
LEMMA NotYetWritten ==
    ASSUME SuffixInvariant, RestorationInvariant, ~Flat, part \in selected,
           ~InSelected(search.segments[part].last + Tick)
    PROVE  At(events, search.segments[part].last + 2)
                = At(search.baseline, search.segments[part].last + 2)
<1> DEFINE end == search.segments[part].last
<1>1. /\ Requested /\ selected \subseteq DOMAIN search.segments /\ part \in Int
      /\ DOMAIN search.segments = 1..Parts /\ Parts \in Nat
  BY SegmentStreams
<1>2. /\ end \in Int /\ 0 <= search.segments[part].first /\ search.segments[part].first <= end
      /\ search.segments[part].first \in Int /\ Tick \in Int /\ Tick > 2
  BY <1>1, PartsFacts, SearchAssumption
<1>3. ASSUME NEW i \in selected
      PROVE  /\ search.segments[i].last \in Int /\ search.segments[i].first \in Int
             /\ i \in Int
             /\ i < part => search.segments[i].last < search.segments[part].first
             /\ i > part => end + Tick <= search.segments[i].first
  <2>1. search.segments[i].last \in Int /\ search.segments[i].first \in Int /\ i \in Int
    BY <1>1, PartsFacts
  <2>2. i < part => search.segments[i].last < search.segments[part].first
    BY <1>1, PartsFacts
  <2>3. i > part => end + Tick <= search.segments[i].first
    BY <1>1, SegmentsApart
  <2> QED
    BY <2>1, <2>2, <2>3
<1> HIDE DEF end
<1>4. ~Writable(end + 2)
  <2> SUFFICES ASSUME InSelected(end + 2) PROVE FALSE
    BY DEF Writable
  <2>1. PICK i \in selected : search.segments[i].first <= end + 2
                              /\ end + 2 <= search.segments[i].last
    BY DEF InSelected, InWindow
  <2>2. CASE i < part
    BY <1>2, <1>3, <2>1, <2>2
  <2>3. CASE i = part
    BY <1>2, <2>1, <2>3 DEF end
  <2>4. CASE i > part
    BY <1>2, <1>3, <2>1, <2>4
  <2> QED
    BY <1>1, <1>3, <2>2, <2>3, <2>4
<1>5. ~WrittenBack(end + 2)
  <2> DEFINE t == end + 2
  <2> SUFFICES ASSUME WrittenBack(t) PROVE FALSE
    OBVIOUS
  <2> HIDE DEF t
  <2> PICK i \in selected : i < part /\ t - search.segments[i].last \in 1..2
    BY DEF WrittenBack
  <2>1. /\ search.segments[i].last \in Int
        /\ search.segments[i].last < search.segments[part].first
    BY <1>3
  <2>2. search.segments[i].last < end
    BY <1>2, <2>1
  <2> QED
    BY <1>2, <2>1, <2>2 DEF t
<1> QED
  BY <1>2, <1>4, <1>5 DEF RestorationInvariant, PendingIsKept, end

\* A segment that is done with has the baseline's controls after it.
LEMMA RestorationEndSegment ==
    ASSUME SuffixInvariant, RestorationInvariant, EndSegment
    PROVE  RestorationInvariant'
<1> DEFINE end == search.segments[part].last
<1>1. /\ InWork /\ ~Flat /\ part \in selected /\ part \in 1..Parts /\ end \in Nat
      /\ part' = part + 1 /\ search' = search /\ selected' = selected
  BY EndSegmentFacts, SMTT(40)
<1>2. SuffixInvariant'
  BY SuffixInvariantEndSegment
<1>3. (Flat' <=> Flat) /\ \A t : (InSelected(t)' <=> InSelected(t))
  BY <1>1 DEF Flat, InSelected
<1>4. /\ Requested /\ selected \subseteq DOMAIN search.segments /\ part \in Int
      /\ Sound(events) /\ Canonical(events)
      /\ Sound(search.baseline) /\ Canonical(search.baseline)
      /\ GoodControls(search.boundary)
      /\ DOMAIN search.segments = 1..Parts /\ Parts \in Nat
  BY <1>1, SegmentStreams
<1>5. /\ \A t \in Int : t \notin {end + 1, end + 2} => At(events', t) = At(events, t)
      /\ InSelected(end + Tick) => events' = events
      /\ ~InSelected(end + Tick) =>
            events' = WrittenBackTo(events, search.baseline, search.boundary, end)
  BY EndSegmentWrites
<1>6. PendingIsKept /\ RestoredIsKept /\ DigitalStays(search.baseline, events)
  BY <1>1 DEF RestorationInvariant
<1>7. Sound(events') /\ Canonical(events')
  BY <1>1, <1>2, <1>3 DEF SuffixInvariant, FlagIsTrue
<1>8. \A i \in selected : (i < part)' <=> i < part \/ i = part
  BY <1>1, <1>4
<1>9. PendingIsKept'
  <2> SUFFICES ASSUME NEW t \in Int, ~Writable(t)', ~WrittenBack(t)'
               PROVE  At(events', t) = At(search.baseline, t)
    BY <1>1 DEF PendingIsKept
  <2>1. ~Writable(t)
    BY <1>1, <1>3 DEF Writable
  <2>2. \A i \in selected : i < part \/ i = part => ~(t - search.segments[i].last \in 1..2)
    BY <1>1, <1>8 DEF WrittenBack
  <2>3. ~WrittenBack(t)
    BY <2>2 DEF WrittenBack
  <2>4. t \notin {end + 1, end + 2}
    BY <1>1, <2>2
  <2> QED
    BY <1>5, <1>6, <2>1, <2>3, <2>4 DEF PendingIsKept
<1> HIDE DEF end
<1>10. DigitalStays(search.baseline, events')
  <2>1. CASE InSelected(end + Tick)
    BY <1>5, <1>6, <2>1
  <2>2. CASE ~InSelected(end + Tick)
    <3> DEFINE expected == Expected(search.baseline, search.boundary, end)
               found == Found(events, search.boundary, end)
    <3>1. RestoredWith(events', events, expected, found, end)
      BY <1>1, <1>4, <1>5, <2>2, WrittenBackFacts
    <3> HIDE DEF expected, found
    <3>2. \A j \in DOMAIN events : \E k \in DOMAIN events' : SameChannel(events'[k], events[j])
      <4> SUFFICES ASSUME NEW j \in DOMAIN events
                   PROVE  \E k \in DOMAIN events' : SameChannel(events'[k], events[j])
        OBVIOUS
      <4>1. CASE \E k \in DOMAIN events' : events'[k] = events[j]
        BY <4>1 DEF SameChannel
      <4>2. CASE \E c \in Actions :
                    /\ IsRestored(expected, found, c)
                    /\ SameChannel(RestoringEvent(expected, end, c), events[j])
        <5>1. PICK c \in Actions :
                    /\ IsRestored(expected, found, c)
                    /\ SameChannel(RestoringEvent(expected, end, c), events[j])
          BY <4>2
        <5>2. PICK k \in DOMAIN events' : events'[k] = RestoringEvent(expected, end, c)
          BY <3>1, <5>1 DEF RestoredWith
        <5> QED
          BY <5>1, <5>2
      <4> QED
        BY <3>1, <4>1, <4>2 DEF RestoredWith
    <3>3. DigitalStays(events, events')
      BY <3>2 DEF DigitalStays
    <3> QED
      BY <1>6, <3>3, DigitalStaysOn
  <2> QED
    BY <2>1, <2>2
<1>11. RestoredIsKept'
  <2> SUFFICES ASSUME NEW i \in selected, HandedBack(i)'
               PROVE  SameFeel(events', search.baseline, search.boundary,
                               search.segments[i].last + 2)
    BY <1>1 DEF RestoredIsKept
  <2>1. (i < part \/ i = part) /\ ~InSelected(search.segments[i].last + Tick)
    BY <1>1, <1>3, <1>8 DEF HandedBack
  <2>2. CASE i < part
    <3>1. search.segments[part].first \in Int /\ search.segments[part].first <= end
          /\ end \in Int
      BY <1>1, <1>4, PartsFacts DEF end
    <3>2. \A u \in Int : u < search.segments[part].first => At(events', u) = At(events, u)
      BY <1>5, <3>1
    <3>3. HandedBack(i)
      BY <2>1, <2>2 DEF HandedBack
    <3> QED
      BY <1>1, <1>6, <1>7, <3>2, <3>3, RestoredStay
  <2>3. CASE i = part
    <3>1. events' = WrittenBackTo(events, search.baseline, search.boundary, end)
      BY <1>5, <2>1, <2>3 DEF end
    <3>2. At(events, end + 2) = At(search.baseline, end + 2)
      BY <1>1, <2>1, <2>3, NotYetWritten DEF end
    <3>3. SameFeel(events', search.baseline, search.boundary, end + 2)
      BY <1>1, <1>4, <1>6, <3>1, <3>2, FeelOfRestoration
    <3> QED
      BY <2>3, <3>3 DEF end
  <2> QED
    BY <2>1, <2>2, <2>3
<1> QED
  BY <1>1, <1>9, <1>10, <1>11 DEF RestorationInvariant

\* The controls after every segment that is done with are the baseline's.
THEOREM SegmentsAreRestored == Spec => []RestorationInvariant
<1>1. Init => RestorationInvariant
  BY RestorationAtFirst
<1>2. SuffixInvariant /\ RestorationInvariant /\ [Next]_vars => RestorationInvariant'
  <2> SUFFICES ASSUME SuffixInvariant, RestorationInvariant, [Next]_vars
               PROVE  RestorationInvariant'
    OBVIOUS
  <2>1. CASE Mutate
    BY <2>1, RestorationMutate
  <2>2. CASE EndSegment
    BY <2>2, RestorationEndSegment
  <2>3. CASE EndPipeline
    <3>1. Flat /\ search' = search
      BY <2>3 DEF EndPipeline
    <3> QED
      BY <3>1 DEF RestorationInvariant, Flat
  <2>4. CASE NextCandidate
    BY <2>4, RestorationAtFirst
  <2>5. CASE SkipSegment \/ SkipModifier \/ Deliver \/ UNCHANGED vars
    <3>1. /\ search' = search /\ selected' = selected /\ events' = events
          /\ part' = part \/ (part' = part + 1 /\ (Flat \/ part \notin selected))
      BY <2>5 DEF SkipSegment, SkipModifier, Deliver, vars, Mutates
    <3>2. selected \subseteq DOMAIN search.segments /\ DOMAIN search.segments \subseteq Int
          /\ part \in Int
      <4>1. /\ Requested /\ selected \subseteq DOMAIN search.segments
            /\ part \in 1..(Parts + 1)
        BY DEF SuffixInvariant, PlaceInWork
      <4> QED
        BY <4>1, RequestFacts
    <3>3. CASE Flat
      BY <3>1, <3>3 DEF RestorationInvariant, Flat
    <3>4. CASE ~Flat
      BY <3>1, <3>2, <3>4, RestorationUnwritten
    <3> QED
      BY <3>3, <3>4
  <2> QED
    BY <2>1, <2>2, <2>3, <2>4, <2>5 DEF Next
<1> QED
  BY <1>1, <1>2, SuffixInvariance, PTL DEF Spec

\* The last of the segments that end before a time.
LEMMA LastSegmentBefore ==
    ASSUME Requested, selected \subseteq DOMAIN search.segments, NEW t,
           NEW k \in selected, search.segments[k].last < t
    PROVE  \E i \in selected : /\ search.segments[i].last < t
                               /\ \A j \in selected : search.segments[j].last < t => j <= i
<1> DEFINE S == {i \in selected : search.segments[i].last < t}
<1>1. DOMAIN search.segments = 1..Len(search.segments) /\ Len(search.segments) \in Nat
  BY RequestFacts
<1>2. IsFiniteSet(1..Len(search.segments)) /\ 1..Len(search.segments) \subseteq Int
  BY <1>1, FS_Interval
<1>3. S \subseteq 1..Len(search.segments) /\ S # {}
  BY <1>1
<1>4. IsFiniteSet(S) /\ S \in SUBSET Int
  BY <1>2, <1>3, FS_Subset
<1>5. Max(S) \in S /\ \A j \in S : j <= Max(S)
  <2> HIDE DEF S
  <2> QED
    BY <1>3, <1>4, MaxFacts
<1> QED
  BY <1>5

\* A time between the last of them and a time outside all segments is closed,
\* but for the two times after it.
LEMMA BetweenSegments ==
    ASSUME Requested, selected \subseteq DOMAIN search.segments, ~Flat,
           NEW t \in Int, ~InSelected(t), NEW u \in Int, u <= t,
           \A j \in selected : search.segments[j].last < t => search.segments[j].last + 2 < u
    PROVE  Closed(u)
<1>1. \A j \in selected : search.segments[j].last \in Int /\ search.segments[j].first \in Int
  BY PartsFacts
<1>2. ~Writable(u)
  <2> SUFFICES ASSUME InSelected(u) PROVE FALSE
    BY DEF Writable
  <2>1. PICK j \in selected : search.segments[j].first <= u /\ u <= search.segments[j].last
    BY DEF InSelected, InWindow
  <2>2. search.segments[j].last >= t
    <3> SUFFICES ASSUME search.segments[j].last < t PROVE FALSE
      BY <1>1
    <3>1. search.segments[j].last + 2 < u
      OBVIOUS
    <3> QED
      BY <1>1, <2>1, <3>1
  <2>3. search.segments[j].first <= t /\ t <= search.segments[j].last
    BY <1>1, <2>1, <2>2
  <2> QED
    BY <2>3 DEF InSelected, InWindow
<1>3. ~RestoreTime(u)
  <2> SUFFICES ASSUME RestoreTime(u) PROVE FALSE
    OBVIOUS
  <2>1. PICK j \in selected : u - search.segments[j].last \in 1..2
    BY DEF RestoreTime
  <2>2. search.segments[j].last < t
    BY <1>1, <2>1
  <2>3. search.segments[j].last + 2 < u
    BY <2>2
  <2> QED
    BY <1>1, <2>1, <2>3
<1> QED
  BY <1>2, <1>3 DEF Closed

\* A closed time has the events of the baseline.
LEMMA ClosedInSegments ==
    ASSUME SuffixInvariant, ~Flat, NEW t \in Int, Closed(t)
    PROVE  At(events, t) = At(search.baseline, t)
BY SegmentStreams DEF SuffixInvariant, ClosedIsKept

\* In a tick outside the selected segments every channel has the baseline's
\* value, and a search whose inputs begin after the boundary gives the car the
\* baseline's controls: the segments that were mutated before it are restored,
\* and nothing is changed in between.
THEOREM UnselectedTicksAreTheBaseline == Spec => []UnselectedTicksFollowBaseline
<1>1. SuffixInvariant /\ RestorationInvariant => UnselectedTicksFollowBaseline
  <2> SUFFICES ASSUME SuffixInvariant, RestorationInvariant, Delivered, ~Flat,
                      NEW t \in Unselected
               PROVE  SameFeel(events, search.baseline, search.boundary, t)
    BY DEF UnselectedTicksFollowBaseline, SameFeel, Simulated, Fresh, Begun
  <2>1. /\ Requested /\ selected \subseteq DOMAIN search.segments
        /\ Sound(events) /\ Canonical(events)
        /\ Sound(search.baseline) /\ Canonical(search.baseline)
        /\ search.boundary \in Controls
        /\ DOMAIN search.segments = 1..Parts /\ Parts \in Nat /\ part \in Int
        /\ part > Parts
    BY SegmentStreams DEF SuffixInvariant, PlaceInWork
  <2>2. \A j \in selected :
            /\ search.segments[j].last \in Int /\ search.segments[j].first \in Int
            /\ 0 <= search.segments[j].first
            /\ search.segments[j].first <= search.segments[j].last
            /\ Floor(search.segments[j].last) = search.segments[j].last /\ j < part
            /\ j \in Int
    <3> SUFFICES ASSUME NEW j \in selected
                 PROVE  /\ search.segments[j].last \in Int /\ search.segments[j].first \in Int
                        /\ 0 <= search.segments[j].first
                        /\ search.segments[j].first <= search.segments[j].last
                        /\ Floor(search.segments[j].last) = search.segments[j].last
                        /\ j < part /\ j \in Int
      OBVIOUS
    <3>1. j \in DOMAIN search.segments /\ j < part /\ j \in Int
      BY <2>1
    <3> QED
      BY <2>1, <3>1, PartsFacts
  <2>3. t \in Int /\ t >= 0 /\ Floor(t) = t /\ ~InSelected(t)
    <3> DEFINE w == [first |-> 0, last |->
                Max({search.segments[i].last : i \in DOMAIN search.segments}) + 2 * Tick]
    <3>1. t \in TicksIn(w) /\ ~InSelected(t)
      BY DEF Unselected
    <3>2. w.first = 0
      OBVIOUS
    <3> HIDE DEF w
    <3>3. Tick \in Nat /\ Tick > 0
      BY SearchAssumption
    <3>4. PICK n \in (w.first \div Tick)..(w.last \div Tick) : t = n * Tick
      BY <3>1 DEF TicksIn
    <3>5. n \in Nat
      BY <3>2, <3>3, <3>4
    <3>6. 0 * Tick <= n * Tick /\ 0 * Tick = 0 /\ n * Tick \in Int
      BY <3>3, <3>5, Products
    <3>7. (n * Tick) \div Tick = n
      BY <3>3, <3>5
    <3> QED
      BY <3>1, <3>4, <3>6, <3>7 DEF Floor
  <2> HIDE DEF Unselected
  <2>4. CASE \A j \in selected : ~(search.segments[j].last < t)
    <3>1. \A u \in Int : u <= t => Closed(u)
      BY <2>1, <2>3, <2>4, BetweenSegments
    <3>2. \A u \in Int : u <= t => At(events, u) = At(search.baseline, u)
      BY <3>1, ClosedInSegments
    <3> QED
      BY <2>1, <2>3, <3>2, FeelOfAgreement
  <2>5. CASE \E j \in selected : search.segments[j].last < t
    <3>1. PICK i \in selected :
            /\ search.segments[i].last < t
            /\ \A j \in selected : search.segments[j].last < t => j <= i
      BY <2>1, <2>5, LastSegmentBefore
    <3> DEFINE e == search.segments[i].last
    <3>2. /\ e \in Int /\ e >= 0 /\ e < t /\ e + Tick <= t /\ Tick \in Int /\ Tick > 2
      BY <2>2, <2>3, <3>1, TicksApart, SearchAssumption
    <3>3. ASSUME NEW j \in selected, search.segments[j].last < t
          PROVE  search.segments[j].last <= e
      <4>1. j <= i /\ i \in DOMAIN search.segments /\ j \in DOMAIN search.segments
        BY <2>1, <3>1, <3>3
      <4>2. j < i => search.segments[j].last < search.segments[i].first
        BY <2>1, <4>1, PartsFacts
      <4> QED
        BY <2>2, <4>1, <4>2
    <3> HIDE DEF e
    <3>4. ~InSelected(e + Tick)
      <4> SUFFICES ASSUME InSelected(e + Tick) PROVE FALSE
        OBVIOUS
      <4>1. PICK j \in selected : /\ search.segments[j].first <= e + Tick
                                  /\ e + Tick <= search.segments[j].last
        BY DEF InSelected, InWindow
      <4>2. ~(search.segments[j].last <= e)
        BY <2>2, <3>2, <4>1
      <4>3. ~(search.segments[j].last < t)
        BY <3>3, <4>2
      <4>4. search.segments[j].first <= t /\ t <= search.segments[j].last
        BY <2>2, <2>3, <3>2, <4>1, <4>3
      <4> QED
        BY <2>3, <4>4 DEF InSelected, InWindow
    <3>5. SameFeel(events, search.baseline, search.boundary, e + 2)
      BY <2>2, <3>4 DEF RestorationInvariant, RestoredIsKept, HandedBack, e
    <3>6. ASSUME NEW u \in Int, e + 2 < u, u <= t PROVE Closed(u)
      <4>1. \A j \in selected : search.segments[j].last < t => search.segments[j].last + 2 < u
        <5> SUFFICES ASSUME NEW j \in selected, search.segments[j].last < t
                     PROVE  search.segments[j].last + 2 < u
          OBVIOUS
        <5>1. search.segments[j].last <= e /\ search.segments[j].last \in Int
          BY <2>2, <3>3
        <5> QED
          BY <3>2, <3>6, <5>1
      <4> QED
        BY <2>1, <2>3, <3>6, <4>1, BetweenSegments
    <3>7. Agree(events, search.baseline, e + 2, t)
      BY <3>6, ClosedInSegments DEF Agree
    <3>8. e + 2 \in Int /\ e + 2 >= 0 /\ e + 2 <= t
      BY <2>3, <3>2
    <3> QED
      BY <2>1, <2>3, <3>5, <3>7, <3>8, FeelLasts
  <2> QED
    BY <2>4, <2>5
<1> QED
  BY <1>1, SuffixInvariance, SegmentsAreRestored, PTL

-----------------------------------------------------------------------------
(* What dropping redundant steering does to the wheel.                     *)

\* As long as no steering is kept, the wheel is held.
LEMMA HeldStays ==
    ASSUME NEW es \in Streams, NEW f, NEW initial, HeldValues(f, es, initial), NEW before,
           NEW x \in 0..Len(es), NEW y \in 0..Len(es), x <= y,
           \A n \in DOMAIN es : x < n /\ n <= y /\ n \in KeptPlaces(f, es, before) =>
                es[n].action # Steer
    PROVE  f[y] = f[x]
<1> DEFINE S == {z \in 0..y : z >= x => f[z] = f[x]}
<1>1. Len(es) \in Nat /\ DOMAIN es = 1..Len(es) /\ x \in Nat /\ y \in Nat /\ y <= Len(es)
  BY StreamFacts
<1>2. S \in SUBSET (0..y) /\ 0 \in S
  BY <1>1
<1>3. ASSUME NEW i \in 1..y, i - 1 \in S PROVE i \in S
  <2>1. i \in 0..y /\ i \in DOMAIN es /\ i \in Int
    BY <1>1
  <2>2. CASE i <= x
    BY <1>1, <2>1, <2>2
  <2>3. CASE i > x
    <3>1. f[i - 1] = f[x]
      BY <1>1, <1>3, <2>3
    <3>2. f[i] = IF es[i].action = Steer THEN es[i].value ELSE f[i - 1]
      BY <1>1, <2>1 DEF HeldValues
    <3>3. es[i].action = Steer => es[i].value = f[i - 1]
      BY <1>1, <2>1, <2>3, KeptPlacesFacts
    <3> QED
      BY <2>1, <3>1, <3>2, <3>3
  <2> QED
    BY <1>1, <2>1, <2>2, <2>3
<1> HIDE DEF S
<1>4. S = 0..y
  BY <1>1, <1>2, <1>3, Upward
<1>5. y \in S
  BY <1>1, <1>4
<1> QED
  BY <1>5 DEF S

\* What is kept of a stream, from the places that are.
LEMMA PrunedPlaces ==
    ASSUME NEW b \in Streams, Canonical(b), NEW a, search.boundary.value[Steer] \in Int
    PROVE  \E f, S :
              LET p == Pruned(b, a)
              IN /\ HeldValues(f, b, search.boundary.value[Steer])
                 /\ S = KeptPlaces(f, b, a) /\ S \in SUBSET DOMAIN b
                 /\ \A n \in DOMAIN b : n \notin S =>
                        b[n].action = Steer /\ \A i \in DOMAIN a : a[i] # b[n]
                 /\ p \in Streams /\ Canonical(p)
                 /\ \A k \in DOMAIN p : \E n \in S : p[k] = b[n]
                 /\ \A n \in S : \E k \in DOMAIN p : p[k] = b[n]
<1>1. PICK f : /\ HeldValues(f, b, search.boundary.value[Steer])
               /\ Pruned(b, a) = Kept(b, KeptPlaces(f, b, a))
  BY PrunedFacts
<1> DEFINE S == KeptPlaces(f, b, a)
<1>2. /\ S \in SUBSET DOMAIN b
      /\ \A n \in DOMAIN b : n \notin S =>
            b[n].action = Steer /\ \A i \in DOMAIN a : a[i] # b[n]
  BY KeptPlacesFacts
<1>3. S = KeptPlaces(f, b, a) /\ Pruned(b, a) = Kept(b, S)
  BY <1>1
<1> HIDE DEF S
<1>4. /\ Kept(b, S) \in Streams /\ Canonical(Kept(b, S))
      /\ \A k \in DOMAIN Kept(b, S) : \E n \in S : Kept(b, S)[k] = b[n]
      /\ \A n \in S : \E k \in DOMAIN Kept(b, S) : Kept(b, S)[k] = b[n]
  BY <1>2, KeptSource
<1> QED
  BY <1>1, <1>2, <1>3, <1>4

\* The wheel has the same value, set at the same time or by an event that was
\* dropped.
LEMMA PrunedWheel ==
    ASSUME NEW b \in Streams, Canonical(b), NEW a, search.boundary.value[Steer] \in Int,
           search.boundary \in Controls, NEW origin \in Int, NEW t \in Int
    PROVE  LET x == ControlsAt(Pruned(b, a), search.boundary, origin, t)
               y == ControlsAt(b, search.boundary, origin, t)
           IN /\ x.value[Steer] = y.value[Steer]
              /\ \/ x.time[Steer] = y.time[Steer]
                 \/ \E e \in Events : /\ LastOf(b, Steer, t, e)
                                      /\ \A i \in DOMAIN a : a[i] # e
<1> DEFINE p == Pruned(b, a)
           x == ControlsAt(p, search.boundary, origin, t)
           y == ControlsAt(b, search.boundary, origin, t)
<1>1. PICK f, S :
        /\ HeldValues(f, b, search.boundary.value[Steer])
        /\ S = KeptPlaces(f, b, a) /\ S \in SUBSET DOMAIN b
        /\ \A n \in DOMAIN b : n \notin S =>
              b[n].action = Steer /\ \A i \in DOMAIN a : a[i] # b[n]
        /\ p \in Streams /\ Canonical(p)
        /\ \A k \in DOMAIN p : \E n \in S : p[k] = b[n]
        /\ \A n \in S : \E k \in DOMAIN p : p[k] = b[n]
  BY PrunedPlaces
<1>2. Steer \in Actions
  BY Groups
<1>3. /\ Len(b) \in Nat /\ DOMAIN b = 1..Len(b)
      /\ \A n \in DOMAIN b : b[n] \in Events /\ b[n].time \in Int
  BY StreamFacts
<1>4. \A m \in DOMAIN b, n \in DOMAIN b :
        /\ m < n => b[m].time <= b[n].time
        /\ SameChannel(b[m], b[n]) => m = n
  BY DEF Canonical, Sorted
<1> HIDE DEF p
<1>5. CASE NotSet(b, Steer, t)
  <2>1. NotSet(p, Steer, t)
    BY <1>1, <1>5 DEF NotSet
  <2>2. AsBefore(search.boundary, x, Steer) /\ AsBefore(search.boundary, y, Steer)
    BY <1>1, <1>2, <1>5, <2>1, ControlsNotSet DEF AsBefore
  <2> QED
    BY <1>1, <2>2 DEF AsBefore, p
<1>6. CASE ~NotSet(b, Steer, t)
  <2>1. PICK e \in Events : LastOf(b, Steer, t, e)
    BY <1>2, <1>6, ControlsByLast
  <2>2. /\ e.action = Steer /\ e.time <= t /\ e.time \in Int
        /\ \A n \in DOMAIN b : b[n].action = Steer /\ b[n].time <= t => b[n].time <= e.time
    BY <2>1 DEF LastOf, Events
  <2>3. PICK j \in DOMAIN b : b[j] = e
    BY <2>1 DEF LastOf
  <2>4. y.value[Steer] = e.value /\ y.time[Steer] = origin + e.time
    BY <1>2, <2>1, ControlsSetLast
  <2>5. CASE j \in S
    <3>1. \E k \in DOMAIN p : p[k] = e
      BY <1>1, <2>3, <2>5
    <3>2. \A k \in DOMAIN p : p[k].action = Steer /\ p[k].time <= t => p[k].time <= e.time
      BY <1>1, <2>2
    <3>3. LastOf(p, Steer, t, e)
      BY <2>2, <3>1, <3>2 DEF LastOf
    <3>4. x.value[Steer] = e.value /\ x.time[Steer] = origin + e.time
      BY <1>1, <1>2, <3>3, ControlsSetLast
    <3> QED
      BY <2>4, <3>4 DEF p
  <2>6. CASE j \notin S
    <3>1. \A i \in DOMAIN a : a[i] # e
      BY <1>1, <2>3, <2>6
    <3>2. j \in 1..Len(b) /\ j \in Int /\ f[j] = e.value
      BY <1>1, <1>3, <2>2, <2>3 DEF HeldValues
    <3>3. x.value[Steer] = e.value
      <4>1. CASE NotSet(p, Steer, t)
        <5>1. ASSUME NEW n \in DOMAIN b, 0 < n, n <= j, n \in S PROVE b[n].action # Steer
          <6>1. b[n].time <= t /\ n \in Int
            BY <1>3, <1>4, <2>2, <2>3, <3>2, <5>1
          <6>2. PICK k \in DOMAIN p : p[k] = b[n]
            BY <1>1, <5>1
          <6> QED
            BY <1>3, <4>1, <6>1, <6>2 DEF NotSet
        <5>2. f[j] = f[0]
          <6>1. 0 \in 0..Len(b) /\ j \in 0..Len(b) /\ 0 <= j
            BY <1>3, <3>2
          <6> QED
            BY <1>1, <5>1, <6>1, HeldStays
        <5>3. f[0] = search.boundary.value[Steer]
          BY <1>1 DEF HeldValues
        <5>4. x.value[Steer] = search.boundary.value[Steer]
          BY <1>1, <1>2, <4>1, ControlsNotSet
        <5> QED
          BY <3>2, <5>2, <5>3, <5>4
      <4>2. CASE ~NotSet(p, Steer, t)
        <5>1. PICK d \in Events : LastOf(p, Steer, t, d)
          BY <1>1, <1>2, <4>2, ControlsByLast
        <5>2. /\ d.action = Steer /\ d.time <= t /\ d.time \in Int
              /\ \A k \in DOMAIN p :
                    p[k].action = Steer /\ p[k].time <= t => p[k].time <= d.time
          BY <5>1 DEF LastOf, Events
        <5>3. PICK i \in S : b[i] = d
          BY <1>1, <5>1 DEF LastOf
        <5>4. i \in DOMAIN b /\ i \in 1..Len(b) /\ i \in Int /\ f[i] = d.value
          BY <1>1, <1>3, <5>2, <5>3 DEF HeldValues
        <5>5. d.time <= e.time
          BY <2>2, <5>2, <5>3, <5>4
        <5>6. i <= j
          <6> SUFFICES ASSUME j < i PROVE FALSE
            BY <3>2, <5>4
          <6>1. e.time <= d.time
            BY <1>4, <2>3, <5>3, <5>4
          <6>2. e.time = d.time
            BY <2>2, <5>2, <5>5, <6>1
          <6>3. SameChannel(b[i], b[j])
            BY <2>2, <2>3, <5>2, <5>3, <6>2 DEF SameChannel
          <6> QED
            BY <1>4, <3>2, <5>4, <6>3
        <5>7. ASSUME NEW n \in DOMAIN b, i < n, n <= j, n \in S, b[n].action = Steer
              PROVE  FALSE
          <6>1. b[n].time \in Int /\ n \in Int /\ b[n].time <= t /\ d.time <= b[n].time
            BY <1>3, <1>4, <2>2, <2>3, <3>2, <5>3, <5>4, <5>7
          <6>2. PICK k \in DOMAIN p : p[k] = b[n]
            BY <1>1, <5>7
          <6>3. b[n].time <= d.time
            BY <5>2, <5>7, <6>1, <6>2
          <6>4. b[n].time = d.time
            BY <5>2, <6>1, <6>3
          <6>5. SameChannel(b[i], b[n])
            BY <5>2, <5>3, <5>7, <6>4 DEF SameChannel
          <6> QED
            BY <1>4, <5>4, <5>7, <6>1, <6>5
        <5>8. f[j] = f[i]
          <6>1. i \in 0..Len(b) /\ j \in 0..Len(b)
            BY <1>3, <3>2, <5>4
          <6>2. \A n \in DOMAIN b : i < n /\ n <= j /\ n \in S => b[n].action # Steer
            BY <5>7
          <6> QED
            BY <1>1, <5>6, <6>1, <6>2, HeldStays
        <5>9. x.value[Steer] = d.value
          BY <1>1, <1>2, <5>1, ControlsSetLast
        <5> QED
          BY <3>2, <5>4, <5>8, <5>9
      <4> QED
        BY <4>1, <4>2
    <3> QED
      BY <2>1, <2>4, <3>1, <3>3 DEF p
  <2> QED
    BY <2>5, <2>6
<1> QED
  BY <1>5, <1>6

\* Every other channel is as it was.
LEMMA PrunedChannels ==
    ASSUME NEW b \in Streams, Canonical(b), NEW a, search.boundary.value[Steer] \in Int,
           NEW initial \in Controls, NEW origin \in Int, NEW t \in Int,
           NEW c \in Actions, c # Steer
    PROVE  AsBefore(ControlsAt(b, initial, origin, t),
                    ControlsAt(Pruned(b, a), initial, origin, t), c)
<1> DEFINE p == Pruned(b, a)
<1>1. PICK f, S :
        /\ \A n \in DOMAIN b : n \notin S =>
              b[n].action = Steer /\ \A i \in DOMAIN a : a[i] # b[n]
        /\ S \in SUBSET DOMAIN b /\ p \in Streams /\ Canonical(p)
        /\ \A k \in DOMAIN p : \E n \in S : p[k] = b[n]
        /\ \A n \in S : \E k \in DOMAIN p : p[k] = b[n]
  BY PrunedPlaces
<1> HIDE DEF p
<1>2. /\ \A n \in DOMAIN b : b[n].action = c => \E k \in DOMAIN p : p[k] = b[n]
      /\ \A k \in DOMAIN p : p[k].action = c => \E n \in DOMAIN b : b[n] = p[k]
  BY <1>1
<1>3. AsBefore(ControlsAt(b, initial, origin, t), ControlsAt(p, initial, origin, t), c)
  BY <1>1, <1>2, SameChannelControls
<1> QED
  BY <1>3 DEF p

\* With the digital steering released, the wheel decides: a priority that is
\* not the same is felt by no more than its value.
LEMMA WheelInDeadZone ==
    ASSUME NEW x \in Controls, NEW y \in Controls, SameValues(x, y, SteeringGroup),
           y.value[SteerLeft] = 0, y.value[SteerRight] = 0,
           Abs(y.value[Steer]) > DeadZone =>
                (Reaches(x, Steer, SteerLeft, SteerRight)
                    <=> Reaches(y, Steer, SteerLeft, SteerRight))
    PROVE  Abs(Steering(x) - Steering(y)) <= DeadZone
<1> DEFINE v == y.value[Steer]
<1>1. v \in Int /\ DeadZone \in Int /\ DeadZone >= 0
  BY Groups, ChannelNumbers, SearchAssumption
<1>2. x.value[SteerLeft] = 0 /\ x.value[SteerRight] = 0 /\ x.value[Steer] = v
  BY Groups DEF SameValues
<1>3. (Steering(x) = v \/ Steering(x) = 0) /\ (Steering(y) = v \/ Steering(y) = 0)
  <2>1. Steering(x) = IF AnalogSteeringWins(x) THEN v ELSE 0
    BY <1>2 DEF Steering
  <2>2. Steering(y) = IF AnalogSteeringWins(y) THEN v ELSE 0
    BY DEF Steering
  <2> QED
    BY <2>1, <2>2
<1>4. CASE Abs(v) > DeadZone
  <2>1. SteeringTie(x) /\ SteeringTie(y)
    BY <1>2, <1>4 DEF SteeringTie
  <2>2. AnalogSteeringWins(x) <=> AnalogSteeringWins(y)
    BY <1>4, <2>1, SteeringPriority DEF Wins
  <2>3. Steering(x) = Steering(y)
    BY <2>2, SteeringByValues
  <2> HIDE DEF v
  <2> QED
    BY <1>1, <1>3, <2>3 DEF Abs
<1>5. CASE ~(Abs(v) > DeadZone)
  <2> HIDE DEF v
  <2>1. Abs(v) \in Int
    BY <1>1 DEF Abs
  <2>2. Abs(v) <= DeadZone
    BY <1>1, <1>5, <2>1
  <2> QED
    BY <1>1, <1>3, <2>2 DEF Abs
<1> QED
  BY <1>4, <1>5

-----------------------------------------------------------------------------
(* The digital steering of a search that prunes.                           *)

\* What a request has that prunes: no digital steering, before the boundary or
\* after it.
LEMMA PruningRequest ==
    ASSUME Requested, search.prunes
    PROVE  /\ \A i \in DOMAIN search.baseline : search.baseline[i].action \notin Digital
           /\ \A c \in Digital : search.boundary.value[c] = 0 /\ search.boundary.time[c] = 0
           /\ search.boundary.time[Steer] >= 0
<1>1. PICK s \in Searches : Accepted(s) /\ search = Prepared(s)
  BY DEF Requested
<1>2. /\ s.inputs \in Streams /\ Origin \in Int /\ -Origin \in Int
      /\ \A i \in DOMAIN s.inputs : s.inputs[i].time >= 0
  <2>1. s.inputs \in Streams /\ \A i \in DOMAIN s.inputs : s.inputs[i].time >= 0
    BY <1>1, SearchesAssumption DEF SearchForm, Streams
  <2> QED
    BY <2>1, SearchAssumption
<1>3. \A i \in DOMAIN s.inputs : s.inputs[i].action \notin Digital
  BY <1>1 DEF Prepared, Prunes, Digital
<1>4. ASSUME NEW i \in DOMAIN search.baseline PROVE search.baseline[i].action \notin Digital
  <2>1. SearchForm(s)
    BY <1>1, SearchesAssumption
  <2>2. PICK end \in Int : Prepared(s).baseline = Before(Suffix(s), end + 1)
    BY <1>1, <2>1, EndOfRequest
  <2>3. search.baseline = Before(Suffix(s), end + 1) /\ end + 1 \in Int
    BY <1>1, <2>2
  <2>4. Suffix(s) \in Streams
    BY <1>1, <2>1, SuffixFacts
  <2>5. PICK k \in DOMAIN Suffix(s) : search.baseline[i] = Suffix(s)[k]
    BY <2>3, <2>4, CutFacts
  <2> DEFINE kept == From(s.inputs, Origin)
  <2>6. kept \in Streams /\ \A j \in DOMAIN kept : \E n \in DOMAIN s.inputs : kept[j] = s.inputs[n]
    BY <1>2, CutFacts
  <2>7. Suffix(s) = Shifted(kept, -Origin)
    BY DEF Suffix
  <2> HIDE DEF kept
  <2>8. k \in DOMAIN kept /\ Suffix(s)[k].action = kept[k].action
    BY <1>2, <2>5, <2>6, <2>7, ShiftedFacts
  <2> QED
    BY <1>3, <2>5, <2>6, <2>8
<1> DEFINE es == Before(s.inputs, Origin)
<1>5. /\ es \in Streams
      /\ \A k \in DOMAIN es : \E i \in DOMAIN s.inputs : es[k] = s.inputs[i]
  BY <1>2, CutFacts
<1>6. search.boundary = ControlsAt(es, NoControls, 0, Origin)
  BY <1>1 DEF Prepared
<1> HIDE DEF es
<1>7. \A c \in Actions :
        \/ search.boundary.value[c] = 0 /\ search.boundary.time[c] = 0
        \/ \E i \in DOMAIN es : es[i].action = c /\ search.boundary.time[c] = es[i].time
  <2> SUFFICES ASSUME NEW c \in Actions
               PROVE  \/ search.boundary.value[c] = 0 /\ search.boundary.time[c] = 0
                      \/ \E i \in DOMAIN es : /\ es[i].action = c
                                              /\ search.boundary.time[c] = es[i].time
    OBVIOUS
  <2> DEFINE x == ControlsAt(es, NoControls, 0, Origin)
  <2>1. \/ x.value[c] = NoControls.value[c] /\ x.time[c] = NoControls.time[c]
        \/ \E i \in DOMAIN es : es[i].action = c /\ x.time[c] = 0 + es[i].time
    BY <1>2, <1>5, NoControlsFacts, ControlsFacts DEF SetBy
  <2> HIDE DEF x
  <2>2. \A i \in DOMAIN es : 0 + es[i].time = es[i].time
    BY <1>5, StreamFacts
  <2>3. NoControls.value[c] = 0 /\ NoControls.time[c] = 0
    BY NoControlsFacts
  <2>4. \/ x.value[c] = 0 /\ x.time[c] = 0
        \/ \E i \in DOMAIN es : es[i].action = c /\ x.time[c] = es[i].time
    BY <2>1, <2>2, <2>3
  <2> QED
    BY <1>6, <2>4 DEF x
<1>8. \A c \in Digital : search.boundary.value[c] = 0 /\ search.boundary.time[c] = 0
  BY <1>3, <1>5, <1>7, Groups
<1>9. search.boundary.time[Steer] >= 0
  BY <1>2, <1>5, <1>7, Groups
<1> QED
  BY <1>4, <1>8, <1>9

\* The wheel beside it stays where the stream is not written.
LEMMA RestoredBesideStays ==
    ASSUME NEW a \in Streams, NEW b \in Streams, NEW end \in Int,
           At(b, end + 1) = At(a, end + 1), At(b, end + 2) = At(a, end + 2),
           NEW k \in DOMAIN a, RestoredBeside(a, k, end), NEW j \in DOMAIN b, b[j] = a[k]
    PROVE  RestoredBeside(b, j, end)
<1>1. \A n \in DOMAIN a : a[n].time \in {end + 1, end + 2} => \E m \in DOMAIN b : b[m] = a[n]
  BY SameMoments
<1> DEFINE s == end + 1
           t == end + 2
<1>2. CASE a[k].time = s /\ \E n \in DOMAIN a : a[n].action = Steer /\ a[n].time = t
  <2> HIDE DEF s, t
  <2>1. PICK n \in DOMAIN a : a[n].action = Steer /\ a[n].time = t
    BY <1>2
  <2>2. PICK m \in DOMAIN b : b[m] = a[n]
    BY <1>1, <2>1 DEF s, t
  <2> QED
    BY <1>2, <2>1, <2>2 DEF RestoredBeside, s, t
<1>3. CASE /\ a[k].time = t
           /\ \E n \in DOMAIN a : /\ a[n].action = Steer /\ a[n].time = s
                                  /\ Abs(a[n].value) <= DeadZone
  <2> HIDE DEF s, t
  <2>1. PICK n \in DOMAIN a : /\ a[n].action = Steer /\ a[n].time = s
                              /\ Abs(a[n].value) <= DeadZone
    BY <1>3
  <2>2. PICK m \in DOMAIN b : b[m] = a[n]
    BY <1>1, <2>1 DEF s, t
  <2> QED
    BY <1>3, <2>1, <2>2 DEF RestoredBeside, s, t
<1> QED
  BY <1>2, <1>3 DEF RestoredBeside

\* Digital steering that was there stays beside the wheel, when what is written
\* lies ahead.
LEMMA DigitalBehind ==
    ASSUME SuffixInvariant, OnlyRestoredDigital, search.prunes, part \in 1..Parts,
           NEW r \in Streams,
           \A u \in Int : u < search.segments[part].first => At(r, u) = At(events, u),
           NEW k \in DOMAIN events, events[k].action \in Digital,
           NEW j \in DOMAIN r, r[j] = events[k]
    PROVE  /\ r[j].value = 0
           /\ \E i \in selected : HandedBack(i)
                                  /\ RestoredBeside(r, j, search.segments[i].last)
<1>1. /\ events[k].value = 0
      /\ \E i \in selected : HandedBack(i)
                             /\ RestoredBeside(events, k, search.segments[i].last)
  BY DEF OnlyRestoredDigital
<1>2. PICK i \in selected : HandedBack(i)
                            /\ RestoredBeside(events, k, search.segments[i].last)
  BY <1>1
<1> DEFINE end == search.segments[i].last
<1>3. /\ Requested /\ i \in DOMAIN search.segments /\ events \in Streams
      /\ Parts = Len(search.segments) \/ Flat
  BY RequestFacts DEF SuffixInvariant, PlaceInWork, FlagIsTrue, Sound
<1>4. part \in DOMAIN search.segments
  <2>1. DOMAIN search.segments = 1..Len(search.segments) /\ (Flat <=> Len(search.segments) = 0)
    BY <1>3, RequestFacts
  <2> QED
    BY <1>3, <2>1
<1>5. end \in Int /\ search.segments[part].first \in Int
  BY <1>3, <1>4, PartsFacts
<1>6. end + Tick <= search.segments[part].first /\ Tick > 2 /\ Tick \in Int
  BY <1>2, <1>3, <1>4, SegmentsApart, SearchAssumption DEF HandedBack
<1> HIDE DEF end
<1>7. At(r, end + 1) = At(events, end + 1) /\ At(r, end + 2) = At(events, end + 2)
  BY <1>5, <1>6
<1>8. RestoredBeside(r, j, end)
  BY <1>2, <1>3, <1>5, <1>7, RestoredBesideStays DEF end
<1> QED
  BY <1>1, <1>2, <1>8 DEF end

\* A restored channel of a request that prunes: the digital steering was never
\* set, the wheel not before the start of the race.
LEMMA ExpectedDigital ==
    ASSUME Requested, search.prunes, NEW end \in Nat
    PROVE  LET s == Expected(search.baseline, search.boundary, end)
           IN /\ s \in Controls
              /\ \A c \in Digital : s.value[c] = 0 /\ s.time[c] = 0
              /\ s.time[Steer] >= 0
<1> DEFINE t == end + 2
           s == ControlsAt(search.baseline, search.boundary, 0, t)
<1>1. /\ search.baseline \in Streams /\ Sound(search.baseline)
      /\ search.boundary \in Controls /\ t \in Int
      /\ Steer \in Actions /\ Digital \subseteq Actions
  <2>1. WellPrepared(search)
    BY RequestFacts
  <2> QED
    BY <2>1, Groups DEF WellPrepared, Sound, GoodControls, Controls
<1>2. /\ \A i \in DOMAIN search.baseline : search.baseline[i].action \notin Digital
      /\ \A c \in Digital : search.boundary.value[c] = 0 /\ search.boundary.time[c] = 0
      /\ search.boundary.time[Steer] >= 0
  BY PruningRequest
<1> HIDE DEF t
<1>3. /\ s \in Controls
      /\ \A c \in Actions :
            \/ s.value[c] = search.boundary.value[c] /\ s.time[c] = search.boundary.time[c]
            \/ \E i \in DOMAIN search.baseline :
                /\ search.baseline[i].action = c
                /\ s.time[c] = 0 + search.baseline[i].time
  BY <1>1, ControlsFacts DEF SetBy
<1> HIDE DEF s
<1>4. s.time[Steer] >= 0
  <2>1. \A i \in DOMAIN search.baseline : 0 + search.baseline[i].time >= 0
    BY <1>1, StreamFacts DEF Sound
  <2> QED
    BY <1>1, <1>2, <1>3, <2>1
<1>5. \A c \in Digital : s.value[c] = 0 /\ s.time[c] = 0
  BY <1>1, <1>2, <1>3
<1> QED
  BY <1>3, <1>4, <1>5 DEF Expected, s, t

\* What a segment writes back of it stands beside the wheel.
LEMMA WrittenBeside ==
    ASSUME Requested, search.prunes, NEW end \in Nat, NEW r \in Streams, NEW found,
           GoodControls(Expected(search.baseline, search.boundary, end)),
           \A c \in Actions :
                IsRestored(Expected(search.baseline, search.boundary, end), found, c) =>
                    \E k \in DOMAIN r : r[k] = RestoringEvent(
                            Expected(search.baseline, search.boundary, end), end, c),
           NEW c \in Digital,
           IsRestored(Expected(search.baseline, search.boundary, end), found, c),
           NEW j \in DOMAIN r,
           r[j] = RestoringEvent(Expected(search.baseline, search.boundary, end), end, c)
    PROVE  r[j].value = 0 /\ RestoredBeside(r, j, end)
<1> DEFINE s == Expected(search.baseline, search.boundary, end)
           wins == AnalogSteeringWins(s)
<1>1. /\ s \in Controls /\ \A d \in Digital : s.value[d] = 0 /\ s.time[d] = 0
      /\ s.time[Steer] >= 0
  BY ExpectedDigital
<1>2. Steer \in Actions /\ c \in Actions /\ c # Steer /\ c # Gas
      /\ c \in SteeringGroup /\ SteerLeft \in Digital /\ SteerRight \in Digital
  BY Groups DEF SteeringGroup, Gas, SteerLeft, SteerRight
<1>3. IsRestored(s, found, Steer)
  BY <1>2, Groups DEF IsRestored
<1>4. \A d \in Actions : LET e == RestoringEvent(s, end, d)
                         IN e.action = d /\ e.value = s.value[d] /\ e.time = RestoredAt(s, end, d)
  BY RestoringEventFacts
<1> HIDE DEF s
<1>5. PICK n \in DOMAIN r : r[n] = RestoringEvent(s, end, Steer)
  BY <1>2, <1>3 DEF s
<1>6. /\ r[n].action = Steer /\ r[n].value = s.value[Steer]
      /\ r[n].time = AnalogTime(wins, end)
  <2>1. RestoredAt(s, end, Steer) = AnalogTime(wins, end)
    BY DEF RestoredAt, Steer, Gas, Digital, SteerLeft, SteerRight
  <2> QED
    BY <1>2, <1>5, <1>4, <2>1
<1>7. r[j].value = 0 /\ r[j].time = DigitalTime(wins, end)
  <2>1. RestoredAt(s, end, c) = DigitalTime(wins, end)
    BY <1>2 DEF RestoredAt
  <2> QED
    BY <1>1, <1>2, <1>4, <2>1 DEF s
<1>8. CASE wins
  BY <1>6, <1>7, <1>8 DEF RestoredBeside, AnalogTime, DigitalTime
<1>9. CASE ~wins
  <2>1. s.time[Steer] \in Int /\ s.value[Steer] \in Int /\ DeadZone \in Int
    BY <1>1, <1>2, ChannelNumbers, SearchAssumption
  <2>2. Reaches(s, Steer, SteerLeft, SteerRight)
    BY <1>1, <1>2, <2>1 DEF Reaches
  <2>3. ~SteeringTie(s)
    BY <1>1, <1>9, <2>2, SteeringPriority DEF Wins
  <2>4. Abs(s.value[Steer]) <= DeadZone
    BY <1>1, <1>2, <2>1, <2>3 DEF SteeringTie, Abs
  <2> QED
    BY <1>6, <1>7, <1>9, <2>4 DEF RestoredBeside, AnalogTime, DigitalTime
<1> QED
  BY <1>7, <1>8, <1>9

\* A modifier leaves it where it is, ...
LEMMA RestoredDigitalMutate ==
    ASSUME SuffixInvariant, OnlyRestoredDigital, Mutate
    PROVE  OnlyRestoredDigital'
<1>1. /\ search' = search /\ selected' = selected /\ part' = part /\ part \in 1..Parts
      /\ NothingDigital(events, events')
  BY MutateFacts DEF Modified, Outcome
<1>2. SUFFICES ASSUME search.prunes, NEW k \in DOMAIN events', events'[k].action \in Digital
               PROVE  /\ events'[k].value = 0
                      /\ \E i \in selected :
                            /\ HandedBack(i)'
                            /\ RestoredBeside(events', k, search.segments[i].last)
  BY <1>1 DEF OnlyRestoredDigital
<1>3. PICK j \in DOMAIN events : events[j] = events'[k]
  BY <1>1, <1>2 DEF NothingDigital
<1>4. ~Flat
  BY <1>2, <1>3 DEF OnlyRestoredDigital, SuffixInvariant, PlaceInWork, Flat
<1>5. /\ events' \in Streams
      /\ \A u \in Int : u < search.segments[part].first => At(events', u) = At(events, u)
  BY <1>4, MutateWritesAhead DEF Sound
<1>6. /\ events'[k].value = 0
      /\ \E i \in selected : HandedBack(i)
                             /\ RestoredBeside(events', k, search.segments[i].last)
  BY <1>1, <1>2, <1>3, <1>5, DigitalBehind
<1>7. \A i \in selected : HandedBack(i)' <=> HandedBack(i)
  BY <1>1 DEF HandedBack, InSelected
<1> QED
  BY <1>6, <1>7

\* ... a segment that is done with adds its own.
LEMMA RestoredDigitalEndSegment ==
    ASSUME SuffixInvariant, OnlyRestoredDigital, EndSegment
    PROVE  OnlyRestoredDigital'
<1> DEFINE end == search.segments[part].last
<1>1. /\ ~Flat /\ part \in selected /\ part \in 1..Parts /\ end \in Nat
      /\ part' = part + 1 /\ search' = search /\ selected' = selected
  BY EndSegmentFacts, SMTT(40)
<1>2. /\ Requested /\ selected \subseteq DOMAIN search.segments /\ DOMAIN search.segments = 1..Parts
      /\ Parts \in Nat /\ Sound(events) /\ Canonical(events) /\ GoodControls(search.boundary)
      /\ Sound(search.baseline) /\ Canonical(search.baseline)
  BY <1>1, SegmentStreams
<1>3. /\ \A t \in Int : t \notin {end + 1, end + 2} => At(events', t) = At(events, t)
      /\ InSelected(end + Tick) => events' = events
      /\ ~InSelected(end + Tick) =>
            events' = WrittenBackTo(events, search.baseline, search.boundary, end)
  BY EndSegmentWrites
<1>4. \A i \in selected :
        HandedBack(i) \/ (i = part /\ ~InSelected(end + Tick)) => HandedBack(i)'
  <2>1. \A i \in selected : (i < part)' <=> i < part \/ i = part
    <3>1. part \in Int /\ \A i \in selected : i \in Int
      BY <1>1, <1>2
    <3>2. part' = part + 1
      BY <1>1
    <3> QED
      BY <3>1, <3>2
  <2>2. \A t : InSelected(t)' <=> InSelected(t)
    BY <1>1 DEF InSelected
  <2>3. \A i \in selected : HandedBack(i)' <=>
            (i < part \/ i = part) /\ ~InSelected(search.segments[i].last + Tick)
    BY <1>1, <2>1, <2>2 DEF HandedBack
  <2>4. \A i \in selected :
            HandedBack(i) => i < part /\ ~InSelected(search.segments[i].last + Tick)
    BY DEF HandedBack
  <2> QED
    BY <1>1, <2>3, <2>4
<1>5. search.segments[part].first \in Int /\ search.segments[part].first <= end
  BY <1>1, <1>2, PartsFacts
<1> HIDE DEF end
<1>6. SUFFICES ASSUME search.prunes, NEW k \in DOMAIN events', events'[k].action \in Digital
               PROVE  /\ events'[k].value = 0
                      /\ \E i \in selected :
                            /\ HandedBack(i)'
                            /\ RestoredBeside(events', k, search.segments[i].last)
  BY <1>1 DEF OnlyRestoredDigital
<1>7. CASE InSelected(end + Tick)
  BY <1>3, <1>4, <1>6, <1>7 DEF OnlyRestoredDigital
<1>8. CASE ~InSelected(end + Tick)
  <2> DEFINE expected == Expected(search.baseline, search.boundary, end)
             found == Found(events, search.boundary, end)
  <2>1. events' \in Streams /\ GoodControls(expected)
        /\ RestoredWith(events', events, expected, found, end)
    BY <1>1, <1>2, <1>3, <1>8, WrittenBackFacts
  <2> HIDE DEF expected, found
  <2>2. CASE \E i \in DOMAIN events : events'[k] = events[i]
    <3>1. PICK j \in DOMAIN events : events'[k] = events[j]
      BY <2>2
    <3>2. \A u \in Int : u < search.segments[part].first => At(events', u) = At(events, u)
      BY <1>1, <1>3, <1>5
    <3>3. /\ events'[k].value = 0
          /\ \E i \in selected : HandedBack(i)
                                 /\ RestoredBeside(events', k, search.segments[i].last)
      BY <1>1, <1>6, <2>1, <3>1, <3>2, DigitalBehind
    <3> QED
      BY <1>4, <3>3
  <2>3. CASE \E c \in Actions : /\ IsRestored(expected, found, c)
                                /\ events'[k] = RestoringEvent(expected, end, c)
    <3>1. PICK c \in Actions : /\ IsRestored(expected, found, c)
                               /\ events'[k] = RestoringEvent(expected, end, c)
      BY <2>3
    <3>2. c \in Digital
      BY <1>6, <3>1 DEF RestoringEvent, Event
    <3>3. \A d \in Actions : IsRestored(expected, found, d) =>
            \E n \in DOMAIN events' : events'[n] = RestoringEvent(expected, end, d)
      BY <2>1 DEF RestoredWith
    <3>4. events'[k].value = 0 /\ RestoredBeside(events', k, end)
      BY <1>1, <1>2, <1>6, <2>1, <3>1, <3>2, <3>3, WrittenBeside DEF expected
    <3> QED
      BY <1>1, <1>4, <1>8, <3>4 DEF end
  <2> QED
    BY <2>1, <2>2, <2>3 DEF RestoredWith
<1> QED
  BY <1>7, <1>8

\* Nothing else writes any.
LEMMA RestoredDigitalStep ==
    /\ Init => OnlyRestoredDigital
    /\ SuffixInvariant /\ OnlyRestoredDigital /\ [Next]_vars => OnlyRestoredDigital'
<1>1. ASSUME Init PROVE OnlyRestoredDigital
  <2>1. Requested /\ events = search.baseline
    BY <1>1, SuffixInvariantInit DEF SuffixInvariant, Init
  <2> QED
    BY <2>1, PruningRequest DEF OnlyRestoredDigital
<1>2. ASSUME SuffixInvariant, OnlyRestoredDigital, [Next]_vars PROVE OnlyRestoredDigital'
  <2>1. /\ Requested /\ selected \subseteq DOMAIN search.segments
        /\ DOMAIN search.segments = 1..Len(search.segments) /\ part \in Int
        /\ Parts \in Nat /\ Len(search.segments) \in Nat /\ events \in Streams
    <3>1. Requested /\ selected \subseteq DOMAIN search.segments /\ part \in 1..(Parts + 1)
          /\ Sound(events)
      BY <1>2 DEF SuffixInvariant, PlaceInWork, FlagIsTrue
    <3> QED
      BY <3>1, RequestFacts DEF Sound
  <2>2. CASE Mutate
    BY <1>2, <2>2, RestoredDigitalMutate
  <2>3. CASE EndSegment
    BY <1>2, <2>3, RestoredDigitalEndSegment
  <2>4. CASE EndPipeline
    <3>1. /\ Flat /\ search' = search
          /\ events' = events \/ events' = Normalize(events)
      BY <2>4 DEF EndPipeline
    <3>2. search.prunes => \A k \in DOMAIN events : events[k].action \notin Digital
      BY <1>2, <2>1, <3>1 DEF OnlyRestoredDigital, Flat
    <3>3. search.prunes => \A k \in DOMAIN events' : events'[k].action \notin Digital
      BY <2>1, <3>1, <3>2, SortedSource DEF SameChannel
    <3> QED
      BY <3>1, <3>3 DEF OnlyRestoredDigital
  <2>5. CASE NextCandidate
    <3>1. events' = search.baseline /\ search' = search
      BY <2>5 DEF NextCandidate, Begin
    <3> QED
      BY <2>1, <3>1, PruningRequest DEF OnlyRestoredDigital
  <2>6. CASE SkipSegment \/ SkipModifier \/ Deliver \/ UNCHANGED vars
    <3>1. /\ search' = search /\ selected' = selected /\ events' = events
          /\ part' = part \/ part' = part + 1
      BY <2>6 DEF SkipSegment, SkipModifier, Deliver, vars
    <3>2. \A i \in selected : HandedBack(i) => HandedBack(i)'
      <4>1. \A i \in selected : i < part => i < part'
        BY <2>1, <3>1
      <4> QED
        BY <3>1, <4>1 DEF HandedBack, InSelected
    <3> SUFFICES ASSUME search.prunes, NEW k \in DOMAIN events,
                        events[k].action \in Digital
                 PROVE  /\ events[k].value = 0
                        /\ \E i \in selected :
                            /\ HandedBack(i)'
                            /\ RestoredBeside(events, k, search.segments[i].last)
      BY <3>1 DEF OnlyRestoredDigital
    <3> QED
      BY <1>2, <3>2 DEF OnlyRestoredDigital
  <2> QED
    BY <1>2, <2>2, <2>3, <2>4, <2>5, <2>6 DEF Next
<1> QED
  BY <1>1, <1>2

-----------------------------------------------------------------------------
(* What pruning does is not felt.                                          *)

\* Its digital steering is released: it was never set, or it is of a segment
\* before, where the wheel was restored with it.
LEMMA ReleasedSteering ==
    ASSUME SuffixInvariant, OnlyRestoredDigital, search.prunes, part \in 1..Parts,
           NEW b, WroteAhead(b), NEW t \in Int, NEW c \in Digital
    PROVE  LET y == Simulated(b, t)
           IN /\ y.value[c] = 0
              /\ \/ y.time[c] = 0
                 \/ ~Flat /\ \E d \in Int, n \in DOMAIN b :
                        /\ y.time[c] = Origin + d
                        /\ d < search.segments[part].first
                        /\ b[n].time < search.segments[part].first
                        /\ b[n].action = Steer
                        /\ \/ b[n].time >= d
                           \/ b[n].time = d - 1 /\ Abs(b[n].value) <= DeadZone
<1> DEFINE y == ControlsAt(b, search.boundary, Origin, t)
<1>1. /\ Requested /\ selected \subseteq DOMAIN search.segments /\ b \in Streams
      /\ Canonical(b) /\ Origin \in Int /\ c \in Actions
  BY Groups, SearchAssumption DEF SuffixInvariant, PlaceInWork, WroteAhead, Sound
<1>2. search.boundary \in Controls
  BY <1>1, RequestFacts DEF WellPrepared, GoodControls, Controls
<1>3. CASE NotSet(b, c, t)
  <2>1. y.value[c] = search.boundary.value[c] /\ y.time[c] = search.boundary.time[c]
    BY <1>1, <1>2, <1>3, ControlsNotSet
  <2> QED
    BY <1>1, <2>1, PruningRequest DEF Simulated
<1>4. CASE ~NotSet(b, c, t)
  <2>1. PICK e \in Events : LastOf(b, c, t, e)
    BY <1>1, <1>2, <1>4, ControlsByLast
  <2>2. y.value[c] = e.value /\ y.time[c] = Origin + e.time
    BY <1>1, <1>2, <2>1, ControlsSetLast
  <2>3. PICK k \in DOMAIN b : b[k] = e /\ e.action = c
    BY <2>1 DEF LastOf
  <2>4. PICK j \in DOMAIN events : events[j] = b[k]
    BY <2>3 DEF WroteAhead, NothingDigital
  <2>5. ~Flat
    BY <2>3, <2>4 DEF OnlyRestoredDigital, SuffixInvariant, PlaceInWork, Flat
  <2>6. /\ b[k].value = 0
        /\ \E i \in selected : HandedBack(i)
                               /\ RestoredBeside(b, k, search.segments[i].last)
    <3>1. \A u \in Int : u < search.segments[part].first => At(b, u) = At(events, u)
      BY <2>5 DEF WroteAhead
    <3> QED
      BY <1>1, <2>3, <2>4, <3>1, DigitalBehind
  <2>7. PICK i \in selected : HandedBack(i)
                              /\ RestoredBeside(b, k, search.segments[i].last)
    BY <2>6
  <2>8. /\ part \in DOMAIN search.segments /\ i \in DOMAIN search.segments
        /\ search.segments[i].last \in Int /\ search.segments[part].first \in Int
    BY <1>1, <2>5, SegmentStreams, PartsFacts
  <2>9. /\ search.segments[i].last + Tick <= search.segments[part].first
        /\ Tick \in Int /\ Tick > 2
    BY <1>1, <2>7, <2>8, SegmentsApart, SearchAssumption DEF HandedBack
  <2> DEFINE end == search.segments[i].last
  <2>10. /\ end \in Int /\ RestoredBeside(b, k, end) /\ end + 2 < search.segments[part].first
         /\ e.time \in Int
    BY <2>7, <2>8, <2>9 DEF Events
  <2> HIDE DEF end
  <2>11. /\ e.time < search.segments[part].first
         /\ \E n \in DOMAIN b :
                /\ b[n].time < search.segments[part].first /\ b[n].action = Steer
                /\ \/ b[n].time >= e.time
                   \/ b[n].time = e.time - 1 /\ Abs(b[n].value) <= DeadZone
    <3> DEFINE first == search.segments[part].first
               before == end + 1
               after == end + 2
    <3>1. before \in Int /\ after \in Int /\ before = after - 1 /\ after < first /\ first \in Int
      BY <2>8, <2>10
    <3>2. \/ e.time = before /\ \E n \in DOMAIN b : b[n].action = Steer /\ b[n].time = after
          \/ e.time = after /\ \E n \in DOMAIN b : /\ b[n].action = Steer
                                                  /\ b[n].time = before
                                                  /\ Abs(b[n].value) <= DeadZone
      BY <2>3, <2>10 DEF RestoredBeside
    <3> HIDE DEF before, after, first
    <3>3. /\ e.time < first
          /\ \E n \in DOMAIN b :
                /\ b[n].time < first /\ b[n].action = Steer
                /\ \/ b[n].time >= e.time
                   \/ b[n].time = e.time - 1 /\ Abs(b[n].value) <= DeadZone
      <4>1. CASE e.time = before
        BY <3>1, <3>2, <4>1
      <4>2. CASE e.time = after
        BY <3>1, <3>2, <4>2
      <4> QED
        BY <3>2, <4>1, <4>2
    <3> QED
      BY <3>3 DEF first
  <2> QED
    BY <2>2, <2>3, <2>5, <2>6, <2>10, <2>11 DEF Simulated
<1> QED
  BY <1>3, <1>4

\* Where the last steering was dropped and the wheel is felt, it is not behind
\* the digital steering, with that event or without it.
LEMMA PrunedReaches ==
    ASSUME SuffixInvariant, OnlyRestoredDigital, search.prunes, part \in 1..Parts,
           NEW b, WroteAhead(b), NEW t \in Int, NEW c \in Digital,
           NEW e \in Events, LastOf(b, Steer, t, e), \A i \in DOMAIN events : events[i] # e,
           Simulated(Pruned(b, events), t).value[Steer] = Simulated(b, t).value[Steer],
           Abs(Simulated(b, t).value[Steer]) > DeadZone
    PROVE  /\ Simulated(b, t).time[Steer] >= Simulated(b, t).time[c]
           /\ Simulated(Pruned(b, events), t).time[Steer] >= Simulated(b, t).time[c]
<1> DEFINE p == Pruned(b, events)
           x == ControlsAt(p, search.boundary, Origin, t)
           y == ControlsAt(b, search.boundary, Origin, t)
           first == search.segments[part].first
<1>1. /\ Requested /\ b \in Streams /\ Sound(b) /\ Canonical(b) /\ events \in Streams
      /\ Origin \in Int /\ Origin >= 0 /\ DeadZone \in Int
      /\ c \in Actions /\ Steer \in Actions
  BY Groups, SearchAssumption
  DEF SuffixInvariant, FlagIsTrue, PlaceInWork, WroteAhead, Sound
<1>2. search.boundary \in Controls /\ search.boundary.value[Steer] \in Int
  BY <1>1, RequestFacts DEF WellPrepared, GoodControls, Controls
<1>3. search.boundary.time[Steer] >= 0
  BY <1>1, PruningRequest
<1>4. /\ y.value[Steer] = e.value /\ y.time[Steer] = Origin + e.time
      /\ e.time \in Int /\ e.time >= 0 /\ e.time <= t /\ e.value \in Int
  <2>1. e.time >= 0 /\ e.time <= t
    BY <1>1 DEF LastOf, Sound
  <2> QED
    BY <1>1, <1>2, <2>1, ControlsSetLast DEF Events
<1>5. PICK S \in SUBSET DOMAIN b :
        /\ \A n \in DOMAIN b : n \notin S => \A i \in DOMAIN events : events[i] # b[n]
        /\ p \in Streams /\ Canonical(p)
        /\ \A k \in DOMAIN p : \E n \in S : p[k] = b[n]
        /\ \A n \in S : \E k \in DOMAIN p : p[k] = b[n]
  BY <1>1, <1>2, PrunedPlaces
<1> HIDE DEF p
<1>6. ASSUME NEW g \in Events, LastOf(p, Steer, t, g)
      PROVE  /\ x.value[Steer] = g.value /\ x.time[Steer] = Origin + g.time
             /\ g.time \in Int /\ g.time >= 0
  <2>1. g.time >= 0
    BY <1>1, <1>5, <1>6 DEF LastOf, Sound
  <2> QED
    BY <1>1, <1>2, <1>5, <1>6, <2>1, ControlsSetLast DEF Events
<1>7. x.time[Steer] >= 0
  <2>1. CASE NotSet(p, Steer, t)
    BY <1>1, <1>2, <1>3, <1>5, <2>1, ControlsNotSet
  <2>2. CASE ~NotSet(p, Steer, t)
    <3>1. PICK g \in Events : LastOf(p, Steer, t, g)
      BY <1>1, <1>2, <1>5, <2>2, ControlsByLast
    <3>2. x.time[Steer] = Origin + g.time /\ g.time \in Int /\ g.time >= 0
      BY <1>6, <3>1
    <3> QED
      BY <1>1, <3>2
  <2> QED
    BY <2>1, <2>2
<1>8. x.value[Steer] = y.value[Steer] /\ Abs(y.value[Steer]) > DeadZone
  BY DEF Simulated, p
<1>9. CASE y.time[c] = 0
  BY <1>1, <1>4, <1>7, <1>9 DEF Simulated, p
<1>10. CASE ~Flat /\ \E d \in Int, n \in DOMAIN b :
                /\ y.time[c] = Origin + d
                /\ d < first /\ b[n].time < first /\ b[n].action = Steer
                /\ b[n].time >= d \/ (b[n].time = d - 1 /\ Abs(b[n].value) <= DeadZone)
  <2>1. PICK d \in Int, n \in DOMAIN b :
                /\ y.time[c] = Origin + d
                /\ d < first /\ b[n].time < first /\ b[n].action = Steer
                /\ b[n].time >= d \/ (b[n].time = d - 1 /\ Abs(b[n].value) <= DeadZone)
    BY <1>10
  <2>2. first \in Int /\ b[n].time \in Int
    BY <1>1, <1>10, SegmentStreams, PartsFacts, StreamFacts
  <2> HIDE DEF first
  <2>3. ASSUME NEW i \in DOMAIN b, b[i].time < first
        PROVE  \E j \in DOMAIN events : events[j] = b[i]
    <3>1. b[i].time \in Int
      BY <1>1, StreamFacts
    <3>2. At(b, b[i].time) = At(events, b[i].time)
      BY <1>10, <2>3, <3>1 DEF WroteAhead, first
    <3> QED
      BY <1>1, <3>2, SameMoments
  <2>4. first <= e.time
    <3>1. PICK i \in DOMAIN b : b[i] = e
      BY DEF LastOf
    <3>2. ~(e.time < first)
      BY <2>3, <3>1
    <3> QED
      BY <1>4, <2>2, <3>2
  <2>5. y.time[Steer] >= y.time[c]
    BY <1>1, <1>4, <2>1, <2>2, <2>4
  <2>6. PICK k \in DOMAIN p : p[k] = b[n]
    <3>1. n \in S
      BY <1>5, <2>1, <2>3
    <3> QED
      BY <1>5, <3>1
  <2>7. p[k].time <= t /\ p[k].action = Steer
    BY <1>4, <2>1, <2>2, <2>4, <2>6
  <2>8. PICK g \in Events : LastOf(p, Steer, t, g)
    <3>1. ~NotSet(p, Steer, t)
      BY <2>2, <2>6, <2>7 DEF NotSet
    <3> QED
      BY <1>1, <1>2, <1>5, <3>1, ControlsByLast
  <2>9. /\ x.value[Steer] = g.value /\ x.time[Steer] = Origin + g.time
        /\ g.time \in Int /\ b[n].time <= g.time
    BY <1>6, <2>6, <2>7, <2>8 DEF LastOf
  <2>10. ASSUME g.time = b[n].time PROVE g = b[n]
    <3>1. PICK l \in DOMAIN p : p[l] = g
      BY <2>8 DEF LastOf
    <3>2. SameChannel(p[l], p[k])
      BY <2>6, <2>7, <2>8, <2>10, <3>1 DEF SameChannel, LastOf
    <3> QED
      BY <1>5, <2>6, <3>1, <3>2 DEF Canonical
  <2>11. g.time >= d
    <3>1. CASE b[n].time >= d
      BY <2>2, <2>9, <3>1
    <3>2. CASE b[n].time = d - 1 /\ Abs(b[n].value) <= DeadZone
      <4>1. g.time # b[n].time
        <5> SUFFICES ASSUME g.time = b[n].time PROVE FALSE
          OBVIOUS
        <5>1. Abs(e.value) <= DeadZone
          BY <1>4, <1>8, <2>9, <2>10, <3>2
        <5>2. Abs(e.value) > DeadZone /\ Abs(e.value) \in Int
          BY <1>4, <1>8 DEF Abs
        <5> QED
          BY <1>1, <5>1, <5>2
      <4> QED
        BY <2>2, <2>9, <3>2, <4>1
    <3> QED
      BY <2>1, <3>1, <3>2
  <2>12. x.time[Steer] >= y.time[c]
    BY <1>1, <2>1, <2>9, <2>11
  <2> QED
    BY <2>5, <2>12 DEF Simulated, p
<1> QED
  <2>1. \/ y.time[c] = 0
        \/ ~Flat /\ \E d \in Int, n \in DOMAIN b :
                /\ y.time[c] = Origin + d
                /\ d < first /\ b[n].time < first /\ b[n].action = Steer
                /\ b[n].time >= d \/ (b[n].time = d - 1 /\ Abs(b[n].value) <= DeadZone)
    BY ReleasedSteering DEF Simulated
  <2> QED
    BY <1>9, <1>10, <2>1

\* So the wheels are not moved by more than the dead zone.
LEMMA PrunedUnfelt ==
    ASSUME SuffixInvariant, OnlyRestoredDigital, search.prunes, part \in 1..Parts,
           NEW b, WroteAhead(b), NEW t \in Int
    PROVE  Abs(Steering(Simulated(Pruned(b, events), t)) - Steering(Simulated(b, t)))
                <= DeadZone
<1> DEFINE p == Pruned(b, events)
           x == ControlsAt(p, search.boundary, Origin, t)
           y == ControlsAt(b, search.boundary, Origin, t)
<1>1. /\ Requested /\ b \in Streams /\ Canonical(b) /\ Origin \in Int /\ Digital \subseteq Actions
  BY Groups, SearchAssumption DEF SuffixInvariant, WroteAhead, Sound
<1>2. search.boundary \in Controls /\ search.boundary.value[Steer] \in Int
  BY <1>1, Groups, RequestFacts DEF WellPrepared, GoodControls, Controls
<1>3. p \in Streams
  BY <1>1, <1>2, PrunedPlaces
<1>4. x \in Controls /\ y \in Controls
  BY <1>1, <1>2, <1>3, ControlsFacts
<1>5. \A c \in Digital : AsBefore(y, x, c)
  BY <1>1, <1>2, Groups, PrunedChannels
<1>6. /\ x.value[Steer] = y.value[Steer]
      /\ \/ x.time[Steer] = y.time[Steer]
         \/ \E e \in Events : /\ LastOf(b, Steer, t, e)
                              /\ \A i \in DOMAIN events : events[i] # e
  BY <1>1, <1>2, PrunedWheel
<1>7. \A c \in Digital : y.value[c] = 0
  BY ReleasedSteering DEF Simulated
<1>8. ASSUME Abs(y.value[Steer]) > DeadZone
      PROVE  \/ x.time[Steer] = y.time[Steer]
             \/ \A c \in Digital : y.time[Steer] >= y.time[c] /\ x.time[Steer] >= y.time[c]
  BY <1>6, <1>8, PrunedReaches DEF Simulated
<1> HIDE DEF x, y
<1>9. SameValues(y, x, SteeringGroup)
  BY <1>5, <1>6 DEF SameValues, AsBefore, SteeringGroup, Digital
<1>10. Abs(y.value[Steer]) > DeadZone =>
            (Reaches(x, Steer, SteerLeft, SteerRight)
                <=> Reaches(y, Steer, SteerLeft, SteerRight))
  BY <1>5, <1>8, Groups DEF Reaches, AsBefore
<1>11. Abs(Steering(x) - Steering(y)) <= DeadZone
  BY <1>4, <1>7, <1>9, <1>10, Groups, WheelInDeadZone DEF SameValues
<1> QED
  BY <1>11 DEF Simulated, x, y

\* A stream that is not pruned is its own.
LEMMA NothingPruned ==
    ASSUME Requested, NEW es, Sound(es), NEW t \in Int
    PROVE  Abs(Steering(Simulated(es, t)) - Steering(Simulated(es, t))) <= DeadZone
<1> DEFINE x == Simulated(es, t)
<1>1. x \in Controls
  <2>1. es \in Streams /\ Origin \in Int /\ search.boundary \in Controls
    BY RequestFacts, SearchAssumption DEF Sound, WellPrepared, GoodControls, Controls
  <2> QED
    BY <2>1, ControlsFacts DEF Simulated
<1>2. x.value[Steer] \in Int /\ Full \in Int /\ DeadZone \in Int /\ DeadZone >= 0
  BY <1>1, Groups, ChannelNumbers, SearchAssumption
<1> HIDE DEF x
<1>3. Steering(x) \in Int
  BY <1>2 DEF Steering
<1>4. Abs(Steering(x) - Steering(x)) = 0
  BY <1>3 DEF Abs
<1> QED
  BY <1>2, <1>4 DEF x

\* What a modifier leaves before it is pruned is written ahead.
LEMMA UnprunedAhead ==
    ASSUME SuffixInvariant, Mutate, unpruned' # events'
    PROVE  /\ search' = search /\ search.prunes /\ part \in 1..Parts /\ WroteAhead(unpruned')
           /\ events' = Pruned(unpruned', events)
<1> DEFINE m == search.pipeline[pass]
           w == WindowOf(m)
<1>1. /\ search' = search /\ part \in 1..Parts /\ GoodWindow(w)
      /\ \E r \in ApplyModifier(m, w) : /\ Modified(r, w, Growth(m))
                                        /\ events' = r.events /\ unpruned' = r.unpruned
      /\ ~Flat => search.segments[part].first <= Floor(w.first)
  BY MutateFacts
<1> HIDE DEF m, w
<1>2. /\ search.prunes /\ normalized /\ events' = Pruned(unpruned', events)
      /\ Outcome(events, unpruned', w, Growth(m)) /\ Sound(unpruned') /\ Canonical(unpruned')
  BY <1>1 DEF Modified, PrunedAtMost
<1>3. Normalize(events) = events /\ Normalize(unpruned') = unpruned' /\ Requested
  BY <1>2, SoundIsNormal DEF SuffixInvariant, FlagIsTrue
<1>4. ASSUME ~Flat, NEW u \in Int, u < search.segments[part].first
      PROVE  At(unpruned', u) = At(events, u)
  <2>1. search.segments[part].first \in Int /\ Floor(w.first) \in Int
    BY <1>1, <1>4, SegmentStreams, PartsFacts, WindowFacts
  <2>2. Outside(w, u)
    BY <1>1, <1>4, <2>1 DEF Outside
  <2> QED
    BY <1>2, <1>3, <2>2 DEF Outcome, Untouched
<1> QED
  BY <1>1, <1>2, <1>4 DEF WroteAhead, Outcome

\* A step leaves nothing that is felt: only a modifier prunes.
LEMMA PruningStep ==
    ASSUME SuffixInvariant, SuffixInvariant', OnlyRestoredDigital, PruningIsInvisible,
           [Next]_vars
    PROVE  PruningIsInvisible'
<1>1. /\ Requested /\ Sound(events') /\ search' = search
  BY DEF SuffixInvariant, FlagIsTrue, Next, SkipSegment, SkipModifier, Mutate, EndSegment,
         EndPipeline, Deliver, NextCandidate, vars
<1>2. CASE unpruned' = events'
  <2> SUFFICES ASSUME NEW i \in DOMAIN events'
               PROVE  Abs(Steering(Simulated(events', events'[i].time))
                            - Steering(Simulated(events', events'[i].time))) <= DeadZone
    BY <1>1, <1>2 DEF PruningIsInvisible, Simulated
  <2>1. events'[i].time \in Int
    BY <1>1, StreamFacts DEF Sound
  <2> QED
    BY <1>1, <2>1, NothingPruned
<1>3. CASE unpruned' # events' /\ Mutate
  <2>1. /\ search.prunes /\ part \in 1..Parts /\ WroteAhead(unpruned')
        /\ events' = Pruned(unpruned', events)
    BY <1>3, UnprunedAhead
  <2>2. \A i \in DOMAIN unpruned' : unpruned'[i].time \in Int
    BY <2>1, StreamFacts DEF WroteAhead, Sound
  <2>3. \A t \in Int :
            Abs(Steering(Simulated(events', t)) - Steering(Simulated(unpruned', t)))
                <= DeadZone
    BY <2>1, PrunedUnfelt
  <2> QED
    BY <1>1, <2>2, <2>3 DEF PruningIsInvisible, Simulated
<1>4. CASE unpruned' # events' /\ ~Mutate
  <2>1. unpruned' = unpruned /\ events' = events
    <3>1. CASE EndSegment
      BY <1>4, <3>1, EndSegmentFacts, SMTT(40)
    <3>2. CASE EndPipeline
      BY <1>4, <3>2 DEF EndPipeline
    <3>3. CASE NextCandidate
      BY <1>4, <3>3 DEF NextCandidate, Begin
    <3>4. CASE SkipSegment \/ SkipModifier \/ Deliver \/ UNCHANGED vars
      BY <3>4 DEF SkipSegment, SkipModifier, Deliver, vars
    <3> QED
      BY <1>4, <3>1, <3>2, <3>3, <3>4 DEF Next
  <2> QED
    BY <1>1, <2>1 DEF PruningIsInvisible, Simulated
<1> QED
  BY <1>2, <1>3, <1>4

\* Dropping steering that repeats what is held never moves the wheels by more
\* than the dead zone, whatever was inserted and restored before.
THEOREM RedundantSteeringIsNotFelt == Spec => []PruningIsInvisible
<1>1. Init => PruningIsInvisible
  <2> SUFFICES ASSUME Init, NEW i \in DOMAIN events
               PROVE  Abs(Steering(Simulated(events, events[i].time))
                            - Steering(Simulated(events, events[i].time))) <= DeadZone
    BY DEF PruningIsInvisible, Init
  <2>1. Requested /\ Sound(events)
    BY SuffixInvariantInit DEF SuffixInvariant, FlagIsTrue
  <2>2. events[i].time \in Int
    BY <2>1, StreamFacts DEF Sound
  <2> QED
    BY <2>1, <2>2, NothingPruned
<1>2. /\ SuffixInvariant /\ SuffixInvariant' /\ OnlyRestoredDigital /\ PruningIsInvisible
      /\ [Next]_vars
      => PruningIsInvisible'
  BY PruningStep
<1> QED
  BY <1>1, <1>2, RestoredDigitalStep, SuffixInvariance, PTL DEF Spec

=============================================================================
