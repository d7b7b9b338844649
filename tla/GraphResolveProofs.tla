------------------------- MODULE GraphResolveProofs -------------------------
(***************************************************************************)
(* Proofs about GraphResolve: a traversal never asks for more records than *)
(* the request allows, reports it when it left one out and only then, and  *)
(* a complete answer has every record within the requested distance.       *)
(*                                                                         *)
(* Within is a recursive function.  The first half of the module shows     *)
(* that there is such a function, for any table of links, and how it       *)
(* changes when the table grows; the second half proves the invariant.     *)
(***************************************************************************)
EXTENDS GraphResolve, FiniteSetTheorems, WellFoundedInduction, TLAPS

-----------------------------------------------------------------------------
(* Sets of natural numbers *)

\* A set of natural numbers that is not empty has a least element.
LEMMA LeastNat ==
  ASSUME NEW T \in SUBSET Nat, T # {}
  PROVE  \E x \in T : \A y \in T : x <= y
<1>1. \E x \in T : \A y \in T : ~(y < x)
  <2>1. IsWellFoundedOn(OpToRel(<, Nat), Nat)
    BY NatLessThanWellFounded
  <2>2. \E x \in T : \A y \in T : ~(<<y, x>> \in OpToRel(<, Nat))
    BY <2>1, WFMin
  <2> QED
    BY <2>2 DEF OpToRel
<1> QED
  BY <1>1

\* Induction, stated of a set and not of an operator.
LEMMA Induction ==
  ASSUME NEW T \in SUBSET Nat, 0 \in T, \A n \in T : n + 1 \in T
  PROVE  T = Nat
<1> SUFFICES ASSUME T # Nat PROVE FALSE
  OBVIOUS
<1>1. PICK x \in Nat \ T : \A y \in Nat \ T : x <= y
  <2>1. Nat \ T # {} /\ Nat \ T \in SUBSET Nat
    OBVIOUS
  <2> QED
    BY <2>1, LeastNat
<1>2. x - 1 \in Nat /\ x = (x - 1) + 1
  BY <1>1
<1>3. x - 1 \in T
  BY <1>1, <1>2
<1> QED
  BY <1>1, <1>2, <1>3

\* The union of finitely many finite sets is finite.
LEMMA FiniteUnion ==
  ASSUME NEW f, NEW S, IsFiniteSet(S), \A d \in S : IsFiniteSet(f[d])
  PROVE  IsFiniteSet(UNION {f[d] : d \in S})
<1> DEFINE T == {k \in Nat : \A R \in SUBSET S :
                   Cardinality(R) = k => IsFiniteSet(UNION {f[d] : d \in R})}
<1>1. 0 \in T
  <2> SUFFICES ASSUME NEW R \in SUBSET S, Cardinality(R) = 0
               PROVE  IsFiniteSet(UNION {f[d] : d \in R})
    OBVIOUS
  <2>1. R = {}
    BY FS_Subset, FS_EmptySet
  <2>2. UNION {f[d] : d \in R} = {}
    BY <2>1
  <2> QED
    BY <2>2, FS_EmptySet
<1>2. ASSUME NEW k \in T PROVE k + 1 \in T
  <2> SUFFICES ASSUME NEW R \in SUBSET S, Cardinality(R) = k + 1
               PROVE  IsFiniteSet(UNION {f[d] : d \in R})
    OBVIOUS
  <2>1. /\ k \in Nat
        /\ \A Q \in SUBSET S :
             Cardinality(Q) = k => IsFiniteSet(UNION {f[d] : d \in Q})
    OBVIOUS
  <2> HIDE DEF T
  <2>2. IsFiniteSet(R)
    BY FS_Subset
  <2>3. R # {}
    BY <2>1, FS_EmptySet
  <2>4. PICK x : x \in R
    BY <2>3
  <2> DEFINE Q == R \ {x}
             rest == UNION {f[d] : d \in Q}
  <2>5. Cardinality(Q) = IF x \in R THEN Cardinality(R) - 1 ELSE Cardinality(R)
    BY <2>2, FS_RemoveElement
  <2>6. Cardinality(Q) = k /\ Q \in SUBSET S
    BY <2>1, <2>4, <2>5
  <2>7. IsFiniteSet(rest)
    BY <2>1, <2>6
  <2>8. x \in S
    BY <2>4
  <2>9. IsFiniteSet(f[x])
    BY <2>8
  <2>10. UNION {f[d] : d \in R} = rest \union f[x]
    BY <2>4
  <2> HIDE DEF rest
  <2>11. IsFiniteSet(rest \union f[x])
    BY <2>7, <2>9, FS_Union
  <2> QED
    BY <2>10, <2>11
<1>3. T \in SUBSET Nat
  OBVIOUS
<1> HIDE DEF T
<1>4. T = Nat
  BY <1>1, <1>2, <1>3, Induction
<1>5. Cardinality(S) \in Nat
  BY FS_CardinalityType
<1> QED
  BY <1>4, <1>5 DEF T

-----------------------------------------------------------------------------
(* The records within a distance, by the links of a table m *)

\* One link further than S.
Spread(m, S) == S \union UNION {Targets(m[d]) : d \in S \intersect DOMAIN m}

\* Within, as a function of the table.
Ball(m) ==
  CHOOSE f : f = [n \in Nat |-> IF n = 0 THEN {Root} ELSE Spread(m, f[n - 1])]

\* The first values of such a function.
Approx(m, n, g) ==
  /\ g = [i \in 0..n |-> g[i]]
  /\ g[0] = {Root}
  /\ \A i \in 0..(n - 1) : g[i + 1] = Spread(m, g[i])

\* Two that agree in length agree in value, and the shorter one with the longer.
LEMMA ApproxUnique ==
  ASSUME NEW m, NEW n \in Nat, NEW k \in 0..n, NEW g, NEW h,
         Approx(m, k, g), Approx(m, n, h)
  PROVE  g[k] = h[k]
<1> DEFINE U == {i \in Nat : i <= k => g[i] = h[i]}
<1>1. 0 \in U
  BY DEF Approx
<1>2. ASSUME NEW i \in U PROVE i + 1 \in U
  <2> SUFFICES ASSUME i + 1 <= k PROVE g[i + 1] = h[i + 1]
    OBVIOUS
  <2>1. i \in Nat /\ g[i] = h[i]
    OBVIOUS
  <2>2. i \in 0..(k - 1) /\ i \in 0..(n - 1)
    OBVIOUS
  <2> QED
    BY <2>1, <2>2 DEF Approx
<1>3. U \in SUBSET Nat
  OBVIOUS
<1> HIDE DEF U
<1>4. U = Nat
  BY <1>1, <1>2, <1>3, Induction
<1> QED
  BY <1>4 DEF U

\* There are approximations of every length.
LEMMA ApproxExists ==
  ASSUME NEW m, NEW n \in Nat
  PROVE  \E g : Approx(m, n, g)
<1> DEFINE T == {k \in Nat : \E g : Approx(m, k, g)}
<1>1. 0 \in T
  <2>1. Approx(m, 0, [i \in 0..0 |-> {Root}])
    BY DEF Approx
  <2> QED
    BY <2>1
<1>2. ASSUME NEW k \in T PROVE k + 1 \in T
  <2>1. PICK g : Approx(m, k, g)
    OBVIOUS
  <2> DEFINE h == [i \in 0..(k + 1) |-> IF i = k + 1 THEN Spread(m, g[k]) ELSE g[i]]
  <2>2. k \in Nat /\ (k + 1) - 1 = k
    OBVIOUS
  <2>3. h[0] = {Root}
    BY <2>1, <2>2 DEF Approx
  <2>4. ASSUME NEW i \in 0..k PROVE h[i + 1] = Spread(m, h[i])
    <3>1. CASE i = k
      <4>1. h[i + 1] = Spread(m, g[k]) /\ h[i] = g[k]
        BY <3>1, <2>2
      <4> QED
        BY <4>1
    <3>2. CASE i # k
      <4>1. h[i + 1] = g[i + 1] /\ h[i] = g[i] /\ i \in 0..(k - 1)
        BY <3>2, <2>2
      <4> QED
        BY <4>1, <2>1 DEF Approx
    <3> QED
      BY <3>1, <3>2
  <2>5. h = [i \in 0..(k + 1) |-> h[i]]
    OBVIOUS
  <2> HIDE DEF h
  <2>6. Approx(m, k + 1, h)
    BY <2>2, <2>3, <2>4, <2>5 DEF Approx
  <2> QED
    BY <2>2, <2>6
<1>3. T \in SUBSET Nat
  OBVIOUS
<1> HIDE DEF T
<1>4. T = Nat
  BY <1>1, <1>2, <1>3, Induction
<1> QED
  BY <1>4 DEF T

\* So there is the function that Ball chooses.
LEMMA BallExists ==
  ASSUME NEW m
  PROVE  \E f : f = [n \in Nat |-> IF n = 0 THEN {Root} ELSE Spread(m, f[n - 1])]
<1> DEFINE a(n) == CHOOSE g : Approx(m, n, g)
           f == [n \in Nat |-> a(n)[n]]
<1>1. \A n \in Nat : Approx(m, n, a(n))
  <2> SUFFICES ASSUME NEW n \in Nat PROVE Approx(m, n, a(n))
    OBVIOUS
  <2>1. \E g : Approx(m, n, g)
    BY ApproxExists
  <2> QED
    BY <2>1
<1> HIDE DEF a
<1>2. f[0] = {Root}
  BY <1>1 DEF Approx
<1>3. ASSUME NEW n \in Nat, n # 0 PROVE f[n] = Spread(m, f[n - 1])
  <2>1. n - 1 \in Nat /\ n - 1 \in 0..n /\ n - 1 \in 0..(n - 1) /\ (n - 1) + 1 = n
    BY <1>3
  <2>2. a(n)[n] = Spread(m, a(n)[n - 1])
    BY <1>1, <2>1 DEF Approx
  <2>3. a(n - 1)[n - 1] = a(n)[n - 1]
    BY <1>1, <2>1, ApproxUnique
  <2> QED
    BY <2>1, <2>2, <2>3
<1>4. f = [n \in Nat |-> IF n = 0 THEN {Root} ELSE Spread(m, f[n - 1])]
  BY <1>2, <1>3
<1> QED
  BY <1>4

\* What Ball is: the root, and at each distance one link more.
LEMMA BallStep ==
  ASSUME NEW m
  PROVE  /\ Ball(m)[0] = {Root}
         /\ \A n \in Nat : Ball(m)[n + 1] = Spread(m, Ball(m)[n])
<1>1. Ball(m) = [n \in Nat |-> IF n = 0 THEN {Root} ELSE Spread(m, Ball(m)[n - 1])]
  <2>1. \E f : f = [n \in Nat |-> IF n = 0 THEN {Root} ELSE Spread(m, f[n - 1])]
    BY BallExists
  <2> QED
    BY <2>1, Zenon DEF Ball
<1> DEFINE b == Ball(m)
<1> HIDE DEF b
<1>2. b = [n \in Nat |-> IF n = 0 THEN {Root} ELSE Spread(m, b[n - 1])]
  BY <1>1 DEF b
<1>3. b[0] = {Root}
  BY <1>2
<1>4. ASSUME NEW n \in Nat PROVE b[n + 1] = Spread(m, b[n])
  <2>1. n + 1 \in Nat /\ n + 1 # 0 /\ (n + 1) - 1 = n
    OBVIOUS
  <2> QED
    BY <1>2, <2>1
<1> QED
  BY <1>3, <1>4 DEF b

\* The balls grow with the distance,
LEMMA BallGrows ==
  ASSUME NEW m, NEW k \in Nat, NEW n \in Nat, k <= n
  PROVE  Ball(m)[k] \subseteq Ball(m)[n]
<1> DEFINE T == {i \in Nat : Ball(m)[k] \subseteq Ball(m)[k + i]}
<1>1. 0 \in T
  OBVIOUS
<1>2. ASSUME NEW i \in T PROVE i + 1 \in T
  <2>1. k + i \in Nat /\ k + (i + 1) = (k + i) + 1
    OBVIOUS
  <2>2. Ball(m)[(k + i) + 1] = Spread(m, Ball(m)[k + i])
    BY <2>1, BallStep
  <2>3. Ball(m)[k + i] \subseteq Ball(m)[k + (i + 1)]
    BY <2>1, <2>2 DEF Spread
  <2> QED
    BY <2>3
<1>3. T \in SUBSET Nat
  OBVIOUS
<1> HIDE DEF T
<1>4. T = Nat
  BY <1>1, <1>2, <1>3, Induction
<1>5. n - k \in Nat /\ k + (n - k) = n
  OBVIOUS
<1> QED
  BY <1>4, <1>5 DEF T

\* g has every entry of m.
Extends(g, m) == \A d \in DOMAIN m : d \in DOMAIN g /\ g[d] = m[d]

\* and with the table;
LEMMA BallMonotone ==
  ASSUME NEW m, NEW g, Extends(g, m), NEW n \in Nat
  PROVE  Ball(m)[n] \subseteq Ball(g)[n]
<1> DEFINE T == {i \in Nat : Ball(m)[i] \subseteq Ball(g)[i]}
<1>1. 0 \in T
  BY BallStep
<1>2. ASSUME NEW i \in T PROVE i + 1 \in T
  <2>1. Ball(m)[i + 1] = Spread(m, Ball(m)[i]) /\ Ball(g)[i + 1] = Spread(g, Ball(g)[i])
    BY BallStep
  <2>2. Spread(m, Ball(m)[i]) \subseteq Spread(g, Ball(g)[i])
    BY DEF Spread, Extends
  <2> QED
    BY <2>1, <2>2
<1>3. T \in SUBSET Nat
  OBVIOUS
<1> HIDE DEF T
<1>4. T = Nat
  BY <1>1, <1>2, <1>3, Induction
<1> QED
  BY <1>4 DEF T

\* entries for records no nearer than k change nothing up to there.
LEMMA BallSame ==
  ASSUME NEW m, NEW g, Extends(g, m), NEW k \in Nat,
         \A i \in 0..(k - 1) : Ball(m)[i] \intersect DOMAIN g \subseteq DOMAIN m,
         NEW n \in 0..k
  PROVE  Ball(g)[n] = Ball(m)[n]
<1> DEFINE T == {i \in Nat : i <= k => Ball(g)[i] = Ball(m)[i]}
<1>1. 0 \in T
  BY BallStep
<1>2. ASSUME NEW i \in T PROVE i + 1 \in T
  <2> SUFFICES ASSUME i + 1 <= k PROVE Ball(g)[i + 1] = Ball(m)[i + 1]
    OBVIOUS
  <2>1. Ball(m)[i + 1] = Spread(m, Ball(m)[i]) /\ Ball(g)[i + 1] = Spread(g, Ball(g)[i])
    BY BallStep
  <2>2. Ball(g)[i] = Ball(m)[i] /\ i \in 0..(k - 1)
    OBVIOUS
  <2>3. Spread(g, Ball(m)[i]) = Spread(m, Ball(m)[i])
    BY <2>2 DEF Spread, Extends
  <2> QED
    BY <2>1, <2>2, <2>3
<1>3. T \in SUBSET Nat
  OBVIOUS
<1> HIDE DEF T
<1>4. T = Nat
  BY <1>1, <1>2, <1>3, Induction
<1> QED
  BY <1>4 DEF T

\* A ball that no link leads out of is the last one.
LEMMA BallClosed ==
  ASSUME NEW m, NEW k \in Nat, \A d \in DOMAIN m : Targets(m[d]) \subseteq Ball(m)[k],
         NEW n \in Nat, k <= n
  PROVE  Ball(m)[n] = Ball(m)[k]
<1> DEFINE T == {i \in Nat : Ball(m)[k + i] = Ball(m)[k]}
<1>1. 0 \in T
  OBVIOUS
<1>2. ASSUME NEW i \in T PROVE i + 1 \in T
  <2>1. k + i \in Nat /\ k + (i + 1) = (k + i) + 1
    OBVIOUS
  <2>2. Ball(m)[(k + i) + 1] = Spread(m, Ball(m)[k])
    BY <2>1, BallStep
  <2>3. Spread(m, Ball(m)[k]) = Ball(m)[k]
    BY DEF Spread
  <2> QED
    BY <2>1, <2>2, <2>3
<1>3. T \in SUBSET Nat
  OBVIOUS
<1> HIDE DEF T
<1>4. T = Nat
  BY <1>1, <1>2, <1>3, Induction
<1>5. n - k \in Nat /\ k + (n - k) = n
  OBVIOUS
<1> QED
  BY <1>4, <1>5 DEF T

\* Within is Ball of the table at hand.
LEMMA WithinIsBall == Within = Ball(nodes) /\ Within' = Ball(nodes')
BY DEF Within, Ball, Spread

-----------------------------------------------------------------------------
(* The inductive invariant *)

\* The distance the traversal has reached.
Reached == IF depth <= MaxDepth THEN depth ELSE MaxDepth

\* What was asked for, and what of it has ended.
Settled == DOMAIN nodes \union DOMAIN failures

\* Within the limit; a level beyond the last is empty; the traversal ends at
\* one of the two.
Bounded ==
  /\ IsFiniteSet(scheduled)
  /\ Cardinality(scheduled) <= MaxNodes
  /\ Root \in scheduled
  /\ depth > MaxDepth => frontier = {}
  /\ status # "running" => frontier = {}

\* As long as nothing was left out, the traversal has asked for exactly what is
\* within its distance, has gone through all that is nearer, and knows every
\* target of what it has gone through.
NothingLeftOut ==
  ~truncated =>
    /\ scheduled = Within[Reached]
    /\ \A n \in 0..(depth - 1) : Within[n] \subseteq Settled
    /\ depth <= MaxDepth => \A d \in DOMAIN nodes : Targets(nodes[d]) \subseteq scheduled

\* Once something was left out there is no room for more, and it stays out.
SomethingLeftOut ==
  truncated =>
    /\ Cardinality(scheduled) = MaxNodes
    /\ scheduled \subseteq Within[MaxDepth]
    /\ scheduled # Within[MaxDepth]

Inv == TypeOK /\ Bounded /\ NothingLeftOut /\ SomethingLeftOut

\* The root alone is scheduled: nothing is left out.
LEMMA InitInv == Init => Inv
<1> SUFFICES ASSUME Init PROVE Inv
  OBVIOUS
<1> USE RequestAssumption
<1>1. TypeOK
  <2>1. DOMAIN nodes = {} /\ DOMAIN failures = {} /\ DOMAIN outcome = {}
    BY DEF Init
  <2>2. /\ status = "running" /\ truncated = FALSE
        /\ depth = 0 /\ frontier = {Root} /\ scheduled = {Root}
    BY DEF Init
  <2>3. /\ status \in {"running", "200", "403", "500", "502"}
        /\ truncated \in BOOLEAN
    BY <2>2
  <2>5. depth \in 0..(MaxDepth + 1)
    BY <2>2
  <2>4. /\ DOMAIN outcome \subseteq frontier
        /\ scheduled = frontier \union DOMAIN nodes \union DOMAIN failures
        /\ frontier \intersect (DOMAIN nodes \union DOMAIN failures) = {}
        /\ DOMAIN nodes \intersect DOMAIN failures = {}
    BY <2>1, <2>2
  <2> QED
    BY <2>1, <2>3, <2>4, <2>5 DEF TypeOK
<1>2. Bounded
  <2>1. IsFiniteSet({Root}) /\ Cardinality({Root}) = 1
    BY FS_Singleton
  <2>2. status = "running" /\ depth = 0 /\ scheduled = {Root}
    BY DEF Init
  <2> QED
    BY <2>1, <2>2 DEF Bounded
<1>3. NothingLeftOut
  <2>1. Within[0] = {Root} /\ Reached = 0
    BY WithinIsBall, BallStep DEF Init, Reached
  <2> QED
    BY <2>1 DEF Init, NothingLeftOut
<1> QED
  BY <1>1, <1>2, <1>3 DEF Inv, SomethingLeftOut, Init

\* A resolution that ends changes nothing but its outcome.
LEMMA ResolveKeeps ==
  ASSUME Inv, NEW d \in Daid, NEW result \in Links \union Reason, Resolve(d, result)
  PROVE  Inv'
<1> USE DEF Inv
<1>1. Within' = Within
  BY WithinIsBall DEF Resolve, levelVars
<1>2. TypeOK'
  BY DEF TypeOK, Resolve, levelVars, With
<1>3. Bounded'
  BY DEF Bounded, Resolve, levelVars
<1>4. NothingLeftOut' /\ SomethingLeftOut'
  BY <1>1 DEF NothingLeftOut, SomethingLeftOut, Reached, Settled, Resolve, levelVars
<1> QED
  BY <1>2, <1>3, <1>4

\* A request is answered when the frontier is empty: it is, beyond the last level.
LEMMA AnswerKeeps ==
  ASSUME Inv, Answer
  PROVE  Inv'
<1> USE DEF Inv
<1>1. Within' = Within
  BY WithinIsBall DEF Answer, levelVars
<1>2. TypeOK'
  <2>1. status' \in {"403", "502", "200", "500"}
    BY DEF Answer
  <2> QED
    BY <2>1 DEF TypeOK, Answer, levelVars
<1>3. Bounded'
  BY RequestAssumption DEF Bounded, Answer, Traversing, levelVars, TypeOK
<1>4. NothingLeftOut' /\ SomethingLeftOut'
  BY <1>1 DEF NothingLeftOut, SomethingLeftOut, Reached, Settled, Answer, levelVars
<1> QED
  BY <1>2, <1>3, <1>4

\* What a level does to the tables: each record of the frontier enters one.
LEMMA LevelTables ==
  ASSUME TypeOK, NEW next, EndLevel(next)
  PROVE  /\ Resolved \subseteq frontier
         /\ \A d \in Resolved : outcome[d] \in Links
         /\ DOMAIN nodes' = DOMAIN nodes \union Resolved
         /\ DOMAIN failures' = DOMAIN failures \union (frontier \ Resolved)
         /\ \A d \in DOMAIN nodes : nodes'[d] = nodes[d]
         /\ \A d \in Resolved : nodes'[d] = outcome[d]
         /\ \A d \in DOMAIN failures' : failures'[d] \in Reason
BY DEF TypeOK, EndLevel, Resolved, With

\* The limit never cuts a level short by more than it must.
LEMMA LevelFits ==
  ASSUME TypeOK, IsFiniteSet(scheduled), Cardinality(scheduled) <= MaxNodes,
         NEW next, EndLevel(next)
  PROVE  /\ next \subseteq Candidates
         /\ Candidates \intersect scheduled = {}
         /\ IsFiniteSet(scheduled \union next)
         /\ Cardinality(scheduled \union next) <= MaxNodes
         /\ next # Candidates => Cardinality(scheduled \union next) = MaxNodes
         /\ Cardinality(scheduled) = MaxNodes => next = {}
<1>1. /\ next \subseteq Candidates
      /\ Candidates \intersect scheduled = {}
      /\ Cardinality(scheduled \union next) <= MaxNodes
      /\ next # Candidates => Cardinality(scheduled \union next) = MaxNodes
  <2>1. NextFrontier(next)
    BY DEF EndLevel
  <2>2. Candidates \intersect scheduled = {}
    BY DEF Candidates
  <2> QED
    BY <2>1, <2>2, RequestAssumption DEF NextFrontier
<1>2. IsFiniteSet(Resolved)
  <2>1. Resolved \in SUBSET scheduled
    BY DEF Resolved, TypeOK
  <2> QED
    BY <2>1, FS_Subset
<1>3. IsFiniteSet(UNION {Targets(outcome[d]) : d \in Resolved})
  <2> DEFINE f == [d \in Resolved |-> Targets(outcome[d])]
  <2>1. ASSUME NEW d \in Resolved PROVE IsFiniteSet(f[d])
    <3>1. outcome[d] \in Links
      BY LevelTables
    <3>2. IsFiniteSet(Targets(outcome[d]))
      BY <3>1, LinksAssumption DEF Targets
    <3> QED
      BY <3>2
  <2>2. UNION {Targets(outcome[d]) : d \in Resolved} = UNION {f[d] : d \in Resolved}
    OBVIOUS
  <2> HIDE DEF f
  <2>3. IsFiniteSet(UNION {f[d] : d \in Resolved})
    BY <1>2, <2>1, FiniteUnion
  <2> QED
    BY <2>2, <2>3
<1>4. IsFiniteSet(next)
  <2>1. next \in SUBSET UNION {Targets(outcome[d]) : d \in Resolved}
    BY <1>1 DEF Candidates
  <2> HIDE DEF Resolved
  <2> QED
    BY <1>3, <2>1, FS_Subset
<1>5. IsFiniteSet(scheduled \union next)
  BY <1>4, FS_Union
<1>6. ASSUME Cardinality(scheduled) = MaxNodes PROVE next = {}
  <2>1. scheduled \in SUBSET (scheduled \union next)
    OBVIOUS
  <2>2. /\ Cardinality(scheduled) <= Cardinality(scheduled \union next)
        /\ Cardinality(scheduled \union next) = Cardinality(scheduled)
             => scheduled \union next = scheduled
    BY <1>5, <2>1, FS_Subset
  <2>3. Cardinality(scheduled \union next) \in Nat /\ Cardinality(scheduled) \in Nat
    BY <1>5, FS_CardinalityType
  <2>4. scheduled \union next = scheduled
    BY <1>1, <1>6, <2>2, <2>3, RequestAssumption
  <2> QED
    BY <1>1, <2>4
<1> QED
  BY <1>1, <1>5, <1>6

\* As long as nothing is left out, a level moves the reach by one link and
\* leaves what is nearer as it was.
LEMMA LevelReaches ==
  ASSUME TypeOK, NothingLeftOut, ~truncated, NEW next, EndLevel(next)
  PROVE  /\ \A n \in 0..depth : Within'[n] = Within[n]
         /\ depth < MaxDepth => Within'[depth + 1] = scheduled \union Candidates
         /\ depth <= MaxDepth /\ scheduled = Within[depth]
<1> USE RequestAssumption
<1>1. depth \in Nat /\ depth <= MaxDepth /\ scheduled = Within[depth]
  BY DEF TypeOK, NothingLeftOut, EndLevel, Traversing, Reached
<1>2. Extends(nodes', nodes)
  BY LevelTables DEF Extends
<1>3. ASSUME NEW i \in 0..(depth - 1)
      PROVE  Ball(nodes)[i] \intersect DOMAIN nodes' \subseteq DOMAIN nodes
  <2>1. Within[i] \subseteq DOMAIN nodes \union DOMAIN failures
    BY DEF NothingLeftOut, Settled
  <2>2. Within[i] \intersect frontier = {}
    BY <2>1 DEF TypeOK
  <2>3. DOMAIN nodes' = DOMAIN nodes \union Resolved /\ Resolved \subseteq frontier
    BY LevelTables
  <2> QED
    BY <2>2, <2>3, WithinIsBall
<1>4. \A n \in 0..depth : Ball(nodes')[n] = Ball(nodes)[n]
  BY <1>1, <1>2, <1>3, BallSame
<1>5. \A n \in 0..depth : Within'[n] = Within[n]
  BY <1>4, WithinIsBall
<1>6. ASSUME depth < MaxDepth PROVE Within'[depth + 1] = scheduled \union Candidates
  <2>1. Ball(nodes')[depth + 1] = Spread(nodes', Ball(nodes')[depth])
    BY <1>1, BallStep
  <2>2. Ball(nodes')[depth] = scheduled
    BY <1>1, <1>4, WithinIsBall
  <2>3. Within'[depth + 1] = Spread(nodes', scheduled)
    BY <2>1, <2>2, WithinIsBall
  <2>4. scheduled \intersect DOMAIN nodes' = DOMAIN nodes \union Resolved
    BY LevelTables DEF TypeOK
  <2>5. \A d \in DOMAIN nodes : Targets(nodes'[d]) \subseteq scheduled
    BY <1>1, LevelTables DEF NothingLeftOut
  <2>6. \A d \in Resolved : Targets(nodes'[d]) = Targets(outcome[d])
    BY LevelTables
  <2>7. Candidates = (UNION {Targets(outcome[d]) : d \in Resolved}) \ scheduled
    BY <1>6 DEF Candidates
  <2>8. Spread(nodes', scheduled) =
          scheduled \union UNION {Targets(nodes'[d]) : d \in DOMAIN nodes \union Resolved}
    BY <2>4 DEF Spread
  <2> HIDE DEF Resolved, Candidates, Targets
  <2>9. scheduled \union UNION {Targets(nodes'[d]) : d \in DOMAIN nodes \union Resolved}
          = scheduled \union UNION {Targets(nodes'[d]) : d \in Resolved}
    BY <2>5
  <2>10. UNION {Targets(nodes'[d]) : d \in Resolved}
           = UNION {Targets(outcome[d]) : d \in Resolved}
    BY <2>6
  <2> QED
    BY <2>3, <2>7, <2>8, <2>9, <2>10
<1> QED
  BY <1>1, <1>5, <1>6

\* A level that finds room moves the reach; one that does not leaves out a record
\* that is within the next distance, and no later one schedules anything.
LEMMA EndLevelKeeps ==
  ASSUME Inv, NEW next \in SUBSET Daid, EndLevel(next)
  PROVE  Inv'
<1> USE DEF Inv
<1> USE RequestAssumption
<1>1. /\ scheduled' = scheduled \union next /\ frontier' = next
      /\ depth \in 0..MaxDepth /\ depth' = depth + 1 /\ status = "running" /\ status' = status
      /\ truncated' = (truncated \/ next # Candidates)
  BY DEF EndLevel, Traversing, TypeOK
<1>2. /\ next \subseteq Candidates
      /\ Candidates \intersect scheduled = {}
      /\ IsFiniteSet(scheduled \union next)
      /\ Cardinality(scheduled \union next) <= MaxNodes
      /\ next # Candidates => Cardinality(scheduled \union next) = MaxNodes
      /\ Cardinality(scheduled) = MaxNodes => next = {}
  BY LevelFits DEF Bounded
<1>3. depth = MaxDepth => Candidates = {}
  BY DEF Candidates
<1>4. Extends(nodes', nodes)
  BY LevelTables DEF Extends
<1>5. TypeOK'
  <2>1. \A d \in DOMAIN nodes' : nodes'[d] \in Links
    BY LevelTables DEF TypeOK
  <2>2. DOMAIN outcome' = {}
    BY DEF EndLevel
  <2>3. \A d \in DOMAIN failures' : failures'[d] \in Reason
    BY LevelTables
  <2>4. DOMAIN nodes' \union DOMAIN failures' = scheduled
    BY LevelTables DEF TypeOK
  <2>5. DOMAIN nodes' \intersect DOMAIN failures' = {}
    BY LevelTables DEF TypeOK
  <2>6. frontier' \intersect scheduled = {}
    BY <1>1, <1>2
  <2> HIDE DEF Candidates
  <2> QED
    BY <1>1, <2>1, <2>2, <2>3, <2>4, <2>5, <2>6 DEF TypeOK
<1>6. Bounded'
  BY <1>1, <1>2, <1>3 DEF Bounded
<1>7. NothingLeftOut'
  <2> SUFFICES ASSUME ~truncated'
               PROVE  /\ scheduled' = Within'[Reached']
                      /\ \A n \in 0..(depth' - 1) : Within'[n] \subseteq Settled'
                      /\ depth' <= MaxDepth =>
                           \A d \in DOMAIN nodes' : Targets(nodes'[d]) \subseteq scheduled'
    BY DEF NothingLeftOut
  <2>1. ~truncated /\ next = Candidates
    BY <1>1
  <2>2. /\ \A n \in 0..depth : Within'[n] = Within[n]
        /\ depth < MaxDepth => Within'[depth + 1] = scheduled \union Candidates
        /\ depth <= MaxDepth /\ scheduled = Within[depth]
    BY <2>1, LevelReaches
  <2>3. scheduled' = Within'[Reached']
    BY <1>1, <1>3, <2>1, <2>2 DEF Reached
  <2>4. Settled' = scheduled
    BY LevelTables DEF TypeOK, Settled
  <2>5. ASSUME NEW n \in 0..(depth' - 1) PROVE Within'[n] \subseteq Settled'
    <3>1. n \in 0..depth /\ n \in Nat /\ depth \in Nat /\ n <= depth
      BY <1>1
    <3>2. Ball(nodes)[n] \subseteq Ball(nodes)[depth]
      BY <3>1, BallGrows
    <3> QED
      BY <2>2, <2>4, <3>1, <3>2, WithinIsBall
  <2>6. ASSUME depth' <= MaxDepth, NEW d \in DOMAIN nodes'
        PROVE  Targets(nodes'[d]) \subseteq scheduled'
    <3>1. CASE d \in DOMAIN nodes
      BY <1>1, <2>1, <3>1, LevelTables DEF NothingLeftOut
    <3>2. CASE d \in Resolved
      <4>1. nodes'[d] = outcome[d]
        BY <3>2, LevelTables
      <4>2. Candidates = (UNION {Targets(outcome[e]) : e \in Resolved}) \ scheduled
        BY <1>1, <2>6 DEF Candidates
      <4>3. Targets(nodes'[d]) = Targets(outcome[d])
        BY <4>1
      <4>4. Targets(outcome[d]) \subseteq UNION {Targets(outcome[e]) : e \in Resolved}
        BY <3>2
      <4> HIDE DEF Resolved, Candidates, Targets
      <4>5. Targets(outcome[d]) \subseteq scheduled \union Candidates
        BY <4>2, <4>4
      <4> QED
        BY <1>1, <2>1, <4>3, <4>5
    <3>3. d \in DOMAIN nodes \union Resolved
      BY LevelTables
    <3> QED
      BY <3>1, <3>2, <3>3
  <2> QED
    BY <2>3, <2>5, <2>6
<1>8. SomethingLeftOut'
  <2> SUFFICES ASSUME truncated'
               PROVE  /\ Cardinality(scheduled') = MaxNodes
                      /\ scheduled' \subseteq Within'[MaxDepth]
                      /\ scheduled' # Within'[MaxDepth]
    BY DEF SomethingLeftOut
  <2>1. CASE truncated
    <3>1. /\ Cardinality(scheduled) = MaxNodes
          /\ scheduled \subseteq Within[MaxDepth]
          /\ scheduled # Within[MaxDepth]
      BY <2>1 DEF SomethingLeftOut
    <3>2. scheduled' = scheduled
      BY <1>1, <1>2, <3>1
    <3>3. Within[MaxDepth] \subseteq Within'[MaxDepth]
      BY <1>4, BallMonotone, WithinIsBall
    <3> QED
      BY <3>1, <3>2, <3>3
  <2>2. CASE ~truncated
    <3>1. next # Candidates
      BY <1>1, <2>2
    <3>2. depth < MaxDepth /\ depth + 1 \in Nat /\ depth + 1 <= MaxDepth
      BY <1>1, <1>2, <1>3, <3>1
    <3>3. Within'[depth + 1] = scheduled \union Candidates
      BY <2>2, <3>2, LevelReaches
    <3>4. Within'[depth + 1] \subseteq Within'[MaxDepth]
      BY <3>2, BallGrows, WithinIsBall
    <3>5. PICK x \in Candidates : x \notin next
      BY <1>2, <3>1
    <3>6. x \notin scheduled'
      BY <1>1, <1>2, <3>5
    <3> HIDE DEF Candidates
    <3> QED
      BY <1>1, <1>2, <3>1, <3>3, <3>4, <3>5, <3>6
  <2> QED
    BY <2>1, <2>2
<1> QED
  BY <1>5, <1>6, <1>7, <1>8

\* Every step keeps the invariant.
LEMMA NextKeeps == Inv /\ [Next]_vars => Inv'
<1> SUFFICES ASSUME Inv, [Next]_vars PROVE Inv'
  OBVIOUS
<1>1. ASSUME NEW d \in Daid, NEW result \in Links \union Reason, Resolve(d, result)
      PROVE  Inv'
  BY <1>1, ResolveKeeps
<1>2. ASSUME NEW next \in SUBSET Daid, EndLevel(next) PROVE Inv'
  BY <1>2, EndLevelKeeps
<1>3. CASE Answer
  BY <1>3, AnswerKeeps
<1>4. CASE UNCHANGED vars
  <2>1. Within' = Within
    BY <1>4, WithinIsBall DEF vars, levelVars
  <2> QED
    BY <1>4, <2>1 DEF vars, levelVars, Inv, TypeOK, Bounded, NothingLeftOut,
                     SomethingLeftOut, Reached, Settled
<1> QED
  BY <1>1, <1>2, <1>3, <1>4 DEF Next, Done

-----------------------------------------------------------------------------
(* The theorems *)

\* The invariant holds of every request, whatever the graph and the limits.
THEOREM AlwaysInv == Spec => []Inv
<1>1. Init => Inv
  BY InitInv
<1>2. Inv /\ [Next]_vars => Inv'
  BY NextKeeps
<1> QED
  BY <1>1, <1>2, PTL DEF Spec

\* Every variable keeps its type, and every record that was scheduled is in the
\* frontier, resolved or failed, and in no two of them.
THEOREM AlwaysTypeOK == Spec => []TypeOK
<1>1. Inv => TypeOK
  BY DEF Inv
<1> QED
  BY <1>1, AlwaysInv, PTL

\* An answered request that left nothing out asked for exactly what is within
\* its depth: either the depth was exhausted, or no link leads any further.
LEMMA EndsWithAll ==
  ASSUME Inv, status # "running", ~truncated
  PROVE  scheduled = Within[MaxDepth]
<1> USE RequestAssumption
<1>1. scheduled = Within[Reached]
  BY DEF Inv, NothingLeftOut
<1>2. CASE depth > MaxDepth
  BY <1>1, <1>2 DEF Reached, Inv, TypeOK
<1>3. CASE depth <= MaxDepth
  <2>1. depth \in Nat /\ Reached = depth
    BY <1>3 DEF Reached, Inv, TypeOK
  <2>2. \A d \in DOMAIN nodes : Targets(nodes[d]) \subseteq Ball(nodes)[depth]
    BY <1>1, <1>3, <2>1, WithinIsBall DEF Inv, NothingLeftOut
  <2>3. Ball(nodes)[MaxDepth] = Ball(nodes)[depth]
    BY <1>3, <2>1, <2>2, BallClosed
  <2> QED
    BY <1>1, <2>1, <2>3, WithinIsBall
<1> QED
  BY <1>2, <1>3 DEF Inv, TypeOK

\* truncated in the answer of resolve_asset_graph: what was asked for is within
\* the depth by shortest paths, and is all of it unless truncated says so.
THEOREM AlwaysTruncationIsReported == Spec => []TruncationIsReported
<1>1. Inv => TruncationIsReported
  <2> SUFFICES ASSUME Inv, status # "running" PROVE
                 /\ scheduled \subseteq Within[MaxDepth]
                 /\ truncated <=> scheduled # Within[MaxDepth]
    BY DEF TruncationIsReported, Answered
  <2>1. CASE truncated
    BY <2>1 DEF Inv, SomethingLeftOut
  <2>2. CASE ~truncated
    BY <2>2, EndsWithAll
  <2> QED
    BY <2>1, <2>2
<1> QED
  BY <1>1, AlwaysInv, PTL

\* An answer that calls itself complete has every record within the depth.
THEOREM AlwaysCompleteMeansAll == Spec => []CompleteMeansAll
<1>1. Inv => CompleteMeansAll
  <2> SUFFICES ASSUME Inv, status = "200", Complete
               PROVE  Within[MaxDepth] = DOMAIN nodes
    BY DEF CompleteMeansAll
  <2>1. scheduled = Within[MaxDepth]
    BY EndsWithAll DEF Complete
  <2>2. frontier = {}
    BY DEF Inv, Bounded
  <2> QED
    BY <2>1, <2>2 DEF Inv, TypeOK, Complete
<1> QED
  BY <1>1, AlwaysInv, PTL

=============================================================================
