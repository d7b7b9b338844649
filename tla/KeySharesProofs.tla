-------------------------- MODULE KeySharesProofs --------------------------
(***************************************************************************)
(* Proofs about KeyShares, for every width, every irreducible modulus,     *)
(* every key length and all layouts: enough shares give the key, anything  *)
(* else an error, and fewer shares than the threshold rule out no key.     *)
(*                                                                         *)
(* The module shows that the elements are a field, that the interpolation  *)
(* of combine_key is right over it, and from both the invariants.          *)
(***************************************************************************)
EXTENDS KeyShares, FiniteSetTheorems, SequenceTheorems, WellFoundedInduction, TLAPS

\* The operations of the field.
a ++ b == SymDiff(a, b)

a ** b == Product[a, b]

-----------------------------------------------------------------------------
(* Induction and loops *)

\* A set of natural numbers that is not empty has a least element.
LEMMA Least ==
  ASSUME NEW T \in SUBSET Nat, T # {}
  PROVE  \E x \in T : \A y \in T : x <= y
<1>1. \E x \in T : \A y \in T : ~(<<y, x>> \in OpToRel(<, Nat))
  BY NatLessThanWellFounded, WFMin
<1>2. \E x \in T : \A y \in T : ~(y < x)
  BY <1>1 DEF OpToRel
<1> QED
  BY <1>2

\* What holds at 0 and stays so up to N holds from 0 to N.
LEMMA UpTo ==
  ASSUME NEW N \in Nat, NEW T, 0 \in T, \A n \in 1..N : n - 1 \in T => n \in T
  PROVE  \A n \in 0..N : n \in T
<1> SUFFICES ASSUME {n \in 0..N : n \notin T} # {} PROVE FALSE
  OBVIOUS
<1>1. PICK x \in {n \in 0..N : n \notin T} : \A y \in {n \in 0..N : n \notin T} : x <= y
  <2>1. {n \in 0..N : n \notin T} \in SUBSET Nat
    OBVIOUS
  <2> QED
    BY <2>1, Least
<1>2. x \in 1..N
  BY <1>1
<1>3. x - 1 \in 0..N /\ x - 1 < x
  BY <1>2
<1>4. x - 1 \in T
  BY <1>1, <1>3
<1> QED
  BY <1>1, <1>2, <1>4

\* The values of a loop of N steps, each a function.
LoopOf(v, N, S, base, step) ==
  v \in [0..N -> S] /\ v[0] = base /\ \A n \in 1..N : v[n] = step[n][v[n - 1]]

\* There are such values.
LEMMA Loop ==
  ASSUME NEW N \in Nat, NEW S, NEW base \in S, NEW step \in [1..N -> [S -> S]]
  PROVE  \E v : LoopOf(v, N, S, base, step)
<1> DEFINE T == {m \in 0..N : \E v : LoopOf(v, m, S, base, step)}
<1>1. 0 \in T
  <2>1. PICK v : v = [n \in 0..0 |-> base]
    OBVIOUS
  <2>2. v \in [0..0 -> S] /\ v[0] = base
    BY <2>1
  <2>3. LoopOf(v, 0, S, base, step)
    BY <2>2 DEF LoopOf
  <2> QED
    BY <2>3
<1>2. ASSUME NEW m \in 1..N, m - 1 \in T PROVE m \in T
  <2>1. PICK v : LoopOf(v, m - 1, S, base, step)
    BY <1>2
  <2>2. PICK w : w = [n \in 0..m |-> IF n = m THEN step[m][v[m - 1]] ELSE v[n]]
    OBVIOUS
  <2>3. v[m - 1] \in S /\ step[m][v[m - 1]] \in S
    BY <2>1 DEF LoopOf
  <2>4. w \in [0..m -> S] /\ w[0] = base
    BY <2>1, <2>2, <2>3 DEF LoopOf
  <2>5. ASSUME NEW n \in 1..m PROVE w[n] = step[n][w[n - 1]]
    BY <2>1, <2>2 DEF LoopOf
  <2>6. LoopOf(w, m, S, base, step)
    BY <2>4, <2>5 DEF LoopOf
  <2> QED
    BY <2>6
<1>3. \A n \in 0..N : n \in T
  <2> HIDE DEF T
  <2> QED
    BY <1>1, <1>2, UpTo
<1> QED
  BY <1>3

-----------------------------------------------------------------------------
(* Elements *)

\* Exclusive or is a commutative group in which each element is its own
\* inverse.
LEMMA Xor ==
  ASSUME NEW a, NEW b, NEW c
  PROVE  /\ a ++ b = b ++ a /\ a ++ (b ++ c) = (a ++ b) ++ c
         /\ a ++ a = Zero /\ a ++ Zero = a /\ Zero ++ a = a
         /\ a ++ (a ++ b) = b /\ (a ++ b = Zero => a = b)
<1>1. \A i, d, e : i \in d ++ e <=> ~(i \in d <=> i \in e)
  BY DEF ++, SymDiff
<1> QED
  BY <1>1 DEF Zero

\* The constants and exclusive or are elements.
LEMMA Elements ==
  /\ Zero \in Element /\ One \in Element /\ Zero # One
  /\ \A a, b \in Element : a ++ b \in Element
  /\ \A j \in Bit : {j} \in Element
BY FieldAssumption DEF Zero, One, Element, Bit, ++, SymDiff

\* All elements can be made of single bits: a set that has these and is closed
\* under exclusive or has all elements.
LEMMA Span ==
  ASSUME NEW X, Zero \in X, \A j \in Bit : {j} \in X, \A a, b \in X : a ++ b \in X
  PROVE  \A a \in Element : a \in X
<1> DEFINE T == {n \in 0..Width : \A a \in Element : a \subseteq 0..(n - 1) => a \in X}
<1>1. 0 \in T
  <2>1. \A a : a \subseteq 0..(0 - 1) => a = Zero
    BY DEF Zero
  <2> QED
    BY <2>1, FieldAssumption
<1>2. ASSUME NEW n \in 1..Width, n - 1 \in T PROVE n \in T
  <2> SUFFICES ASSUME NEW a \in Element, a \subseteq 0..(n - 1) PROVE a \in X
    OBVIOUS
  <2>1. n - 1 \in Bit /\ 0..(n - 1 - 1) = 0..(n - 1) \ {n - 1}
    BY FieldAssumption DEF Bit
  <2>2. CASE n - 1 \notin a
    <3>1. a \subseteq 0..(n - 1 - 1)
      BY <2>1, <2>2
    <3>2. \A e \in Element : e \subseteq 0..(n - 1 - 1) => e \in X
      BY <1>2
    <3> QED
      BY <3>1, <3>2
  <2>3. CASE n - 1 \in a
    <3>1. a \ {n - 1} \in Element /\ a \ {n - 1} \subseteq 0..(n - 1 - 1)
      BY <2>1 DEF Element
    <3>2. a = (a \ {n - 1}) ++ {n - 1}
      BY <2>3 DEF ++, SymDiff
    <3>3. \A e \in Element : e \subseteq 0..(n - 1 - 1) => e \in X
      BY <1>2
    <3>4. a \ {n - 1} \in X /\ {n - 1} \in X
      BY <2>1, <3>1, <3>3
    <3> QED
      BY <3>2, <3>4
  <2> QED
    BY <2>2, <2>3
<1>3. Width \in T
  <2> HIDE DEF T
  <2> QED
    BY <1>1, <1>2, UpTo, FieldAssumption
<1> QED
  BY <1>3 DEF Element, Bit

\* A shift is linear.
LEMMA ShiftLaws ==
  ASSUME NEW a \in Element, NEW b \in Element
  PROVE  Shifted(a) \in Element /\ Shifted(a ++ b) = Shifted(a) ++ Shifted(b)
<1> DEFINE up(e) == {i + 1 : i \in e}
<1>1. \A e \in Element : up(e) \subseteq 1..Width /\ \A i \in Int : i \in up(e) <=> i - 1 \in e
  BY FieldAssumption DEF Element, Bit
<1>2. \A i, d, e : i \in d ++ e <=> ~(i \in d <=> i \in e)
  BY DEF ++, SymDiff
<1>3. \A e \in Element : Shifted(e) = IF Width \in up(e) THEN up(e) ++ Modulus ELSE up(e)
  BY DEF Shifted, ++
<1>4. a ++ b \in Element
  BY Elements
<1> HIDE DEF up
<1>5. \A i : i \in up(a ++ b) <=> ~(i \in up(a) <=> i \in up(b))
  <2>1. \A i \in 1..Width : i \in up(a ++ b) <=> ~(i \in up(a) <=> i \in up(b))
    BY <1>1, <1>2, <1>4
  <2>2. \A i : i \in up(a) \/ i \in up(b) \/ i \in up(a ++ b) => i \in 1..Width
    BY <1>1, <1>4
  <2> QED
    BY <2>1, <2>2
<1>6. ASSUME NEW e \in Element PROVE \A i : i \in Shifted(e) <=>
        IF Width \in up(e) THEN ~(i \in up(e) <=> i \in Modulus) ELSE i \in up(e)
  BY <1>2, <1>3
<1>7. Shifted(a) \subseteq Bit
  <2> SUFFICES ASSUME NEW i \in Shifted(a) PROVE i \in Bit
    OBVIOUS
  <2>1. up(a) \subseteq 1..Width
    BY <1>1
  <2>2. (i \in up(a) \/ i \in Modulus) /\ (i = Width => FALSE)
    BY <1>6, FieldAssumption
  <2>3. Width \in Nat /\ \A j \in Modulus : j \in 0..Width
    BY FieldAssumption
  <2>4. CASE i \in up(a)
    BY <2>1, <2>2, <2>3, <2>4 DEF Bit
  <2>5. CASE i \in Modulus
    BY <2>2, <2>3, <2>5 DEF Bit
  <2> QED
    BY <2>2, <2>4, <2>5
<1>8. \A i : i \in Shifted(a ++ b) <=> ~(i \in Shifted(a) <=> i \in Shifted(b))
  BY <1>4, <1>5, <1>6
<1>9. Shifted(a ++ b) = Shifted(a) ++ Shifted(b)
  BY <1>2, <1>8
<1> QED
  BY <1>7, <1>9 DEF Element

\* A bit but the highest becomes the next bit.
LEMMA ShiftBit ==
  ASSUME NEW j \in Bit, j + 1 \in Bit
  PROVE  Shifted({j}) = {j + 1}
BY FieldAssumption DEF Shifted, Bit

-----------------------------------------------------------------------------
(* Multiplication *)

\* Whether a set has an odd number of elements.
Odd(S) == Cardinality(S) % 2 = 1

\* The oddness of nothing and of one.
LEMMA OddSmall == ~Odd({}) /\ \A e : Odd({e})
<1>1. Cardinality({}) = 0 /\ \A e : Cardinality({e}) = 1
  BY FS_EmptySet, FS_Singleton
<1>2. 0 % 2 = 0 /\ 1 % 2 = 1
  OBVIOUS
<1>3. \A S : Odd(S) <=> Cardinality(S) % 2 = 1
  BY DEF Odd
<1>4. Odd({}) <=> 0 % 2 = 1
  BY <1>1, <1>3
<1>5. ASSUME NEW e PROVE Odd({e}) <=> 1 % 2 = 1
  BY <1>1, <1>3
<1> QED
  BY <1>2, <1>4, <1>5

\* The oddness of an exclusive or.
LEMMA OddXor ==
  ASSUME NEW S, NEW T, IsFiniteSet(S), IsFiniteSet(T)
  PROVE  Odd(S ++ T) <=> ~(Odd(S) <=> Odd(T))
<1> DEFINE s == Cardinality(S \ T)
           t == Cardinality(T \ S)
           c == Cardinality(S \intersect T)
<1>1. /\ IsFiniteSet(S \ T) /\ IsFiniteSet(T \ S) /\ IsFiniteSet(S \intersect T)
      /\ s = Cardinality(S) - c /\ t = Cardinality(T) - c
  <2>1. T \intersect S = S \intersect T
    OBVIOUS
  <2>2. IsFiniteSet(S \ T) /\ s = Cardinality(S) - Cardinality(S \intersect T)
    BY FS_Difference
  <2>3. IsFiniteSet(T \ S) /\ t = Cardinality(T) - Cardinality(T \intersect S)
    BY FS_Difference
  <2>4. IsFiniteSet(S \intersect T)
    BY FS_Intersection
  <2> QED
    BY <2>1, <2>2, <2>3, <2>4
<1>2. s \in Nat /\ t \in Nat /\ c \in Nat /\ Cardinality(S) \in Nat /\ Cardinality(T) \in Nat
  BY <1>1, FS_CardinalityType
<1>3. Cardinality(S ++ T) = s + t
  <2>1. (S \ T) \intersect (T \ S) = {}
    OBVIOUS
  <2>2. Cardinality((S \ T) \union (T \ S)) = s + t - Cardinality({})
    BY <1>1, <2>1, FS_Union
  <2> QED
    BY <1>2, <2>2, FS_EmptySet DEF ++, SymDiff
<1> HIDE DEF s, t, c
<1>4. Cardinality(S ++ T) = Cardinality(S) + Cardinality(T) - 2 * c
  BY <1>1, <1>2, <1>3
<1> QED
  BY <1>2, <1>4 DEF Odd

\* The values that left takes while _gf_mul shifts it.
Terms(left) ==
  LET term[k \in Bit] == IF k = 0 THEN left ELSE Shifted(term[k - 1])
  IN  term

\* They are what their recursive definition says.
LEMMA TermsAre ==
  ASSUME NEW left \in Element, NEW t \in [Bit -> Element], t[0] = left,
         \A k \in 1..(Width - 1) : t[k] = Shifted(t[k - 1])
  PROVE  Terms(left) = t
<1> DEFINE Solves(f) == f = [k \in Bit |-> IF k = 0 THEN left ELSE Shifted(f[k - 1])]
<1>1. Solves(t)
  BY FieldAssumption DEF Bit
<1>2. PICK f : f = Terms(left) /\ Solves(f)
  BY <1>1 DEF Terms
<1>3. \A k \in 0..(Width - 1) : k \in {i \in Bit : f[i] = t[i]}
  <2>1. f[0] = t[0] /\ 0 \in Bit
    BY <1>1, <1>2, FieldAssumption DEF Bit
  <2>2. ASSUME NEW k \in 1..(Width - 1), f[k - 1] = t[k - 1] PROVE f[k] = t[k] /\ k \in Bit
    BY <1>2, <2>2, FieldAssumption DEF Bit
  <2>3. Width - 1 \in Nat
    BY FieldAssumption
  <2> QED
    BY <2>1, <2>2, <2>3, UpTo
<1> QED
  BY <1>2, <1>3 DEF Bit

\* There are such values.
LEMMA TermsIs ==
  ASSUME NEW left \in Element
  PROVE  /\ Terms(left) \in [Bit -> Element] /\ Terms(left)[0] = left
         /\ \A k \in 1..(Width - 1) : Terms(left)[k] = Shifted(Terms(left)[k - 1])
<1> PICK N \in Nat : N = Width - 1
  BY FieldAssumption
<1>1. PICK step : step = [k \in 1..N |-> [e \in Element |-> Shifted(e)]]
  OBVIOUS
<1>2. step \in [1..N -> [Element -> Element]]
  BY <1>1, ShiftLaws
<1>3. PICK t : LoopOf(t, N, Element, left, step)
  BY <1>2, Loop
<1>4. /\ t \in [Bit -> Element] /\ t[0] = left
      /\ \A k \in 1..(Width - 1) : t[k] = Shifted(t[k - 1])
  BY <1>1, <1>3 DEF LoopOf, Bit
<1>5. Terms(left) = t
  BY <1>4, TermsAre
<1> QED
  BY <1>4, <1>5

\* What is in a product.
LEMMA Product_ ==
  ASSUME NEW a \in Element, NEW b \in Element
  PROVE  /\ a ** b \in Element
         /\ \A i \in Bit : i \in a ** b <=> Odd({k \in b : i \in Terms(a)[k]})
<1>1. a ** b = GfMul(a, b)
  BY DEF **, Product
<1>2. GfMul(a, b) = {i \in Bit : Odd({k \in b : i \in Terms(a)[k]})}
  BY DEF GfMul, Terms, Odd
<1> QED
  BY <1>1, <1>2 DEF Element

\* Elements are finite, and equal if they have the same bits.
LEMMA ElementsAre ==
  ASSUME NEW a \in Element
  PROVE  IsFiniteSet(a) /\ \A b \in Element : (\A i \in Bit : i \in a <=> i \in b) => a = b
<1>1. IsFiniteSet(Bit)
  BY FS_Interval, FieldAssumption DEF Bit
<1>2. IsFiniteSet(a)
  BY <1>1, FS_Subset DEF Element
<1> QED
  BY <1>2 DEF Element

\* Multiplication is linear in both factors.
LEMMA Linear ==
  ASSUME NEW a \in Element, NEW b \in Element, NEW c \in Element
  PROVE  a ** (b ++ c) = (a ** b) ++ (a ** c) /\ (a ++ b) ** c = (a ** c) ++ (b ** c)
<1> DEFINE in(d, e, i) == {k \in e : i \in Terms(d)[k]}
<1>1. \A d, e, i : i \in d ++ e <=> ~(i \in d <=> i \in e)
  BY DEF ++, SymDiff
<1>2. a ++ b \in Element /\ b ++ c \in Element
  BY Elements
<1>3. \A d, e \in Element : d ** e \in Element /\ \A i \in Bit : i \in d ** e <=> Odd(in(d, e, i))
  BY Product_
<1>4. \A d, e, i : e \in Element => IsFiniteSet(in(d, e, i))
  <2> SUFFICES ASSUME NEW d, NEW e \in Element, NEW i PROVE IsFiniteSet(in(d, e, i))
    OBVIOUS
  <2> QED
    BY ElementsAre, FS_Subset
<1>5. a ** (b ++ c) = (a ** b) ++ (a ** c)
  <2>1. ASSUME NEW i \in Bit PROVE i \in a ** (b ++ c) <=> i \in (a ** b) ++ (a ** c)
    <3>1. in(a, b ++ c, i) = in(a, b, i) ++ in(a, c, i)
      BY DEF ++, SymDiff
    <3>2. IsFiniteSet(in(a, b, i)) /\ IsFiniteSet(in(a, c, i))
      BY <1>4
    <3> HIDE DEF in
    <3> QED
      BY <1>1, <1>2, <1>3, <3>1, <3>2, OddXor
  <2>2. (a ** b) ++ (a ** c) \in Element
    BY <1>3, Elements
  <2> QED
    BY <1>2, <1>3, <2>1, <2>2, ElementsAre
<1>6. (a ++ b) ** c = (a ** c) ++ (b ** c)
  <2>1. \A k \in Bit : Terms(a ++ b)[k] = Terms(a)[k] ++ Terms(b)[k]
    <3>1. PICK t : t = [k \in Bit |-> Terms(a)[k] ++ Terms(b)[k]]
      OBVIOUS
    <3>2. t \in [Bit -> Element] /\ t[0] = a ++ b
      <4>1. \A k \in Bit : Terms(a)[k] \in Element /\ Terms(b)[k] \in Element
        BY TermsIs
      <4>2. 0 \in Bit /\ Terms(a)[0] = a /\ Terms(b)[0] = b
        BY TermsIs, FieldAssumption DEF Bit
      <4> QED
        BY <3>1, <4>1, <4>2, Elements
    <3>3. ASSUME NEW k \in 1..(Width - 1) PROVE t[k] = Shifted(t[k - 1])
      <4>1. k \in Bit /\ k - 1 \in Bit
        BY FieldAssumption DEF Bit
      <4>2. PICK d \in Element, e \in Element : d = Terms(a)[k - 1] /\ e = Terms(b)[k - 1]
        BY <4>1, TermsIs
      <4>3. Terms(a)[k] = Shifted(d) /\ Terms(b)[k] = Shifted(e)
        BY <4>2, TermsIs
      <4> QED
        BY <3>1, <4>1, <4>2, <4>3, ShiftLaws
    <3>4. Terms(a ++ b) = t
      BY <1>2, <3>2, <3>3, TermsAre
    <3> QED
      BY <3>1, <3>4
  <2>2. ASSUME NEW i \in Bit PROVE i \in (a ++ b) ** c <=> i \in (a ** c) ++ (b ** c)
    <3>1. in(a ++ b, c, i) = in(a, c, i) ++ in(b, c, i)
      <4>1. \A k \in c : k \in Bit
        BY DEF Element
      <4>2. \A k : k \in in(a ++ b, c, i) <=> ~(k \in in(a, c, i) <=> k \in in(b, c, i))
        BY <1>1, <2>1, <4>1
      <4> HIDE DEF in
      <4> QED
        BY <1>1, <4>2
    <3>2. IsFiniteSet(in(a, c, i)) /\ IsFiniteSet(in(b, c, i))
      BY <1>4
    <3> HIDE DEF in
    <3> QED
      BY <1>1, <1>2, <1>3, <3>1, <3>2, OddXor
  <2>3. (a ** c) ++ (b ** c) \in Element
    BY <1>3, Elements
  <2> QED
    BY <1>2, <1>3, <2>2, <2>3, ElementsAre
<1> QED
  BY <1>5, <1>6

\* A bit as factor shifts.
LEMMA TimesBit ==
  ASSUME NEW a \in Element, NEW k \in Bit
  PROVE  a ** {k} = Terms(a)[k] /\ Terms(a)[k] \in Element
<1>1. {k} \in Element /\ Terms(a)[k] \in Element
  BY Elements, TermsIs
<1>2. ASSUME NEW i \in Bit PROVE i \in a ** {k} <=> i \in Terms(a)[k]
  <2>1. i \in a ** {k} <=> Odd({j \in {k} : i \in Terms(a)[j]})
    BY <1>1, Product_
  <2>2. CASE i \in Terms(a)[k]
    <3>1. {j \in {k} : i \in Terms(a)[j]} = {k}
      BY <2>2
    <3> QED
      BY <2>1, <2>2, <3>1, OddSmall
  <2>3. CASE i \notin Terms(a)[k]
    <3>1. {j \in {k} : i \in Terms(a)[j]} = {}
      BY <2>3
    <3> QED
      BY <2>1, <2>3, <3>1, OddSmall
  <2> QED
    BY <2>2, <2>3
<1> QED
  BY <1>1, <1>2, Product_, ElementsAre

\* Zero as factor, and shifted.
LEMMA TimesZero ==
  ASSUME NEW a \in Element
  PROVE  a ** Zero = Zero /\ Zero ** a = Zero /\ Shifted(Zero) = Zero
<1>1. Zero \in Element /\ Zero ++ Zero = Zero
  BY Elements, Xor
<1>2. a ** Zero = (a ** Zero) ++ (a ** Zero) /\ Zero ** a = (Zero ** a) ++ (Zero ** a)
  BY <1>1, Linear
<1>3. Shifted(Zero) = Shifted(Zero) ++ Shifted(Zero)
  BY <1>1, ShiftLaws
<1> QED
  BY <1>2, <1>3, Xor

\* A shift of a factor shifts the product.
LEMMA TimesShift ==
  ASSUME NEW a \in Element
  PROVE  \A b \in Element : Shifted(a) ** b = Shifted(a ** b)
<1> DEFINE X == {b \in Element : Shifted(a) ** b = Shifted(a ** b)}
<1>1. Shifted(a) \in Element
  BY ShiftLaws
<1>2. Zero \in X
  BY <1>1, TimesZero, Elements
<1>3. ASSUME NEW k \in Bit PROVE {k} \in X
  <2>1. PICK t : t = [i \in Bit |-> Shifted(Terms(a)[i])]
    OBVIOUS
  <2>2. t \in [Bit -> Element]
    BY <2>1, TermsIs, ShiftLaws
  <2>3. t[0] = Shifted(a) /\ \A i \in 1..(Width - 1) : t[i] = Shifted(t[i - 1])
    BY <2>1, TermsIs, FieldAssumption DEF Bit
  <2>4. Terms(Shifted(a)) = t
    BY <1>1, <2>2, <2>3, TermsAre
  <2>5. Shifted(a) ** {k} = Terms(Shifted(a))[k] /\ a ** {k} = Terms(a)[k]
    BY <1>1, TimesBit
  <2> QED
    BY <2>1, <2>4, <2>5, Elements
<1>4. ASSUME NEW b \in X, NEW c \in X PROVE b ++ c \in X
  <2>1. b ++ c \in Element /\ a ** b \in Element /\ a ** c \in Element
    BY Elements, Product_
  <2>2. Shifted(a) ** (b ++ c) = (Shifted(a) ** b) ++ (Shifted(a) ** c)
    BY <1>1, Linear
  <2>3. Shifted(a ** (b ++ c)) = Shifted(a ** b) ++ Shifted(a ** c)
    BY <2>1, Linear, ShiftLaws
  <2> QED
    BY <2>1, <2>2, <2>3
<1> HIDE DEF X
<1>5. \A b \in Element : b \in X
  BY <1>2, <1>3, <1>4, Span
<1> QED
  BY <1>5 DEF X

\* One is neutral.
LEMMA TimesOne ==
  \A a \in Element : a ** One = a /\ One ** a = a
<1> DEFINE X == {a \in Element : One ** a = a}
<1>1. 0 \in Bit /\ One \in Element
  BY Elements, FieldAssumption DEF Bit
<1>2. \A a \in Element : a ** One = a
  BY <1>1, TimesBit, TermsIs DEF One
<1>3. Zero \in X
  BY <1>1, TimesZero, Elements
<1>4. \A k \in 0..(Width - 1) : k \in {i \in Bit : Terms(One)[i] = {i}}
  <2>1. Width - 1 \in Nat
    BY FieldAssumption
  <2>2. 0 \in {i \in Bit : Terms(One)[i] = {i}}
    BY <1>1, TermsIs DEF One
  <2>3. ASSUME NEW k \in 1..(Width - 1), Terms(One)[k - 1] = {k - 1}
        PROVE  k \in Bit /\ Terms(One)[k] = {k}
    <3>1. PICK j \in Bit : j = k - 1 /\ j + 1 \in Bit /\ j + 1 = k
      BY FieldAssumption DEF Bit
    <3>2. Terms(One)[k] = Shifted(Terms(One)[k - 1]) /\ Terms(One)[k - 1] = {j}
      BY <1>1, <2>3, <3>1, TermsIs
    <3> QED
      BY <3>1, <3>2, ShiftBit
  <2> QED
    BY <2>1, <2>2, <2>3, UpTo
<1>5. ASSUME NEW k \in Bit PROVE {k} \in X
  BY <1>1, <1>4, TimesBit, Elements DEF Bit
<1>6. ASSUME NEW a \in X, NEW b \in X PROVE a ++ b \in X
  BY <1>1, Linear, Elements
<1> HIDE DEF X
<1>7. \A a \in Element : a \in X
  BY <1>3, <1>5, <1>6, Span
<1> QED
  BY <1>2, <1>7 DEF X

\* Multiplication is commutative: of bits, of an element and a bit, and so of
\* all elements.
LEMMA Commutes ==
  \A a, b \in Element : a ** b = b ** a
<1>1. ASSUME NEW k \in Bit PROVE \A j \in Bit : {j} ** {k} = {k} ** {j}
  <2> DEFINE T == {j \in Bit : {j} ** {k} = {k} ** {j}}
  <2>1. 0 \in T
    BY TimesOne, Elements, FieldAssumption DEF One, Bit
  <2>2. ASSUME NEW n \in 1..(Width - 1), n - 1 \in T PROVE n \in T
    <3>1. PICK j \in Bit : j = n - 1 /\ j + 1 \in Bit /\ j + 1 = n
      BY FieldAssumption DEF Bit
    <3>2. {n} = Shifted({j}) /\ {j} \in Element /\ {k} \in Element /\ {n} \in Element
      BY <3>1, ShiftBit, Elements
    <3>3. {n} ** {k} = Shifted({j} ** {k})
      BY <3>2, TimesShift
    <3>4. {j} ** {k} = Terms({k})[j]
      BY <2>2, <3>1, <3>2, TimesBit
    <3>5. {k} ** {n} = Shifted(Terms({k})[j])
      BY <3>1, <3>2, TimesBit, TermsIs
    <3> QED
      BY <3>1, <3>3, <3>4, <3>5
  <2>3. Width - 1 \in Nat
    BY FieldAssumption
  <2> HIDE DEF T
  <2>4. \A j \in 0..(Width - 1) : j \in T
    BY <2>1, <2>2, <2>3, UpTo
  <2> QED
    BY <2>4 DEF T, Bit
<1>2. ASSUME NEW k \in Bit PROVE \A a \in Element : a ** {k} = {k} ** a
  <2> DEFINE X == {a \in Element : a ** {k} = {k} ** a}
  <2>1. {k} \in Element
    BY Elements
  <2>2. Zero \in X
    BY <2>1, TimesZero, Elements
  <2>3. \A j \in Bit : {j} \in X
    BY <1>1, Elements
  <2>4. ASSUME NEW a \in X, NEW b \in X PROVE a ++ b \in X
    BY <2>1, Linear, Elements
  <2> HIDE DEF X
  <2>5. \A a \in Element : a \in X
    BY <2>2, <2>3, <2>4, Span
  <2> QED
    BY <2>5 DEF X
<1>3. ASSUME NEW a \in Element PROVE \A b \in Element : a ** b = b ** a
  <2> DEFINE X == {b \in Element : a ** b = b ** a}
  <2>1. Zero \in X
    BY TimesZero, Elements
  <2>2. \A j \in Bit : {j} \in X
    BY <1>2, Elements
  <2>3. ASSUME NEW b \in X, NEW c \in X PROVE b ++ c \in X
    BY Linear, Elements
  <2> HIDE DEF X
  <2>4. \A b \in Element : b \in X
    BY <2>1, <2>2, <2>3, Span
  <2> QED
    BY <2>4 DEF X
<1> QED
  BY <1>3

\* Multiplication is associative.
LEMMA Associates ==
  ASSUME NEW a \in Element, NEW b \in Element
  PROVE  \A c \in Element : (a ** b) ** c = a ** (b ** c)
<1> DEFINE X == {c \in Element : (a ** b) ** c = a ** (b ** c)}
<1>1. a ** b \in Element /\ \A c \in Element : b ** c \in Element
  BY Product_
<1>2. Zero \in X
  BY <1>1, TimesZero, Elements
<1>3. ASSUME NEW k \in Bit PROVE {k} \in X
  <2> DEFINE T == {j \in Bit : {j} \in X}
  <2>1. 0 \in T
    BY <1>1, TimesOne, Elements, FieldAssumption DEF One, Bit
  <2>2. ASSUME NEW n \in 1..(Width - 1), n - 1 \in T PROVE n \in T
    <3>1. PICK j \in Bit : j = n - 1 /\ j + 1 \in Bit /\ j + 1 = n
      BY FieldAssumption DEF Bit
    <3>2. {n} = Shifted({j}) /\ {j} \in Element /\ {n} \in Element /\ b ** {j} \in Element
      BY <1>1, <3>1, ShiftBit, Elements
    <3>3. \A d \in Element : d ** {n} = Shifted(d ** {j})
      <4> SUFFICES ASSUME NEW d \in Element PROVE d ** {n} = Shifted(d ** {j})
        OBVIOUS
      <4>1. {n} ** d = Shifted({j} ** d)
        BY <3>2, TimesShift
      <4> QED
        BY <3>2, <4>1, Commutes
    <3>4. (a ** b) ** {n} = Shifted(a ** (b ** {j}))
      BY <1>1, <2>2, <3>1, <3>3
    <3>5. a ** Shifted(b ** {j}) = Shifted(a ** (b ** {j}))
      <4>1. PICK d \in Element : d = b ** {j} /\ Shifted(d) \in Element
        BY <3>2, ShiftLaws
      <4>2. Shifted(d) ** a = Shifted(d ** a)
        BY <4>1, TimesShift
      <4> QED
        BY <4>1, <4>2, Commutes
    <3> QED
      BY <3>1, <3>2, <3>3, <3>4, <3>5
  <2>3. Width - 1 \in Nat
    BY FieldAssumption
  <2> HIDE DEF T
  <2>4. \A j \in 0..(Width - 1) : j \in T
    BY <2>1, <2>2, <2>3, UpTo
  <2> QED
    BY <2>4 DEF T, Bit
<1>4. ASSUME NEW c \in X, NEW d \in X PROVE c ++ d \in X
  <2>1. c ++ d \in Element /\ b ** (c ++ d) = (b ** c) ++ (b ** d)
    BY Linear, Elements
  <2>2. (a ** b) ** (c ++ d) = ((a ** b) ** c) ++ ((a ** b) ** d)
    BY <1>1, Linear
  <2>3. a ** (b ** (c ++ d)) = (a ** (b ** c)) ++ (a ** (b ** d))
    BY <1>1, <2>1, Linear
  <2> QED
    BY <2>1, <2>2, <2>3
<1> HIDE DEF X
<1>5. \A c \in Element : c \in X
  BY <1>2, <1>3, <1>4, Span
<1> QED
  BY <1>5 DEF X

\* Each element but zero has an inverse.
LEMMA HasInverse ==
  ASSUME NEW a \in Element, a # Zero
  PROVE  \E r \in Element : r = Reciprocal[a] /\ a ** r = One
<1>1. a \in Element \ {Zero}
  OBVIOUS
<1>2. Reciprocal[a] \in Element /\ Product[a, Reciprocal[a]] = One
  BY <1>1, ModulusAssumption
<1> QED
  BY <1>2 DEF **

\* A product is zero only if a factor is.
LEMMA NoDivisors ==
  ASSUME NEW a \in Element, NEW b \in Element, a ** b = Zero, a # Zero
  PROVE  b = Zero
<1>1. PICK r \in Element : r = Reciprocal[a] /\ a ** r = One
  BY HasInverse
<1>2. r ** (a ** b) = (r ** a) ** b
  BY Associates
<1>3. r ** a = One
  BY <1>1, Commutes
<1>4. r ** Zero = Zero /\ One ** b = b
  BY TimesZero, TimesOne
<1> QED
  BY <1>2, <1>3, <1>4

-----------------------------------------------------------------------------
(* Sums and products over positions *)

\* The partial sums determine the sum.
LEMMA SumIs ==
  ASSUME NEW N \in Nat, NEW f \in [1..N -> Element], NEW v \in [0..N -> Element],
         v[0] = Zero, \A n \in 1..N : v[n] = v[n - 1] ++ f[n]
  PROVE  XorOf(f) = v[N]
<1> DEFINE Solves(w) ==
             w = [n \in 0..N |-> IF n = 0 THEN Zero ELSE SymDiff(w[n - 1], f[n])]
<1>1. Solves(v)
  BY DEF ++
<1>2. Len(f) = N
  OBVIOUS
<1>3. XorOf(f) = (CHOOSE w : Solves(w))[N]
  BY <1>2 DEF XorOf
<1>4. PICK w : Solves(w) /\ XorOf(f) = w[N]
  BY <1>1, <1>3
<1> DEFINE T == {i \in 0..N : w[i] = v[i]}
<1>5. 0 \in T
  BY <1>4
<1>6. ASSUME NEW n \in 1..N, n - 1 \in T PROVE n \in T
  <2>1. w[n] = w[n - 1] ++ f[n]
    BY <1>4 DEF ++
  <2> QED
    BY <1>6, <2>1
<1> HIDE DEF T
<1>7. \A n \in 0..N : n \in T
  BY <1>5, <1>6, UpTo
<1> QED
  BY <1>4, <1>7 DEF T

\* The partial products determine the product.
LEMMA ProductIs ==
  ASSUME NEW N \in Nat, NEW f \in [1..N -> Element], NEW v \in [0..N -> Element],
         v[0] = One, \A n \in 1..N : v[n] = v[n - 1] ** f[n]
  PROVE  ProductOf(f) = v[N]
<1> DEFINE Solves(w) ==
             w = [n \in 0..N |-> IF n = 0 THEN One ELSE w[n - 1] ** f[n]]
<1>1. Solves(v)
  OBVIOUS
<1>2. Len(f) = N
  OBVIOUS
<1>3. ProductOf(f) = (CHOOSE w : Solves(w))[N]
  BY <1>2 DEF ProductOf, **
<1>4. PICK w : Solves(w) /\ ProductOf(f) = w[N]
  BY <1>1, <1>3
<1> DEFINE T == {i \in 0..N : w[i] = v[i]}
<1>5. 0 \in T
  BY <1>4
<1>6. ASSUME NEW n \in 1..N, n - 1 \in T PROVE n \in T
  <2>1. w[n] = w[n - 1] ** f[n]
    BY <1>4
  <2> QED
    BY <1>6, <2>1
<1> HIDE DEF T
<1>7. \A n \in 0..N : n \in T
  BY <1>5, <1>6, UpTo
<1> QED
  BY <1>4, <1>7 DEF T

\* There are partial sums.
LEMMA Sums ==
  ASSUME NEW N \in Nat, NEW f \in [1..N -> Element]
  PROVE  \E v \in [0..N -> Element] :
           v[0] = Zero /\ (\A n \in 1..N : v[n] = v[n - 1] ++ f[n]) /\ XorOf(f) = v[N]
<1>1. PICK step : step = [n \in 1..N |-> [e \in Element |-> e ++ f[n]]]
  OBVIOUS
<1>2. \A n \in 1..N, e \in Element : step[n][e] = e ++ f[n] /\ step[n][e] \in Element
  BY <1>1, Elements
<1>3. step \in [1..N -> [Element -> Element]]
  BY <1>1, <1>2
<1>4. PICK v : LoopOf(v, N, Element, Zero, step)
  BY <1>3, Loop, Elements
<1>5. v \in [0..N -> Element] /\ v[0] = Zero
  BY <1>4 DEF LoopOf
<1>6. ASSUME NEW n \in 1..N PROVE v[n] = v[n - 1] ++ f[n]
  <2>1. v[n - 1] \in Element
    BY <1>5
  <2> QED
    BY <1>2, <1>4, <2>1 DEF LoopOf
<1> QED
  BY <1>5, <1>6, SumIs

\* There are partial products.
LEMMA Products ==
  ASSUME NEW N \in Nat, NEW f \in [1..N -> Element]
  PROVE  \E v \in [0..N -> Element] :
           v[0] = One /\ (\A n \in 1..N : v[n] = v[n - 1] ** f[n]) /\ ProductOf(f) = v[N]
<1>1. PICK step : step = [n \in 1..N |-> [e \in Element |-> e ** f[n]]]
  OBVIOUS
<1>2. \A n \in 1..N, e \in Element : step[n][e] = e ** f[n] /\ step[n][e] \in Element
  BY <1>1, Product_
<1>3. step \in [1..N -> [Element -> Element]]
  BY <1>1, <1>2
<1>4. PICK v : LoopOf(v, N, Element, One, step)
  BY <1>3, Loop, Elements
<1>5. v \in [0..N -> Element] /\ v[0] = One
  BY <1>4 DEF LoopOf
<1>6. ASSUME NEW n \in 1..N PROVE v[n] = v[n - 1] ** f[n]
  <2>1. v[n - 1] \in Element
    BY <1>5
  <2> QED
    BY <1>2, <1>4, <2>1 DEF LoopOf
<1> QED
  BY <1>5, <1>6, ProductIs

\* A sum is an element, and a sum of sums is the sum of the sums.
LEMMA SumOfSums ==
  ASSUME NEW N \in Nat, NEW f \in [1..N -> Element], NEW g \in [1..N -> Element]
  PROVE  /\ XorOf(f) \in Element
         /\ XorOf([n \in 1..N |-> f[n] ++ g[n]]) = XorOf(f) ++ XorOf(g)
<1>1. PICK v \in [0..N -> Element] :
        v[0] = Zero /\ (\A n \in 1..N : v[n] = v[n - 1] ++ f[n]) /\ XorOf(f) = v[N]
  BY Sums
<1>2. PICK w \in [0..N -> Element] :
        w[0] = Zero /\ (\A n \in 1..N : w[n] = w[n - 1] ++ g[n]) /\ XorOf(g) = w[N]
  BY Sums
<1>3. PICK h : h = [n \in 1..N |-> f[n] ++ g[n]]
  OBVIOUS
<1>4. PICK u : u = [n \in 0..N |-> v[n] ++ w[n]]
  OBVIOUS
<1>5. h \in [1..N -> Element] /\ u \in [0..N -> Element]
  BY <1>3, <1>4, Elements
<1>6. u[0] = Zero
  BY <1>1, <1>2, <1>4, Xor
<1>7. ASSUME NEW n \in 1..N PROVE u[n] = u[n - 1] ++ h[n]
  <2>1. n \in 0..N /\ n - 1 \in 0..N
    OBVIOUS
  <2>2. u[n] = (v[n - 1] ++ f[n]) ++ (w[n - 1] ++ g[n])
    BY <1>1, <1>2, <1>4, <2>1
  <2>3. u[n - 1] ++ h[n] = (v[n - 1] ++ w[n - 1]) ++ (f[n] ++ g[n])
    BY <1>3, <1>4, <2>1
  <2>4. \A a, b, c, d : (a ++ c) ++ (b ++ d) = (a ++ b) ++ (c ++ d)
    BY DEF ++, SymDiff
  <2> QED
    BY <2>2, <2>3, <2>4
<1>8. XorOf(h) = u[N]
  BY <1>5, <1>6, <1>7, SumIs
<1> QED
  BY <1>1, <1>2, <1>3, <1>4, <1>8

\* A common factor of a sum.
LEMMA Multiple ==
  ASSUME NEW N \in Nat, NEW f \in [1..N -> Element], NEW c \in Element
  PROVE  XorOf([n \in 1..N |-> c ** f[n]]) = c ** XorOf(f)
<1>1. PICK v \in [0..N -> Element] :
        v[0] = Zero /\ (\A n \in 1..N : v[n] = v[n - 1] ++ f[n]) /\ XorOf(f) = v[N]
  BY Sums
<1>2. PICK h : h = [n \in 1..N |-> c ** f[n]]
  OBVIOUS
<1>3. PICK u : u = [n \in 0..N |-> c ** v[n]]
  OBVIOUS
<1>4. h \in [1..N -> Element] /\ u \in [0..N -> Element]
  BY <1>2, <1>3, Product_
<1>5. u[0] = Zero
  BY <1>1, <1>3, TimesZero
<1>6. ASSUME NEW n \in 1..N PROVE u[n] = u[n - 1] ++ h[n]
  <2>1. n \in 0..N /\ n - 1 \in 0..N /\ v[n - 1] \in Element /\ f[n] \in Element
    OBVIOUS
  <2>2. u[n] = c ** (v[n - 1] ++ f[n]) /\ u[n - 1] ++ h[n] = (c ** v[n - 1]) ++ (c ** f[n])
    BY <1>1, <1>2, <1>3, <2>1
  <2> QED
    BY <2>1, <2>2, Linear
<1>7. XorOf(h) = u[N]
  BY <1>4, <1>5, <1>6, SumIs
<1> QED
  BY <1>1, <1>2, <1>3, <1>7

\* A sum with one term that need not be zero.
LEMMA Single ==
  ASSUME NEW N \in Nat, NEW f \in [1..N -> Element], NEW b \in 1..N,
         \A n \in 1..N : n # b => f[n] = Zero
  PROVE  XorOf(f) = f[b]
<1>1. PICK u : u = [n \in 0..N |-> IF n < b THEN Zero ELSE f[b]]
  OBVIOUS
<1>2. u \in [0..N -> Element] /\ u[0] = Zero /\ u[N] = f[b]
  BY <1>1, Elements
<1>3. ASSUME NEW n \in 1..N PROVE u[n] = u[n - 1] ++ f[n]
  <2>1. n \in 0..N /\ n - 1 \in 0..N
    OBVIOUS
  <2>2. CASE n < b
    BY <1>1, <2>1, <2>2, Xor
  <2>3. CASE n = b
    BY <1>1, <2>1, <2>3, Xor
  <2>4. CASE n > b
    BY <1>1, <2>1, <2>4, Xor
  <2> QED
    BY <2>2, <2>3, <2>4
<1> QED
  BY <1>2, <1>3, SumIs

\* A product with one factor that was one before.
LEMMA Factor ==
  ASSUME NEW N \in Nat, NEW f \in [1..N -> Element], NEW g \in [1..N -> Element],
         NEW b \in 1..N, f[b] = One, \A n \in 1..N : n # b => g[n] = f[n]
  PROVE  ProductOf(g) = g[b] ** ProductOf(f)
<1>1. PICK v \in [0..N -> Element] :
        v[0] = One /\ (\A n \in 1..N : v[n] = v[n - 1] ** f[n]) /\ ProductOf(f) = v[N]
  BY Products
<1>2. PICK c \in Element : c = g[b]
  OBVIOUS
<1>3. PICK u : u = [n \in 0..N |-> IF n < b THEN v[n] ELSE c ** v[n]]
  OBVIOUS
<1>4. u \in [0..N -> Element] /\ u[0] = One /\ u[N] = c ** v[N]
  BY <1>1, <1>3, Product_
<1>5. ASSUME NEW n \in 1..N PROVE u[n] = u[n - 1] ** g[n]
  <2>1. /\ n \in 0..N /\ n - 1 \in 0..N
        /\ v[n] = v[n - 1] ** f[n] /\ v[n - 1] \in Element /\ f[n] \in Element
    BY <1>1
  <2>2. CASE n < b
    BY <1>3, <2>1, <2>2
  <2>3. CASE n = b
    <3>1. u[n] = c ** (v[n - 1] ** One) /\ u[n - 1] = v[n - 1] /\ g[n] = c
      BY <1>2, <1>3, <2>1, <2>3
    <3> QED
      BY <2>1, <3>1, TimesOne, Commutes
  <2>4. CASE n > b
    <3>1. u[n] = c ** (v[n - 1] ** f[n]) /\ u[n - 1] = c ** v[n - 1] /\ g[n] = f[n]
      BY <1>3, <2>1, <2>4
    <3> QED
      BY <2>1, <3>1, Associates
  <2> QED
    BY <2>2, <2>3, <2>4
<1>6. ProductOf(g) = u[N]
  BY <1>4, <1>5, ProductIs
<1> QED
  BY <1>1, <1>2, <1>4, <1>6

\* No product of factors other than zero is zero, and one of ones is one.
LEMMA NotZero ==
  ASSUME NEW N \in Nat, NEW f \in [1..N -> Element], \A n \in 1..N : f[n] # Zero
  PROVE  ProductOf(f) \in Element \ {Zero} /\ ((\A n \in 1..N : f[n] = One) => ProductOf(f) = One)
<1>1. PICK v \in [0..N -> Element] :
        v[0] = One /\ (\A n \in 1..N : v[n] = v[n - 1] ** f[n]) /\ ProductOf(f) = v[N]
  BY Products
<1> DEFINE T == {i \in 0..N : v[i] # Zero}
<1>2. 0 \in T
  BY <1>1, Elements
<1>3. ASSUME NEW n \in 1..N, n - 1 \in T PROVE n \in T
  <2>1. v[n - 1] \in Element /\ v[n - 1] # Zero /\ f[n] \in Element /\ f[n] # Zero
    BY <1>3
  <2> QED
    BY <1>1, <2>1, NoDivisors
<1> HIDE DEF T
<1>4. \A n \in 0..N : n \in T
  BY <1>2, <1>3, UpTo
<1>5. ASSUME \A n \in 1..N : f[n] = One PROVE ProductOf(f) = One
  <2>1. PICK u : u = [n \in 0..N |-> One]
    OBVIOUS
  <2>2. u \in [0..N -> Element] /\ u[0] = One
    BY <2>1, Elements
  <2>3. \A n \in 1..N : u[n] = u[n - 1] ** f[n]
    BY <1>5, <2>1, TimesOne, Elements
  <2>4. ProductOf(f) = u[N]
    BY <2>2, <2>3, ProductIs
  <2> QED
    BY <2>1, <2>4
<1> QED
  BY <1>1, <1>4, <1>5 DEF T

-----------------------------------------------------------------------------
(* Interpolation at zero *)

\* The positions A have different numbers.
Distinct(x, A) == \A p, q \in A : x[p] = x[q] => p = q

\* The factors of combine_key's numerator and denominator for position p of A.
Numerators(x, A, p) == [j \in DOMAIN x |-> IF j \in A \ {p} THEN x[j] ELSE One]

Denominators(x, A, p) == [j \in DOMAIN x |-> IF j \in A \ {p} THEN x[p] ++ x[j] ELSE One]

\* The weight of position p among the positions A, and the weighted sum.
Weight(x, A, p) == ProductOf(Numerators(x, A, p)) ** Reciprocal[ProductOf(Denominators(x, A, p))]

Weighted(x, A, y) == [p \in DOMAIN x |-> IF p \in A THEN y[p] ** Weight(x, A, p) ELSE Zero]

Value(x, A, y) == XorOf(Weighted(x, A, y))

\* What the lemmas assume: different numbers at the positions A of 1..N, values
\* for all positions, and how the values at A are related.
Numbers(N, x, A) ==
  N \in Nat /\ x \in [1..N -> Element] /\ A \in SUBSET (1..N) /\ Distinct(x, A)

Values(N, y) == y \in [1..N -> Element]

AreSums(A, u, y, z) == \A p \in A : u[p] = y[p] ++ z[p]

AreMultiples(A, u, c, y) == \A p \in A : u[p] = c ** y[p]

HaveFactor(x, A, u, b, y) == \A p \in A : u[p] = (x[p] ++ x[b]) ** y[p]

\* A factor other than zero can be cancelled.
LEMMA Cancel ==
  ASSUME NEW a \in Element, NEW b \in Element, NEW d \in Element \ {Zero}, a ** d = b ** d
  PROVE  a = b
<1>1. PICK r \in Element : r = Reciprocal[d] /\ d ** r = One
  BY HasInverse
<1>2. (a ** d) ** r = a ** (d ** r) /\ (b ** d) ** r = b ** (d ** r)
  BY <1>1, Associates
<1> QED
  BY <1>1, <1>2, TimesOne

\* The weights are quotients.
LEMMA WeightIs ==
  ASSUME NEW N \in Nat, NEW x \in [1..N -> Element], NEW A \in SUBSET (1..N), Distinct(x, A),
         NEW p \in A
  PROVE  /\ Numerators(x, A, p) \in [1..N -> Element]
         /\ Denominators(x, A, p) \in [1..N -> Element]
         /\ ProductOf(Numerators(x, A, p)) \in Element
         /\ ProductOf(Denominators(x, A, p)) \in Element \ {Zero}
         /\ Weight(x, A, p) \in Element
         /\ Weight(x, A, p) ** ProductOf(Denominators(x, A, p)) = ProductOf(Numerators(x, A, p))
<1>1. PICK n : n = Numerators(x, A, p)
  OBVIOUS
<1>2. PICK d : d = Denominators(x, A, p)
  OBVIOUS
<1>3. n \in [1..N -> Element]
  BY <1>1, Elements DEF Numerators
<1>4. d \in [1..N -> Element]
  BY <1>2, Elements DEF Denominators
<1>5. ASSUME NEW j \in 1..N PROVE d[j] # Zero
  <2>1. j \in A /\ j # p => x[p] ++ x[j] # Zero
    BY Xor DEF Distinct
  <2> QED
    BY <1>2, <2>1, Elements DEF Denominators
<1>6. PICK a \in Element : a = ProductOf(n)
  BY <1>3, Products
<1>7. PICK e \in Element \ {Zero} : e = ProductOf(d)
  BY <1>4, <1>5, NotZero
<1>8. PICK r \in Element : r = Reciprocal[e] /\ e ** r = One
  BY HasInverse
<1>9. a ** r \in Element /\ (a ** r) ** e = a ** (r ** e) /\ r ** e = e ** r
  BY Product_, Associates, Commutes
<1>10. (a ** r) ** e = a
  BY <1>8, <1>9, TimesOne
<1>11. Weight(x, A, p) = a ** r
  BY <1>1, <1>2, <1>6, <1>7, <1>8 DEF Weight
<1> QED
  BY <1>1, <1>2, <1>3, <1>4, <1>6, <1>7, <1>9, <1>10, <1>11

\* Leaving out another position changes a weight by one factor.
LEMMA WeightWithout ==
  ASSUME NEW N, NEW x, NEW A, Numbers(N, x, A), NEW b \in A, NEW B, B = A \ {b}
  PROVE  \A p \in B : (x[p] ++ x[b]) ** Weight(x, A, p) = x[b] ** Weight(x, B, p)
<1> USE DEF Numbers
<1> SUFFICES ASSUME NEW p \in B
             PROVE  (x[p] ++ x[b]) ** Weight(x, A, p) = x[b] ** Weight(x, B, p)
  OBVIOUS
<1>1. Distinct(x, B) /\ p \in A /\ p # b /\ b \notin B
  BY DEF Distinct
<1>2. PICK k \in Element, c \in Element : k = x[p] ++ x[b] /\ c = x[b]
  BY Elements
<1>3. PICK m \in Element, e \in Element, v \in Element :
        /\ m = ProductOf(Numerators(x, A, p)) /\ e = ProductOf(Denominators(x, A, p))
        /\ v = Weight(x, A, p) /\ v ** e = m
  BY <1>1, WeightIs
<1>4. PICK n \in Element, d \in Element, w \in Element :
        /\ n = ProductOf(Numerators(x, B, p)) /\ d = ProductOf(Denominators(x, B, p))
        /\ w = Weight(x, B, p) /\ w ** d = n /\ d # Zero
  BY <1>1, WeightIs
<1>5. m = c ** n
  <2>1. PICK f, g : f = Numerators(x, B, p) /\ g = Numerators(x, A, p)
    OBVIOUS
  <2>2. f \in [1..N -> Element] /\ g \in [1..N -> Element]
    BY <1>1, <2>1, WeightIs
  <2>3. f[b] = One /\ g[b] = c /\ \A j \in 1..N : j # b => g[j] = f[j]
    BY <1>1, <1>2, <2>1 DEF Numerators
  <2>4. ProductOf(g) = g[b] ** ProductOf(f)
    BY <2>2, <2>3, Factor
  <2> QED
    BY <1>3, <1>4, <2>1, <2>3, <2>4
<1>6. e = k ** d
  <2>1. PICK f, g : f = Denominators(x, B, p) /\ g = Denominators(x, A, p)
    OBVIOUS
  <2>2. f \in [1..N -> Element] /\ g \in [1..N -> Element]
    BY <1>1, <2>1, WeightIs
  <2>3. f[b] = One /\ g[b] = k /\ \A j \in 1..N : j # b => g[j] = f[j]
    BY <1>1, <1>2, <2>1 DEF Denominators
  <2>4. ProductOf(g) = g[b] ** ProductOf(f)
    BY <2>2, <2>3, Factor
  <2> QED
    BY <1>3, <1>4, <2>1, <2>3, <2>4
<1>7. (k ** v) ** d = v ** (k ** d)
  <2>1. (v ** k) ** d = v ** (k ** d) /\ k ** v = v ** k
    BY Associates, Commutes
  <2> QED
    BY <2>1
<1>8. (c ** w) ** d = c ** (w ** d)
  BY Associates
<1>9. k ** v \in Element /\ c ** w \in Element
  BY Product_
<1>10. (k ** v) ** d = (c ** w) ** d
  BY <1>3, <1>4, <1>5, <1>6, <1>7, <1>8
<1>11. k ** v = c ** w
  BY <1>4, <1>9, <1>10, Cancel
<1> QED
  BY <1>2, <1>3, <1>4, <1>11

\* The terms of a weighted sum.
AreTerms(N, x, A, y, f) ==
  /\ f \in [1..N -> Element] /\ Value(x, A, y) = XorOf(f) /\ Value(x, A, y) \in Element
  /\ \A p \in 1..N : f[p] = IF p \in A THEN y[p] ** Weight(x, A, p) ELSE Zero

\* Weighted has them.
LEMMA ValueIs ==
  ASSUME NEW N, NEW x, NEW A, Numbers(N, x, A), NEW y, Values(N, y)
  PROVE  AreTerms(N, x, A, y, Weighted(x, A, y))
<1> USE DEF Numbers, Values
<1>1. PICK f : f = Weighted(x, A, y)
  OBVIOUS
<1>2. \A p \in A : Weight(x, A, p) \in Element
  BY WeightIs
<1>3. /\ f = [p \in 1..N |-> IF p \in A THEN y[p] ** Weight(x, A, p) ELSE Zero]
      /\ f \in [1..N -> Element]
  BY <1>1, <1>2, Elements, Product_ DEF Weighted
<1>4. XorOf(f) \in Element
  BY <1>3, SumOfSums
<1> QED
  BY <1>1, <1>3, <1>4 DEF Value, AreTerms

\* A weighted sum is linear in the values.
LEMMA ValueOfSum ==
  ASSUME NEW N, NEW x, NEW A, Numbers(N, x, A), NEW y, Values(N, y), NEW z, Values(N, z),
         NEW u, Values(N, u), AreSums(A, u, y, z)
  PROVE  Value(x, A, u) = Value(x, A, y) ++ Value(x, A, z)
<1>1. PICK f : AreTerms(N, x, A, y, f)
  BY ValueIs
<1>2. PICK g : AreTerms(N, x, A, z, g)
  BY ValueIs
<1>3. PICK h : AreTerms(N, x, A, u, h)
  BY ValueIs
<1> USE DEF Numbers, Values, AreTerms, AreSums
<1> f \in [1..N -> Element] /\ g \in [1..N -> Element] /\ h \in [1..N -> Element]
  BY <1>1, <1>2, <1>3
<1>4. ASSUME NEW p \in 1..N PROVE h[p] = f[p] ++ g[p]
  <2>1. CASE p \in A
    <3>1. Weight(x, A, p) \in Element
      BY <2>1, WeightIs
    <3>2. (y[p] ++ z[p]) ** Weight(x, A, p) = (y[p] ** Weight(x, A, p)) ++ (z[p] ** Weight(x, A, p))
      BY <3>1, Linear
    <3> QED
      BY <1>1, <1>2, <1>3, <2>1, <3>2
  <2>2. CASE p \notin A
    BY <1>1, <1>2, <1>3, <2>2, Xor
  <2> QED
    BY <2>1, <2>2
<1>5. h = [p \in 1..N |-> f[p] ++ g[p]]
  BY <1>4
<1>6. XorOf([p \in 1..N |-> f[p] ++ g[p]]) = XorOf(f) ++ XorOf(g)
  BY SumOfSums
<1> QED
  BY <1>1, <1>2, <1>3, <1>5, <1>6

\* A common factor of the values.
LEMMA ValueOfMultiple ==
  ASSUME NEW N, NEW x, NEW A, Numbers(N, x, A), NEW y, Values(N, y), NEW u, Values(N, u),
         NEW c \in Element, AreMultiples(A, u, c, y)
  PROVE  Value(x, A, u) = c ** Value(x, A, y)
<1>1. PICK f : AreTerms(N, x, A, y, f)
  BY ValueIs
<1>2. PICK h : AreTerms(N, x, A, u, h)
  BY ValueIs
<1> USE DEF Numbers, Values, AreTerms, AreMultiples
<1> f \in [1..N -> Element] /\ h \in [1..N -> Element]
  BY <1>1, <1>2
<1>3. ASSUME NEW p \in 1..N PROVE h[p] = c ** f[p]
  <2>1. CASE p \in A
    <3>1. Weight(x, A, p) \in Element
      BY <2>1, WeightIs
    <3>2. (c ** y[p]) ** Weight(x, A, p) = c ** (y[p] ** Weight(x, A, p))
      BY <3>1, Associates
    <3> QED
      BY <1>1, <1>2, <2>1, <3>2
  <2>2. CASE p \notin A
    BY <1>1, <1>2, <2>2, TimesZero
  <2> QED
    BY <2>1, <2>2
<1>4. h = [p \in 1..N |-> c ** f[p]]
  BY <1>3
<1>5. XorOf([p \in 1..N |-> c ** f[p]]) = c ** XorOf(f)
  BY Multiple
<1> QED
  BY <1>1, <1>2, <1>4, <1>5

\* Values that vanish at a position: the position can be left out.
LEMMA ValueWithout ==
  ASSUME NEW N, NEW x, NEW A, Numbers(N, x, A), NEW y, Values(N, y), NEW u, Values(N, u),
         NEW b \in A, NEW B, B = A \ {b}, HaveFactor(x, A, u, b, y)
  PROVE  Value(x, A, u) = x[b] ** Value(x, B, y)
<1>1. Numbers(N, x, B)
  BY DEF Numbers, Distinct
<1>2. PICK f : AreTerms(N, x, B, y, f)
  BY <1>1, ValueIs
<1>3. PICK h : AreTerms(N, x, A, u, h)
  BY ValueIs
<1>4. \A p \in B : (x[p] ++ x[b]) ** Weight(x, A, p) = x[b] ** Weight(x, B, p)
  BY WeightWithout
<1> USE DEF Numbers, Values, AreTerms, HaveFactor
<1> f \in [1..N -> Element] /\ h \in [1..N -> Element]
  BY <1>2, <1>3
<1>5. Distinct(x, B) /\ b \in 1..N /\ x[b] \in Element
  BY <1>1
<1>6. ASSUME NEW p \in 1..N PROVE h[p] = x[b] ** f[p]
  <2>1. CASE p \in B
    <3>1. PICK v \in Element, w \in Element, k \in Element, c \in Element, d \in Element :
            /\ v = Weight(x, A, p) /\ w = Weight(x, B, p)
            /\ k = x[p] ++ x[b] /\ c = x[b] /\ d = y[p]
      BY <1>1, <1>5, <2>1, WeightIs, Elements
    <3>2. k ** v = c ** w
      BY <1>4, <2>1, <3>1
    <3>3. (k ** d) ** v = (d ** k) ** v /\ (d ** k) ** v = d ** (k ** v)
      BY Commutes, Associates
    <3>4. d ** (c ** w) = (d ** c) ** w /\ (c ** d) ** w = (d ** c) ** w /\ (c ** d) ** w = c ** (d ** w)
      BY Commutes, Associates
    <3>5. h[p] = (k ** d) ** v /\ x[b] ** f[p] = c ** (d ** w)
      BY <1>1, <1>2, <1>3, <2>1, <3>1
    <3> QED
      BY <3>2, <3>3, <3>4, <3>5
  <2>2. CASE p = b
    <3>1. u[p] = Zero ** y[p] /\ f[p] = Zero /\ h[p] = u[p] ** Weight(x, A, p)
      BY <1>1, <1>2, <1>3, <2>2, Xor
    <3>2. Weight(x, A, p) \in Element /\ y[p] \in Element
      BY <2>2, WeightIs
    <3>3. u[p] = Zero /\ h[p] = Zero
      BY <3>1, <3>2, TimesZero
    <3> QED
      BY <1>5, <3>1, <3>3, TimesZero
  <2>3. CASE p \notin A
    BY <1>1, <1>5, <1>2, <1>3, <2>3, TimesZero
  <2> QED
    BY <1>1, <2>1, <2>2, <2>3
<1>7. h = [p \in 1..N |-> x[b] ** f[p]]
  BY <1>6
<1>8. XorOf([p \in 1..N |-> x[b] ** f[p]]) = x[b] ** XorOf(f)
  BY <1>5, Multiple
<1> QED
  BY <1>1, <1>2, <1>3, <1>7, <1>8

\* One position alone has weight one.
LEMMA ValueOfOne ==
  ASSUME NEW N, NEW x, NEW A, Numbers(N, x, A), NEW y, Values(N, y), NEW a, A = {a}
  PROVE  Value(x, A, y) = y[a]
<1>1. PICK f : AreTerms(N, x, A, y, f)
  BY ValueIs
<1> USE DEF Numbers, Values, AreTerms
<1>2. a \in 1..N
  OBVIOUS
<1>3. Distinct(x, A) /\ a \in A
  BY <1>2 DEF Distinct
<1>4. Weight(x, A, a) = One
  <2>1. PICK n, d : n = Numerators(x, A, a) /\ d = Denominators(x, A, a)
    OBVIOUS
  <2>2. n \in [1..N -> Element] /\ \A j \in 1..N : n[j] = One
    BY <1>2, <2>1, Elements DEF Numerators
  <2>3. d \in [1..N -> Element] /\ \A j \in 1..N : d[j] = One
    BY <1>2, <2>1, Elements DEF Denominators
  <2>4. ProductOf(n) = One /\ ProductOf(d) = One
    BY <2>2, <2>3, NotZero, Elements
  <2>5. PICK w \in Element : w = Weight(x, A, a) /\ w ** One = One
    BY <1>3, <2>1, <2>4, WeightIs
  <2> QED
    BY <2>5, TimesOne
<1>5. f[a] = y[a] /\ \A p \in 1..N : p # a => f[p] = Zero
  BY <1>2, <1>4, <1>1, TimesOne
<1> QED
  BY <1>2, <1>1, <1>5, Single

-----------------------------------------------------------------------------
(* Polynomials *)

\* The values of the loop determine the value of a polynomial.
LEMMA HornerIs ==
  ASSUME NEW N \in Nat, NEW c \in [1..N -> Element], NEW x \in Element,
         NEW v \in [0..N -> Element], v[0] = Zero,
         \A n \in 1..N : v[n] = (v[n - 1] ** x) ++ c[N + 1 - n]
  PROVE  Horner(c, x) = v[N]
<1> DEFINE Solves(w) ==
             w = [n \in 0..N |-> IF n = 0 THEN Zero ELSE (w[n - 1] ** x) ++ c[N + 1 - n]]
<1>1. Solves(v)
  OBVIOUS
<1>2. Len(c) = N
  OBVIOUS
<1>3. Horner(c, x) = (CHOOSE w : Solves(w))[N]
  BY <1>2 DEF Horner, **, ++
<1>4. PICK w : Solves(w) /\ Horner(c, x) = w[N]
  BY <1>1, <1>3
<1> DEFINE T == {i \in 0..N : w[i] = v[i]}
<1>5. 0 \in T
  BY <1>4
<1>6. ASSUME NEW n \in 1..N, n - 1 \in T PROVE n \in T
  <2>1. w[n] = (w[n - 1] ** x) ++ c[N + 1 - n]
    BY <1>4
  <2> QED
    BY <1>6, <2>1
<1> HIDE DEF T
<1>7. \A n \in 0..N : n \in T
  BY <1>5, <1>6, UpTo
<1> QED
  BY <1>4, <1>7 DEF T

\* There are such values.
LEMMA Horners ==
  ASSUME NEW N \in Nat, NEW c \in [1..N -> Element], NEW x \in Element
  PROVE  \E v \in [0..N -> Element] :
           /\ v[0] = Zero /\ Horner(c, x) = v[N]
           /\ \A n \in 1..N : v[n] = (v[n - 1] ** x) ++ c[N + 1 - n]
<1>1. PICK step : step = [n \in 1..N |-> [e \in Element |-> (e ** x) ++ c[N + 1 - n]]]
  OBVIOUS
<1>2. \A n \in 1..N : N + 1 - n \in 1..N
  OBVIOUS
<1>3. ASSUME NEW n \in 1..N, NEW e \in Element
      PROVE  step[n][e] = (e ** x) ++ c[N + 1 - n] /\ step[n][e] \in Element
  <2>1. step[n][e] = (e ** x) ++ c[N + 1 - n]
    BY <1>1
  <2>2. e ** x \in Element /\ c[N + 1 - n] \in Element
    BY <1>2, Product_
  <2> QED
    BY <2>1, <2>2, Elements
<1>4. step \in [1..N -> [Element -> Element]]
  BY <1>1, <1>3
<1>5. PICK v : LoopOf(v, N, Element, Zero, step)
  BY <1>4, Loop, Elements
<1>6. v \in [0..N -> Element] /\ v[0] = Zero
  BY <1>5 DEF LoopOf
<1>7. ASSUME NEW n \in 1..N PROVE v[n] = (v[n - 1] ** x) ++ c[N + 1 - n]
  <2>1. v[n - 1] \in Element
    BY <1>6
  <2> QED
    BY <1>3, <1>5, <2>1 DEF LoopOf
<1>8. Horner(c, x) = v[N]
  BY <1>6, <1>7, HornerIs
<1> QED
  BY <1>6, <1>7, <1>8

\* The last step of the loop adds the constant.
LEMMA HornerStep ==
  ASSUME NEW m \in Nat, NEW c \in [1..(m + 1) -> Element], NEW d \in [1..m -> Element],
         \A j \in 1..m : d[j] = c[j + 1], NEW x \in Element
  PROVE  Horner(d, x) \in Element /\ Horner(c, x) = c[1] ++ (x ** Horner(d, x))
<1>1. PICK v \in [0..m -> Element] :
           /\ v[0] = Zero /\ Horner(d, x) = v[m]
           /\ \A n \in 1..m : v[n] = (v[n - 1] ** x) ++ d[m + 1 - n]
  BY Horners
<1>2. v[m] \in Element /\ c[1] \in Element
  OBVIOUS
<1>3. PICK a \in Element : a = (v[m] ** x) ++ c[1]
  BY <1>2, Product_, Elements
<1>4. PICK w : w = [n \in 0..(m + 1) |-> IF n = m + 1 THEN a ELSE v[n]]
  OBVIOUS
<1>5. w \in [0..(m + 1) -> Element] /\ w[0] = Zero /\ w[m + 1] = a
  BY <1>1, <1>4
<1>6. ASSUME NEW n \in 1..(m + 1) PROVE w[n] = (w[n - 1] ** x) ++ c[m + 1 + 1 - n]
  <2>1. CASE n = m + 1
    <3>1. m + 1 + 1 - n = 1 /\ w[n] = a /\ w[n - 1] = v[m]
      BY <1>4, <2>1
    <3> QED
      BY <1>3, <3>1
  <2>2. CASE n \in 1..m
    <3>1. w[n] = v[n] /\ w[n - 1] = v[n - 1]
      BY <1>4, <2>2
    <3>2. m + 1 - n \in 1..m /\ m + 1 - n + 1 = m + 1 + 1 - n
      BY <2>2
    <3>3. d[m + 1 - n] = c[m + 1 + 1 - n]
      BY <3>2
    <3> QED
      BY <1>1, <2>2, <3>1, <3>3
  <2> QED
    BY <2>1, <2>2
<1>7. Horner(c, x) = w[m + 1]
  <2>1. m + 1 \in Nat
    OBVIOUS
  <2> QED
    BY <1>5, <1>6, <2>1, HornerIs
<1>8. a = c[1] ++ (x ** v[m])
  BY <1>2, <1>3, Commutes, Xor
<1> QED
  BY <1>1, <1>2, <1>5, <1>7, <1>8

\* The functions that m coefficients describe.
Poly(m) ==
  {g \in [Element -> Element] :
     \E c \in [1..m -> Element] : \A v \in Element : g[v] = Horner(c, v)}

\* Without coefficients there is only zero.
LEMMA PolyNone ==
  ASSUME NEW g \in [Element -> Element]
  PROVE  g \in Poly(0) <=> \A v \in Element : g[v] = Zero
<1>1. \A c \in [1..0 -> Element], v \in Element : Horner(c, v) = Zero
  <2> SUFFICES ASSUME NEW c \in [1..0 -> Element], NEW v \in Element PROVE Horner(c, v) = Zero
    OBVIOUS
  <2>1. PICK w : w = [n \in 0..0 |-> Zero]
    OBVIOUS
  <2>2. w \in [0..0 -> Element] /\ w[0] = Zero
    BY <2>1, Elements
  <2>3. \A n \in 1..0 : w[n] = (w[n - 1] ** v) ++ c[0 + 1 - n]
    OBVIOUS
  <2>4. 0 \in Nat
    OBVIOUS
  <2>5. Horner(c, v) = w[0]
    BY <2>2, <2>3, <2>4, HornerIs
  <2> QED
    BY <2>2, <2>5
<1>2. \E c : c \in [1..0 -> Element]
  <2>1. [n \in 1..0 |-> Zero] \in [1..0 -> Element]
    OBVIOUS
  <2> QED
    BY <2>1
<1> QED
  BY <1>1, <1>2 DEF Poly

\* With one more coefficient: a constant and a multiple of the argument.
LEMMA PolyStep ==
  ASSUME NEW m \in Nat, NEW g \in [Element -> Element]
  PROVE  g \in Poly(m + 1) <=>
           \E a \in Element, h \in Poly(m) : \A v \in Element : g[v] = a ++ (v ** h[v])
<1>1. ASSUME g \in Poly(m + 1)
      PROVE  \E a \in Element, h \in Poly(m) : \A v \in Element : g[v] = a ++ (v ** h[v])
  <2>1. PICK c \in [1..(m + 1) -> Element] : \A v \in Element : g[v] = Horner(c, v)
    BY <1>1 DEF Poly
  <2>2. PICK d : d = [j \in 1..m |-> c[j + 1]]
    OBVIOUS
  <2>3. d \in [1..m -> Element] /\ \A j \in 1..m : d[j] = c[j + 1]
    BY <2>2
  <2>4. \A v \in Element : Horner(d, v) \in Element /\ Horner(c, v) = c[1] ++ (v ** Horner(d, v))
    BY <2>3, HornerStep
  <2>5. PICK h : h = [v \in Element |-> Horner(d, v)]
    OBVIOUS
  <2>6. h \in [Element -> Element] /\ \A v \in Element : h[v] = Horner(d, v)
    BY <2>4, <2>5
  <2>7. h \in Poly(m)
    BY <2>3, <2>6 DEF Poly
  <2>8. c[1] \in Element
    OBVIOUS
  <2> QED
    BY <2>1, <2>4, <2>6, <2>7, <2>8
<1>2. ASSUME NEW a \in Element, NEW h \in Poly(m), \A v \in Element : g[v] = a ++ (v ** h[v])
      PROVE  g \in Poly(m + 1)
  <2>1. PICK d \in [1..m -> Element] : \A v \in Element : h[v] = Horner(d, v)
    BY DEF Poly
  <2>2. PICK c : c = [j \in 1..(m + 1) |-> IF j = 1 THEN a ELSE d[j - 1]]
    OBVIOUS
  <2>3. c \in [1..(m + 1) -> Element] /\ c[1] = a /\ \A j \in 1..m : d[j] = c[j + 1]
    BY <2>2
  <2>4. \A v \in Element : Horner(c, v) = c[1] ++ (v ** Horner(d, v))
    BY <2>3, HornerStep
  <2>5. \A v \in Element : g[v] = Horner(c, v)
    BY <1>2, <2>1, <2>3, <2>4
  <2> QED
    BY <2>3, <2>5 DEF Poly
<1> QED
  BY <1>1, <1>2

\* The polynomials with m coefficients are closed under sums and multiples.
LEMMA PolySum ==
  ASSUME NEW N \in Nat
  PROVE  \A g, h \in Poly(N), k \in [Element -> Element] :
           (\A v \in Element : k[v] = g[v] ++ h[v]) => k \in Poly(N)
<1> DEFINE Closed(m) ==
             \A g, h \in Poly(m), k \in [Element -> Element] :
               (\A v \in Element : k[v] = g[v] ++ h[v]) => k \in Poly(m)
           T == {m \in 0..N : Closed(m)}
<1>1. \A m : Poly(m) \subseteq [Element -> Element]
  BY DEF Poly
<1>2. 0 \in T
  BY <1>1, PolyNone, Xor
<1>3. ASSUME NEW n \in 1..N, n - 1 \in T PROVE n \in T
  <2>1. PICK m \in Nat : m = n - 1 /\ n = m + 1 /\ Closed(m)
    BY <1>3
  <2> SUFFICES ASSUME NEW g \in Poly(m + 1), NEW h \in Poly(m + 1), NEW k \in [Element -> Element],
                      \A v \in Element : k[v] = g[v] ++ h[v]
               PROVE  k \in Poly(m + 1)
    BY <2>1
  <2>2. g \in [Element -> Element] /\ h \in [Element -> Element]
    BY <1>1
  <2>3. PICK a \in Element, p \in Poly(m) : \A v \in Element : g[v] = a ++ (v ** p[v])
    BY <2>2, PolyStep
  <2>4. PICK b \in Element, q \in Poly(m) : \A v \in Element : h[v] = b ++ (v ** q[v])
    BY <2>2, PolyStep
  <2>5. PICK r : r = [v \in Element |-> p[v] ++ q[v]]
    OBVIOUS
  <2>6. r \in [Element -> Element] /\ \A v \in Element : r[v] = p[v] ++ q[v]
    BY <1>1, <2>5, Elements
  <2>7. r \in Poly(m)
    BY <2>1, <2>6
  <2>8. ASSUME NEW v \in Element PROVE k[v] = (a ++ b) ++ (v ** r[v])
    <3>1. PICK d \in Element, e \in Element : d = p[v] /\ e = q[v]
      BY <1>1
    <3>2. v ** (d ++ e) = (v ** d) ++ (v ** e)
      BY Linear
    <3>3. r[v] = d ++ e
      BY <2>6, <3>1
    <3>4. k[v] = (a ++ (v ** d)) ++ (b ++ (v ** e))
      BY <2>3, <2>4, <3>1
    <3>5. \A x, y, z, u : (x ++ y) ++ (z ++ u) = (x ++ z) ++ (y ++ u)
      BY DEF ++, SymDiff
    <3> QED
      BY <3>2, <3>3, <3>4, <3>5
  <2>9. a ++ b \in Element
    BY Elements
  <2> QED
    BY <2>7, <2>8, <2>9, PolyStep
<1> HIDE DEF T
<1>4. \A n \in 0..N : n \in T
  BY <1>2, <1>3, UpTo
<1> QED
  BY <1>4 DEF T

\* Multiples by a constant.
LEMMA PolyMultiple ==
  ASSUME NEW N \in Nat, NEW c \in Element
  PROVE  \A g \in Poly(N), k \in [Element -> Element] :
           (\A v \in Element : k[v] = c ** g[v]) => k \in Poly(N)
<1> DEFINE Closed(m) ==
             \A g \in Poly(m), k \in [Element -> Element] :
               (\A v \in Element : k[v] = c ** g[v]) => k \in Poly(m)
           T == {m \in 0..N : Closed(m)}
<1>1. \A m : Poly(m) \subseteq [Element -> Element]
  BY DEF Poly
<1>2. 0 \in T
  BY <1>1, PolyNone, TimesZero
<1>3. ASSUME NEW n \in 1..N, n - 1 \in T PROVE n \in T
  <2>1. PICK m \in Nat : m = n - 1 /\ n = m + 1 /\ Closed(m)
    BY <1>3
  <2> SUFFICES ASSUME NEW g \in Poly(m + 1), NEW k \in [Element -> Element],
                      \A v \in Element : k[v] = c ** g[v]
               PROVE  k \in Poly(m + 1)
    BY <2>1
  <2>2. PICK a \in Element, p \in Poly(m) : \A v \in Element : g[v] = a ++ (v ** p[v])
    BY <1>1, PolyStep
  <2>3. PICK r : r = [v \in Element |-> c ** p[v]]
    OBVIOUS
  <2>4. r \in [Element -> Element] /\ \A v \in Element : r[v] = c ** p[v]
    BY <1>1, <2>3, Product_
  <2>5. r \in Poly(m)
    BY <2>1, <2>4
  <2>6. ASSUME NEW v \in Element PROVE k[v] = (c ** a) ++ (v ** r[v])
    <3>1. PICK e \in Element : e = p[v]
      BY <1>1
    <3>2. v ** e \in Element /\ k[v] = c ** (a ++ (v ** e)) /\ r[v] = c ** e
      BY <2>2, <2>4, <3>1, Product_
    <3>3. c ** (a ++ (v ** e)) = (c ** a) ++ (c ** (v ** e))
      BY <3>2, Linear
    <3>4. c ** (v ** e) = (c ** v) ** e /\ (c ** v) ** e = (v ** c) ** e
      BY Associates, Commutes
    <3>5. (v ** c) ** e = v ** (c ** e)
      BY Associates
    <3> QED
      BY <3>2, <3>3, <3>4, <3>5
  <2>7. c ** a \in Element
    BY Product_
  <2> QED
    BY <2>5, <2>6, <2>7, PolyStep
<1> HIDE DEF T
<1>4. \A n \in 0..N : n \in T
  BY <1>2, <1>3, UpTo
<1> QED
  BY <1>4 DEF T

\* Zero has any number of coefficients.
LEMMA PolyZero ==
  ASSUME NEW N \in Nat, NEW g \in [Element -> Element], \A v \in Element : g[v] = Zero
  PROVE  g \in Poly(N)
<1>1. PICK c : c = [n \in 1..N |-> Zero]
  OBVIOUS
<1>2. PICK w : w = [n \in 0..N |-> Zero]
  OBVIOUS
<1>3. c \in [1..N -> Element] /\ w \in [0..N -> Element] /\ w[0] = Zero /\ w[N] = Zero
  BY <1>1, <1>2, Elements
<1>4. ASSUME NEW v \in Element PROVE Horner(c, v) = Zero
  <2>1. ASSUME NEW n \in 1..N PROVE w[n] = (w[n - 1] ** v) ++ c[N + 1 - n]
    <3>1. w[n] = Zero /\ w[n - 1] = Zero /\ c[N + 1 - n] = Zero
      BY <1>1, <1>2
    <3>2. (Zero ** v) ++ Zero = Zero
      BY TimesZero, Xor
    <3> QED
      BY <3>1, <3>2
  <2> QED
    BY <1>3, <2>1, HornerIs
<1> QED
  BY <1>3, <1>4 DEF Poly

\* A further coefficient can be zero.
LEMMA PolyMore ==
  ASSUME NEW N \in Nat
  PROVE  Poly(N) \subseteq Poly(N + 1)
<1> DEFINE T == {m \in 0..N : Poly(m) \subseteq Poly(m + 1)}
<1>1. \A m : Poly(m) \subseteq [Element -> Element]
  BY DEF Poly
<1>2. 0 \in T
  <2> SUFFICES ASSUME NEW g \in Poly(0) PROVE g \in Poly(0 + 1)
    OBVIOUS
  <2>1. g \in [Element -> Element]
    BY <1>1
  <2>2. \A v \in Element : g[v] = Zero
    BY <2>1, PolyNone
  <2>3. 0 + 1 \in Nat
    OBVIOUS
  <2> QED
    BY <2>1, <2>2, <2>3, PolyZero
<1>3. ASSUME NEW n \in 1..N, n - 1 \in T PROVE n \in T
  <2>1. PICK m \in Nat : m = n - 1 /\ n = m + 1 /\ Poly(m) \subseteq Poly(m + 1)
    BY <1>3
  <2> SUFFICES ASSUME NEW g \in Poly(n) PROVE g \in Poly(n + 1)
    BY <2>1
  <2>2. g \in [Element -> Element] /\ g \in Poly(m + 1)
    BY <1>1, <2>1
  <2>3. PICK a \in Element, p \in Poly(m) : \A v \in Element : g[v] = a ++ (v ** p[v])
    BY <2>2, PolyStep
  <2>4. p \in Poly(n) /\ n \in Nat
    BY <2>1
  <2> QED
    BY <2>2, <2>3, <2>4, PolyStep
<1> HIDE DEF T
<1>4. \A n \in 0..N : n \in T
  BY <1>2, <1>3, UpTo
<1> QED
  BY <1>4 DEF T

\* A linear factor.
LEMMA PolyLinear ==
  ASSUME NEW N \in Nat, NEW r \in Element, NEW g \in Poly(N), NEW k \in [Element -> Element],
         \A v \in Element : k[v] = (v ++ r) ** g[v]
  PROVE  k \in Poly(N + 1)
<1>1. g \in [Element -> Element]
  BY DEF Poly
<1>2. PICK p : p = [v \in Element |-> v ** g[v]]
  OBVIOUS
<1>3. PICK q : q = [v \in Element |-> r ** g[v]]
  OBVIOUS
<1>4. \A v \in Element : g[v] \in Element /\ v ** g[v] \in Element /\ r ** g[v] \in Element
  BY <1>1, Product_
<1>5. /\ p \in [Element -> Element] /\ \A v \in Element : p[v] = v ** g[v]
      /\ q \in [Element -> Element] /\ \A v \in Element : q[v] = r ** g[v]
  BY <1>2, <1>3, <1>4
<1>6. p \in Poly(N + 1)
  <2>1. \A v \in Element : p[v] = Zero ++ (v ** g[v])
    BY <1>5, Xor
  <2>2. Zero \in Element
    BY Elements
  <2> QED
    BY <1>5, <2>1, <2>2, PolyStep
<1>7. q \in Poly(N)
  BY <1>5, PolyMultiple
<1>8. q \in Poly(N + 1)
  BY <1>7, PolyMore
<1>9. \A v \in Element : k[v] = p[v] ++ q[v]
  <2> SUFFICES ASSUME NEW v \in Element PROVE k[v] = p[v] ++ q[v]
    OBVIOUS
  <2>1. PICK e \in Element : e = g[v]
    BY <1>1
  <2>2. (v ++ r) ** e = (v ** e) ++ (r ** e)
    BY Linear
  <2> QED
    BY <1>5, <2>1, <2>2
<1>10. N + 1 \in Nat
  OBVIOUS
<1> QED
  BY <1>6, <1>8, <1>9, <1>10, PolySum

\* A constant.
LEMMA PolyConstant ==
  ASSUME NEW N \in Nat, NEW a \in Element, NEW k \in [Element -> Element],
         \A v \in Element : k[v] = a
  PROVE  k \in Poly(N + 1)
<1>1. PICK z : z = [v \in Element |-> Zero]
  OBVIOUS
<1>2. z \in [Element -> Element] /\ \A v \in Element : z[v] = Zero
  BY <1>1, Elements
<1>3. z \in Poly(N)
  BY <1>2, PolyZero
<1>4. \A v \in Element : k[v] = a ++ (v ** z[v])
  <2> SUFFICES ASSUME NEW v \in Element PROVE k[v] = a ++ (v ** z[v])
    OBVIOUS
  <2>1. v ** Zero = Zero /\ a ++ Zero = a
    BY TimesZero, Xor
  <2> QED
    BY <1>2, <2>1
<1> QED
  BY <1>3, <1>4, PolyStep

-----------------------------------------------------------------------------
(* Interpolation of polynomials *)

\* The weighted sum over k positions gives the constant of each polynomial
\* with k coefficients.
Exact(N, x, k) ==
  \A A \in SUBSET (1..N), g \in Poly(k), y \in [1..N -> Element] :
    Cardinality(A) = k /\ Distinct(x, A) /\ (\A p \in A : y[p] = g[x[p]])
      => Value(x, A, y) = g[Zero]

\* The values of a polynomial at the numbers, and their products with these.
AreValues(x, A, z, h) == \A p \in A : z[p] = h[x[p]]

AreProducts(x, A, u, z) == \A p \in A : u[p] = x[p] ** z[p]

\* One position more: the polynomial itself is still exact, and its product
\* with the argument gives zero.  Leaving out each of two positions determines
\* both sums.
LEMMA OneMore ==
  ASSUME NEW N, NEW x, NEW k \in Nat \ {0}, Exact(N, x, k),
         NEW A, Numbers(N, x, A), Cardinality(A) = k + 1,
         NEW h \in Poly(k), NEW z, Values(N, z), AreValues(x, A, z, h),
         NEW u, Values(N, u), AreProducts(x, A, u, z)
  PROVE  Value(x, A, z) = h[Zero] /\ Value(x, A, u) = Zero
<1>1. PICK V \in Element, U \in Element, c \in Element :
        V = Value(x, A, z) /\ U = Value(x, A, u) /\ c = h[Zero]
  <2>1. AreTerms(N, x, A, z, Weighted(x, A, z)) /\ AreTerms(N, x, A, u, Weighted(x, A, u))
    BY ValueIs
  <2>2. h[Zero] \in Element
    BY Elements DEF Poly
  <2> QED
    BY <2>1, <2>2 DEF AreTerms
<1>2. /\ N \in Nat /\ x \in [1..N -> Element] /\ A \in SUBSET (1..N) /\ Distinct(x, A)
      /\ z \in [1..N -> Element] /\ u \in [1..N -> Element]
      /\ \A p \in A : z[p] = h[x[p]] /\ u[p] = x[p] ** z[p]
  BY DEF Numbers, Values, AreValues, AreProducts
<1>3. IsFiniteSet(A)
  <2>1. IsFiniteSet(1..N)
    BY <1>2, FS_Interval
  <2> QED
    BY <1>2, <2>1, FS_Subset
<1>4. \A e \in A : Cardinality(A \ {e}) = k
  <2> SUFFICES ASSUME NEW e \in A PROVE Cardinality(A \ {e}) = k
    OBVIOUS
  <2>1. Cardinality(A \ {e}) = Cardinality(A) - 1
    BY <1>3, FS_RemoveElement
  <2> QED
    BY <2>1
<1>5. ASSUME NEW e \in A PROVE U = x[e] ** (V ++ c)
  <2>1. PICK B \in SUBSET (1..N) : B = A \ {e}
    BY <1>2
  <2>2. PICK r \in Element : r = x[e]
    BY <1>2
  <2>3. PICK s : s = [p \in 1..N |-> r ** z[p]]
    OBVIOUS
  <2>4. Values(N, s) /\ AreMultiples(A, s, r, z)
    BY <1>2, <2>2, <2>3, Product_ DEF Values, AreMultiples
  <2>5. PICK w : w = [p \in 1..N |-> (x[p] ++ r) ** z[p]]
    OBVIOUS
  <2>6. Values(N, w) /\ HaveFactor(x, A, w, e, z)
    BY <1>2, <2>2, <2>5, Product_, Elements DEF Values, HaveFactor
  <2>7. AreSums(A, w, u, s)
    <3> SUFFICES ASSUME NEW p \in A PROVE w[p] = u[p] ++ s[p]
      BY DEF AreSums
    <3>1. PICK d \in Element, q \in Element : d = x[p] /\ q = z[p]
      BY <1>2
    <3>2. (d ++ r) ** q = (d ** q) ++ (r ** q)
      BY Linear
    <3> QED
      BY <1>2, <2>3, <2>5, <3>1, <3>2
  <2>8. Value(x, A, w) = Value(x, A, u) ++ Value(x, A, s)
    BY <2>4, <2>6, <2>7, ValueOfSum
  <2>9. Value(x, A, s) = r ** Value(x, A, z)
    BY <2>4, ValueOfMultiple
  <2>10. Value(x, A, w) = x[e] ** Value(x, B, z)
    BY <2>1, <2>6, ValueWithout
  <2>11. Value(x, B, z) = c
    <3>1. Cardinality(B) = k /\ Distinct(x, B) /\ \A p \in B : z[p] = h[x[p]]
      BY <1>2, <1>4, <2>1 DEF Distinct
    <3> QED
      BY <1>2, <1>1, <3>1 DEF Exact
  <2>12. U ++ (r ** V) = r ** c
    BY <1>1, <2>2, <2>8, <2>9, <2>10, <2>11
  <2>13. U = (r ** V) ++ (r ** c)
    <3>1. \A a, b, d : a ++ b = d => a = b ++ d
      BY DEF ++, SymDiff
    <3> QED
      BY <2>12, <3>1
  <2> QED
    BY <2>2, <2>13, Linear
<1>6. PICK a, b \in A : a # b
  <2>1. PICK a : a \in A
    <3>1. Cardinality({}) = 0 /\ Cardinality(A) # 0
      BY FS_EmptySet
    <3>2. A # {}
      BY <3>1
    <3> QED
      BY <3>2
  <2>2. A \ {a} # {}
    BY <1>4, <2>1, FS_EmptySet
  <2> QED
    BY <2>1, <2>2
<1>7. PICK d \in Element : d = V ++ c
  BY Elements
<1>8. d = Zero
  <2>1. x[a] ** d = x[b] ** d /\ x[a] # x[b] /\ x[a] \in Element /\ x[b] \in Element
    BY <1>2, <1>5, <1>6, <1>7 DEF Distinct
  <2> QED
    BY <2>1, Cancel
<1>9. V = c
  <2>1. V ++ c = Zero => V = c
    BY Xor
  <2> QED
    BY <1>7, <1>8, <2>1
<1>10. U = Zero
  <2>1. x[a] \in Element /\ U = x[a] ** Zero
    BY <1>2, <1>5, <1>7, <1>8
  <2> QED
    BY <2>1, TimesZero
<1> QED
  BY <1>1, <1>9, <1>10

\* Interpolation is exact.
LEMMA IsExact ==
  ASSUME NEW N \in Nat, NEW x \in [1..N -> Element], NEW M \in Nat
  PROVE  Exact(N, x, M + 1)
<1> DEFINE T == {m \in 0..M : Exact(N, x, m + 1)}
<1>1. \A m : Poly(m) \subseteq [Element -> Element]
  BY DEF Poly
<1>2. 0 \in T
  <2> SUFFICES ASSUME NEW A \in SUBSET (1..N), NEW g \in Poly(1), NEW y \in [1..N -> Element],
                      Cardinality(A) = 1, Distinct(x, A), \A p \in A : y[p] = g[x[p]]
               PROVE  Value(x, A, y) = g[Zero]
    BY DEF Exact
  <2>1. Numbers(N, x, A) /\ Values(N, y)
    BY DEF Numbers, Values
  <2>2. PICK a \in A : A = {a}
    <3>1. IsFiniteSet(1..N) /\ A \subseteq 1..N
      BY FS_Interval
    <3>2. IsFiniteSet(A)
      BY <3>1, FS_Subset
    <3> QED
      BY <3>2, FS_Singleton
  <2>3. PICK c \in Element, h \in Poly(0) : \A v \in Element : g[v] = c ++ (v ** h[v])
    <3>1. 0 \in Nat /\ 0 + 1 = 1 /\ g \in [Element -> Element]
      BY <1>1
    <3> QED
      BY <3>1, PolyStep
  <2>4. \A v \in Element : h[v] = Zero
    BY <1>1, PolyNone
  <2>5. \A v \in Element : g[v] = c
    <3> SUFFICES ASSUME NEW v \in Element PROVE g[v] = c
      OBVIOUS
    <3>1. v ** Zero = Zero /\ c ++ Zero = c
      BY TimesZero, Xor
    <3> QED
      BY <2>3, <2>4, <3>1
  <2>6. Value(x, A, y) = y[a]
    BY <2>1, <2>2, ValueOfOne
  <2>7. x[a] \in Element /\ Zero \in Element
    BY Elements
  <2> QED
    BY <2>5, <2>6, <2>7
<1>3. ASSUME NEW n \in 1..M, n - 1 \in T PROVE n \in T
  <2>1. n \in Nat \ {0} /\ n - 1 \in Nat /\ (n - 1) + 1 = n /\ Exact(N, x, n)
    BY <1>3
  <2> SUFFICES ASSUME NEW A \in SUBSET (1..N), NEW g \in Poly(n + 1), NEW y \in [1..N -> Element],
                      Cardinality(A) = n + 1, Distinct(x, A), \A p \in A : y[p] = g[x[p]]
               PROVE  Value(x, A, y) = g[Zero]
    BY DEF Exact
  <2>2. PICK c \in Element, h \in Poly(n) : \A v \in Element : g[v] = c ++ (v ** h[v])
    <3>1. g \in [Element -> Element]
      BY <1>1
    <3> QED
      BY <2>1, <3>1, PolyStep
  <2>3. PICK z : z = [p \in 1..N |-> h[x[p]]]
    OBVIOUS
  <2>4. PICK u : u = [p \in 1..N |-> x[p] ** z[p]]
    OBVIOUS
  <2>5. z \in [1..N -> Element] /\ \A p \in A : z[p] = h[x[p]]
    BY <1>1, <2>3
  <2>6. u \in [1..N -> Element] /\ \A p \in A : u[p] = x[p] ** z[p]
    BY <2>4, <2>5, Product_
  <2>7. Numbers(N, x, A) /\ Values(N, z) /\ Values(N, u) /\ AreValues(x, A, z, h) /\ AreProducts(x, A, u, z)
    BY <2>5, <2>6 DEF Numbers, Values, AreValues, AreProducts
  <2>8. Value(x, A, z) = h[Zero] /\ Value(x, A, u) = Zero
    BY <2>1, <2>7, OneMore
  <2>9. PICK one : one = [v \in Element |-> One]
    OBVIOUS
  <2>10. one \in [Element -> Element] /\ one \in Poly(n) /\ one[Zero] = One
    <3>1. one \in [Element -> Element] /\ \A v \in Element : one[v] = One
      BY <2>9, Elements
    <3>2. one \in Poly((n - 1) + 1)
      BY <2>1, <3>1, PolyConstant, Elements
    <3> QED
      BY <2>1, <3>1, <3>2, Elements
  <2>11. PICK i : i = [p \in 1..N |-> One]
    OBVIOUS
  <2>12. PICK j : j = [p \in 1..N |-> c]
    OBVIOUS
  <2>13. i \in [1..N -> Element] /\ \A p \in A : i[p] = one[x[p]]
    BY <2>9, <2>11, Elements
  <2>14. Values(N, i) /\ Values(N, x) /\ AreValues(x, A, i, one) /\ AreProducts(x, A, x, i)
    <3>1. \A p \in A : x[p] = x[p] ** i[p]
      BY <2>11, TimesOne
    <3> QED
      BY <2>13, <3>1 DEF Values, AreValues, AreProducts
  <2>15. Value(x, A, i) = one[Zero] /\ Value(x, A, x) = Zero
    BY <2>1, <2>7, <2>10, <2>14, OneMore
  <2>16. Value(x, A, i) = One
    BY <2>10, <2>15
  <2>17. j \in [1..N -> Element] /\ \A p \in A : j[p] = c ** i[p]
    BY <2>11, <2>12, TimesOne
  <2>18. Value(x, A, j) = c
    <3>1. Numbers(N, x, A) /\ Values(N, i) /\ Values(N, j) /\ AreMultiples(A, j, c, i)
      BY <2>13, <2>17 DEF Numbers, Values, AreMultiples
    <3>2. Value(x, A, j) = c ** Value(x, A, i)
      BY <3>1, ValueOfMultiple
    <3> QED
      BY <2>16, <3>2, TimesOne
  <2>19. /\ Numbers(N, x, A) /\ Values(N, y) /\ Values(N, j) /\ Values(N, u)
         /\ AreSums(A, y, j, u)
    BY <2>2, <2>3, <2>4, <2>6, <2>12, <2>17 DEF Numbers, Values, AreSums
  <2>20. Value(x, A, y) = c ++ Zero
    BY <2>8, <2>18, <2>19, ValueOfSum
  <2>21. g[Zero] = c ++ Zero
    <3>1. Zero \in Element /\ h[Zero] \in Element
      BY <1>1, Elements
    <3> QED
      BY <2>2, <3>1, TimesZero
  <2> QED
    BY <2>20, <2>21
<1> HIDE DEF T
<1>4. \A n \in 0..M : n \in T
  BY <1>2, <1>3, UpTo
<1> QED
  BY <1>4 DEF T

-----------------------------------------------------------------------------
(* Shares *)

\* A constant followed by other coefficients.
LEMMA Coefficients ==
  ASSUME NEW t \in Nat, NEW a \in Element, NEW e \in [1..t -> Element]
  PROVE  \E c \in [1..(t + 1) -> Element] :
           c = <<a>> \o e /\ c[1] = a /\ \A j \in 1..t : e[j] = c[j + 1]
<1> PICK c : c = <<a>> \o e
  OBVIOUS
<1>1. Len(e) = t /\ Len(<<a>>) = 1 /\ <<a>>[1] = a /\ e \in Seq(Element) /\ <<a>> \in Seq(Element)
  OBVIOUS
<1>2. Len(c) = t + 1 /\ c \in Seq(Element)
  BY <1>1
<1>3. c[1] = a /\ \A j \in 1..t : c[j + 1] = e[j]
  BY <1>1
<1>4. c \in [1..Len(c) -> Element]
  BY <1>2, LenProperties
<1> QED
  BY <1>2, <1>3, <1>4

\* They describe a polynomial that has the constant at zero.
LEMMA PolyOf ==
  ASSUME NEW t \in Nat, NEW a \in Element, NEW e \in [1..t -> Element]
  PROVE  \E g \in Poly(t + 1) :
           g[Zero] = a /\ \A v \in Element : g[v] = Horner(<<a>> \o e, v)
<1>1. PICK c \in [1..(t + 1) -> Element] :
        c = <<a>> \o e /\ c[1] = a /\ \A j \in 1..t : e[j] = c[j + 1]
  BY Coefficients
<1>2. \A v \in Element : Horner(e, v) \in Element /\ Horner(c, v) = c[1] ++ (v ** Horner(e, v))
  BY <1>1, HornerStep
<1>3. PICK g : g = [v \in Element |-> Horner(c, v)]
  OBVIOUS
<1>4. \A v \in Element : Horner(c, v) \in Element
  <2> SUFFICES ASSUME NEW v \in Element PROVE Horner(c, v) \in Element
    OBVIOUS
  <2>1. v ** Horner(e, v) \in Element
    BY <1>2, Product_
  <2> QED
    BY <1>1, <1>2, <2>1, Elements
<1>5. g \in [Element -> Element] /\ \A v \in Element : g[v] = Horner(c, v)
  BY <1>3, <1>4
<1>6. g \in Poly(t + 1)
  BY <1>1, <1>5 DEF Poly
<1>7. g[Zero] = a
  <2>1. Zero \in Element /\ Horner(e, Zero) \in Element
    BY <1>2, Elements
  <2>2. Zero ** Horner(e, Zero) = Zero /\ a ++ Zero = a
    BY <2>1, TimesZero, Xor
  <2> QED
    BY <1>1, <1>2, <1>5, <2>1, <2>2
<1> QED
  BY <1>1, <1>5, <1>6, <1>7

\* Each polynomial with a constant is described by other coefficients.
LEMMA OfPoly ==
  ASSUME NEW t \in Nat, NEW g \in Poly(t + 1)
  PROVE  \E e \in [1..t -> Element] : \A v \in Element : g[v] = Horner(<<g[Zero]>> \o e, v)
<1>1. PICK c \in [1..(t + 1) -> Element] : \A v \in Element : g[v] = Horner(c, v)
  BY DEF Poly
<1>2. PICK a \in Element : a = c[1]
  OBVIOUS
<1>3. PICK e : e = [j \in 1..t |-> c[j + 1]]
  OBVIOUS
<1>4. e \in [1..t -> Element] /\ \A j \in 1..t : e[j] = c[j + 1]
  BY <1>3
<1>5. PICK d \in [1..(t + 1) -> Element] :
        d = <<a>> \o e /\ d[1] = a /\ \A j \in 1..t : e[j] = d[j + 1]
  BY <1>4, Coefficients
<1>6. \A j \in 1..(t + 1) : d[j] = c[j]
  <2>1. ASSUME NEW j \in 1..(t + 1), j # 1 PROVE d[j] = c[j]
    <3>1. j - 1 \in 1..t /\ (j - 1) + 1 = j
      BY <2>1
    <3>2. d[(j - 1) + 1] = c[(j - 1) + 1]
      BY <1>4, <1>5, <3>1
    <3> QED
      BY <3>1, <3>2
  <2> QED
    BY <1>2, <1>5, <2>1
<1>7. d = c
  BY <1>5, <1>6
<1>8. g[Zero] = a
  <2>1. Zero \in Element
    BY Elements
  <2>2. Horner(e, Zero) \in Element /\ Horner(c, Zero) = c[1] ++ (Zero ** Horner(e, Zero))
    BY <1>4, <2>1, HornerStep
  <2>3. Zero ** Horner(e, Zero) = Zero /\ a ++ Zero = a
    BY <2>2, TimesZero, Xor
  <2> QED
    BY <1>1, <1>2, <2>1, <2>2, <2>3
<1> QED
  <2>1. c = <<g[Zero]>> \o e
    BY <1>5, <1>7, <1>8
  <2> QED
    BY <1>1, <1>4, <2>1

\* A share with the given number of a key, and of the random coefficients.
IsShare(share, key, random, id) ==
  /\ share = <<Bits(id)>> \o [i \in 1..KeyLength |-> Horner(<<key[i]>> \o random[i], Bits(id))]
  /\ Len(share) = KeyLength + 1 /\ share[1] = Bits(id)
  /\ \A i \in 1..KeyLength : share[i + 1] = Horner(<<key[i]>> \o random[i], Bits(id))

\* split_key computes such shares.
LEMMA ShareIs ==
  ASSUME NEW key, NEW count, NEW random, NEW id \in 1..count, NEW share,
         share = SplitKey(key, count, random)[id]
  PROVE  IsShare(share, key, random, id)
<1>1. PICK s : s = [i \in 1..KeyLength |-> Horner(<<key[i]>> \o random[i], Bits(id))]
  OBVIOUS
<1>2. share = <<Bits(id)>> \o s
  BY <1>1 DEF SplitKey
<1>3. PICK S : \A i \in 1..KeyLength : s[i] \in S
  <2>1. \A i \in 1..KeyLength : s[i] \in {s[j] : j \in 1..KeyLength}
    OBVIOUS
  <2> QED
    BY <2>1
<1>4. PICK b : b = Bits(id)
  OBVIOUS
<1>5. s \in [1..KeyLength -> S] /\ KeyLength \in Nat
  BY <1>1, <1>3, FieldAssumption
<1>6. Len(s) = KeyLength /\ s \in Seq(S \union {b}) /\ <<b>> \in Seq(S \union {b})
  BY <1>5
<1>7. /\ Len(share) = KeyLength + 1 /\ share[1] = b
      /\ \A i \in 1..KeyLength : share[i + 1] = s[i]
  BY <1>2, <1>4, <1>5, <1>6
<1> QED
  BY <1>1, <1>2, <1>4, <1>7 DEF IsShare

\* What combine_key computes are the weighted sums of the shares' values.
LEMMA InterpolatedIs ==
  ASSUME NEW t \in Nat, NEW selected, Len(selected) = t,
         NEW x, x = [p \in 1..t |-> selected[p][1]], NEW i \in 1..KeyLength,
         NEW y, y = [p \in 1..t |-> selected[p][i + 1]]
  PROVE  Interpolated(selected)[i] = Value(x, 1..t, y)
<1>1. ASSUME NEW p \in 1..t PROVE Basis(selected, p) = Weight(x, 1..t, p)
  <2>1. Numerators(x, 1..t, p) = [j \in 1..t |-> IF j = p THEN One ELSE selected[j][1]]
    BY DEF Numerators
  <2>2. Denominators(x, 1..t, p) =
          [j \in 1..t |-> IF j = p THEN One ELSE SymDiff(selected[p][1], selected[j][1])]
    BY DEF Denominators, ++
  <2> QED
    BY <2>1, <2>2 DEF Basis, Weight, **
<1>2. Weighted(x, 1..t, y) = [p \in 1..t |-> y[p] ** Weight(x, 1..t, p)]
  BY DEF Weighted
<1>3. [p \in 1..t |-> selected[p][i + 1] ** Basis(selected, p)] = Weighted(x, 1..t, y)
  BY <1>1, <1>2
<1>4. Interpolated(selected)[i] = XorOf([p \in 1..t |-> selected[p][i + 1] ** Basis(selected, p)])
  BY DEF Interpolated, **
<1> QED
  BY <1>3, <1>4 DEF Value

\* Numbers are elements.
LEMMA BitsAre == \A n : Bits(n) \in Element
BY DEF Bits, Element

\* The polynomial of an element of the key.
LEMMA PolyOfKey ==
  ASSUME NEW t \in Nat, NEW key \in Key, NEW random \in Random(t + 1), NEW i \in 1..KeyLength
  PROVE  \E g \in Poly(t + 1) :
           g[Zero] = key[i] /\ \A v \in Element : g[v] = Horner(<<key[i]>> \o random[i], v)
<1>1. PICK a \in Element : a = key[i]
  BY DEF Key
<1>2. PICK e : e = random[i]
  OBVIOUS
<1>3. e \in [1..t -> Element]
  BY <1>2 DEF Random
<1>4. \E g \in Poly(t + 1) : g[Zero] = a /\ \A v \in Element : g[v] = Horner(<<a>> \o e, v)
  BY <1>3, PolyOf
<1> QED
  BY <1>1, <1>2, <1>4

\* As many shares as n, all with other numbers.
Selection(selected, id, n, key, count, random) ==
  /\ Len(selected) = n /\ id \in [1..n -> 1..count]
  /\ \A p \in 1..n : selected[p] = SplitKey(key, count, random)[id[p]]
  /\ \A p, q \in 1..n : selected[p][1] = selected[q][1] => p = q

\* As many different shares as coefficients give the key.
LEMMA SharesGiveTheKey ==
  ASSUME NEW t \in Nat, NEW key \in Key, NEW random \in Random(t + 1), NEW count,
         NEW selected, NEW id, Selection(selected, id, t + 1, key, count, random)
  PROVE  Interpolated(selected) = key
<1>1. /\ Len(selected) = t + 1 /\ id \in [1..(t + 1) -> 1..count]
      /\ \A p \in 1..(t + 1) : selected[p] = SplitKey(key, count, random)[id[p]]
      /\ \A p, q \in 1..(t + 1) : selected[p][1] = selected[q][1] => p = q
  BY DEF Selection
<1>2. PICK n \in Nat : n = t + 1
  OBVIOUS
<1>3. PICK x : x = [p \in 1..n |-> selected[p][1]]
  OBVIOUS
<1>4. \A p \in 1..n : /\ selected[p][1] = Bits(id[p])
                      /\ \A i \in 1..KeyLength :
                           selected[p][i + 1] = Horner(<<key[i]>> \o random[i], Bits(id[p]))
  <2> SUFFICES ASSUME NEW p \in 1..n
               PROVE  /\ selected[p][1] = Bits(id[p])
                      /\ \A i \in 1..KeyLength :
                           selected[p][i + 1] = Horner(<<key[i]>> \o random[i], Bits(id[p]))
    OBVIOUS
  <2>1. PICK j \in 1..count, share \in {selected[p]} : j = id[p] /\ share = selected[p]
    BY <1>1, <1>2
  <2>2. share = SplitKey(key, count, random)[j]
    BY <1>1, <1>2, <2>1
  <2>3. IsShare(share, key, random, j)
    BY <2>2, ShareIs
  <2> QED
    BY <2>1, <2>3 DEF IsShare
<1>5. x \in [1..n -> Element] /\ \A p \in 1..n : x[p] = Bits(id[p])
  BY <1>3, <1>4, BitsAre
<1>6. Numbers(n, x, 1..n)
  BY <1>1, <1>2, <1>3, <1>5 DEF Numbers, Distinct
<1>7. Cardinality(1..n) = n
  BY <1>2, FS_Interval
<1>8. Exact(n, x, n)
  BY <1>2, <1>5, IsExact
<1>9. ASSUME NEW i \in 1..KeyLength PROVE Interpolated(selected)[i] = key[i]
  <2>1. PICK g \in Poly(t + 1) :
          g[Zero] = key[i] /\ \A v \in Element : g[v] = Horner(<<key[i]>> \o random[i], v)
    BY PolyOfKey
  <2>2. PICK y : y = [p \in 1..n |-> selected[p][i + 1]]
    OBVIOUS
  <2>3. \A p \in 1..n : y[p] = g[x[p]]
    BY <1>4, <1>5, <2>1, <2>2
  <2>4. y \in [1..n -> Element]
    BY <1>5, <2>2, <2>3 DEF Poly
  <2>5. Value(x, 1..n, y) = g[Zero]
    BY <1>2, <1>6, <1>7, <1>8, <2>1, <2>3, <2>4 DEF Exact, Numbers
  <2>6. Interpolated(selected)[i] = Value(x, 1..n, y)
    BY <1>1, <1>2, <1>3, <2>2, InterpolatedIs
  <2> QED
    BY <2>1, <2>5, <2>6
<1> QED
  BY <1>9 DEF Interpolated, Key

\* The shares of an upload are those of split_key for its key, or the key itself.
Shared ==
  upload # None =>
    /\ upload.key \in Key
    /\ \/ upload.count = 1 /\ upload.threshold = 1 /\ upload.shares = <<upload.key>>
       \/ /\ upload.count \in Nat /\ upload.threshold \in Nat
          /\ Splittable(upload.count, upload.threshold)
          /\ \E random \in Random(upload.threshold) :
               upload.shares = SplitKey(upload.key, upload.count, random)

\* The result of a request is that of combine_key for the shares given.
Requested ==
  request # None =>
    /\ upload # None
    /\ request.given \in Seq({upload.shares[i] : i \in 1..upload.count})
    /\ request.result = CombineKey(request.given, upload.threshold)

\* The inductive invariant.
Inv == Shared /\ Requested

\* At all times the shares are those of split_key, and a request's result is
\* that of combine_key for a choice of them.
THEOREM AlwaysInv == Spec => []Inv
<1>1. Init => Inv
  BY DEF Init, Inv, Shared, Requested
<1>2. Inv /\ [Next]_vars => Inv'
  <2> SUFFICES ASSUME Inv, [Next]_vars PROVE Inv'
    OBVIOUS
  <2>1. ASSUME NEW key \in Key, NEW layout \in Layout, Upload(key, layout[1], layout[2])
        PROVE  Inv'
    <3>1. layout[1] \in Nat /\ layout[2] \in Nat
      BY FieldAssumption
    <3>2. upload = None /\ request = None /\ request' = None
      BY <2>1 DEF Upload, Inv, Requested
    <3>3. Requested'
      BY <3>2 DEF Requested
    <3>4. CASE layout[1] = 1 /\ layout[2] = 1 /\
               upload' = [key |-> key, count |-> 1, threshold |-> 1, shares |-> <<key>>]
      BY <3>3, <3>4 DEF Inv, Shared
    <3>5. CASE /\ Splittable(layout[1], layout[2])
               /\ \E random \in Random(layout[2]) :
                    upload' = [key |-> key, count |-> layout[1], threshold |-> layout[2],
                               shares |-> SplitKey(key, layout[1], random)]
      BY <3>1, <3>3, <3>5 DEF Inv, Shared
    <3> QED
      BY <2>1, <3>4, <3>5 DEF Upload
  <2>2. ASSUME NEW n \in 0..MaxGiven, upload # None,
               NEW given \in [1..n -> {upload.shares[i] : i \in 1..upload.count}], Supply(given)
        PROVE  Inv'
    <3>1. given \in Seq({upload.shares[i] : i \in 1..upload.count})
      <4>1. n \in Nat
        BY FieldAssumption
      <4> QED
        BY <4>1
    <3>2. /\ upload' = upload
          /\ request' = [given |-> given, result |-> CombineKey(given, upload.threshold)]
      BY <2>2 DEF Supply
    <3>3. Shared'
      BY <3>2 DEF Inv, Shared
    <3>4. Requested'
      BY <2>2, <3>1, <3>2 DEF Requested
    <3> QED
      BY <3>3, <3>4 DEF Inv
  <2>3. CASE Respond
    BY <2>3 DEF Respond, Inv, Shared, Requested
  <2>4. CASE UNCHANGED vars
    <3>1. upload' = upload /\ request' = request
      BY <2>4 DEF vars
    <3>2. Shared'
      BY <3>1 DEF Inv, Shared
    <3>3. Requested'
      BY <3>1 DEF Inv, Requested
    <3> QED
      BY <3>2, <3>3 DEF Inv
  <2> QED
    BY <2>1, <2>2, <2>3, <2>4 DEF Next
<1> QED
  BY <1>1, <1>2, PTL DEF Spec

\* The shares given are among those of the numbers.
Among(given, shares, count) == given \in Seq({shares[i] : i \in 1..count})

\* No two of the first shares are the same.
Different(given, t) == \A p, q \in 1..t : given[p] = given[q] => p = q

\* What combine_key gives for shares that split_key made.
LEMMA Combined ==
  ASSUME NEW t \in Nat, NEW key \in Key, NEW random \in Random(t + 1), NEW count \in Nat,
         NEW shares, shares = SplitKey(key, count, random), t >= 1,
         NEW given, Among(given, shares, count)
  PROVE  CombineKey(given, t + 1) =
           IF Len(given) >= t + 1 /\ Different(given, t + 1) THEN key ELSE Refused
<1>1. given \in Seq({shares[i] : i \in 1..count})
  BY DEF Among
<1>2. PICK n \in Nat : n = t + 1 /\ n > 1
  OBVIOUS
<1>3. CASE Len(given) < n
  BY <1>2, <1>3 DEF CombineKey
<1>4. CASE Len(given) >= n
  <2>1. PICK selected : selected = SubSeq(given, 1, n)
    OBVIOUS
  <2>2. Len(given) \in Nat /\ \A p \in 1..Len(given) : \E i \in 1..count : given[p] = shares[i]
    BY <1>1
  <2>3. /\ Len(selected) = n /\ DOMAIN selected = 1..n
        /\ \A p \in 1..n : selected[p] = given[p]
    <3>1. selected \in Seq({shares[i] : i \in 1..count}) /\ Len(selected) = n
      BY <1>1, <1>2, <1>4, <2>1
    <3>2. \A p \in 1..n : selected[p] = given[p]
      BY <1>1, <1>2, <1>4, <2>1
    <3> QED
      BY <3>1, <3>2, LenProperties
  <2>4. given # <<>>
    BY <1>1, <1>2, <1>4
  <2>5. \A p \in 1..n : \E i \in 1..count : given[p] = shares[i]
    BY <1>2, <1>4, <2>2
  <2>6. PICK id : id = [p \in 1..n |-> CHOOSE i \in 1..count : given[p] = shares[i]]
    OBVIOUS
  <2>7. id \in [1..n -> 1..count] /\ \A p \in 1..n : given[p] = shares[id[p]]
    BY <2>5, <2>6
  <2>8. \A p \in 1..n : IsShare(given[p], key, random, id[p])
    <3> SUFFICES ASSUME NEW p \in 1..n PROVE IsShare(given[p], key, random, id[p])
      OBVIOUS
    <3>1. PICK j \in 1..count, share \in {given[p]} : j = id[p] /\ share = SplitKey(key, count, random)[j]
      BY <2>7
    <3>2. IsShare(share, key, random, j)
      BY <3>1, ShareIs
    <3> QED
      BY <3>1, <3>2
  <2>9. \A p \in 1..n : Len(given[p]) = KeyLength + 1
    BY <2>8 DEF IsShare
  <2>10. \A p, q \in 1..n : given[p] = given[q] <=> given[p][1] = given[q][1]
    <3> SUFFICES ASSUME NEW p \in 1..n, NEW q \in 1..n, given[p][1] = given[q][1]
                 PROVE  given[p] = given[q]
      OBVIOUS
    <3>1. PICK a, b \in Element : a = Bits(id[p]) /\ b = Bits(id[q])
      BY BitsAre
    <3>2. given[p] = <<a>> \o [i \in 1..KeyLength |-> Horner(<<key[i]>> \o random[i], a)]
      BY <2>8, <3>1 DEF IsShare
    <3>3. given[q] = <<b>> \o [i \in 1..KeyLength |-> Horner(<<key[i]>> \o random[i], b)]
      BY <2>8, <3>1 DEF IsShare
    <3>4. a = b
      BY <2>8, <3>1 DEF IsShare
    <3> QED
      BY <3>2, <3>3, <3>4
  <2>11. CombineKey(given, n) =
           IF \E p, q \in 1..n : p # q /\ given[p][1] = given[q][1]
           THEN Refused ELSE Interpolated(selected)
    <3>1. CombineKey(given, n) =
            IF \/ Len(given) < n \/ given = <<>>
               \/ \E p \in DOMAIN selected : Len(selected[p]) # KeyLength + 1
               \/ \E p, q \in DOMAIN selected : p # q /\ selected[p][1] = selected[q][1]
            THEN Refused ELSE Interpolated(selected)
      BY <2>1 DEF CombineKey
    <3> QED
      <4>1. ~(Len(given) < n \/ given = <<>>)
        BY <1>2, <1>4, <2>2, <2>4
      <4>2. ~\E p \in DOMAIN selected : Len(selected[p]) # KeyLength + 1
        BY <2>3, <2>9
      <4>3. (\E p, q \in DOMAIN selected : p # q /\ selected[p][1] = selected[q][1])
              <=> \E p, q \in 1..n : p # q /\ given[p][1] = given[q][1]
        <5>1. \A p \in 1..n : selected[p][1] = given[p][1]
          BY <2>3
        <5>2. DOMAIN selected = 1..n
          BY <2>3
        <5> QED
          BY <5>1, <5>2
      <4> QED
        BY <3>1, <4>1, <4>2, <4>3
  <2>12. Different(given, n) <=> ~\E p, q \in 1..n : p # q /\ given[p][1] = given[q][1]
    BY <2>10 DEF Different
  <2>13. Different(given, n) => Interpolated(selected) = key
    <3> SUFFICES ASSUME Different(given, n) PROVE Interpolated(selected) = key
      OBVIOUS
    <3>1. \A p, q \in 1..(t + 1) : selected[p][1] = selected[q][1] => p = q
      BY <1>2, <2>3, <2>10 DEF Different
    <3>2. \A p \in 1..(t + 1) : selected[p] = SplitKey(key, count, random)[id[p]]
      BY <1>2, <2>3, <2>7
    <3>3. Len(selected) = t + 1 /\ id \in [1..(t + 1) -> 1..count]
      BY <1>2, <2>3, <2>7
    <3>4. Selection(selected, id, t + 1, key, count, random)
      BY <3>1, <3>2, <3>3 DEF Selection
    <3> QED
      BY <3>4, SharesGiveTheKey
  <2> QED
    BY <1>2, <1>4, <2>11, <2>12, <2>13
<1>5. Len(given) \in Nat
  BY <1>1
<1> QED
  BY <1>2, <1>3, <1>4, <1>5

\* The single share of a 1-of-1 upload is no share that combine_key takes.
LEMMA SingleIsRefused ==
  ASSUME NEW key \in Key, NEW given \in Seq({key})
  PROVE  CombineKey(given, 1) = Refused
<1>1. CASE given # <<>>
  <2>1. PICK selected : selected = SubSeq(given, 1, 1)
    OBVIOUS
  <2>2. Len(given) >= 1 /\ Len(given) \in Nat
    BY <1>1
  <2>3. 1 \in DOMAIN selected /\ selected[1] = key
    BY <2>1, <2>2
  <2>4. Len(key) # KeyLength + 1
    <3>1. KeyLength \in Nat /\ key \in [1..KeyLength -> Element]
      BY FieldAssumption DEF Key
    <3>2. Len(key) = KeyLength
      BY <3>1
    <3> QED
      BY <3>1, <3>2
  <2> QED
    BY <2>1, <2>3, <2>4 DEF CombineKey
<1>2. CASE given = <<>>
  BY <1>2 DEF CombineKey
<1> QED
  BY <1>1, <1>2

\* The invariant implies that enough shares give the key and others an error.
LEMMA InvEnough == Inv => EnoughSharesGiveTheKey
<1> SUFFICES ASSUME Inv, request # None
             PROVE  request.result = IF Enough(request.given) THEN upload.key ELSE Refused
  BY DEF EnoughSharesGiveTheKey
<1>1. /\ upload # None /\ upload.key \in Key
      /\ request.given \in Seq({upload.shares[i] : i \in 1..upload.count})
      /\ request.result = CombineKey(request.given, upload.threshold)
  BY DEF Inv, Shared, Requested
<1>2. PICK given : given = request.given
  OBVIOUS
<1>3. CASE upload.count = 1 /\ upload.threshold = 1 /\ upload.shares = <<upload.key>>
  <2>1. {upload.shares[i] : i \in 1..upload.count} = {upload.key}
    BY <1>3
  <2>2. CombineKey(given, 1) = Refused
    BY <1>1, <1>2, <2>1, SingleIsRefused
  <2> QED
    BY <1>1, <1>2, <1>3, <2>2 DEF Enough
<1>4. CASE /\ upload.count \in Nat /\ upload.threshold \in Nat
           /\ Splittable(upload.count, upload.threshold)
           /\ \E random \in Random(upload.threshold) :
                upload.shares = SplitKey(upload.key, upload.count, random)
  <2>1. PICK random \in Random(upload.threshold) :
          upload.shares = SplitKey(upload.key, upload.count, random)
    BY <1>4
  <2>2. PICK t \in Nat : upload.threshold = t + 1 /\ t >= 1
    <3>1. upload.threshold - 1 \in Nat /\ upload.threshold = (upload.threshold - 1) + 1
          /\ upload.threshold - 1 >= 1
      BY <1>4 DEF Splittable
    <3> QED
      BY <3>1
  <2>3. CombineKey(given, t + 1) =
          IF Len(given) >= t + 1 /\ Different(given, t + 1) THEN upload.key ELSE Refused
    <3>1. PICK key \in Key : key = upload.key
      BY <1>1
    <3>2. PICK count \in Nat : count = upload.count
      BY <1>4
    <3>3. PICK shares : shares = upload.shares
      OBVIOUS
    <3>4. random \in Random(t + 1) /\ shares = SplitKey(key, count, random)
      BY <2>1, <2>2, <3>1, <3>2, <3>3
    <3>5. Among(given, shares, count)
      BY <1>1, <1>2, <3>2, <3>3 DEF Among
    <3>6. CombineKey(given, t + 1) =
            IF Len(given) >= t + 1 /\ Different(given, t + 1) THEN key ELSE Refused
      BY <2>2, <3>4, <3>5, Combined
    <3> QED
      BY <3>1, <3>6
  <2>4. Enough(given) <=> Len(given) >= t + 1 /\ Different(given, t + 1)
    BY <2>2 DEF Enough, Different
  <2> QED
    BY <1>1, <1>2, <2>2, <2>3, <2>4
<1> QED
  BY <1>1, <1>3, <1>4 DEF Inv, Shared

\* combine_key gives the key for as many different shares as the threshold asks,
\* and an error for all other selections of shares: never another key.
THEOREM AlwaysEnoughSharesGiveTheKey == Spec => []EnoughSharesGiveTheKey
BY AlwaysInv, InvEnough, PTL

\* The shares are sequences of elements.
LEMMA SharesAreTyped ==
  ASSUME NEW t \in Nat, NEW key \in Key, NEW random \in Random(t + 1), NEW count \in Nat,
         NEW shares, shares = SplitKey(key, count, random)
  PROVE  Len(shares) = count /\ \A i \in 1..count : shares[i] \in Seq(Element)
<1>1. Len(shares) = count
  BY DEF SplitKey
<1>2. ASSUME NEW id \in 1..count PROVE shares[id] \in Seq(Element)
  <2>1. PICK s : s = [i \in 1..KeyLength |-> Horner(<<key[i]>> \o random[i], Bits(id))]
    OBVIOUS
  <2>2. \A i \in 1..KeyLength : s[i] \in Element
    <3> SUFFICES ASSUME NEW i \in 1..KeyLength PROVE s[i] \in Element
      OBVIOUS
    <3>1. PICK g \in Poly(t + 1) :
            g[Zero] = key[i] /\ \A v \in Element : g[v] = Horner(<<key[i]>> \o random[i], v)
      BY PolyOfKey
    <3>2. g[Bits(id)] \in Element /\ Bits(id) \in Element
      BY BitsAre DEF Poly
    <3> QED
      BY <2>1, <3>1, <3>2
  <2>3. s \in [1..KeyLength -> Element] /\ KeyLength \in Nat
    BY <2>1, <2>2, FieldAssumption
  <2>4. PICK b \in Element : b = Bits(id)
    BY BitsAre
  <2>5. shares[id] = <<b>> \o s
    BY <2>1, <2>4 DEF SplitKey
  <2>6. s \in Seq(Element) /\ <<b>> \in Seq(Element)
    BY <2>3
  <2> QED
    BY <2>5, <2>6
<1> QED
  BY <1>1, <1>2

\* The invariant implies the types.
LEMMA InvTypeOK == Inv => TypeOK
<1> SUFFICES ASSUME Inv PROVE TypeOK
  OBVIOUS
<1>1. ASSUME upload # None
      PROVE  /\ upload.key \in Key
             /\ Len(upload.shares) = upload.count /\ upload.threshold <= upload.count
             /\ \A i \in 1..upload.count : upload.shares[i] \in Seq(Element)
  <2>1. upload.key \in Key
    BY <1>1 DEF Inv, Shared
  <2>2. CASE upload.count = 1 /\ upload.threshold = 1 /\ upload.shares = <<upload.key>>
    <3>1. upload.key \in Seq(Element)
      <4>1. KeyLength \in Nat /\ upload.key \in [1..KeyLength -> Element]
        BY <2>1, FieldAssumption DEF Key
      <4> QED
        BY <4>1
    <3> QED
      BY <2>1, <2>2, <3>1
  <2>3. CASE /\ upload.count \in Nat /\ upload.threshold \in Nat
             /\ Splittable(upload.count, upload.threshold)
             /\ \E random \in Random(upload.threshold) :
                  upload.shares = SplitKey(upload.key, upload.count, random)
    <3>1. PICK random \in Random(upload.threshold) :
            upload.shares = SplitKey(upload.key, upload.count, random)
      BY <2>3
    <3>2. PICK t \in Nat : upload.threshold = t + 1
      <4>1. upload.threshold - 1 \in Nat /\ upload.threshold = (upload.threshold - 1) + 1
        BY <2>3 DEF Splittable
      <4> QED
        BY <4>1
    <3>3. PICK key \in Key : key = upload.key
      BY <2>1
    <3>4. PICK count \in Nat : count = upload.count
      BY <2>3
    <3>5. PICK shares : shares = upload.shares
      OBVIOUS
    <3>6. random \in Random(t + 1) /\ shares = SplitKey(key, count, random)
      BY <3>1, <3>2, <3>3, <3>4, <3>5
    <3>7. Len(shares) = count /\ \A i \in 1..count : shares[i] \in Seq(Element)
      BY <3>6, SharesAreTyped
    <3> QED
      BY <2>1, <2>3, <3>4, <3>5, <3>7 DEF Splittable
  <2> QED
    BY <1>1, <2>2, <2>3 DEF Inv, Shared
<1>2. ASSUME request # None PROVE request.result \in Key \union {Refused}
  BY <1>2, InvEnough DEF Inv, Shared, Requested, EnoughSharesGiveTheKey
<1> QED
  BY <1>1, <1>2 DEF TypeOK

\* The upload has a share for each number, and a request gives a key or an
\* error: uploads and requests stay well-formed.
THEOREM AlwaysTypeOK == Spec => []TypeOK
BY AlwaysInv, InvTypeOK, PTL

-----------------------------------------------------------------------------
(* Secrecy *)

\* A polynomial with a root for each number of B and none at zero.
HasRoots(g, B) == g[Zero] # Zero /\ \A id \in B : g[Bits(id)] = Zero

\* There is one with one coefficient more than B has numbers.
LEMMA Roots ==
  ASSUME NEW count \in Nat, count <= MaxShares, NEW N \in Nat
  PROVE  \A B \in SUBSET (1..count) : Cardinality(B) = N => \E g \in Poly(N + 1) : HasRoots(g, B)
<1> DEFINE T == {m \in 0..N : \A B \in SUBSET (1..count) :
                    Cardinality(B) = m => \E g \in Poly(m + 1) : HasRoots(g, B)}
<1>1. \A B \in SUBSET (1..count) : IsFiniteSet(B)
  <2>1. IsFiniteSet(1..count)
    BY FS_Interval
  <2> QED
    BY <2>1, FS_Subset
<1>2. 0 \in T
  <2> SUFFICES ASSUME NEW B \in SUBSET (1..count), Cardinality(B) = 0
               PROVE  \E g \in Poly(0 + 1) : HasRoots(g, B)
    OBVIOUS
  <2>1. B = {}
    BY <1>1, FS_EmptySet
  <2>2. PICK g : g = [v \in Element |-> One]
    OBVIOUS
  <2>3. g \in [Element -> Element] /\ \A v \in Element : g[v] = One
    BY <2>2, Elements
  <2>4. g \in Poly(0 + 1)
    <3>1. 0 \in Nat /\ One \in Element
      BY Elements
    <3> QED
      BY <2>3, <3>1, PolyConstant
  <2>5. HasRoots(g, B)
    BY <2>1, <2>3, Elements DEF HasRoots
  <2> QED
    BY <2>4, <2>5
<1>3. ASSUME NEW n \in 1..N, n - 1 \in T PROVE n \in T
  <2>1. PICK m \in Nat : m = n - 1 /\ n = m + 1
    OBVIOUS
  <2> SUFFICES ASSUME NEW B \in SUBSET (1..count), Cardinality(B) = n
               PROVE  \E g \in Poly(n + 1) : HasRoots(g, B)
    OBVIOUS
  <2>2. PICK b : b \in B
    <3>1. Cardinality({}) = 0 /\ Cardinality(B) # 0
      BY FS_EmptySet
    <3>2. B # {}
      BY <3>1
    <3> QED
      BY <3>2
  <2>3. PICK C \in SUBSET (1..count) : C = B \ {b}
    OBVIOUS
  <2>4. Cardinality(C) = m
    <3>1. Cardinality(B \ {b}) = Cardinality(B) - 1
      BY <1>1, <2>2, FS_RemoveElement
    <3> QED
      BY <2>1, <2>3, <3>1
  <2>5. PICK h \in Poly(n) : HasRoots(h, C)
    BY <1>3, <2>1, <2>4
  <2>6. h \in [Element -> Element]
    BY DEF Poly
  <2>7. PICK r \in Element : r = Bits(b) /\ r # Zero
    <3>1. b \in 1..MaxShares
      BY <2>2, FieldAssumption
    <3> QED
      BY <3>1, BitsAre, NumberAssumption
  <2>8. PICK g : g = [v \in Element |-> (v ++ r) ** h[v]]
    OBVIOUS
  <2>9. g \in [Element -> Element] /\ \A v \in Element : g[v] = (v ++ r) ** h[v]
    <3>1. \A v \in Element : (v ++ r) ** h[v] \in Element
      BY <2>6, Elements, Product_
    <3> QED
      BY <2>8, <3>1
  <2>10. g \in Poly(n + 1)
    BY <2>9, PolyLinear
  <2>11. g[Zero] # Zero
    <3>1. Zero \in Element /\ h[Zero] \in Element /\ h[Zero] # Zero
      BY <2>5, <2>6, Elements DEF HasRoots
    <3>2. Zero ++ r = r
      BY Xor
    <3>3. r ** h[Zero] # Zero
      <4>1. PICK e \in Element : e = h[Zero] /\ e # Zero
        BY <3>1
      <4>2. r ** e # Zero
        BY <2>7, <4>1, NoDivisors
      <4> QED
        BY <4>1, <4>2
    <3> QED
      BY <2>9, <3>1, <3>2, <3>3
  <2>12. ASSUME NEW id \in B PROVE g[Bits(id)] = Zero
    <3>1. PICK v \in Element : v = Bits(id)
      BY BitsAre
    <3>2. g[v] = (v ++ r) ** h[v] /\ h[v] \in Element /\ v ++ r \in Element
      BY <2>6, <2>9, Elements
    <3>3. CASE id = b
      <4>1. v ++ r = Zero
        BY <2>7, <3>1, <3>3, Xor
      <4> QED
        BY <3>1, <3>2, <4>1, TimesZero
    <3>4. CASE id \in C
      <4>1. h[v] = Zero
        BY <2>5, <3>1, <3>4 DEF HasRoots
      <4> QED
        BY <3>1, <3>2, <4>1, TimesZero
    <3> QED
      BY <2>3, <3>3, <3>4
  <2>13. HasRoots(g, B)
    BY <2>11, <2>12 DEF HasRoots
  <2> QED
    BY <2>10, <2>13
<1> HIDE DEF T
<1>4. \A n \in 0..N : n \in T
  BY <1>2, <1>3, UpTo
<1> QED
  BY <1>4 DEF T

\* For each other key element there are coefficients that give the same values
\* at as many numbers as there are coefficients.
LEMMA Explained ==
  ASSUME NEW t \in Nat, NEW a \in Element, NEW g \in Poly(t + 1), NEW B,
         NEW root \in Poly(t + 1), HasRoots(root, B)
  PROVE  \E e \in [1..t -> Element] : \A id \in B : Horner(<<a>> \o e, Bits(id)) = g[Bits(id)]
<1>1. g \in [Element -> Element] /\ root \in [Element -> Element]
  BY DEF Poly
<1>2. PICK k \in Element, z \in Element : k = g[Zero] /\ z = root[Zero] /\ z # Zero
  BY <1>1, Elements DEF HasRoots
<1>3. PICK r \in Element : r = Reciprocal[z] /\ z ** r = One
  BY <1>2, HasInverse
<1>4. PICK d \in Element : d = (a ++ k) ** r
  BY <1>3, Product_, Elements
<1>5. d ** z = a ++ k
  <2>1. a ++ k \in Element
    BY Elements
  <2>2. ((a ++ k) ** r) ** z = (a ++ k) ** (r ** z) /\ r ** z = z ** r
    BY <2>1, Associates, Commutes
  <2> QED
    BY <1>3, <1>4, <2>1, <2>2, TimesOne
<1>6. PICK p : p = [v \in Element |-> d ** root[v]]
  OBVIOUS
<1>7. p \in [Element -> Element] /\ \A v \in Element : p[v] = d ** root[v]
  BY <1>1, <1>6, Product_
<1>8. PICK q : q = [v \in Element |-> g[v] ++ p[v]]
  OBVIOUS
<1>9. q \in [Element -> Element] /\ \A v \in Element : q[v] = g[v] ++ p[v]
  BY <1>1, <1>7, <1>8, Elements
<1>10. q \in Poly(t + 1)
  <2>1. t + 1 \in Nat
    OBVIOUS
  <2>2. p \in Poly(t + 1)
    BY <1>7, <2>1, PolyMultiple
  <2> QED
    BY <1>9, <2>1, <2>2, PolySum
<1>11. q[Zero] = a
  <2>1. q[Zero] = k ++ (a ++ k)
    BY <1>2, <1>5, <1>7, <1>9, Elements
  <2>2. k ++ (a ++ k) = a
    BY DEF ++, SymDiff
  <2> QED
    BY <2>1, <2>2
<1>12. PICK e \in [1..t -> Element] : \A v \in Element : q[v] = Horner(<<a>> \o e, v)
  BY <1>10, <1>11, OfPoly
<1>13. ASSUME NEW id \in B PROVE Horner(<<a>> \o e, Bits(id)) = g[Bits(id)]
  <2>1. PICK v \in Element : v = Bits(id)
    BY BitsAre
  <2>2. root[v] = Zero /\ g[v] \in Element
    BY <1>1, <2>1 DEF HasRoots
  <2>3. d ** Zero = Zero /\ g[v] ++ Zero = g[v]
    BY TimesZero, Xor
  <2>4. q[v] = g[v]
    BY <1>7, <1>9, <2>2, <2>3
  <2> QED
    BY <1>12, <2>1, <2>4
<1> QED
  BY <1>13

\* Each key has coefficients that explain the shares of fewer numbers than the
\* threshold.
LEMMA SharesTellNothing ==
  ASSUME NEW t \in Nat, NEW key \in Key, NEW random \in Random(t + 1),
         NEW count \in Nat, count <= MaxShares,
         NEW held \in SUBSET (1..count), Cardinality(held) = t, NEW other \in Key
  PROVE  \E guess \in Random(t + 1) : \A id \in held :
           SplitKey(other, count, guess)[id] = SplitKey(key, count, random)[id]
<1>1. PICK root \in Poly(t + 1) : HasRoots(root, held)
  BY Roots
<1> DEFINE Fits(e, i) == \A id \in held : Horner(<<other[i]>> \o e, Bits(id)) =
                                            Horner(<<key[i]>> \o random[i], Bits(id))
<1>2. ASSUME NEW i \in 1..KeyLength PROVE \E e \in [1..t -> Element] : Fits(e, i)
  <2>1. PICK g \in Poly(t + 1) :
          g[Zero] = key[i] /\ \A v \in Element : g[v] = Horner(<<key[i]>> \o random[i], v)
    BY PolyOfKey
  <2>2. PICK a \in Element : a = other[i]
    BY DEF Key
  <2>3. PICK e \in [1..t -> Element] : \A id \in held : Horner(<<a>> \o e, Bits(id)) = g[Bits(id)]
    BY <1>1, Explained
  <2>4. Fits(e, i)
    BY <2>1, <2>2, <2>3, BitsAre
  <2> QED
    BY <2>4
<1>3. PICK guess : guess = [i \in 1..KeyLength |-> CHOOSE e \in [1..t -> Element] : Fits(e, i)]
  OBVIOUS
<1> HIDE DEF Fits
<1>4. \A i \in 1..KeyLength : guess[i] \in [1..t -> Element] /\ Fits(guess[i], i)
  BY <1>2, <1>3
<1>5. guess \in Random(t + 1)
  <2>1. guess \in [1..KeyLength -> [1..t -> Element]]
    BY <1>3, <1>4
  <2>2. (t + 1) - 1 = t
    OBVIOUS
  <2> QED
    BY <2>1, <2>2 DEF Random
<1>6. ASSUME NEW id \in held
      PROVE  SplitKey(other, count, guess)[id] = SplitKey(key, count, random)[id]
  <2>1. \A i \in 1..KeyLength : Horner(<<other[i]>> \o guess[i], Bits(id)) =
                                  Horner(<<key[i]>> \o random[i], Bits(id))
    BY <1>4 DEF Fits
  <2>2. [i \in 1..KeyLength |-> Horner(<<other[i]>> \o guess[i], Bits(id))] =
          [i \in 1..KeyLength |-> Horner(<<key[i]>> \o random[i], Bits(id))]
    BY <2>1
  <2>3. id \in 1..count
    OBVIOUS
  <2> QED
    BY <2>2, <2>3 DEF SplitKey
<1> QED
  BY <1>5, <1>6

\* The invariant implies that fewer shares than the threshold tell nothing.
LEMMA InvTellNothing == Inv => FewerSharesTellNothing
<1> SUFFICES ASSUME Inv, upload # None, upload.threshold > 1,
                    NEW held \in kSubset(upload.threshold - 1, 1..upload.count), NEW other \in Key
             PROVE  \E guess \in Random(upload.threshold) : \A id \in held :
                      SplitKey(other, upload.count, guess)[id] = upload.shares[id]
  BY DEF FewerSharesTellNothing
<1>1. /\ upload.key \in Key
      /\ upload.count \in Nat /\ upload.threshold \in Nat
      /\ Splittable(upload.count, upload.threshold)
      /\ \E random \in Random(upload.threshold) :
           upload.shares = SplitKey(upload.key, upload.count, random)
  BY DEF Inv, Shared
<1>2. PICK key \in Key, count \in Nat, n \in Nat :
        key = upload.key /\ count = upload.count /\ n = upload.threshold
  BY <1>1
<1>3. PICK random \in Random(n) : upload.shares = SplitKey(key, count, random)
  BY <1>1, <1>2
<1>4. PICK t \in Nat : n = t + 1
  <2>1. n - 1 \in Nat /\ n = (n - 1) + 1
    BY <1>2
  <2> QED
    BY <2>1
<1>5. count <= MaxShares
  BY <1>1, <1>2 DEF Splittable
<1>6. held \in SUBSET (1..count) /\ Cardinality(held) = t
  <2>1. n - 1 = t
    BY <1>4
  <2>2. held \in kSubset(t, 1..count)
    BY <1>2, <2>1
  <2> QED
    BY <2>2 DEF kSubset
<1>7. \E guess \in Random(t + 1) : \A id \in held :
        SplitKey(other, count, guess)[id] = SplitKey(key, count, random)[id]
  BY <1>3, <1>4, <1>5, <1>6, SharesTellNothing
<1> QED
  BY <1>2, <1>3, <1>4, <1>7

\* Whoever has fewer shares than the threshold can rule out no key: split_key
\* could have made them from each.
THEOREM AlwaysFewerSharesTellNothing == Spec => []FewerSharesTellNothing
BY AlwaysInv, InvTellNothing, PTL

=============================================================================
