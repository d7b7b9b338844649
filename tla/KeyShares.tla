------------------------------ MODULE KeyShares ------------------------------
(***************************************************************************)
(* The sharing of a document key: any threshold of the shares gives the    *)
(* key back by interpolation over a field of 2^Width elements, fewer tell  *)
(* nothing about it.  The code works on 32 bytes with Width = 8; bytes do  *)
(* not influence each other.                                               *)
(*                                                                         *)
(* An element is the set of its one bits, so that exclusive or is the      *)
(* symmetric difference and a shift adds one to every bit's position.      *)
(*                                                                         *)
(* The variables are one upload and one request that supplies shares.      *)
(***************************************************************************)
EXTENDS Integers, Sequences, FiniteSets, FiniteSetsExt

CONSTANTS
  Width,       \* bits of an element: 8
  Modulus,     \* the bits of the reduction polynomial: 0x11B, {0, 1, 3, 4, 8}
  KeyLength,   \* elements of a key: 32
  MaxShares,   \* shares of a key at most: 255
  Layout,      \* the pairs of share count and threshold that uploads ask for
  MaxGiven,    \* bound: shares in one request
  None         \* no upload, no request

ASSUME FieldAssumption ==
  /\ Width \in Nat \ {0} /\ KeyLength \in Nat \ {0}
  /\ Modulus \subseteq 0..Width /\ Width \in Modulus
  /\ MaxShares \in Nat /\ MaxShares < 2^Width
  /\ Layout \subseteq Nat \X Nat /\ MaxGiven \in Nat

VARIABLES
  upload,   \* what the uploader was given: [key, count, threshold, shares]
  request   \* the shares a reader supplies and what they give: [given, result]

vars == <<upload, request>>

-----------------------------------------------------------------------------
(* The field *)

Bit == 0..(Width - 1)

Element == SUBSET Bit

Zero == {}

One == {0}

\* The element an integer stands for.
Bits(n) == {i \in Bit : (n \div 2^i) % 2 = 1}

\* left << 1, reduced if the highest bit was set.
Shifted(left) ==
  LET shifted == {i + 1 : i \in left}
  IN  IF Width \in shifted THEN SymDiff(shifted, Modulus) ELSE shifted

\* _gf_mul: left is shifted for every bit of right, and the shifted values
\* of its one bits are summed.
GfMul(left, right) ==
  LET term[k \in Bit] == IF k = 0 THEN left ELSE Shifted(term[k - 1])
  IN  {i \in Bit : Cardinality({k \in right : i \in term[k]}) % 2 = 1}

\* The multiplication table, for speed.
Product == [pair \in Element \X Element |-> GfMul(pair[1], pair[2])]

\* _gf_pow: square and multiply.
GfPow(value, exponent) ==
  LET power[v \in Element, e \in 0..exponent] ==
        IF e = 0 THEN One
        ELSE IF e % 2 = 1 THEN Product[v, power[Product[v, v], e \div 2]]
        ELSE power[Product[v, v], e \div 2]
  IN  power[value, exponent]

\* The inverse of every element but zero: 254 = 2^8 - 2.
Reciprocal[value \in Element] == GfPow(value, 2^Width - 2)

\* Modulus is irreducible: by no other element but zero can one not divide.
ASSUME ModulusAssumption ==
  \A value \in Element \ {Zero} :
    Reciprocal[value] \in Element /\ Product[value, Reciprocal[value]] = One

\* The numbers of shares are different from zero, where the key is.
ASSUME NumberAssumption == \A n \in 1..MaxShares : Bits(n) # Zero

-----------------------------------------------------------------------------
(* Shares: sequences of a share's number and one value per key element *)

\* The polynomial with the given coefficients, lowest first, at x: the loop
\* starts with the highest.
Horner(polynomial, x) ==
  LET degree == Len(polynomial)
      value[n \in 0..degree] ==
        IF n = 0 THEN Zero
        ELSE SymDiff(Product[value[n - 1], x], polynomial[degree + 1 - n])
  IN  value[degree]

\* What split_key accepts.
Splittable(count, threshold) ==
  2 <= threshold /\ threshold <= count /\ count <= MaxShares

\* Two wrong SplitKeys: there is no share for the last number; the first
\* coefficient drawn is used in all places.
SplitOneFewer(key, count, random) ==
  [id \in 1..(count - 1) |->
     <<Bits(id)>> \o [i \in 1..KeyLength |->
                        Horner(<<key[i]>> \o random[i], Bits(id))]]

SplitRepeated(key, count, random) ==
  [id \in 1..count |->
     <<Bits(id)>> \o [i \in 1..KeyLength |->
        Horner(<<key[i]>> \o [j \in DOMAIN random[i] |-> random[i][1]], Bits(id))]]

\* split_key, when os.urandom draws random: the share of number id is the
\* value at id of polynomials whose constants are the key.
SplitKey(key, count, random) ==
  [id \in 1..count |->
     <<Bits(id)>> \o [i \in 1..KeyLength |->
                        Horner(<<key[i]>> \o random[i], Bits(id))]]

\* A ValueError, which is no key.
Refused == <<>>

\* What a loop over the positions adds up, or multiplies.
XorOf(terms) ==
  LET value[n \in 0..Len(terms)] ==
        IF n = 0 THEN Zero ELSE SymDiff(value[n - 1], terms[n])
  IN  value[Len(terms)]

ProductOf(factors) ==
  LET product[n \in 0..Len(factors)] ==
        IF n = 0 THEN One ELSE Product[product[n - 1], factors[n]]
  IN  product[Len(factors)]

\* The weight of the share at position p among the shares selected.  The loop
\* skips the position itself, a factor of one.
Basis(selected, p) ==
  LET numerator == ProductOf([j \in 1..Len(selected) |->
                     IF j = p THEN One ELSE selected[j][1]])
      denominator == ProductOf([j \in 1..Len(selected) |->
                       IF j = p THEN One ELSE SymDiff(selected[p][1], selected[j][1])])
  IN  Product[numerator, Reciprocal[denominator]]

Interpolated(selected) ==
  LET basis == [p \in 1..Len(selected) |-> Basis(selected, p)]
  IN  [i \in 1..KeyLength |->
         XorOf([p \in 1..Len(selected) |-> Product[selected[p][i + 1], basis[p]]])]

\* A wrong CombineKey: shares with the same number are not refused.
CombineDuplicates(shares, threshold) ==
  LET selected == SubSeq(shares, 1, threshold)
  IN  IF \/ Len(shares) < threshold \/ shares = <<>>
         \/ \E p \in DOMAIN selected : Len(selected[p]) # KeyLength + 1
      THEN Refused ELSE Interpolated(selected)

\* combine_key: of the shares given the first ones are used.
CombineKey(shares, threshold) ==
  LET selected == SubSeq(shares, 1, threshold)
  IN  IF \/ Len(shares) < threshold \/ shares = <<>>
         \/ \E p \in DOMAIN selected : Len(selected[p]) # KeyLength + 1
         \/ \E p, q \in DOMAIN selected : p # q /\ selected[p][1] = selected[q][1]
      THEN Refused ELSE Interpolated(selected)

-----------------------------------------------------------------------------
Key == [1..KeyLength -> Element]

\* The random coefficients for a key and a threshold.
Random(threshold) == [1..KeyLength -> [1..(threshold - 1) -> Element]]

Init == upload = None /\ request = None

\* upload_encrypted_document asks for shares; with a count and a threshold of
\* one the key itself is the only share.  Other layouts are answered with 422.
Upload(key, count, threshold) ==
  /\ upload = None
  /\ \/ /\ count = 1 /\ threshold = 1
        /\ upload' = [key |-> key, count |-> 1, threshold |-> 1, shares |-> <<key>>]
     \/ /\ Splittable(count, threshold)
        /\ \E random \in Random(threshold) :
             upload' = [key |-> key, count |-> count, threshold |-> threshold,
                        shares |-> SplitKey(key, count, random)]
  /\ UNCHANGED request

\* get_encrypted_document with x-document-key-shares: any shares in any order.
Supply(given) ==
  /\ upload # None /\ request = None
  /\ request' = [given |-> given, result |-> CombineKey(given, upload.threshold)]
  /\ UNCHANGED upload

\* The key, or the error, has been used: the next request may come.
Respond ==
  /\ request # None
  /\ request' = None
  /\ UNCHANGED upload

Next ==
  \/ \E key \in Key, layout \in Layout : Upload(key, layout[1], layout[2])
  \/ \E n \in 0..MaxGiven :
       upload # None /\ \E given \in [1..n -> {upload.shares[i] : i \in 1..upload.count}] :
         Supply(given)
  \/ Respond

Spec == Init /\ [][Next]_vars

-----------------------------------------------------------------------------
(* Properties *)

\* The upload has a share for each number, and a request gives a key or fails.
TypeOK ==
  /\ upload # None =>
       /\ upload.key \in Key
       /\ Len(upload.shares) = upload.count /\ upload.threshold <= upload.count
       /\ \A i \in 1..upload.count : upload.shares[i] \in Seq(Element)
  /\ request # None => request.result \in Key \union {Refused}

\* The first shares given are as many different shares as the threshold asks.
Enough(given) ==
  /\ upload.threshold > 1
  /\ Len(given) >= upload.threshold
  /\ \A p, q \in 1..upload.threshold : given[p] = given[q] => p = q

\* Shares of an upload, in whatever number and order and with whatever
\* repetition, give the key or an error and never another key; they give the
\* key exactly if the first ones are enough.  The single share of a 1-of-1
\* upload is refused (content_crypto.py:74-97).
EnoughSharesGiveTheKey ==
  request # None =>
    request.result = IF Enough(request.given) THEN upload.key ELSE Refused

\* Whoever has fewer shares than the threshold can rule out no key: each key
\* has coefficients that explain the shares.
FewerSharesTellNothing ==
  request = None /\ upload # None /\ upload.threshold > 1 =>
    \A held \in kSubset(upload.threshold - 1, 1..upload.count), key \in Key :
      \E random \in Random(upload.threshold) :
        LET shares == SplitKey(key, upload.count, random)
        IN  \A id \in held : shares[id] = upload.shares[id]

=============================================================================
