------------------------- MODULE VersionTreeProofs -------------------------
(***************************************************************************)
(* Proofs about the version tree, for every set of documents.              *)
(***************************************************************************)
EXTENDS VersionTree, TLAPS

\* The versions in use have no gap below them among the issued documents.
Contiguous ==
  \A d \in issued : \A v \in 1..(d.version - 1) :
    \E e \in issued : e.version = v

\* While no version number is used twice, the current document has the highest
\* version and everything issued can be found.
NothingLost ==
  Forkless =>
    /\ issued = archive \union current
    /\ \A d \in issued, c \in current : d.version <= c.version
    /\ issued # {} => \E c \in issued : current = {c}

Inv == TypeOK /\ ArchiveCovers /\ Contiguous /\ NothingLost

-----------------------------------------------------------------------------
\* The store starts without a document, and all of it holds.
LEMMA InitInv == Init => Inv
BY DEF Init, Inv, TypeOK, ArchiveCovers, Contiguous, NothingLost, Forkless

\* Creating the record (create_asset) keeps the invariant.
LEMMA CreateInv == Inv /\ Create => Inv'
<1> SUFFICES ASSUME Inv, Create PROVE Inv'
  OBVIOUS
<1> USE DEF Inv
<1>1. PICK d \in issued' :
        /\ d.version = 1
        /\ issued' = {d}
        /\ current' = {d}
        /\ archive' = {}
  BY DEF Create, TypeOK
<1>2. TypeOK'
  BY <1>1 DEF TypeOK
<1>3. ArchiveCovers' /\ Contiguous'
  BY <1>1 DEF ArchiveCovers, Contiguous
<1>4. NothingLost'
  BY <1>1 DEF NothingLost
<1> QED BY <1>2, <1>3, <1>4

\* A write that derives d from the issued document p keeps the invariant.
LEMMA PublishInv == Inv /\ Publish => Inv'
<1> SUFFICES ASSUME Inv, Publish PROVE Inv'
  OBVIOUS
<1> USE DEF Inv
<1>1. PICK p \in issued, d \in issued' \ issued :
        /\ d.version = p.version + 1
        /\ issued' = issued \union {d}
        /\ current' = {d}
        /\ archive' = archive \union {p}
  BY DEF Publish
<1>2. p.version \in Nat \ {0} /\ d.version \in Nat \ {0}
  BY <1>1 DEF TypeOK
<1>3. TypeOK'
  BY <1>1, <1>2 DEF TypeOK
<1>4. ArchiveCovers'
  <2> SUFFICES ASSUME NEW e \in issued', NEW v \in 1..(e.version - 1)
               PROVE  \E a \in archive' : a.version = v
    BY DEF ArchiveCovers
  <2>1. CASE e \in issued
    BY <2>1, <1>1 DEF ArchiveCovers
  <2>2. CASE e = d
    <3>1. v = p.version \/ v \in 1..(p.version - 1)
      BY <2>2, <1>1, <1>2
    <3> QED BY <3>1, <1>1 DEF ArchiveCovers
  <2> QED BY <2>1, <2>2, <1>1
<1>5. Contiguous'
  <2> SUFFICES ASSUME NEW e \in issued', NEW v \in 1..(e.version - 1)
               PROVE  \E f \in issued' : f.version = v
    BY DEF Contiguous
  <2>1. CASE e \in issued
    BY <2>1, <1>1 DEF Contiguous
  <2>2. CASE e = d
    <3>1. v = p.version \/ v \in 1..(p.version - 1)
      BY <2>2, <1>1, <1>2
    <3> QED BY <3>1, <1>1 DEF Contiguous
  <2> QED BY <2>1, <2>2, <1>1
<1>6. NothingLost'
  <2> SUFFICES ASSUME Forkless'
               PROVE  /\ issued' = archive' \union current'
                      /\ \A e \in issued' : e.version <= d.version
    BY <1>1 DEF NothingLost
  <2>1. Forkless
    BY <1>1 DEF Forkless
  <2>2. PICK c \in issued : current = {c}
    BY <2>1, <1>1 DEF NothingLost
  <2>3. \A e \in issued : e.version \in Nat /\ e.version <= c.version
    BY <2>1, <2>2 DEF NothingLost, TypeOK
  <2>4. p.version = c.version
    <3>1. SUFFICES ASSUME p.version < c.version PROVE FALSE
      BY <1>1, <1>2, <2>3
    <3>2. CASE d.version = c.version
      BY <3>2, <1>1, <2>2 DEF Forkless
    <3>3. CASE d.version # c.version
      <4>1. d.version \in 1..(c.version - 1)
        BY <3>1, <3>3, <1>1, <1>2, <2>3
      <4>2. PICK e \in issued : e.version = d.version
        BY <4>1, <2>2 DEF Contiguous
      <4> QED BY <4>2, <1>1 DEF Forkless
    <3> QED BY <3>2, <3>3
  <2>5. p = c
    BY <2>4, <2>1, <1>1, <2>2 DEF Forkless
  <2>6. issued' = archive' \union current'
    BY <2>1, <2>2, <2>5, <1>1 DEF NothingLost
  <2>7. \A e \in issued' : e.version <= d.version
    BY <1>1, <1>2, <2>3, <2>4
  <2> QED BY <2>6, <2>7
<1> QED BY <1>3, <1>4, <1>5, <1>6

\* Inv is an invariant of the version tree.
LEMMA TreeInvariant == Spec => []Inv
<1>1. Inv /\ [Next]_vars => Inv'
  <2> SUFFICES ASSUME Inv, [Next]_vars PROVE Inv'
    OBVIOUS
  <2>1. CASE Create
    BY <2>1, CreateInv
  <2>2. CASE Publish
    BY <2>2, PublishInv
  <2>3. CASE UNCHANGED vars
    BY <2>3 DEF Inv, vars, TypeOK, ArchiveCovers, Contiguous, NothingLost, Forkless
  <2> QED BY <2>1, <2>2, <2>3 DEF Next
<1> QED BY InitInv, <1>1, PTL DEF Spec

\* Every document store that is a version tree keeps a document of each version
\* below any version it has issued.
THEOREM TreeArchiveCovers == Spec => []ArchiveCovers
BY TreeInvariant, PTL DEF Inv

\* A document is lost to a version tree only if a version number is used twice.
THEOREM TreeNoLossWithoutFork == Spec => []NoLossWithoutFork
<1>1. Inv => NoLossWithoutFork
  BY DEF Inv, NothingLost, NoLossWithoutFork
<1> QED BY <1>1, TreeInvariant, PTL

=============================================================================
