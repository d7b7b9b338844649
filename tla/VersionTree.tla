---------------------------- MODULE VersionTree ----------------------------
(***************************************************************************)
(* What the record store of one authority promises about the documents it  *)
(* signs, whatever the order in which its request handlers run.            *)
(*                                                                         *)
(* Every write signs a new document whose version is one more than that of *)
(* a document issued before (its parent), makes it the current one, and    *)
(* archives the parent.  The documents issued form a tree and not a list:  *)
(* nothing makes the parent the current document.                          *)
(*                                                                         *)
(* A document is any record with a "version" field.                        *)
(***************************************************************************)
EXTENDS Naturals

VARIABLES
  current,   \* the document the store answers with: {} or a singleton
  archive,   \* the documents kept as history
  issued     \* every document ever signed and stored

vars == <<current, archive, issued>>

Init ==
  /\ current = {}
  /\ archive = {}
  /\ issued = {}

\* The first document of the record.
Create ==
  /\ issued = {}
  /\ \E d \in issued' :
       /\ d.version = 1
       /\ issued' = {d}
       /\ current' = {d}
  /\ UNCHANGED archive

\* A document d derived from the issued document p replaces the current one.
Publish ==
  \E p \in issued, d \in issued' \ issued :
    /\ d.version = p.version + 1
    /\ issued' = issued \union {d}
    /\ current' = {d}
    /\ archive' = archive \union {p}

Next == Create \/ Publish

Spec == Init /\ [][Next]_vars

-----------------------------------------------------------------------------
TypeOK ==
  /\ \A d \in issued : d.version \in Nat \ {0}
  /\ current \subseteq issued
  /\ archive \subseteq issued

\* The archive has a document of every version below that of any issued one.
ArchiveCovers ==
  \A d \in issued : \A v \in 1..(d.version - 1) :
    \E a \in archive : a.version = v

\* No two issued documents carry the same version number.
Forkless == \A d, e \in issued : d.version = e.version => d = e

\* Unless two issued documents carry the same version number, every issued
\* document can still be found, as the current one or in the archive.
NoLossWithoutFork == Forkless => issued = archive \union current

=============================================================================
