---------------------------- MODULE MCFragments ----------------------------
(***************************************************************************)
(* Constants and symmetry for checking Fragments with TLC.                 *)
(***************************************************************************)
EXTENDS Fragments, TLC

CONSTANTS a, p, u1, u2, c1, c2

\* Two shares of two, and a fragment for each.
Layouts ==
  {[fragments |-> 2, shares |-> 2, threshold |-> 2,
    size |-> [i \in 0..1 |-> 2], manifest |-> 1, share |-> 1]}

\* Room for one fragment, but not for the manifest and the share beside it.
RoomForOne == [n \in Node |-> IF n = p THEN 3 ELSE 0]

Symmetry == Permutations(Upload) \union Permutations(Content)

=============================================================================
