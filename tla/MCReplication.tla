--------------------------- MODULE MCReplication ---------------------------
(***************************************************************************)
(* Constants and symmetry for checking Replication with TLC: records that  *)
(* are public, granted to the peer, or granted to others.                  *)
(***************************************************************************)
EXTENDS Replication, TLC

CONSTANT p1

Public == [visibility |-> "public", allowed |-> {}]

GrantedTo(peers) == [visibility |-> "restricted", allowed |-> peers]

\* The last policy grants access to nodes outside Peer only.
Policies == {Public, GrantedTo({p1}), GrantedTo({})}

Symmetry == Permutations(Task)

=============================================================================
