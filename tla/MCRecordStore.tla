--------------------------- MODULE MCRecordStore ---------------------------
(***************************************************************************)
(* Constants and symmetry for checking RecordStore with TLC: one proposal  *)
(* for each id, and the claims of one bring an event along that names a    *)
(* state the relationship does not have.                                   *)
(***************************************************************************)
EXTENDS RecordStore, TLC

CONSTANT r1

SomeProposals ==
  {[id |-> id, events |-> IF id = r1 THEN <<<<"accepted", "revoked">>>> ELSE <<>>] :
     id \in Relationship}

Symmetry == Permutations(Handler)

=============================================================================
