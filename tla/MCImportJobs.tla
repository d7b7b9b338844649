---------------------------- MODULE MCImportJobs ----------------------------
(***************************************************************************)
(* Constants and symmetry for checking ImportJobs with TLC: an asset twice *)
(* in one import, a bad row before a good one, an asset of two imports.    *)
(***************************************************************************)
EXTENDS ImportJobs, TLC

CONSTANTS a1, a2

Contents == {<<a1, a1>>, <<Bad, a2, a1>>}

OneRow == {<<a1>>}

Symmetry == Permutations(Handler)

=============================================================================
