----------------------------- MODULE MCRecordStore -----------------------------
(* Instances of RecordStore for TLC. *)
EXTENDS RecordStore

Symmetry == Permutations(Copies) \union Permutations(Loaders)
              \union Permutations(Clients)
=============================================================================
