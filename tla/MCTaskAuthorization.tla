-------------------------- MODULE MCTaskAuthorization --------------------------
(* Small instances of TaskAuthorization for TLC.                           *)
EXTENDS TaskAuthorization, TLC

(* Threads derived from a source_ref move with it.                         *)
AuthorizationSymmetry ==
    Permutations(Requests) \cup Permutations(Refs) \cup Permutations(Explicit)
=============================================================================
