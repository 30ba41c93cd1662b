----------------------------- MODULE MCRoutines -----------------------------
(* A routine of each policy. *)
EXTENDS Routines

Policies == {"never", "always", "on-completed", "on-exception"}
ItsOwn == [r \in Policies |-> r]
=============================================================================
