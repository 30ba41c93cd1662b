----------------------------- MODULE Components -----------------------------
(* The component systems of a project, and the absence of one. *)
CONSTANTS Component, None
=============================================================================
