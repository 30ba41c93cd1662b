----------------------------- MODULE RecordLog ------------------------------
(***************************************************************************)
(* What a node's writer promises (docstring of Writer in                   *)
(* ceres/__internal__/database/writer.py): entities are accepted in order, *)
(* stay its responsibility until the database holds them, and are given up *)
(* oldest first; subscribers hear of them exactly then.                    *)
(***************************************************************************)
EXTENDS Naturals

VARIABLES
  added,     \* number of entities accepted
  retired,   \* the entities 1..retired are no longer the writer's concern
  stored,    \* entities the database holds
  notified   \* entities subscribers were told of

logvars == <<added, retired, stored, notified>>

Init ==
  /\ added = 0
  /\ retired = 0
  /\ stored = {}
  /\ notified = {}

\* An entity is accepted.
Accept ==
  /\ added' = added + 1
  /\ UNCHANGED <<retired, stored, notified>>

\* A write, complete or partial, of entities not yet given up.
Write ==
  /\ stored \subseteq stored'
  /\ \A e \in stored' \ stored : e > retired /\ e <= added
  /\ UNCHANGED <<added, retired, notified>>

\* The oldest entities are given up: the database holds them, and subscribers hear of
\* exactly these.
Retire ==
  /\ retired' > retired
  /\ retired' <= added
  /\ (retired + 1)..retired' \subseteq stored
  /\ notified' = notified \cup (retired + 1)..retired'
  /\ UNCHANGED <<added, stored>>

Next == Accept \/ Write \/ Retire

Spec == Init /\ [][Next]_logvars
=============================================================================
