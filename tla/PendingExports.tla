--------------------------- MODULE PendingExports ---------------------------
(***************************************************************************)
(* Exports of loaded records: `ceres ... load --export` (export_loaded,    *)
(* rust/ceres-cli/src/commands/exports.rs) hands what it loaded to the     *)
(* running engine or leaves it in a file; the engine                       *)
(* (drain_pending_exports and export_pending,                              *)
(* ceres/__internal__/pending_exports.py; Engine.export_loaded,            *)
(* ceres/engine.py) exports it, and may stop or crash at any await.        *)
(*                                                                         *)
(* Two processes and a directory.  A load has one entry.  The files are    *)
(* pending-exports.jsonl ("pending") and pending-exports.processing        *)
(* ("claimed"); an open descriptor follows its file through the rename.    *)
(***************************************************************************)
EXTENDS FiniteSets

CONSTANTS Load, Nothing

VARIABLES
  load,      \* where each load is: start, offline, open, written, handed or failed
  handle,    \* the file each open load appends to: pending, claimed, or Nothing if unlinked
  there,     \* the files that exist
  pending,   \* the entries of the pending file
  claimed,   \* the entries of the claimed file
  engine,    \* down, up (answering, started) or stopping
  drain,     \* where drain_pending_exports is
  batch,     \* the entries it has read
  queue,     \* the entries handed over and not yet exported
  exported,  \* the entries whose exporters have run
  owed       \* the entries that were in a file when the engine started

exportVars == <<load, handle, there, pending, claimed, engine, drain, batch, queue, exported, owed>>
files == <<there, pending, claimed, handle>>

Loads == {"start", "offline", "open", "written", "handed", "failed"}
Drains == {"idle", "claimed", "pending", "rename", "read", "reread", "run", "rerun"}

ExportsInit ==
  /\ load = [l \in Load |-> "start"]
  /\ handle = [l \in Load |-> Nothing]
  /\ there = {}
  /\ pending = {}
  /\ claimed = {}
  /\ engine = "down"
  /\ drain = "idle"
  /\ batch = {}
  /\ queue = {}
  /\ exported = {}
  /\ owed = {}
-----------------------------------------------------------------------------
\* export_loaded in the CLI: an engine that answers gets the entries ...
Hand(l) ==
  /\ load[l] = "start"
  /\ engine # "down"
  /\ load' = [load EXCEPT ![l] = "handed"]
  /\ queue' = queue \cup {l}
  /\ UNCHANGED <<files, engine, drain, batch, exported, owed>>

\* ... an error of the request fails the command ...
HandFails(l) ==
  /\ load[l] = "start"
  /\ load' = [load EXCEPT ![l] = "failed"]
  /\ UNCHANGED <<files, engine, drain, batch, queue, exported, owed>>

\* ... and without one, or when it does not answer in time, the file does.
Offline(l) ==
  /\ load[l] = "start"
  /\ load' = [load EXCEPT ![l] = "offline"]
  /\ UNCHANGED <<files, engine, drain, batch, queue, exported, owed>>

\* OpenOptions::create.append.open, then write_all.
Open(l) ==
  /\ load[l] = "offline"
  /\ load' = [load EXCEPT ![l] = "open"]
  /\ there' = there \cup {"pending"}
  /\ handle' = [handle EXCEPT ![l] = "pending"]
  /\ UNCHANGED <<pending, claimed, engine, drain, batch, queue, exported, owed>>

Write(l) ==
  /\ load[l] = "open"
  /\ load' = [load EXCEPT ![l] = "written"]
  /\ pending' = IF handle[l] = "pending" THEN pending \cup {l} ELSE pending
  /\ claimed' = IF handle[l] = "claimed" THEN claimed \cup {l} ELSE claimed
  /\ handle' = [handle EXCEPT ![l] = Nothing]
  /\ UNCHANGED <<there, engine, drain, batch, queue, exported, owed>>
-----------------------------------------------------------------------------
\* Engine.__run__ has started the components, sets _started and starts the drain.
EngineStarts ==
  /\ engine = "down"
  /\ engine' = "up"
  /\ drain' = "claimed"
  /\ owed' = (pending \cup claimed) \ exported
  /\ UNCHANGED <<load, files, batch, queue, exported>>

\* One source of the drain's loop: if it exists, rename it (the pending file), read it,
\* run its entries, unlink it.
CheckClaimed ==
  /\ drain = "claimed"
  /\ drain' = IF "claimed" \in there THEN "reread" ELSE "pending"
  /\ UNCHANGED <<load, files, engine, batch, queue, exported, owed>>

CheckPending ==
  /\ drain = "pending"
  /\ drain' = IF "pending" \in there THEN "rename" ELSE "idle"
  /\ UNCHANGED <<load, files, engine, batch, queue, exported, owed>>

RenameFile ==
  /\ drain = "rename"
  /\ drain' = "read"
  /\ claimed' = pending
  /\ pending' = {}
  /\ there' = {"claimed"}
  /\ handle' = [l \in Load |-> IF handle[l] = "pending" THEN "claimed" ELSE handle[l]]
  /\ UNCHANGED <<load, engine, batch, queue, exported, owed>>

Read ==
  /\ drain \in {"read", "reread"}
  /\ drain' = IF drain = "read" THEN "run" ELSE "rerun"
  /\ batch' = claimed
  /\ UNCHANGED <<load, files, engine, queue, exported, owed>>

\* export_pending: the run of an entry ends, with or without an exception; after the
\* last one the file is unlinked.
RunEntry(l) ==
  /\ drain \in {"run", "rerun"}
  /\ l \in batch
  /\ batch' = batch \ {l}
  /\ exported' = exported \cup {l}
  /\ UNCHANGED <<load, files, engine, drain, queue, owed>>

UnlinkEarly ==
  /\ drain \in {"run", "rerun"}
  /\ drain' = IF drain = "run" THEN "idle" ELSE "pending"
  /\ claimed' = {}
  /\ there' = there \ {"claimed"}
  /\ handle' = [l \in Load |-> IF handle[l] = "claimed" THEN Nothing ELSE handle[l]]
  /\ UNCHANGED <<load, pending, engine, batch, queue, exported, owed>>

UnlinkLast ==
  /\ drain \in {"run", "rerun"}
  /\ batch = {}
  /\ drain' = "idle"
  /\ claimed' = {}
  /\ there' = there \ {"claimed"}
  /\ handle' = [l \in Load |-> IF handle[l] = "claimed" THEN Nothing ELSE handle[l]]
  /\ UNCHANGED <<load, pending, engine, batch, queue, exported, owed>>

Unlink ==
  /\ drain \in {"run", "rerun"}
  /\ batch = {}
  /\ drain' = IF drain = "run" THEN "idle" ELSE "pending"
  /\ claimed' = {}
  /\ there' = there \ {"claimed"}
  /\ handle' = [l \in Load |-> IF handle[l] = "claimed" THEN Nothing ELSE handle[l]]
  /\ UNCHANGED <<load, pending, engine, batch, queue, exported, owed>>

\* __export_started: the entries of a request, once the engine has started.
ExportHanded(l) ==
  /\ engine = "up"
  /\ l \in queue
  /\ queue' = queue \ {l}
  /\ exported' = exported \cup {l}
  /\ UNCHANGED <<load, files, engine, drain, batch, owed>>

\* Engine.__stop__ clears _started and cancels the export tasks; the server still
\* answers.
EngineStops ==
  /\ engine = "up"
  /\ engine' = "stopping"
  /\ drain' = "idle"
  /\ batch' = {}
  /\ queue' = {}
  /\ owed' = {}
  /\ UNCHANGED <<load, files, exported>>

\* The process ends, or crashes: what it held in memory is gone.
EngineDown ==
  /\ engine # "down"
  /\ engine' = "down"
  /\ drain' = "idle"
  /\ batch' = {}
  /\ queue' = {}
  /\ owed' = {}
  /\ UNCHANGED <<load, files, exported>>

Drain ==
  \/ CheckClaimed \/ CheckPending \/ Read \/ Unlink
  \/ \E l \in Load : RunEntry(l)

Others ==
  \/ EngineStarts \/ EngineStops \/ EngineDown \/ Drain
  \/ \E l \in Load :
       Hand(l) \/ HandFails(l) \/ Offline(l) \/ Open(l) \/ Write(l) \/ ExportHanded(l)

ExportsNext == Others \/ RenameFile

ExportsSpec == ExportsInit /\ [][ExportsNext]_exportVars

\* No rename falls between a load's open and its write.
QuietRename == RenameFile /\ \A l \in Load : load[l] # "open"

NextQuiet == Others \/ QuietRename

QuietSpec == ExportsInit /\ [][NextQuiet]_exportVars

\* The drain goes on and loads that have the file open write; the engine may go down
\* at any time and need not come back.
FairQuietSpec ==
  /\ QuietSpec
  /\ WF_exportVars(Drain \/ QuietRename)
  /\ \A l \in Load : WF_exportVars(Write(l))
-----------------------------------------------------------------------------
ExportsTypeOK ==
  /\ load \in [Load -> Loads]
  /\ handle \in [Load -> {"pending", "claimed", Nothing}]
  /\ there \subseteq {"pending", "claimed"}
  /\ pending \subseteq Load /\ claimed \subseteq Load
  /\ engine \in {"down", "up", "stopping"}
  /\ drain \in Drains
  /\ batch \subseteq Load /\ queue \subseteq Load /\ exported \subseteq Load /\ owed \subseteq Load

\* "The file is renamed before it is read, so a load appending meanwhile starts a new
\* one, and removed once every entry has run." (drain_pending_exports): what a load
\* left in a file is exported or still in a file, whenever the engine stops or crashes.
LeftIsKept ==
  \A l \in Load : load[l] = "written" =>
    l \in exported \cup pending \cup claimed

\* "and the engine exports them when it next starts" (docs/exporters.md): the engine
\* that starts exports what was in the files, unless it goes down.
NextStartExports == \A l \in Load : l \in owed ~> l \in exported \/ engine # "up"
=============================================================================
