------------------------------- MODULE Writer -------------------------------
(***************************************************************************)
(* The record writer of a node (ceres/__internal__/database/writer.py) and *)
(* the loop that drives it (Node.__process_flush in ceres/node.py).        *)
(*                                                                         *)
(* Entities are numbered in the order in which they are added, so the      *)
(* n-th call of Writer.add adds entity n.  A Flush object is a member of   *)
(* Flush; the object is reused once nothing refers to it any more.  A call *)
(* of Writer.flush is identified with its Flush object, also when the call *)
(* finds the buffer empty and only waits for the flush before it.          *)
(*                                                                         *)
(* All steps run on one event loop: an action is what the code does        *)
(* between two awaits.                                                     *)
(***************************************************************************)
EXTENDS Integers, Sequences, FiniteSets

CONSTANTS
  Flush,      \* Flush objects
  Typed,      \* entities the native engine does not hold (typed particle data)
  MaxEntity,  \* bound: number of entities added
  NoFlush     \* None, for no previous flush

ASSUME ConstantsAssumption ==
  /\ MaxEntity \in Nat
  /\ Typed \subseteq Nat
  /\ NoFlush \notin Flush

VARIABLES
  buffer,    \* Writer._buffer
  flushes,   \* Writer._flushes, a deque of Flush objects
  entities,  \* Flush.entities of every Flush object
  event,     \* the Flush objects whose event is set
  settled,   \* Writer._settled
  pc,        \* where each flush() call stands
  previous,  \* the local variable `previous` of each flush() call
  batch,     \* the entities handed to the database by each flush() call
  stored,    \* the entities the database holds
  notified,  \* the entities subscribers were told were written
  added,     \* number of entities added so far
  before     \* history: value of `added` when each flush() call began

vars == <<buffer, flushes, entities, event, settled, pc, previous, batch,
          stored, notified, added, before>>

Range(s) == {s[i] : i \in DOMAIN s}

\* wait: awaiting previous.event with entities of its own; join: awaiting it
\* with none; write: awaiting the database; committed: the database holds the
\* batch and the call has not resumed yet.
PCs == {"idle", "join", "wait", "write", "committed",
        "returned", "raised", "cancelled"}
Active == {"join", "wait", "write", "committed"}
Ended == {"returned", "raised", "cancelled"}

Init ==
  /\ buffer = <<>>
  /\ flushes = <<>>
  /\ entities = [f \in Flush |-> <<>>]
  /\ event = {}
  /\ settled = TRUE
  /\ pc = [f \in Flush |-> "idle"]
  /\ previous = [f \in Flush |-> NoFlush]
  /\ batch = [f \in Flush |-> <<>>]
  /\ stored = {}
  /\ notified = {}
  /\ added = 0
  /\ before = [f \in Flush |-> 0]
-----------------------------------------------------------------------------
\* Writer.add
Unsettle == settled' = FALSE

Add ==
  /\ added < MaxEntity
  /\ added' = added + 1
  /\ buffer' = Append(buffer, added + 1)
  /\ Unsettle
  /\ UNCHANGED <<flushes, entities, event, pc, previous, batch, stored,
                 notified, before>>

\* The flush a new call waits for: `self._flushes[-1] if self._flushes else None`.
LastFlush == IF flushes = <<>> THEN NoFlush ELSE flushes[Len(flushes)]

\* flush() with an empty buffer: waits for the last flush, or returns at once.
CallEmpty(f) ==
  /\ pc[f] = "idle"
  /\ buffer = <<>>
  /\ before' = [before EXCEPT ![f] = added]
  /\ previous' = [previous EXCEPT ![f] = LastFlush]
  /\ pc' = [pc EXCEPT ![f] = IF LastFlush = NoFlush THEN "returned" ELSE "join"]
  /\ UNCHANGED <<buffer, flushes, entities, event, settled, batch, stored,
                 notified, added>>

\* flush() with entities to write: takes the buffer and joins the queue; with no
\* flush before it, it runs on to the write without a suspension.
CallRegister(f) ==
  /\ pc[f] = "idle"
  /\ buffer # <<>>
  /\ before' = [before EXCEPT ![f] = added]
  /\ previous' = [previous EXCEPT ![f] = LastFlush]
  /\ entities' = [entities EXCEPT ![f] = buffer]
  /\ buffer' = <<>>
  /\ flushes' = Append(flushes, f)
  /\ IF LastFlush = NoFlush
       THEN /\ pc' = [pc EXCEPT ![f] = "write"]
            /\ batch' = [batch EXCEPT ![f] = buffer]
       ELSE /\ pc' = [pc EXCEPT ![f] = "wait"]
            /\ UNCHANGED batch
  /\ UNCHANGED <<event, settled, stored, notified, added>>

\* A flush() call of any owner: a stopping component, a stopping engine, a playback.
Call(f) == CallEmpty(f) \/ CallRegister(f)

\* Node.__process_flush flushes when no flush is in progress and something is queued.
LoopFlush(f) == flushes = <<>> /\ CallRegister(f)
-----------------------------------------------------------------------------
\* previous.event.wait() returns; _write_natively groups the entities it is given
\* now, so what is put into Flush.entities later is not part of the write.
Proceed(f) ==
  /\ pc[f] = "wait"
  /\ previous[f] \in event
  /\ pc' = [pc EXCEPT ![f] = "write"]
  /\ batch' = [batch EXCEPT ![f] = entities[f]]
  /\ UNCHANGED <<buffer, flushes, entities, event, settled, previous, stored,
                 notified, added, before>>

JoinReturn(f) ==
  /\ pc[f] = "join"
  /\ previous[f] \in event
  /\ pc' = [pc EXCEPT ![f] = "returned"]
  /\ UNCHANGED <<buffer, flushes, entities, event, settled, previous, batch,
                 stored, notified, added, before>>

\* The transaction (or the last upsert) commits; the call resumes later.
Commit(f) ==
  /\ pc[f] = "write"
  /\ stored' = stored \cup Range(batch[f])
  /\ pc' = [pc EXCEPT ![f] = "committed"]
  /\ UNCHANGED <<buffer, flushes, entities, event, settled, previous, batch,
                 notified, added, before>>

\* What a failing write may leave in the database.  A flush of native records is one
\* transaction; the query layer upserts one entity after another.  The answer to a
\* commit may also be lost.
Leftover(f) ==
  IF pc[f] = "write" /\ Range(batch[f]) \cap Typed # {}
    THEN SUBSET Range(batch[f])
    ELSE {{}}

\* The `finally` of flush(): set the event, drop the head of the queue, and set the
\* settled event when nothing is left.
Settle(f, buf) == settled' = (settled \/ (buf = <<>> /\ Tail(flushes) = <<>>))

Finish(f, buf) ==
  /\ event' = event \cup {f}
  /\ flushes' = Tail(flushes)
  /\ Settle(f, buf)

Succeed(f) ==
  /\ pc[f] = "committed"
  /\ notified' = notified \cup Range(entities[f])
  /\ Finish(f, buffer)
  /\ pc' = [pc EXCEPT ![f] = "returned"]
  /\ UNCHANGED <<buffer, entities, previous, batch, stored, added, before>>

RequeueNothing(f) == UNCHANGED <<entities, buffer>>

RequeueBehind(f) ==
  IF Len(flushes) > 1
    THEN /\ entities' = [entities EXCEPT ![flushes[2]] = @ \o entities[f]]
         /\ UNCHANGED buffer
    ELSE /\ buffer' = buffer \o entities[f]
         /\ UNCHANGED entities

RequeueBuffer(f) ==
  /\ buffer' = entities[f] \o buffer
  /\ UNCHANGED entities

\* A failed flush puts its entities in front of the next pending flush, or in front of
\* the buffer when it is the only one.
Requeue(f) ==
  IF Len(flushes) > 1
    THEN /\ entities' = [entities EXCEPT ![flushes[2]] = entities[f] \o @]
         /\ UNCHANGED buffer
    ELSE /\ buffer' = entities[f] \o buffer
         /\ UNCHANGED entities

Fail(f) ==
  /\ pc[f] \in {"write", "committed"}
  /\ \E left \in Leftover(f) : stored' = stored \cup left
  /\ Requeue(f)
  /\ Finish(f, buffer')
  /\ pc' = [pc EXCEPT ![f] = "raised"]
  /\ UNCHANGED <<previous, batch, notified, added, before>>

\* The flush() coroutine is cancelled: not a write failure, so only `finally` runs.
\* A write in progress may or may not have reached the database.
Cancel(f) ==
  /\ pc[f] \in Active
  /\ pc' = [pc EXCEPT ![f] = "cancelled"]
  /\ \E left \in Leftover(f) : stored' = stored \cup left
  /\ \/ /\ pc[f] = "join"
        /\ UNCHANGED <<flushes, event, settled>>
     \/ /\ pc[f] # "join"
        /\ Finish(f, buffer)
  /\ UNCHANGED <<buffer, entities, previous, batch, notified, added, before>>

\* A Flush object that nothing refers to is garbage and stands for a new one.
Collect(f) ==
  /\ pc[f] \in Ended
  /\ f \notin Range(flushes)
  /\ \A g \in Flush : pc[g] \in {"wait", "join"} => previous[g] # f
  /\ pc' = [pc EXCEPT ![f] = "idle"]
  /\ event' = event \ {f}
  /\ entities' = [entities EXCEPT ![f] = <<>>]
  /\ batch' = [batch EXCEPT ![f] = <<>>]
  /\ previous' = [previous EXCEPT ![f] = NoFlush]
  /\ before' = [before EXCEPT ![f] = 0]
  /\ UNCHANGED <<buffer, flushes, settled, stored, notified, added>>
-----------------------------------------------------------------------------
Step(f) ==
  \/ Call(f) \/ LoopFlush(f) \/ Proceed(f) \/ JoinReturn(f)
  \/ Commit(f) \/ Succeed(f) \/ Fail(f) \/ Collect(f)

Next == Add \/ \E f \in Flush : Step(f)

Spec == Init /\ [][Next]_vars

NextCancel == Next \/ \E f \in Flush : Cancel(f)
SpecCancel == Init /\ [][NextCancel]_vars
-----------------------------------------------------------------------------
(* Fairness: the event loop resumes every call whose event is set, the node's loop *)
(* flushes again after a failure, and a database that is tried again and again     *)
(* takes the write in the end (it is not down for ever).                           *)
Fairness ==
  /\ WF_vars(\E f \in Flush : LoopFlush(f))
  /\ \A f \in Flush :
       /\ WF_vars(Proceed(f) \/ JoinReturn(f))
       /\ WF_vars(Commit(f) \/ Succeed(f) \/ Fail(f))
       /\ WF_vars(Collect(f))
  /\ SF_vars(\E f \in Flush : Commit(f))
  /\ SF_vars(\E f \in Flush : Succeed(f))

FairSpec == Spec /\ Fairness
-----------------------------------------------------------------------------
TypeOK ==
  /\ buffer \in Seq(1..MaxEntity)
  /\ flushes \in Seq(Flush)
  /\ entities \in [Flush -> Seq(1..MaxEntity)]
  /\ event \subseteq Flush
  /\ settled \in BOOLEAN
  /\ pc \in [Flush -> PCs]
  /\ previous \in [Flush -> Flush \cup {NoFlush}]
  /\ batch \in [Flush -> Seq(1..MaxEntity)]
  /\ stored \subseteq 1..MaxEntity
  /\ notified \subseteq 1..MaxEntity
  /\ added \in 0..MaxEntity
  /\ before \in [Flush -> 0..MaxEntity]

\* The entities that still wait to be written, in the buffer or in a queued flush.
InFlush(e) == \E i \in DOMAIN flushes : e \in Range(entities[flushes[i]])
Queued(e) == e \in Range(buffer) \/ InFlush(e)

\* "so no data is lost" (Writer): whatever writes failed and however flushes
\* overlapped, every entity added is still queued or in the database.
NoDataLost == \A e \in 1..added : e \in stored \/ Queued(e)

\* "a sequential flush queue so that writes happen in order" (Writer): at most one
\* flush writes at a time, and nothing older than what it writes is still queued
\* elsewhere.
WritesInOrder ==
  \A f \in Flush : pc[f] \in {"write", "committed"} =>
    /\ \A g \in Flush : pc[g] \in {"write", "committed"} => g = f
    /\ \A e \in Range(batch[f]), d \in 1..added :
         d < e /\ Queued(d) => d \in Range(batch[f])

\* Subscribers are told of a record only once the database holds it
\* (Writer.subscribe, "the records each successful flush writes").
NotifiedStored == notified \subseteq stored

\* settle() and Node.settle rely on the settled event being set exactly when nothing
\* is buffered or being flushed.
SettledExact == settled <=> buffer = <<>> /\ flushes = <<>>

\* A flush() that had entities of its own and returned has made everything added
\* before the call durable, what earlier failed flushes handed on to it included.
FlushDurable ==
  \A f \in Flush : pc[f] = "returned" /\ batch[f] # <<>> => 1..before[f] \subseteq stored

\* Every entity added reaches the database if the database is not down for ever.
EventuallyStored == \A e \in 1..MaxEntity : e <= added ~> e \in stored

(* The number of entities the writer is done with: the oldest queued one minus 1.  *)
Retired ==
  IF flushes # <<>> THEN entities[flushes[1]][1] - 1
  ELSE IF buffer # <<>> THEN buffer[1] - 1
  ELSE added

Log == INSTANCE RecordLog WITH retired <- Retired

\* The writer implements the log it promises: entities leave the queue in the order
\* in which they were added, and only when the database holds them.
ImplementsLog == Log!Spec
=============================================================================
