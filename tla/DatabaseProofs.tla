--------------------------- MODULE DatabaseProofs ---------------------------
(***************************************************************************)
(* What holds of a project's database for any migrations, files, keys,     *)
(* batches, chunks and number of faults: a migration is recorded with the  *)
(* effect of its script, whoever else runs it, and a select that reports   *)
(* success wrote its whole result.  And what holds of the record store for *)
(* any rows, filters and caps: the live matcher and the SQL select the     *)
(* same records, and a listing by branches misses none.                    *)
(***************************************************************************)
EXTENDS RecordStore, Database, FiniteSetTheorems, SequenceTheorems, WellFoundedInduction, TLAPS

\* A set of numbers that is not empty has a smallest one.
LEMMA SmallestOf ==
  ASSUME NEW T, T \subseteq Nat, T # {}
  PROVE  Min(T) \in T
<1> DEFINE R == OpToRel(<, Nat)
<1>1. IsWellFoundedOn(R, Nat)
  BY NatLessThanWellFounded
<1>2. R = {ss \in Nat \X Nat : ss[1] < ss[2]}
  BY DEF OpToRel
<1> HIDE DEF R
<1>3. \E x \in T : \A y \in T : ~(<<y, x>> \in R)
  BY <1>1, WFMin
<1>4. \A x, y \in T : ~(<<y, x>> \in R) => x <= y
  BY <1>2
<1> QED BY <1>3, <1>4 DEF Min

-----------------------------------------------------------------------------
(* A select and its sink.                                                  *)

\* What is still to be written behind what was: what is held, then the rows to come.
ToCome(d) == d.held \o Lines(d.rows, d.heading)

\* The output is a prefix of the result; while the select goes on, what is held and what
\* is to come make it whole, and nothing is written by a sink that is not open.
Sinking(d, X) ==
  /\ d.rows \in Seq(X) /\ d.held \in Seq(X) /\ d.out \in Seq(X) /\ "head" \in X
  /\ d.heading \in BOOLEAN /\ d.opened \in BOOLEAN
  /\ ~d.opened => d.out = <<>>
  /\ d.pc = "done" \/ d.outcome = "none"
  /\ \/ d.pc = "rest" /\ d.whole = <<>> /\ d.held = <<>> /\ d.out = <<>> /\ ~d.opened
     \/ d.pc = "stream" /\ d.whole = d.out \o ToCome(d)
     \/ /\ d.pc = "resolve" /\ d.whole = d.out \o d.held
     \/ /\ d.pc = "deliver" /\ d.whole = d.held /\ ~d.opened
     \/ /\ d.pc = "done"
        /\ \E t \in Seq(X) : d.whole = d.out \o t
        /\ d.outcome = "ok" => d.out = d.whole \/ d.broke \/ d.lost
        /\ d.outcome = "refused" => ~d.opened

SinkFields ==
  {"pc", "to", "rows", "whole", "heading", "held", "out", "opened", "broke", "lost",
   "outcome"}

SinkInv == DOMAIN dump = SinkFields /\ \E X : Sinking(dump, X)

LEMMA LinesSeq ==
  ASSUME NEW X, "head" \in X, NEW rows \in Seq(X), NEW heading
  PROVE  Lines(rows, heading) \in Seq(X)
<1>1. <<"head">> \in Seq(X) /\ <<>> \in Seq(X)
  OBVIOUS
<1> QED BY <1>1 DEF Lines

\* What is written is always a prefix.
LEMMA SinkPrefix ==
  ASSUME NEW X, Sinking(dump, X)
  PROVE  \E t \in Seq(X) : dump.whole = dump.out \o t
<1>0. <<>> \in Seq(X)
  OBVIOUS
<1>1. CASE dump.pc = "rest"
  <2>1. dump.whole = <<>> /\ dump.out = <<>>
    BY <1>1 DEF Sinking
  <2> QED BY <1>0, <2>1, ConcatEmptySeq
<1>2. CASE dump.pc = "stream"
  <2>1. Lines(dump.rows, dump.heading) \in Seq(X)
    BY LinesSeq DEF Sinking
  <2>2. ToCome(dump) \in Seq(X)
    BY <2>1 DEF ToCome, Sinking
  <2> QED BY <1>2, <2>2 DEF Sinking
<1>3. CASE dump.pc = "resolve"
  BY <1>3 DEF Sinking
<1>4. CASE dump.pc = "deliver"
  <2>1. dump.whole = dump.held /\ dump.out = <<>> /\ dump.held \in Seq(X)
    BY <1>4 DEF Sinking
  <2> QED BY <2>1, ConcatEmptySeq
<1>5. CASE dump.pc = "done"
  BY <1>5 DEF Sinking
<1> QED BY <1>1, <1>2, <1>3, <1>4, <1>5 DEF Sinking

LEMMA SinkWhole == SinkInv => DumpWhole
<1> SUFFICES ASSUME NEW X, Sinking(dump, X) PROVE DumpWhole
  BY DEF SinkInv
<1>1. \E t \in Seq(X) : dump.whole = dump.out \o t
  BY SinkPrefix
<1>2. PICK t \in Seq(X) : dump.whole = dump.out \o t
  BY <1>1
<1>3. dump.out \in Seq(X)
  BY DEF Sinking
<1>4. Len(dump.out) <= Len(dump.whole) /\ dump.out = SubSeq(dump.whole, 1, Len(dump.out))
  BY <1>2, <1>3
<1>5. dump.outcome = "ok" => dump.out = dump.whole \/ dump.broke \/ dump.lost
  BY DEF Sinking
<1>6. dump.outcome = "refused" => ~dump.opened /\ dump.out = <<>>
  BY DEF Sinking
<1> QED BY <1>4, <1>5, <1>6 DEF DumpWhole

\* A write that succeeds, fails, or finds its reader gone.
LEMMA WrittenKeeps ==
  ASSUME NEW X, Sinking(dump, X), DOMAIN dump = SinkFields, dump.pc # "done",
         NEW lines, NEW next, Written(dump, lines, next),
         LET new == [next EXCEPT !.out = dump.out \o lines, !.opened = TRUE]
         IN DOMAIN new = SinkFields /\ Sinking(new, X)
  PROVE  SinkInv'
<1>1. \E t \in Seq(X) : dump.whole = dump.out \o t
  BY SinkPrefix
<1>2. CASE dump' = [next EXCEPT !.out = dump.out \o lines, !.opened = TRUE]
  BY <1>2 DEF SinkInv
<1>3. CASE dump' = Resolved(dump, "failed")
  <2>1. DOMAIN dump' = SinkFields /\ Sinking(dump', X)
    BY <1>1, <1>3 DEF Resolved, Sinking, SinkFields
  <2> QED BY <2>1 DEF SinkInv
<1>4. CASE dump' = Resolved([dump EXCEPT !.opened = TRUE], "failed")
  <2>1. DOMAIN dump' = SinkFields /\ Sinking(dump', X)
    BY <1>1, <1>4 DEF Resolved, Sinking, SinkFields
  <2> QED BY <2>1 DEF SinkInv
<1>5. CASE dump' = Resolved([dump EXCEPT !.opened = TRUE, !.broke = TRUE], "ok")
  <2>1. DOMAIN dump' = SinkFields /\ Sinking(dump', X)
    BY <1>1, <1>5 DEF Resolved, Sinking, SinkFields
  <2> QED BY <2>1 DEF SinkInv
<1> QED BY <1>2, <1>3, <1>4, <1>5 DEF Written

LEMMA OrderedSeq ==
  ASSUME NEW S, IsFiniteSet(S)
  PROVE  \E X : "head" \in X /\ Ordered(S) \in Seq(X)
<1> DEFINE keys == Ordered(S)
           X == {keys[i] : i \in 1..Cardinality(S)} \cup {"head"}
<1>1. Cardinality(S) \in Nat
  BY FS_CardinalityType
<1>2. keys = [i \in 1..Cardinality(S) |-> keys[i]]
  BY DEF Ordered
<1> HIDE DEF keys
<1>3. keys \in Seq(X)
  BY <1>1, <1>2
<1> QED BY <1>3 DEF keys

LEMMA SelectStarts ==
  ASSUME SinkInv, NEW to, NEW header \in BOOLEAN, StartSelect(to, header)
  PROVE  SinkInv'
<1> DEFINE S == {k \in Key : db[<<0, k>>] # NoRow}
           keys == Ordered(S)
           new == [dump EXCEPT !.pc = "stream", !.to = to, !.heading = header,
                               !.rows = keys, !.whole = Lines(keys, header)]
<1>1. IsFiniteSet(S)
  BY FS_Subset, ConstantsAssumption
<1>2. dump' = new /\ dump.pc = "rest"
  BY DEF StartSelect
<1> HIDE DEF S
<1>3. PICK X : "head" \in X /\ keys \in Seq(X)
  BY <1>1, OrderedSeq
<1>4. /\ DOMAIN dump = SinkFields /\ dump.held = <<>> /\ dump.out = <<>>
      /\ ~dump.opened /\ dump.opened \in BOOLEAN /\ dump.outcome = "none"
  BY <1>2 DEF SinkInv, Sinking
<1> HIDE DEF keys
<1>5. Lines(keys, header) \in Seq(X)
  BY <1>3, LinesSeq
<1>6. <<>> \o (<<>> \o Lines(keys, header)) = Lines(keys, header)
  BY <1>5, ConcatEmptySeq
<1>7. <<>> \in Seq(X)
  OBVIOUS
<1>8. DOMAIN new = SinkFields /\ Sinking(new, X)
  BY <1>3, <1>4, <1>6, <1>7 DEF Sinking, SinkFields, ToCome
<1> QED BY <1>2, <1>8 DEF SinkInv

\* Behind a chunk: the result is what is out, what is held and the rows that are left.
LEMMA ChunkLeft ==
  ASSUME NEW X, "head" \in X, NEW d, NEW rest \in Seq(X),
         d.rows = rest, d.heading = FALSE, d.out \in Seq(X), d.held \in Seq(X),
         d.opened \in BOOLEAN, ~d.opened => d.out = <<>>, d.outcome = "none",
         d.pc = IF rest = <<>> THEN "resolve" ELSE "stream",
         d.whole = d.out \o (d.held \o rest)
  PROVE  Sinking(d, X)
<1>1. CASE rest = <<>>
  <2>1. d.held \o rest = d.held
    BY <1>1, ConcatEmptySeq
  <2> QED BY <1>1, <2>1 DEF Sinking
<1>2. CASE rest # <<>>
  <2>1. Lines(rest, FALSE) = rest
    BY ConcatEmptySeq DEF Lines
  <2>2. ToCome(d) = d.held \o rest
    BY <2>1 DEF ToCome
  <2> QED BY <1>2, <2>2 DEF Sinking
<1> QED BY <1>1, <1>2

LEMMA ChunkKeeps ==
  ASSUME SinkInv, Chunk
  PROVE  SinkInv'
<1> PICK X : Sinking(dump, X)
  BY DEF SinkInv
<1> DEFINE n == IF Len(dump.rows) < CHUNK THEN Len(dump.rows) ELSE CHUNK
           taken == SubSeq(dump.rows, 1, n)
           lines == Lines(taken, dump.heading)
           rest == SubSeq(dump.rows, n + 1, Len(dump.rows))
           next == [dump EXCEPT !.rows = rest, !.heading = FALSE,
                                !.pc = IF rest = <<>> THEN "resolve" ELSE "stream"]
<1>1. /\ DOMAIN dump = SinkFields /\ dump.pc = "stream" /\ "head" \in X
      /\ dump.rows \in Seq(X) /\ dump.held \in Seq(X) /\ dump.out \in Seq(X)
      /\ dump.opened \in BOOLEAN /\ (~dump.opened => dump.out = <<>>)
      /\ dump.outcome = "none" /\ dump.whole = dump.out \o ToCome(dump)
  BY DEF SinkInv, Sinking, Chunk
<1>2. n \in 0..Len(dump.rows) /\ n \in Nat
  BY <1>1, ConstantsAssumption
<1>3. \/ Push(dump, lines, next)
      \/ dump' = Resolved(dump, IF dump.opened THEN "failed" ELSE "refused")
  BY DEF Chunk
<1> HIDE DEF n
<1>4. taken \in Seq(X) /\ rest \in Seq(X)
  BY <1>1, <1>2
<1>5. dump.rows = taken \o rest
  <2>1. taken \o rest = SubSeq(dump.rows, 1, Len(dump.rows))
    <3>1. 1 \in 1..Len(dump.rows) + 1 /\ n \in (1 - 1)..Len(dump.rows)
          /\ Len(dump.rows) \in n..Len(dump.rows)
      BY <1>1, <1>2
    <3> QED BY <1>1, <3>1, ConcatAdjacentSubSeq, Zenon
  <2> QED BY <1>1, <2>1, SubSeqFull
<1> HIDE DEF taken, rest
<1>6. lines \in Seq(X)
  BY <1>1, <1>4, LinesSeq
<1>7. Lines(dump.rows, dump.heading) = lines \o rest
  <2>1. <<"head">> \in Seq(X) /\ <<>> \in Seq(X)
    BY <1>1
  <2>2. <<"head">> \o (taken \o rest) = (<<"head">> \o taken) \o rest
    BY <1>4, <2>1, ConcatAssociative
  <2>3. <<>> \o (taken \o rest) = (<<>> \o taken) \o rest
    BY <1>4, <2>1, ConcatAssociative
  <2> QED BY <1>5, <2>2, <2>3 DEF Lines
<1> HIDE DEF lines
<1>8. dump.whole = dump.out \o (dump.held \o (lines \o rest))
  BY <1>1, <1>7 DEF ToCome
<1>9. CASE dump.to = "table" /\ Push(dump, lines, next)
  <2> DEFINE new == [next EXCEPT !.held = @ \o lines]
  <2>1. dump' = new
    BY <1>9 DEF Push
  <2>2. (dump.held \o lines) \o rest = dump.held \o (lines \o rest)
    <3> DEFINE a == dump.held
    <3>1. a \in Seq(X)
      BY <1>1
    <3> HIDE DEF a
    <3>2. (a \o lines) \o rest = a \o (lines \o rest)
      BY <1>4, <1>6, <3>1, ConcatAssociative
    <3> QED BY <3>2 DEF a
  <2>3. dump.held \o lines \in Seq(X)
    BY <1>1, <1>6
  <2>4. /\ DOMAIN new = SinkFields /\ new.rows = rest /\ new.heading = FALSE
        /\ new.out = dump.out /\ new.held = dump.held \o lines
        /\ new.opened = dump.opened /\ new.outcome = "none" /\ new.whole = dump.whole
        /\ new.pc = IF rest = <<>> THEN "resolve" ELSE "stream"
    BY <1>1 DEF SinkFields
  <2> HIDE DEF new, next
  <2>5. Sinking(new, X)
    BY <1>1, <1>4, <1>8, <2>2, <2>3, <2>4, ChunkLeft
  <2> QED BY <2>1, <2>4, <2>5 DEF SinkInv
<1>10. CASE dump.to # "table" /\ dump.held = <<>> /\ ~dump.opened /\ Push(dump, lines, next)
  <2> DEFINE new == [next EXCEPT !.held = lines]
  <2>1. dump' = new
    BY <1>10 DEF Push
  <2>2. dump.held \o (lines \o rest) = lines \o rest
    <3>1. lines \o rest \in Seq(X)
      BY <1>4, <1>6
    <3> QED BY <1>10, <3>1, ConcatEmptySeq
  <2>4. /\ DOMAIN new = SinkFields /\ new.rows = rest /\ new.heading = FALSE
        /\ new.out = dump.out /\ new.held = lines
        /\ new.opened = dump.opened /\ new.outcome = "none" /\ new.whole = dump.whole
        /\ new.pc = IF rest = <<>> THEN "resolve" ELSE "stream"
    BY <1>1 DEF SinkFields
  <2> HIDE DEF new, next
  <2>5. Sinking(new, X)
    BY <1>1, <1>4, <1>6, <1>8, <2>2, <2>4, ChunkLeft
  <2> QED BY <2>1, <2>4, <2>5 DEF SinkInv
<1>11. CASE dump.to # "table" /\ ~(dump.held = <<>> /\ ~dump.opened) /\ Push(dump, lines, next)
  <2> DEFINE after == [next EXCEPT !.held = lines]
             new == [after EXCEPT !.out = dump.out \o dump.held, !.opened = TRUE]
  <2>1. Written(dump, dump.held, after)
    BY <1>11 DEF Push
  <2>2. (dump.out \o dump.held) \o (lines \o rest) = dump.out \o (dump.held \o (lines \o rest))
    <3>1. lines \o rest \in Seq(X)
      BY <1>4, <1>6
    <3> DEFINE a == dump.out
               b == dump.held
               c == lines \o rest
    <3>2. a \in Seq(X) /\ b \in Seq(X) /\ c \in Seq(X)
      BY <1>1, <3>1
    <3> HIDE DEF a, b, c
    <3>3. (a \o b) \o c = a \o (b \o c)
      BY <3>2, ConcatAssociative
    <3> QED BY <3>3 DEF a, b, c
  <2>3. dump.out \o dump.held \in Seq(X)
    BY <1>1
  <2>4. /\ DOMAIN new = SinkFields /\ new.rows = rest /\ new.heading = FALSE
        /\ new.out = dump.out \o dump.held /\ new.held = lines
        /\ new.opened = TRUE /\ new.outcome = "none" /\ new.whole = dump.whole
        /\ new.pc = IF rest = <<>> THEN "resolve" ELSE "stream"
    BY <1>1 DEF SinkFields
  <2> HIDE DEF next, after
  <2>5. Sinking(new, X)
    <3> HIDE DEF new
    <3> QED BY <1>1, <1>4, <1>6, <1>8, <2>2, <2>3, <2>4, ChunkLeft
  <2> QED BY <1>1, <2>1, <2>4, <2>5, WrittenKeeps
<1>12. CASE dump' = Resolved(dump, IF dump.opened THEN "failed" ELSE "refused")
  <2>1. \E t \in Seq(X) : dump.whole = dump.out \o t
    BY SinkPrefix
  <2>2. DOMAIN dump' = SinkFields /\ Sinking(dump', X)
    BY <1>12, <2>1 DEF Resolved, Sinking, SinkFields, SinkInv
  <2> QED BY <2>2 DEF SinkInv
<1> QED BY <1>3, <1>9, <1>10, <1>11, <1>12

LEMMA ResolveKeeps ==
  ASSUME SinkInv, Resolve
  PROVE  SinkInv'
<1> PICK X : Sinking(dump, X)
  BY DEF SinkInv
<1>1. /\ DOMAIN dump = SinkFields /\ dump.pc = "resolve" /\ dump.outcome = "none"
      /\ dump.out \in Seq(X) /\ dump.held \in Seq(X) /\ dump.whole = dump.out \o dump.held
      /\ dump.rows \in Seq(X) /\ "head" \in X /\ dump.heading \in BOOLEAN
      /\ (~dump.opened => dump.out = <<>>) /\ dump.opened \in BOOLEAN
  BY DEF SinkInv, Sinking, Resolve
<1>2. CASE dump.opened
  <2> DEFINE after == Resolved([dump EXCEPT !.held = <<>>], "ok")
             new == [after EXCEPT !.out = dump.out \o dump.held, !.opened = TRUE]
  <2>1. Written(dump, dump.held, after)
    BY <1>2 DEF Resolve
  <2>2. /\ DOMAIN new = SinkFields /\ new.out = dump.whole /\ new.whole = dump.whole
        /\ new.pc = "done" /\ new.held = <<>> /\ new.opened = TRUE /\ new.outcome = "ok"
        /\ new.rows = dump.rows /\ new.heading = dump.heading
    BY <1>1 DEF SinkFields, Resolved
  <2>3. dump.whole \in Seq(X) /\ <<>> \in Seq(X) /\ dump.whole = dump.whole \o <<>>
    <3>1. dump.whole \in Seq(X) /\ <<>> \in Seq(X)
      BY <1>1
    <3> QED BY <3>1, ConcatEmptySeq
  <2> HIDE DEF after
  <2>4. Sinking(new, X)
    <3> HIDE DEF new
    <3> QED BY <1>1, <2>2, <2>3 DEF Sinking
  <2> QED BY <1>1, <2>1, <2>2, <2>4, WrittenKeeps
<1>3. CASE ~dump.opened
  <2>1. dump' = [dump EXCEPT !.pc = "deliver"]
    BY <1>3 DEF Resolve
  <2>2. dump.whole = dump.held
    BY <1>1, <1>3, ConcatEmptySeq
  <2>3. DOMAIN dump' = SinkFields /\ Sinking(dump', X)
    BY <1>1, <1>3, <2>1, <2>2 DEF Sinking, SinkFields
  <2> QED BY <2>3 DEF SinkInv
<1> QED BY <1>2, <1>3

LEMMA DeliverKeeps ==
  ASSUME SinkInv, Deliver
  PROVE  SinkInv'
<1> PICK X : Sinking(dump, X)
  BY DEF SinkInv
<1>1. /\ DOMAIN dump = SinkFields /\ dump.outcome = "none" /\ dump.out = <<>>
      /\ dump.held \in Seq(X) /\ dump.whole = dump.held
      /\ dump.rows \in Seq(X) /\ "head" \in X /\ dump.heading \in BOOLEAN
  BY DEF SinkInv, Sinking, Deliver
<1>2. dump.held = dump.held \o <<>> /\ dump.held = <<>> \o dump.held /\ <<>> \in Seq(X)
  BY <1>1, ConcatEmptySeq
<1>3. CASE dump' = Resolved([dump EXCEPT !.out = dump.held, !.opened = TRUE], "ok")
  <2>1. DOMAIN dump' = SinkFields /\ Sinking(dump', X)
    BY <1>1, <1>2, <1>3 DEF Resolved, Sinking, SinkFields
  <2> QED BY <2>1 DEF SinkInv
<1>4. CASE dump' = Resolved([dump EXCEPT !.opened = TRUE, !.lost = dump.to # "file"],
                            IF dump.to = "file" THEN "failed" ELSE "ok")
  <2>1. DOMAIN dump' = SinkFields /\ Sinking(dump', X)
    BY <1>1, <1>2, <1>4 DEF Resolved, Sinking, SinkFields
  <2> QED BY <2>1 DEF SinkInv
<1> QED BY <1>3, <1>4 DEF Deliver

LEMMA SinkInit == DatabaseInit => SinkInv
<1> SUFFICES ASSUME DatabaseInit PROVE SinkInv
  OBVIOUS
<1>1. <<>> \in Seq({"head"})
  OBVIOUS
<1>2. Sinking(dump, {"head"}) /\ DOMAIN dump = SinkFields
  BY <1>1 DEF DatabaseInit, Sinking, SinkFields
<1> QED BY <1>2 DEF SinkInv

LEMMA SinkNext == SinkInv /\ [DatabaseNext]_databaseVars => SinkInv'
<1> SUFFICES ASSUME SinkInv, [DatabaseNext]_databaseVars PROVE SinkInv'
  OBVIOUS
<1>1. dump' = dump => SinkInv'
  BY DEF SinkInv, Sinking
<1>2. CASE \E to \in {"table", "file", "pipe"}, header \in BOOLEAN : StartSelect(to, header)
  BY <1>2, SelectStarts
<1>3. CASE Chunk \/ Resolve \/ Deliver
  BY <1>3, ChunkKeeps, ResolveKeeps, DeliverKeeps
<1>4. CASE \/ StartLoad \/ StartFlush \/ AskDelete \/ ConfirmDelete \/ AskClear \/ AskMigrate
           \/ ReporterRaises \/ Export
  BY <1>1, <1>4 DEF StartLoad, StartFlush, AskDelete, ConfirmDelete, AskClear, AskMigrate,
       ReporterRaises, Export
<1>5. CASE \E c \in Client :
             \/ Answer(c) \/ Scan(c) \/ NextMigration(c) \/ Connect(c) \/ Begin(c)
             \/ Execute(c) \/ Commit(c) \/ CommitUnreported(c) \/ TimeOut(c) \/ Crash(c) \/ Again(c)
  BY <1>1, <1>5 DEF Answer, Scan, NextMigration, Connect, Begin, Execute, Commit,
       CommitUnreported, TimeOut, Crash, Again
<1>6. CASE UNCHANGED databaseVars
  BY <1>1, <1>6 DEF databaseVars
<1> QED BY <1>2, <1>3, <1>4, <1>5, <1>6 DEF DatabaseNext

\* Whatever the size of the result, of a chunk and wherever a write fails: a select that
\* reports success wrote the whole result unless its reader went away or its standard
\* output failed, one that refuses wrote nothing, and what is out is a prefix (Sink).
THEOREM AlwaysDumpWhole == DatabaseSpec => []DumpWhole
BY SinkInit, SinkNext, SinkWhole, PTL DEF DatabaseSpec

-----------------------------------------------------------------------------
(* Migrations.                                                             *)

Migrators == {"cli", "engine"}
SessionFields == DOMAIN Rest

\* The item of the k-th statement of a migration's script, the statements from the j-th
\* on, and the items of those before.
ItemAt(m, k) == IF k <= Steps THEN <<m, k>> ELSE <<m, 0>>
Left(m, j) == [k \in 1..(Steps + 2 - j) |-> [op |-> "script", item |-> ItemAt(m, k + j - 1)]]
Ran(m, j) == {ItemAt(m, k) : k \in 1..(j - 1)}

\* Statements that are not a migration's.
Plain(todo) == \E S : todo \in Seq(S) /\ \A stmt \in S : stmt.op # "script"

\* A client that migrates is at the j-th statement of the script of m.  Where statements
\* are transactions of their own those before it show; otherwise they are its own, each
\* with the effect it will have on what is committed.
Amid(m, j, s, items, engine) ==
  /\ s.todo = Left(m, j) /\ (s.pc # "open" => j = 1)
  /\ IF engine = "sqlite"
     THEN DOMAIN s.own = {} /\ \A x \in Ran(m, j) : items[x] > 0
     ELSE /\ DOMAIN s.own = Ran(m, j)
          /\ \A x \in Ran(m, j) : s.own[x] = items[x] + 1
          /\ <<m, 0>> \in Ran(m, j) => items[<<m, 0>>] = 0

Midway(s, items, engine) ==
  IF s.pc \in {"ready", "connected", "open"}
  THEN \E m \in Known, j \in 1..(Steps + 2) : Amid(m, j, s, items, engine)
  ELSE DOMAIN s.own = {}

\* What holds of the session of client c.
Local(c, s, items, engine) ==
  /\ DOMAIN s = SessionFields
  /\ DOMAIN s.own # {} => s.wrote
  /\ c \in Migrators => s.pending \subseteq Known /\ Midway(s, items, engine)
  /\ c \notin Migrators =>
       Plain(s.todo) /\ s.pc # "next" /\ \A x \in DOMAIN s.own : x[1] = 0

Counted == DOMAIN db = Item /\ \A m \in Known, i \in 0..Steps : db[<<m, i>>] \in Nat

\* No two clients are amid the same migration.
Apart == DOMAIN session["cli"].own \cap DOMAIN session["engine"].own = {}

\* A migration is recorded once, however often and by how many clients it is run.
RecordedOnce == \A m \in Known : db[<<m, 0>>] <= 1

GivenTyped ==
  /\ file \in Seq(Input) /\ buffer \in Seq(Input) /\ mode \in {"error", "ignore", "update"}

MigrationInv ==
  /\ GivenTyped /\ Counted /\ DOMAIN session = Client
  /\ \A c \in Client : Local(c, session[c], db, backend)
  /\ Apart /\ RecordedOnce /\ MigratedOnce

-----------------------------------------------------------------------------
(* Scripts.                                                                *)

LEMMA SessionFieldsAre ==
  SessionFields = {"pc", "todo", "pending", "own", "snap", "stale", "wrote", "spans", "outcome"}
BY DEF SessionFields, Rest

LEMMA PlainNone == Plain(<<>>)
<1> DEFINE S == {RefusedRow}
<1>1. <<>> \in Seq(S)
  OBVIOUS
<1>2. \A stmt \in S : stmt.op # "script"
  BY DEF RefusedRow
<1> HIDE DEF S
<1> QED BY <1>1, <1>2, Zenon DEF Plain

LEMMA PlainTail ==
  ASSUME NEW todo, Plain(todo), todo # <<>>
  PROVE  Plain(Tail(todo)) /\ Head(todo).op # "script"
<1> PICK S : todo \in Seq(S) /\ \A stmt \in S : stmt.op # "script"
  BY DEF Plain
<1>1. Tail(todo) \in Seq(S) /\ Head(todo) \in S
  OBVIOUS
<1> QED BY <1>1 DEF Plain

LEMMA ScriptWhole ==
  ASSUME NEW m
  PROVE  Script(m) = Left(m, 1) /\ Ran(m, 1) = {}
<1> USE ConstantsAssumption
<1>1. Steps + 2 - 1 = Steps + 1 /\ \A k \in 1..(Steps + 1) : k + 1 - 1 = k
  OBVIOUS
<1>2. Script(m) = [k \in 1..(Steps + 1) |-> [op |-> "script", item |-> ItemAt(m, k)]]
  BY DEF Script, ItemAt
<1>3. Left(m, 1) = [k \in 1..(Steps + 1) |-> [op |-> "script", item |-> ItemAt(m, k)]]
  BY <1>1 DEF Left
<1>4. Ran(m, 1) = {}
  BY DEF Ran
<1> QED BY <1>2, <1>3, <1>4

LEMMA LeftStep ==
  ASSUME NEW m \in Known, NEW j \in 1..(Steps + 2), Left(m, j) # <<>>
  PROVE  /\ j + 1 \in 1..(Steps + 2) /\ j <= Steps + 1
         /\ Head(Left(m, j)) = [op |-> "script", item |-> ItemAt(m, j)]
         /\ Tail(Left(m, j)) = Left(m, j + 1)
         /\ Ran(m, j + 1) = Ran(m, j) \cup {ItemAt(m, j)}
         /\ ItemAt(m, j) \notin Ran(m, j)
         /\ ItemAt(m, j) \in Item
<1> USE ConstantsAssumption
<1> DEFINE S == {Left(m, j)[k] : k \in 1..(Steps + 2 - j)}
<1>1. Steps + 2 - j \in Nat
  OBVIOUS
<1>2. DOMAIN Left(m, j) = 1..(Steps + 2 - j) /\ Left(m, j) \in Seq(S)
  <2> DEFINE L == Left(m, j)
             n == Steps + 2 - j
  <2>1. L = [k \in 1..n |-> L[k]]
    BY DEF Left
  <2> HIDE DEF L, n
  <2>2. L \in Seq({L[k] : k \in 1..n}) /\ DOMAIN L = 1..n
    BY <1>1, <2>1 DEF n
  <2> QED BY <2>2 DEF L, n
<1>3. j <= Steps + 1
  <2>1. SUFFICES ASSUME j = Steps + 2 PROVE FALSE
    OBVIOUS
  <2>2. DOMAIN Left(m, j) = {}
    BY <1>2, <2>1
  <2> QED BY <1>2, <2>2
<1>4. Head(Left(m, j)) = [op |-> "script", item |-> ItemAt(m, j)]
  <2>1. 1 \in 1..(Steps + 2 - j) /\ 1 + j - 1 = j
    BY <1>3
  <2> QED BY <1>2, <2>1 DEF Left
<1>5. Tail(Left(m, j)) = Left(m, j + 1)
  <2>1. Len(Left(m, j)) = Steps + 2 - j
    BY <1>1, <1>2
  <2>2. Tail(Left(m, j)) = [k \in 1..(Steps + 2 - j - 1) |-> Left(m, j)[k + 1]]
    <3> DEFINE L == Left(m, j)
               n == Steps + 2 - j
    <3>1. L \in Seq(S) /\ Len(L) = n /\ L # <<>> /\ n \in Nat
      BY <1>1, <1>2, <2>1
    <3> HIDE DEF L, n
    <3>2. /\ Tail(L) \in Seq(S) /\ Len(Tail(L)) = n - 1
          /\ \A i \in 1..Len(Tail(L)) : Tail(L)[i] = L[i + 1]
      BY <3>1, HeadTailProperties
    <3>3. Tail(L) \in [1..(n - 1) -> S]
      BY <3>2, LenProperties
    <3>4. Tail(L) = [k \in 1..(n - 1) |-> L[k + 1]]
      BY <3>2, <3>3
    <3> QED BY <3>4 DEF L, n
  <2>3. \A k \in 1..(Steps + 2 - j - 1) :
          Left(m, j)[k + 1] = [op |-> "script", item |-> ItemAt(m, k + (j + 1) - 1)]
    <3> TAKE k \in 1..(Steps + 2 - j - 1)
    <3>1. k + 1 \in 1..(Steps + 2 - j) /\ (k + 1) + j - 1 = k + (j + 1) - 1
      OBVIOUS
    <3> QED BY <3>1 DEF Left
  <2>4. Steps + 2 - (j + 1) = Steps + 2 - j - 1
    OBVIOUS
  <2>5. Left(m, j + 1) = [k \in 1..(Steps + 2 - j - 1) |->
                            [op |-> "script", item |-> ItemAt(m, k + (j + 1) - 1)]]
    BY <2>4 DEF Left
  <2> QED BY <2>2, <2>3, <2>5
<1>6. Ran(m, j + 1) = Ran(m, j) \cup {ItemAt(m, j)}
  <2>1. 1..((j + 1) - 1) = (1..(j - 1)) \cup {j}
    OBVIOUS
  <2> QED BY <2>1 DEF Ran
<1>7. ItemAt(m, j) \notin Ran(m, j)
  <2>1. \A k \in 1..(j - 1) : k <= Steps /\ k # j /\ k # 0
    BY <1>3
  <2>2. \A k \in 1..(j - 1) : ItemAt(m, k) = <<m, k>>
    BY <2>1 DEF ItemAt
  <2>3. ItemAt(m, j) = <<m, j>> \/ ItemAt(m, j) = <<m, 0>>
    BY DEF ItemAt
  <2>4. \A k \in 1..(j - 1) : ItemAt(m, k) # ItemAt(m, j)
    BY <2>1, <2>2, <2>3
  <2> QED BY <2>4 DEF Ran
<1>8. ItemAt(m, j) \in Item
  <2>1. j \in 0..Steps \/ ~(j <= Steps)
    OBVIOUS
  <2>2. 0 \in 0..Steps
    OBVIOUS
  <2> QED BY <2>1, <2>2 DEF ItemAt, Item
<1> QED BY <1>3, <1>4, <1>5, <1>6, <1>7, <1>8

LEMMA LeftOver ==
  ASSUME NEW m \in Known, NEW j \in 1..(Steps + 2), Left(m, j) = <<>>
  PROVE  j = Steps + 2 /\ Ran(m, j) = {<<m, i>> : i \in 0..Steps}
<1> USE ConstantsAssumption
<1>1. DOMAIN Left(m, j) = 1..(Steps + 2 - j)
  BY DEF Left
<1>2. 1..(Steps + 2 - j) = {}
  BY <1>1
<1>3. j = Steps + 2
  BY <1>2
<1>4. ASSUME NEW i \in 0..Steps
      PROVE  <<m, i>> \in Ran(m, j)
  <2>1. CASE i = 0
    <3>1. Steps + 1 \in 1..(j - 1) /\ ItemAt(m, Steps + 1) = <<m, i>>
      BY <1>3, <2>1 DEF ItemAt
    <3> QED BY <3>1 DEF Ran
  <2>2. CASE i # 0
    <3>1. i \in 1..(j - 1) /\ ItemAt(m, i) = <<m, i>>
      BY <1>3, <2>2 DEF ItemAt
    <3> QED BY <3>1 DEF Ran
  <2> QED BY <2>1, <2>2
<1>5. ASSUME NEW k \in 1..(j - 1)
      PROVE  ItemAt(m, k) \in {<<m, i>> : i \in 0..Steps}
  <2>1. CASE k <= Steps
    <3>1. k \in 0..Steps
      BY <2>1
    <3> QED BY <2>1, <3>1 DEF ItemAt
  <2>2. CASE ~(k <= Steps)
    BY <2>2 DEF ItemAt
  <2> QED BY <2>1, <2>2
<1> QED BY <1>3, <1>4, <1>5 DEF Ran

\* The items of a script are a migration's.
LEMMA RanItems ==
  ASSUME NEW m \in Known, NEW j \in 1..(Steps + 2), NEW x \in Ran(m, j)
  PROVE  \E i \in 0..Steps : x = <<m, i>>
<1> USE ConstantsAssumption
<1> PICK k \in 1..(j - 1) : x = ItemAt(m, k)
  BY DEF Ran
<1>1. k \in 0..Steps \/ ~(k <= Steps)
  OBVIOUS
<1> QED BY <1>1 DEF ItemAt

-----------------------------------------------------------------------------
(* What the other clients write.                                           *)

LEMMA PlainList ==
  ASSUME NEW n \in Nat, NEW todo, todo = [j \in 1..n |-> todo[j]],
         \A j \in 1..n : todo[j].op # "script"
  PROVE  Plain(todo)
<1> DEFINE S == {todo[j] : j \in 1..n}
<1>1. todo \in Seq(S)
  OBVIOUS
<1>2. \A stmt \in S : stmt.op # "script"
  OBVIOUS
<1> HIDE DEF S
<1> QED BY <1>1, <1>2, Zenon DEF Plain

LEMMA BatchCount ==
  ASSUME NEW n \in Nat
  PROVE  (n + BATCH - 1) \div BATCH \in Nat
<1> DEFINE a == n + BATCH - 1
<1>1. a \in Nat /\ BATCH \in Nat /\ BATCH > 0
  BY ConstantsAssumption
<1> HIDE DEF a
<1>2. a \div BATCH \in Int /\ a \div BATCH >= 0
  BY <1>1
<1> QED BY <1>2 DEF a

LEMMA BatchesPlain ==
  ASSUME GivenTyped
  PROVE  Plain(Batches(file, mode))
<1> DEFINE ends == {i \in 1..Len(file) : file[i] = Unreadable}
           rows == Delivered(file)
           count == (Len(rows) + BATCH - 1) \div BATCH
           batch(j) == SubSeq(rows, (j - 1) * BATCH + 1,
                              IF j * BATCH < Len(rows) THEN j * BATCH ELSE Len(rows))
           refused == {j \in 1..count : \E i \in DOMAIN batch(j) : Refuses(batch(j)[i])}
           last == IF refused = {} THEN count
                   ELSE CHOOSE j \in refused : \A k \in refused : j <= k
           todo == [j \in 1..last |-> IF j \in refused THEN RefusedRow
                                      ELSE InsertOf(mode, Converted(batch(j)))]
<1>1. Batches(file, mode) = todo
  BY DEF Batches
<1>2. Len(rows) \in Nat
  <2>1. file \in Seq(Input) /\ Len(file) \in Nat
    BY DEF GivenTyped
  <2>2. CASE ends = {}
    BY <2>1, <2>2 DEF Delivered
  <2>3. CASE ends # {}
    <3>1. ends \subseteq Nat
      BY <2>1
    <3>2. Min(ends) \in ends
      BY <2>3, <3>1, SmallestOf
    <3>3. rows = SubSeq(file, 1, Min(ends) - 1)
      BY <2>3 DEF Delivered, Min
    <3>4. Min(ends) \in 1..Len(file)
      BY <3>2
    <3> HIDE DEF ends
    <3> QED BY <2>1, <3>3, <3>4
  <2> QED BY <2>2, <2>3
<1>3. count \in Nat
  BY <1>2, BatchCount
<1> HIDE DEF count
<1>4. last \in Nat
  <2>1. CASE refused = {}
    BY <1>3, <2>1
  <2>2. CASE refused # {}
    <3>1. refused \subseteq Nat
      BY <1>3
    <3>2. Min(refused) \in refused
      BY <2>2, <3>1, SmallestOf
    <3>3. last = Min(refused)
      BY <2>2 DEF Min
    <3> QED BY <3>1, <3>2, <3>3
  <2> QED BY <2>1, <2>2
<1> HIDE DEF last, refused, batch
<1>5. \A j \in 1..last : todo[j].op # "script"
  BY DEF RefusedRow, InsertOf, GivenTyped
<1>6. todo = [j \in 1..last |-> todo[j]]
  OBVIOUS
<1> HIDE DEF todo
<1> QED BY <1>1, <1>4, <1>5, <1>6, PlainList

LEMMA UpsertsPlain ==
  ASSUME GivenTyped
  PROVE  Plain(Upserts(buffer))
<1> DEFINE S == {i \in DOMAIN buffer :
                   \A j \in (i + 1)..Len(buffer) : buffer[j].key # buffer[i].key}
           kept == DedupeLast(buffer)
           count == (Len(kept) + BATCH - 1) \div BATCH
           todo == [j \in 1..count |->
                     InsertOf("update", SubSeq(kept, (j - 1) * BATCH + 1,
                                IF j * BATCH < Len(kept) THEN j * BATCH ELSE Len(kept)))]
<1>1. Upserts(buffer) = todo
  BY DEF Upserts
<1>2. Len(kept) \in Nat
  <2>1. DOMAIN buffer = 1..Len(buffer) /\ Len(buffer) \in Nat
    BY DEF GivenTyped
  <2>2. IsFiniteSet(1..Len(buffer))
    BY <2>1, FS_Interval
  <2>3. IsFiniteSet(S)
    BY <2>1, <2>2, FS_Subset
  <2>4. kept = [n \in 1..Cardinality(S) |-> buffer[Ordered(S)[n]]]
    BY DEF DedupeLast, RowsAt
  <2> HIDE DEF S
  <2>5. Cardinality(S) \in Nat
    BY <2>3, FS_CardinalityType
  <2> QED BY <2>4, <2>5
<1>3. count \in Nat
  BY <1>2, BatchCount
<1> HIDE DEF count, kept
<1>4. \A j \in 1..count : todo[j].op # "script"
  BY DEF InsertOf
<1>5. todo = [j \in 1..count |-> todo[j]]
  OBVIOUS
<1> HIDE DEF todo
<1> QED BY <1>1, <1>3, <1>4, <1>5, PlainList

LEMMA DeletesPlain == Plain(<<DeleteOf(Key)>>) /\ Plain(ClearScript)
<1>1. <<DeleteOf(Key)>> = [j \in 1..1 |-> <<DeleteOf(Key)>>[j]]
  OBVIOUS
<1>2. \A j \in 1..1 : <<DeleteOf(Key)>>[j].op # "script"
  BY DEF DeleteOf
<1>3. ClearScript = [j \in 1..2 |-> ClearScript[j]]
  BY DEF ClearScript
<1>4. \A j \in 1..2 : ClearScript[j].op # "script"
  BY DEF ClearScript, DeleteOf
<1>5. 1 \in Nat /\ 2 \in Nat
  OBVIOUS
<1> QED BY <1>1, <1>2, <1>3, <1>4, <1>5, PlainList

\* A statement that is not a migration's changes rows alone.
LEMMA PlainTouches ==
  ASSUME NEW view, NEW stmt, stmt.op # "script", NEW x \in Touched(view, stmt)
  PROVE  x[1] = 0
BY DEF Touched

-----------------------------------------------------------------------------
(* Sessions.                                                               *)

LEMMA RestLocal ==
  ASSUME NEW c, NEW s, NEW items, NEW engine,
         DOMAIN s = SessionFields, DOMAIN s.own = {}, Plain(s.todo), s.pending \subseteq Known,
         s.pc \notin {"ready", "connected", "open"}, s.pc = "next" => c \in Migrators
  PROVE  Local(c, s, items, engine)
BY DEF Local, Midway

LEMMA FailedLocal ==
  ASSUME NEW c, NEW items, NEW engine
  PROVE  /\ Local(c, FailedState(c), items, engine) /\ DOMAIN FailedState(c).own = {}
         /\ Local(c, Rest, items, engine) /\ DOMAIN Rest.own = {}
<1>1. /\ DOMAIN FailedState(c) = SessionFields /\ DOMAIN FailedState(c).own = {}
      /\ FailedState(c).todo = <<>> /\ FailedState(c).pending = {}
      /\ FailedState(c).pc \in {"rest", "done"}
  BY DEF FailedState, Rest, SessionFields
<1>2. /\ DOMAIN Rest = SessionFields /\ DOMAIN Rest.own = {} /\ Rest.todo = <<>>
      /\ Rest.pending = {} /\ Rest.pc = "rest"
  BY DEF Rest, SessionFields
<1>3. Local(c, FailedState(c), items, engine)
  BY <1>1, PlainNone, RestLocal
<1>4. Local(c, Rest, items, engine)
  BY <1>2, PlainNone, RestLocal
<1> QED BY <1>1, <1>2, <1>3, <1>4

\* A session depends on the migrations' items alone.
LEMMA SameItems ==
  ASSUME NEW c, NEW s, NEW items, NEW new, NEW engine, Local(c, s, items, engine),
         \A m \in Known, i \in 0..Steps : new[<<m, i>>] = items[<<m, i>>]
  PROVE  Local(c, s, new, engine)
<1>1. ASSUME NEW m \in Known, NEW j \in 1..(Steps + 2), Amid(m, j, s, items, engine)
      PROVE  Amid(m, j, s, new, engine)
  <2>1. \A x \in Ran(m, j) : new[x] = items[x]
    BY RanItems
  <2>2. new[<<m, 0>>] = items[<<m, 0>>]
    BY ConstantsAssumption
  <2> QED BY <1>1, <2>1, <2>2 DEF Amid
<1>2. Midway(s, items, engine) => Midway(s, new, engine)
  BY <1>1 DEF Midway
<1> QED BY <1>2 DEF Local

\* The commits of the other clients leave the migrations' items alone.
LEMMA ItemsKept ==
  ASSUME Counted, RecordedOnce, MigratedOnce, DOMAIN db' = Item, backend' = backend,
         \A m \in Known, i \in 0..Steps : db'[<<m, i>>] = db[<<m, i>>]
  PROVE  Counted' /\ RecordedOnce' /\ MigratedOnce'
<1>1. 0 \in 0..Steps /\ \A i \in 1..Steps : i \in 0..Steps
  BY ConstantsAssumption
<1>2. Counted'
  BY DEF Counted
<1>3. RecordedOnce'
  BY <1>1 DEF RecordedOnce
<1>4. MigratedOnce'
  BY <1>1 DEF MigratedOnce
<1> QED BY <1>2, <1>3, <1>4

\* One session moves and nothing is committed.
LEMMA OneMoves ==
  ASSUME MigrationInv, NEW c \in Client, NEW new, UNCHANGED <<given, db>>,
         session' = [session EXCEPT ![c] = new], Local(c, new, db, backend),
         c \notin Migrators \/ DOMAIN new.own \subseteq DOMAIN session[c].own
  PROVE  MigrationInv'
<1> USE DEF MigrationInv
<1>1. backend' = backend /\ GivenTyped'
  BY DEF given, GivenTyped
<1>2. Counted' /\ RecordedOnce' /\ MigratedOnce'
  BY <1>1 DEF Counted, RecordedOnce, MigratedOnce
<1>3. session'[c] = new /\ \A d \in Client \ {c} : session'[d] = session[d]
  OBVIOUS
<1>4. \A d \in Client : Local(d, session'[d], db', backend')
  BY <1>1, <1>3
<1>5. Apart'
  BY <1>3 DEF Apart, Migrators, Client
<1> QED BY <1>1, <1>2, <1>4, <1>5

LEMMA FailedKeeps ==
  ASSUME MigrationInv, NEW c \in Client, UNCHANGED <<given, db>>, Failed(c)
  PROVE  MigrationInv'
<1>1. session' = [session EXCEPT ![c] = FailedState(c)]
  BY DEF Failed, Becomes
<1> QED BY <1>1, FailedLocal, OneMoves

\* A session that keeps what it is to do and where its script is.
LEMMA StaysAmid ==
  ASSUME NEW c, NEW s, NEW new, NEW items, NEW engine, Local(c, s, items, engine),
         DOMAIN new = SessionFields, new.own = s.own, new.wrote = s.wrote,
         new.todo = s.todo, new.pending = s.pending, new.pc # "next",
         s.pc \in {"ready", "connected"} => new.pc \in {"connected", "open"},
         s.pc \notin {"ready", "connected", "open"} =>
            c \notin Migrators \/ new.pc \notin {"ready", "connected", "open"},
         s.pc # "open"
  PROVE  Local(c, new, items, engine)
<1>1. ASSUME NEW m \in Known, NEW j \in 1..(Steps + 2), Amid(m, j, s, items, engine)
      PROVE  Amid(m, j, new, items, engine)
  BY <1>1 DEF Amid
<1>2. c \in Migrators => Midway(new, items, engine)
  BY <1>1 DEF Midway, Local
<1> QED BY <1>2 DEF Local

-----------------------------------------------------------------------------
(* The steps that commit nothing.                                          *)

LEMMA StartsKeep ==
  ASSUME MigrationInv,
         \/ StartLoad \/ StartFlush \/ AskDelete \/ ConfirmDelete \/ AskClear \/ AskMigrate
         \/ ReporterRaises \/ Export
  PROVE  MigrationInv'
<1> USE SessionFieldsAre
<1>0. /\ "load" \in Client \ Migrators /\ "flush" \in Client \ Migrators
      /\ "delete" \in Client \ Migrators /\ "clear" \in Client \ Migrators
      /\ "cli" \in Client /\ "engine" \in Client
  BY DEF Client, Migrators
<1>1. ASSUME NEW c \in Client \ Migrators, NEW todo, Plain(todo), NEW p, p # "next",
             session' = [session EXCEPT ![c] = [Rest EXCEPT !.pc = p, !.todo = todo]],
             UNCHANGED <<given, db>>
      PROVE  MigrationInv'
  <2> DEFINE new == [Rest EXCEPT !.pc = p, !.todo = todo]
  <2>1. DOMAIN new = SessionFields /\ DOMAIN new.own = {} /\ new.todo = todo /\ new.pc = p
    BY DEF Rest
  <2> HIDE DEF new
  <2>2. Local(c, new, db, backend)
    BY <1>1, <2>1 DEF Local
  <2> QED BY <1>1, <2>2, OneMoves DEF new
<1>2. ASSUME NEW c \in Client, NEW new, DOMAIN new = SessionFields, DOMAIN new.own = {},
             new.todo = <<>>, new.pending = {}, new.pc \in {"asked", "done"},
             session' = [session EXCEPT ![c] = new], UNCHANGED <<given, db>>
      PROVE  MigrationInv'
  <2>1. Local(c, new, db, backend)
    BY <1>2, PlainNone, RestLocal
  <2> QED BY <1>2, <2>1, OneMoves
<1> DEFINE over(o) == [Rest EXCEPT !.pc = "done", !.outcome = o]
           asked == [Rest EXCEPT !.pc = "asked"]
<1>a. \A o : /\ DOMAIN over(o) = SessionFields /\ DOMAIN over(o).own = {}
             /\ over(o).todo = <<>> /\ over(o).pending = {} /\ over(o).pc = "done"
  BY DEF Rest
<1>b. /\ DOMAIN asked = SessionFields /\ DOMAIN asked.own = {}
      /\ asked.todo = <<>> /\ asked.pending = {} /\ asked.pc = "asked"
  BY DEF Rest
<1>3. CASE StartLoad
  <2>1. Plain(Batches(file, mode))
    BY BatchesPlain DEF MigrationInv
  <2> QED BY <1>0, <1>1, <1>3, <2>1 DEF StartLoad, Becomes
<1>4. CASE StartFlush
  <2>1. Plain(Upserts(buffer))
    BY UpsertsPlain DEF MigrationInv
  <2> QED BY <1>0, <1>1, <1>4, <2>1 DEF StartFlush, Becomes
<1>5. CASE AskDelete
  BY <1>0, <1>1, <1>5, DeletesPlain DEF AskDelete, Becomes
<1>6. CASE ConfirmDelete
  <2>1. CASE Failed("delete")
    BY <1>0, <1>6, <2>1, FailedKeeps DEF ConfirmDelete
  <2>2. CASE Becomes("delete", [session["delete"] EXCEPT !.pc = "ready"])
    <3> DEFINE s == session["delete"]
               new == [s EXCEPT !.pc = "ready"]
    <3>1. Local("delete", s, db, backend) /\ s.pc = "asked" /\ DOMAIN s = SessionFields
      BY <1>0, <1>6 DEF MigrationInv, ConfirmDelete, At, Local
    <3>2. /\ DOMAIN new = SessionFields /\ new.own = s.own /\ new.wrote = s.wrote
          /\ new.todo = s.todo /\ new.pending = s.pending /\ new.pc = "ready"
      BY <3>1
    <3>3. session' = [session EXCEPT !["delete"] = new] /\ UNCHANGED <<given, db>>
      BY <1>6, <2>2 DEF Becomes, ConfirmDelete
    <3> HIDE DEF new, s
    <3>4. Local("delete", new, db, backend)
      BY <1>0, <3>1, <3>2, StaysAmid
    <3> QED BY <1>0, <3>3, <3>4, OneMoves
  <2> QED BY <1>6, <2>1, <2>2 DEF ConfirmDelete
<1>7. CASE AskClear
  <2>1. CASE Becomes("clear", [Rest EXCEPT !.pc = "asked", !.todo = ClearScript])
    BY <1>0, <1>1, <1>7, <2>1, DeletesPlain DEF AskClear, Becomes
  <2>2. CASE Becomes("clear", [Rest EXCEPT !.pc = "done", !.outcome = "failed"])
    <3>1. session' = [session EXCEPT !["clear"] = over("failed")] /\ UNCHANGED <<given, db>>
      BY <1>7, <2>2 DEF AskClear, Becomes
    <3> HIDE DEF over
    <3> QED BY <1>0, <1>2, <1>a, <3>1
  <2> QED BY <1>7, <2>1, <2>2 DEF AskClear
<1>8. CASE AskMigrate
  <2>1. UNCHANGED <<given, db>>
    BY <1>8 DEF AskMigrate
  <2>2. \/ Becomes("cli", [Rest EXCEPT !.pc = "done", !.outcome = "failed"])
        \/ Becomes("cli", [Rest EXCEPT !.pc = "done", !.outcome = "done"])
        \/ Becomes("cli", [Rest EXCEPT !.pc = "asked"])
    BY <1>8 DEF AskMigrate
  <2>3. \/ session' = [session EXCEPT !["cli"] = over("failed")]
        \/ session' = [session EXCEPT !["cli"] = over("done")]
        \/ session' = [session EXCEPT !["cli"] = asked]
    BY <2>2 DEF Becomes
  <2> HIDE DEF over, asked
  <2> QED BY <1>0, <1>2, <1>a, <1>b, <2>1, <2>3
<1>9. CASE ReporterRaises
  BY <1>0, <1>9, FailedKeeps DEF ReporterRaises
<1>10. CASE Export
  <2>1. session' = [session EXCEPT !["load"] = over("done")] /\ UNCHANGED <<given, db>>
    BY <1>10 DEF Export, Becomes
  <2> HIDE DEF over
  <2> QED BY <1>0, <1>2, <1>a, <2>1
<1> QED BY <1>3, <1>4, <1>5, <1>6, <1>7, <1>8, <1>9, <1>10

LEMMA StepsKeep ==
  ASSUME MigrationInv, NEW c \in Client,
         \/ Answer(c) \/ Scan(c) \/ NextMigration(c) \/ Connect(c) \/ Begin(c)
         \/ TimeOut(c) \/ Crash(c) \/ Again(c)
  PROVE  MigrationInv'
<1> USE SessionFieldsAre
<1> DEFINE s == session[c]
<1>0. Local(c, s, db, backend) /\ DOMAIN s = SessionFields
  BY DEF MigrationInv, Local
<1>1. CASE Answer(c)
  <2>1. CASE Failed(c)
    BY <1>1, <2>1, FailedKeeps DEF Answer
  <2>2. CASE Becomes(c, [s EXCEPT !.pc = IF c = "cli" THEN "scan" ELSE "ready"])
    <3> DEFINE new == [s EXCEPT !.pc = IF c = "cli" THEN "scan" ELSE "ready"]
    <3>1. /\ DOMAIN new = SessionFields /\ new.own = s.own /\ new.wrote = s.wrote
          /\ new.todo = s.todo /\ new.pending = s.pending
          /\ new.pc = IF c = "cli" THEN "scan" ELSE "ready"
      BY <1>0
    <3>2. session' = [session EXCEPT ![c] = new] /\ UNCHANGED <<given, db>>
          /\ s.pc = "asked" /\ c \in {"clear", "cli"}
      BY <1>1, <2>2 DEF Becomes, Answer, At
    <3> HIDE DEF new, s
    <3>3. Local(c, new, db, backend)
      BY <1>0, <3>1, <3>2, StaysAmid DEF Migrators
    <3> QED BY <3>1, <3>2, <3>3, OneMoves DEF s
  <2> QED BY <1>1, <2>1, <2>2 DEF Answer
<1>2. CASE Scan(c)
  <2> DEFINE new == [Rest EXCEPT !.pc = "next", !.pending = PendingOf(Applied)]
  <2>1. /\ DOMAIN new = SessionFields /\ DOMAIN new.own = {} /\ new.todo = <<>>
        /\ new.pc = "next" /\ new.pending \subseteq Known
    BY DEF Rest, PendingOf
  <2>2. session' = [session EXCEPT ![c] = new] /\ UNCHANGED <<given, db>> /\ c \in Migrators
    BY <1>2 DEF Becomes, Scan, Migrators
  <2> HIDE DEF new
  <2>3. Local(c, new, db, backend)
    BY <2>1, <2>2, PlainNone, RestLocal
  <2> QED BY <2>1, <2>2, <2>3, OneMoves
<1>3. CASE NextMigration(c)
  <2> DEFINE m == Min(s.pending)
             over == [Rest EXCEPT !.pc = "done", !.outcome = "done"]
             new == [s EXCEPT !.pc = "ready", !.todo = Script(m), !.pending = @ \ {m}]
  <2>1. UNCHANGED <<given, db>> /\ s.pc = "next" /\ c \in Migrators
    BY <1>0, <1>3 DEF NextMigration, At, Local
  <2>2. s.pending \subseteq Known /\ DOMAIN s.own = {}
    BY <1>0, <2>1 DEF Local, Midway
  <2>3. CASE s.pending = {}
    <3>1. session' = [session EXCEPT ![c] = over]
      BY <1>3, <2>3 DEF NextMigration, Becomes
    <3>2. /\ DOMAIN over = SessionFields /\ DOMAIN over.own = {} /\ over.todo = <<>>
          /\ over.pc = "done" /\ over.pending = {}
      BY DEF Rest
    <3> HIDE DEF over
    <3>3. Local(c, over, db, backend)
      BY <3>2, PlainNone, RestLocal
    <3> QED BY <2>1, <3>1, <3>2, <3>3, OneMoves
  <2>4. CASE s.pending # {}
    <3>1. session' = [session EXCEPT ![c] = new]
      BY <1>3, <2>4 DEF NextMigration, Becomes
    <3>2. m \in Known
      BY <2>2, <2>4, SmallestOf, ConstantsAssumption
    <3> HIDE DEF m
    <3>3. /\ DOMAIN new = SessionFields /\ new.own = s.own /\ new.todo = Left(m, 1)
          /\ new.pc = "ready" /\ new.pending \subseteq Known /\ new.wrote = s.wrote
      BY <1>0, <2>2, ScriptWhole
    <3> HIDE DEF new
    <3>4. 1 \in 1..(Steps + 2)
      BY ConstantsAssumption
    <3>5. Amid(m, 1, new, db, backend)
      BY <2>2, <3>3, ScriptWhole DEF Amid
    <3>6. Midway(new, db, backend)
      BY <3>2, <3>3, <3>4, <3>5 DEF Midway
    <3>7. Local(c, new, db, backend)
      BY <2>1, <2>2, <3>3, <3>6 DEF Local
    <3> QED BY <2>1, <3>1, <3>3, <3>7, OneMoves
  <2> QED BY <2>3, <2>4
<1>4. CASE Connect(c)
  <2>1. UNCHANGED <<given, db>> /\ s.pc = "ready"
    BY <1>4 DEF Connect, At
  <2>2. CASE Failed(c)
    BY <2>1, <2>2, FailedKeeps
  <2>3. CASE Becomes(c, [s EXCEPT !.pc = "connected"])
    <3> DEFINE new == [s EXCEPT !.pc = "connected"]
    <3>1. /\ DOMAIN new = SessionFields /\ new.own = s.own /\ new.wrote = s.wrote
          /\ new.todo = s.todo /\ new.pending = s.pending /\ new.pc = "connected"
      BY <1>0
    <3>2. session' = [session EXCEPT ![c] = new]
      BY <2>3 DEF Becomes
    <3> HIDE DEF new, s
    <3>3. Local(c, new, db, backend)
      BY <1>0, <2>1, <3>1, StaysAmid
    <3> QED BY <2>1, <3>1, <3>2, <3>3, OneMoves DEF s
  <2> QED BY <1>4, <2>2, <2>3 DEF Connect
<1>5. CASE Begin(c)
  <2>1. UNCHANGED <<given, db>> /\ s.pc = "connected"
    BY <1>5 DEF Begin, At
  <2>2. CASE Failed(c)
    BY <2>1, <2>2, FailedKeeps
  <2>3. CASE Becomes(c, [s EXCEPT !.pc = "open", !.snap = IF Concurrent(c) THEN db ELSE <<>>])
    <3> DEFINE new == [s EXCEPT !.pc = "open", !.snap = IF Concurrent(c) THEN db ELSE <<>>]
    <3>1. /\ DOMAIN new = SessionFields /\ new.own = s.own /\ new.wrote = s.wrote
          /\ new.todo = s.todo /\ new.pending = s.pending /\ new.pc = "open"
      BY <1>0
    <3>2. session' = [session EXCEPT ![c] = new]
      BY <2>3 DEF Becomes
    <3> HIDE DEF new, s
    <3>3. Local(c, new, db, backend)
      BY <1>0, <2>1, <3>1, StaysAmid
    <3> QED BY <2>1, <3>1, <3>2, <3>3, OneMoves DEF s
  <2> QED BY <1>5, <2>2, <2>3 DEF Begin
<1>6. CASE TimeOut(c)
  BY <1>6, FailedKeeps DEF TimeOut
<1>7. CASE Crash(c)
  <2> DEFINE new == [Rest EXCEPT !.pc = "done", !.outcome = "crashed"]
  <2>1. session' = [session EXCEPT ![c] = new] /\ UNCHANGED <<given, db>>
    BY <1>7 DEF Crash, Becomes
  <2>2. /\ DOMAIN new = SessionFields /\ DOMAIN new.own = {} /\ new.todo = <<>>
        /\ new.pc = "done" /\ new.pending = {}
    BY DEF Rest
  <2> HIDE DEF new
  <2>3. Local(c, new, db, backend)
    BY <2>2, PlainNone, RestLocal
  <2> QED BY <2>1, <2>2, <2>3, OneMoves
<1>8. CASE Again(c)
  <2>1. session' = [session EXCEPT ![c] = Rest] /\ UNCHANGED <<given, db>>
    BY <1>8 DEF Again, Becomes
  <2> QED BY <2>1, FailedLocal, OneMoves
<1> QED BY <1>1, <1>2, <1>3, <1>4, <1>5, <1>6, <1>7, <1>8

-----------------------------------------------------------------------------
(* Statements and commits.                                                 *)

LEMMA MigrationItem ==
  ASSUME NEW m \in Known, NEW i \in 0..Steps
  PROVE  /\ <<m, i>> \in Item /\ m # 0
         /\ \A x : x[1] = 0 => x # <<m, i>>
BY ConstantsAssumption DEF Item

\* What leaves the migrations' items alone.
LEMMA RowsMove ==
  ASSUME MigrationInv, UNCHANGED given, DOMAIN db' = Item, DOMAIN session' = Client,
         \A m \in Known, i \in 0..Steps : db'[<<m, i>>] = db[<<m, i>>],
         \A d \in Client : Local(d, session'[d], db, backend), Apart'
  PROVE  MigrationInv'
<1>1. backend' = backend /\ GivenTyped'
  BY DEF given, GivenTyped, MigrationInv
<1>2. Counted' /\ RecordedOnce' /\ MigratedOnce'
  BY <1>1, ItemsKept DEF MigrationInv
<1>3. \A d \in Client : Local(d, session'[d], db', backend')
  BY <1>1, SameItems
<1> QED BY <1>1, <1>2, <1>3 DEF MigrationInv

\* A statement of a client that does not migrate.
LEMMA ExecutePlain ==
  ASSUME MigrationInv, NEW c \in Client \ Migrators, Execute(c)
  PROVE  MigrationInv'
<1> USE SessionFieldsAre
<1> DEFINE s == session[c]
           stmt == Head(s.todo)
           view == View(c)
           touched == Touched(view, stmt)
<1>1. /\ Local(c, s, db, backend) /\ DOMAIN s = SessionFields /\ Plain(s.todo)
      /\ s.pc = "open" /\ s.todo # <<>> /\ \A x \in DOMAIN s.own : x[1] = 0
  BY DEF MigrationInv, Local, Execute, At
<1>2. Plain(Tail(s.todo)) /\ stmt.op # "script"
  BY <1>1, PlainTail
<1>3. \A x \in touched : x[1] = 0
  <2> HIDE DEF stmt, view
  <2> QED BY <1>2, PlainTouches
<1>4. UNCHANGED given /\ DOMAIN session = Client
  BY DEF Execute, MigrationInv
<1>5. CASE Fails(view, stmt)
  <2>1. Failed(c) /\ db' = db
    BY <1>5 DEF Execute
  <2> QED BY <1>4, <2>1, FailedKeeps
<1>6. CASE ~Fails(view, stmt) /\ Alone(c)
  <2> DEFINE new == [s EXCEPT !.todo = Tail(@)]
  <2>1. db' = [i \in Item |-> IF i \in touched THEN Result(view, stmt, i) ELSE db[i]]
    BY <1>6 DEF Execute
  <2>2. session' = [session EXCEPT ![c] = new]
    BY <1>6 DEF Execute
  <2> HIDE DEF stmt, view, touched
  <2>3. \A m \in Known, i \in 0..Steps : db'[<<m, i>>] = db[<<m, i>>]
    BY <1>3, <2>1, MigrationItem
  <2>4. /\ DOMAIN new = SessionFields /\ new.own = s.own /\ new.wrote = s.wrote
        /\ new.todo = Tail(s.todo) /\ new.pc = "open"
    BY <1>1
  <2> HIDE DEF new
  <2>5. Local(c, new, db, backend)
    BY <1>1, <1>2, <2>4 DEF Local
  <2>6. \A d \in Client : Local(d, session'[d], db, backend)
    BY <1>4, <2>2, <2>5 DEF MigrationInv
  <2>7. Apart'
    BY <1>4, <2>2 DEF MigrationInv, Apart, Migrators, Client
  <2> QED BY <1>4, <2>1, <2>2, <2>3, <2>6, <2>7, RowsMove
<1>7. CASE ~Fails(view, stmt) /\ ~Alone(c)
  <2> DEFINE own == [i \in DOMAIN s.own \cup touched |->
                       IF i \in touched THEN Result(view, stmt, i) ELSE s.own[i]]
             new == [s EXCEPT !.todo = Tail(@), !.wrote = TRUE, !.spans = Cover(c, stmt),
                              !.own = own]
  <2>1. session' = [session EXCEPT ![c] = new] /\ db' = db
    BY <1>7 DEF Execute, Inserted, Becomes
  <2>2. \A x \in DOMAIN own : x[1] = 0
    BY <1>1, <1>3
  <2> HIDE DEF own
  <2>3. /\ DOMAIN new = SessionFields /\ new.own = own /\ new.wrote = TRUE
        /\ new.todo = Tail(s.todo) /\ new.pc = "open"
    BY <1>1
  <2> HIDE DEF new
  <2>4. Local(c, new, db, backend)
    BY <1>2, <2>2, <2>3 DEF Local
  <2> QED BY <1>4, <2>1, <2>4, OneMoves
<1> QED BY <1>5, <1>6, <1>7

\* A statement of a migration, under the locks of the other clients.
LEMMA ExecuteScript ==
  ASSUME MigrationInv, NEW c \in Migrators, Execute(c)
  PROVE  MigrationInv'
<1> USE SessionFieldsAre, ConstantsAssumption
<1> DEFINE s == session[c]
           stmt == Head(s.todo)
           view == View(c)
           touched == Touched(view, stmt)
           d == IF c = "cli" THEN "engine" ELSE "cli"
<1>0. c \in Client /\ d \in Migrators /\ d # c /\ d \in Client /\ Migrators = {c, d}
  BY DEF Migrators, Client
<1>1. /\ Local(c, s, db, backend) /\ DOMAIN s = SessionFields /\ s.pending \subseteq Known
      /\ s.pc = "open" /\ s.todo # <<>> /\ Midway(s, db, backend)
  BY <1>0 DEF MigrationInv, Local, Execute, At
<1>2. PICK m \in Known, j \in 1..(Steps + 2) : Amid(m, j, s, db, backend)
  BY <1>1 DEF Midway
<1> DEFINE item == ItemAt(m, j)
<1>3. /\ j + 1 \in 1..(Steps + 2) /\ j <= Steps + 1
      /\ stmt = [op |-> "script", item |-> item]
      /\ Tail(s.todo) = Left(m, j + 1)
      /\ Ran(m, j + 1) = Ran(m, j) \cup {item}
      /\ item \notin Ran(m, j) /\ item \in Item
  BY <1>1, <1>2, LeftStep DEF Amid
<1>4. PICK i \in 0..Steps : item = <<m, i>> /\ (i = 0 => j = Steps + 1)
  <2>1. j \in 0..Steps \/ j = Steps + 1
    BY <1>3
  <2> QED BY <2>1 DEF ItemAt
<1>5. touched = {item}
  BY <1>3 DEF Touched
<1>6. UNCHANGED given /\ backend' = backend /\ DOMAIN session = Client /\ DOMAIN db = Item
  BY DEF Execute, MigrationInv, given, Counted
<1>7. CASE Fails(view, stmt)
  <2>1. Failed(c) /\ db' = db
    BY <1>7 DEF Execute
  <2> QED BY <1>0, <1>6, <2>1, FailedKeeps
<1>8. item \notin DOMAIN s.own
  BY <1>2, <1>3 DEF Amid
<1>9. view[item] = db[item]
  <2>1. ~Concurrent(c)
    BY DEF Concurrent, Migrators
  <2> QED BY <1>3, <1>8, <2>1 DEF View
<1>10. ~Fails(view, stmt) => (i = 0 => ~(db[item] > 0))
  <2> HIDE DEF view
  <2> QED BY <1>3, <1>4, <1>9 DEF Fails
<1>11. Result(view, stmt, item) = db[item] + 1
  <2> HIDE DEF view
  <2> QED BY <1>3, <1>9 DEF Result
<1>12. db[item] \in Nat
  BY <1>4 DEF MigrationInv, Counted
<1>13. CASE ~Fails(view, stmt) /\ Alone(c)
  <2> DEFINE new == [s EXCEPT !.todo = Tail(@)]
  <2>1. backend = "sqlite"
    BY <1>13 DEF Alone, Migrators
  <2>2. db' = [x \in Item |-> IF x \in touched THEN Result(view, stmt, x) ELSE db[x]]
    BY <1>13 DEF Execute
  <2>3. session' = [session EXCEPT ![c] = new]
    BY <1>13 DEF Execute
  <2> HIDE DEF stmt, view, touched, item
  <2>4. db'[item] = db[item] + 1 /\ \A x \in Item : x # item => db'[x] = db[x]
    BY <1>3, <1>5, <1>11, <2>2
  <2>5. /\ DOMAIN new = SessionFields /\ new.own = s.own /\ new.wrote = s.wrote
        /\ new.todo = Left(m, j + 1) /\ new.pc = "open" /\ new.pending = s.pending
    BY <1>1, <1>3
  <2> HIDE DEF new
  <2>6. \A n \in Known, k \in 0..Steps :
          /\ <<n, k>> \in Item /\ db[<<n, k>>] \in Nat /\ db'[<<n, k>>] \in Nat
          /\ db'[<<n, k>>] >= db[<<n, k>>]
    <3> TAKE n \in Known, k \in 0..Steps
    <3> DEFINE y == <<n, k>>
    <3>1. y \in Item /\ db[y] \in Nat
      BY MigrationItem DEF MigrationInv, Counted
    <3> HIDE DEF y
    <3>2. db'[y] = db[y] \/ db'[y] = db[y] + 1
      BY <2>4, <3>1
    <3>3. db'[y] \in Nat /\ db'[y] >= db[y]
      BY <3>1, <3>2
    <3> QED BY <3>1, <3>3 DEF y
  <2>7. ASSUME NEW n \in Known, NEW k \in 1..(Steps + 2), NEW r, Amid(n, k, r, db, backend)
        PROVE  Amid(n, k, r, db', backend')
    <3>1. \A x \in Ran(n, k) : db[x] > 0 => db'[x] > 0
      BY <2>6, RanItems
    <3> QED BY <1>6, <2>1, <2>7, <3>1 DEF Amid
  <2>8. Amid(m, j + 1, new, db', backend')
    <3>1. \A x \in Ran(m, j) : db'[x] > 0
      <4>1. \A x \in Ran(m, j) : db[x] > 0
        BY <1>2, <2>1 DEF Amid
      <4>2. ASSUME NEW x \in Ran(m, j) PROVE db'[x] > 0
        <5>1. PICK k \in 0..Steps : x = <<m, k>>
          BY RanItems
        <5>2. db[x] \in Nat /\ db'[x] \in Nat /\ db'[x] >= db[x]
          BY <2>6, <5>1
        <5> QED BY <4>1, <5>2
      <4> QED BY <4>2
    <3>2. \A x \in Ran(m, j + 1) : db'[x] > 0
      BY <1>3, <1>12, <2>4, <3>1
    <3>3. DOMAIN new.own = {}
      BY <1>2, <2>1, <2>5 DEF Amid
    <3> QED BY <1>6, <2>1, <2>5, <3>2, <3>3 DEF Amid
  <2>9. Local(c, new, db', backend')
    <3>1. Midway(new, db', backend')
      BY <1>3, <2>5, <2>8 DEF Midway
    <3> QED BY <1>1, <2>5, <3>1 DEF Local
  <2>10. \A e \in Client : Local(e, session'[e], db', backend')
    <3>1. session'[c] = new /\ \A e \in Client \ {c} : session'[e] = session[e]
      BY <1>0, <1>6, <2>3
    <3>2. ASSUME NEW e \in Client \ {c} PROVE Local(e, session[e], db', backend')
      <4>1. Local(e, session[e], db, backend)
        BY DEF MigrationInv
      <4>2. Midway(session[e], db, backend) => Midway(session[e], db', backend')
        BY <2>7 DEF Midway
      <4> QED BY <4>1, <4>2 DEF Local
    <3> QED BY <2>9, <3>1, <3>2
  <2>11. Apart'
    BY <1>0, <1>6, <2>3, <2>5 DEF MigrationInv, Apart, Client
  <2>12. RecordedOnce'
    <3>1. ASSUME NEW n \in Known PROVE db'[<<n, 0>>] <= 1
      <4>1. 0 \in 0..Steps /\ db[<<n, 0>>] <= 1 /\ <<n, 0>> \in Item
        BY MigrationItem DEF MigrationInv, RecordedOnce
      <4>2. CASE item = <<n, 0>>
        <5>1. i = 0
          BY <1>4, <4>2
        <5> QED BY <1>10, <1>12, <1>13, <2>4, <4>2, <5>1
      <4>3. CASE item # <<n, 0>>
        BY <2>4, <4>1, <4>3
      <4> QED BY <4>2, <4>3
    <3> QED BY <3>1 DEF RecordedOnce
  <2>13. MigratedOnce'
    <3>1. ASSUME NEW n \in Known, db'[<<n, 0>>] = 1, NEW k \in 1..Steps
          PROVE  db'[<<n, k>>] > 0
      <4>1. k \in 0..Steps /\ 0 \in 0..Steps /\ <<n, 0>> \in Item
        BY MigrationItem
      <4>2. CASE item = <<n, 0>>
        <5>1. j = Steps + 1 /\ n = m
          BY <1>4, <4>2
        <5>2. k \in 1..(j - 1) /\ ItemAt(m, k) = <<n, k>>
          BY <5>1 DEF ItemAt
        <5>3. db[<<n, k>>] > 0
          BY <1>2, <2>1, <5>2 DEF Amid, Ran
        <5>4. db[<<n, k>>] \in Nat /\ db'[<<n, k>>] \in Nat /\ db'[<<n, k>>] >= db[<<n, k>>]
          BY <2>6, <4>1
        <5> QED BY ONLY <5>3, <5>4
      <4>3. CASE item # <<n, 0>>
        <5>1. db[<<n, 0>>] = 1
          BY <2>4, <3>1, <4>1, <4>3
        <5>2. db[<<n, k>>] > 0
          BY <2>1, <5>1 DEF MigrationInv, MigratedOnce
        <5>3. db[<<n, k>>] \in Nat /\ db'[<<n, k>>] \in Nat /\ db'[<<n, k>>] >= db[<<n, k>>]
          BY <2>6, <4>1
        <5> QED BY ONLY <5>2, <5>3
      <4> QED BY <4>2, <4>3
    <3> QED BY <1>6, <2>1, <3>1 DEF MigratedOnce
  <2>14. Counted'
    BY <2>2, <2>6 DEF Counted
  <2>15. GivenTyped' /\ DOMAIN session' = Client
    BY <1>6, <2>3 DEF MigrationInv, GivenTyped, given
  <2> QED BY <2>10, <2>11, <2>12, <2>13, <2>14, <2>15 DEF MigrationInv
<1>14. CASE ~Fails(view, stmt) /\ ~Alone(c)
  <2> DEFINE own == [x \in DOMAIN s.own \cup touched |->
                       IF x \in touched THEN Result(view, stmt, x) ELSE s.own[x]]
             new == [s EXCEPT !.todo = Tail(@), !.wrote = TRUE, !.spans = Cover(c, stmt),
                              !.own = own]
  <2>1. session' = [session EXCEPT ![c] = new] /\ db' = db
    BY <1>14 DEF Execute, Inserted, Becomes
  <2>2. backend # "sqlite"
    BY <1>14 DEF Alone, Migrators
  <2>3. item \notin DOMAIN session[d].own
    <3>1. ~Blocked(c, stmt)
      BY DEF Execute
    <3>2. CASE backend = "postgres"
      <4>1. touched \cap DOMAIN session[d].own = {}
        BY <1>0, <3>1, <3>2 DEF Blocked
      <4> QED BY <1>5, <4>1
    <3>3. CASE backend # "postgres"
      <4>1. ~session[d].wrote
        BY <1>0, <3>1, <3>3 DEF Blocked, Concurrent, Migrators
      <4>2. DOMAIN session[d].own = {}
        BY <1>0, <4>1 DEF MigrationInv, Local
      <4> QED BY <4>2
    <3> QED BY <3>2, <3>3
  <2> HIDE DEF stmt, view, touched, item
  <2>4. /\ DOMAIN own = Ran(m, j + 1) /\ own[item] = db[item] + 1
        /\ \A x \in Ran(m, j) : own[x] = db[x] + 1
    BY <1>2, <1>3, <1>5, <1>8, <1>11, <2>2 DEF Amid
  <2> HIDE DEF own
  <2>5. /\ DOMAIN new = SessionFields /\ new.own = own /\ new.wrote = TRUE
        /\ new.todo = Left(m, j + 1) /\ new.pc = "open" /\ new.pending = s.pending
    BY <1>1, <1>3
  <2> HIDE DEF new
  <2>6. Amid(m, j + 1, new, db, backend)
    <3>1. \A x \in Ran(m, j + 1) : new.own[x] = db[x] + 1
      BY <1>3, <2>4, <2>5
    <3>2. <<m, 0>> \in Ran(m, j + 1) => db[<<m, 0>>] = 0
      <4>1. CASE item = <<m, 0>>
        <5>1. i = 0
          BY <1>4, <4>1
        <5> QED BY <1>10, <1>12, <1>14, <4>1, <5>1
      <4>2. CASE item # <<m, 0>>
        BY <1>2, <1>3, <2>2, <4>2 DEF Amid
      <4> QED BY <4>1, <4>2
    <3> QED BY <2>2, <2>4, <2>5, <3>1, <3>2 DEF Amid
  <2>7. Local(c, new, db, backend)
    <3>1. Midway(new, db, backend)
      BY <1>3, <2>5, <2>6 DEF Midway
    <3> QED BY <1>1, <2>5, <3>1 DEF Local
  <2>8. session'[c] = new /\ \A e \in Client \ {c} : session'[e] = session[e]
    BY <1>0, <1>6, <2>1
  <2>9. \A e \in Client : Local(e, session'[e], db, backend)
    BY <2>7, <2>8 DEF MigrationInv
  <2>10. Apart'
    <3>1. DOMAIN session[c].own \cap DOMAIN session[d].own = {}
      BY DEF MigrationInv, Apart, Migrators
    <3>2. DOMAIN s.own = Ran(m, j)
      BY <1>2, <2>2 DEF Amid
    <3>3. DOMAIN new.own \cap DOMAIN session[d].own = {}
      BY <1>3, <2>3, <2>4, <2>5, <3>1, <3>2
    <3>4. session'[d] = session[d]
      BY <1>0, <2>8
    <3> QED BY <1>0, <2>8, <3>3, <3>4 DEF Apart, Migrators
  <2>11. DOMAIN session' = Client /\ DOMAIN db' = Item
    BY <1>6, <2>1
  <2> QED BY <1>6, <2>1, <2>9, <2>10, <2>11, RowsMove
<1> QED BY <1>7, <1>13, <1>14

\* What a commit leaves of the sessions: the client's own is over, and the others, apart
\* from the rows a concurrent transaction is to be refused for, are what they were.
LEMMA NoticedSessions ==
  ASSUME MigrationInv, NEW c \in Client, NEW after, NEW items,
         session' = Noticed([session EXCEPT ![c] = after], c, items)
  PROVE  /\ DOMAIN session' = Client /\ session'[c] = after
         /\ \A d \in Migrators \ {c} : session'[d] = session[d]
         /\ \A d \in Client \ {c} : Local(d, session'[d], db, backend)
<1> USE SessionFieldsAre
<1>0. DOMAIN session = Client /\ Migrators \subseteq Client
  BY DEF MigrationInv, Migrators, Client
<1>1. DOMAIN session' = Client /\ session'[c] = after
  BY <1>0 DEF Noticed
<1>2. \A d \in Migrators \ {c} : session'[d] = session[d]
  BY <1>0 DEF Noticed, Concurrent, Migrators
<1>3. ASSUME NEW d \in Client \ {c} PROVE Local(d, session'[d], db, backend)
  <2> DEFINE s == session[d]
             new == session'[d]
  <2>1. Local(d, s, db, backend) /\ DOMAIN s = SessionFields
    BY DEF MigrationInv, Local
  <2>2. CASE d \in Migrators
    BY <1>2, <2>1, <2>2
  <2>3. CASE d \notin Migrators
    <3>1. \/ new = s
          \/ new = [s EXCEPT !.stale = @ \cup items]
      BY <1>0 DEF Noticed
    <3>2. /\ DOMAIN new = SessionFields /\ new.own = s.own /\ new.wrote = s.wrote
          /\ new.todo = s.todo /\ new.pc = s.pc
      <4> HIDE DEF new, s
      <4> QED BY <2>1, <3>1
    <3> HIDE DEF new, s
    <3>3. Local(d, new, db, backend)
      BY <2>1, <2>3, <3>2 DEF Local
    <3> QED BY <3>3 DEF new
  <2> QED BY <2>2, <2>3
<1> QED BY <1>1, <1>2, <1>3

LEMMA CommittedKeeps ==
  ASSUME MigrationInv, NEW c \in Client, NEW after, UNCHANGED given, Committed(c, after),
         session[c].pc = "open", session[c].todo = <<>>,
         DOMAIN after = SessionFields, DOMAIN after.own = {}, Plain(after.todo),
         after.pending \subseteq Known, after.pc \notin {"ready", "connected", "open"},
         after.pc = "next" => c \in Migrators
  PROVE  MigrationInv'
<1> USE ConstantsAssumption
<1> DEFINE s == session[c]
           own == s.own
<1>1. db' = [x \in Item |-> IF x \in DOMAIN own THEN own[x] ELSE db[x]]
  BY DEF Committed, Merge
<1>2. /\ DOMAIN session' = Client /\ session'[c] = after
      /\ \A d \in Migrators \ {c} : session'[d] = session[d]
      /\ \A d \in Client \ {c} : Local(d, session'[d], db, backend)
  BY NoticedSessions DEF Committed
<1>3. Local(c, after, db, backend) /\ Local(c, after, db', backend')
  BY RestLocal
<1>4. Apart'
  BY <1>2 DEF MigrationInv, Apart, Migrators
<1>5. backend' = backend /\ GivenTyped'
  BY DEF given, MigrationInv, GivenTyped
<1>6. Local(c, s, db, backend)
  BY DEF MigrationInv
<1>7. CASE c \notin Migrators
  <2>1. \A x \in DOMAIN own : x[1] = 0
    BY <1>6, <1>7 DEF Local
  <2> HIDE DEF own
  <2>2. \A m \in Known, i \in 0..Steps : db'[<<m, i>>] = db[<<m, i>>]
    BY <1>1, <2>1, MigrationItem
  <2> QED BY <1>1, <1>2, <1>3, <1>4, <2>2, RowsMove
<1>8. CASE c \in Migrators
  <2>1. PICK m \in Known, j \in 1..(Steps + 2) : Amid(m, j, s, db, backend)
    BY <1>6, <1>8 DEF Local, Midway
  <2>2. j = Steps + 2 /\ Ran(m, j) = {<<m, i>> : i \in 0..Steps}
    BY <2>1, LeftOver DEF Amid
  <2>3. CASE backend = "sqlite"
    <3>1. DOMAIN own = {}
      BY <2>1, <2>3 DEF Amid
    <3> HIDE DEF own
    <3>2. \A n \in Known, i \in 0..Steps : db'[<<n, i>>] = db[<<n, i>>]
      BY <1>1, <3>1, MigrationItem
    <3> QED BY <1>1, <1>2, <1>3, <1>4, <3>2, RowsMove
  <2>4. CASE backend # "sqlite"
    <3>1. /\ DOMAIN own = {<<m, i>> : i \in 0..Steps} /\ db[<<m, 0>>] = 0
          /\ \A x \in DOMAIN own : own[x] = db[x] + 1
      BY <2>1, <2>2, <2>4 DEF Amid
    <3> HIDE DEF own
    <3>2. \A i \in 0..Steps : db'[<<m, i>>] = db[<<m, i>>] + 1
      BY <1>1, <3>1, MigrationItem
    <3>3. \A n \in Known \ {m}, i \in 0..Steps : db'[<<n, i>>] = db[<<n, i>>]
      BY <1>1, <3>1, MigrationItem
    <3>4. 0 \in 0..Steps /\ \A i \in 1..Steps : i \in 0..Steps
      OBVIOUS
    <3>5. \A n \in Known, i \in 0..Steps : db[<<n, i>>] \in Nat
      BY DEF MigrationInv, Counted
    <3>6. Counted'
      <4>1. \A n \in Known, i \in 0..Steps : db'[<<n, i>>] \in Nat
        <5> TAKE n \in Known, i \in 0..Steps
        <5>1. CASE n = m
          BY <3>2, <3>5, <5>1
        <5>2. CASE n # m
          BY <3>3, <3>5, <5>2
        <5> QED BY <5>1, <5>2
      <4> QED BY <1>1, <4>1 DEF Counted
    <3>7. RecordedOnce'
      <4>1. \A n \in Known : db[<<n, 0>>] <= 1
        BY DEF MigrationInv, RecordedOnce
      <4>2. ASSUME NEW n \in Known PROVE db'[<<n, 0>>] <= 1
        <5>1. CASE n = m
          <6>1. db'[<<m, 0>>] = db[<<m, 0>>] + 1 /\ db[<<m, 0>>] = 0
            BY <3>1, <3>2, <3>4
          <6> QED BY <5>1, <6>1
        <5>2. CASE n # m
          <6>1. db'[<<n, 0>>] = db[<<n, 0>>]
            BY <3>3, <3>4, <5>2
          <6> QED BY <4>1, <6>1
        <5> QED BY <5>1, <5>2
      <4> QED BY <4>2 DEF RecordedOnce
    <3>8. MigratedOnce'
      <4>1. \A n \in Known, i \in 1..Steps : db[<<n, i>>] = db[<<n, 0>>]
        BY <2>4 DEF MigrationInv, MigratedOnce
      <4>2. ASSUME NEW n \in Known, NEW i \in 1..Steps PROVE db'[<<n, i>>] = db'[<<n, 0>>]
        <5>1. CASE n = m
          BY <3>2, <3>4, <4>1, <5>1
        <5>2. CASE n # m
          BY <3>3, <3>4, <4>1, <5>2
        <5> QED BY <5>1, <5>2
      <4> QED BY <1>5, <2>4, <4>2 DEF MigratedOnce
    <3>9. ASSUME NEW d \in Client \ {c} PROVE Local(d, session'[d], db', backend')
      <4> DEFINE r == session'[d]
      <4>1. Local(d, r, db, backend)
        BY <1>2
      <4>2. CASE d \notin Migrators
        <5> HIDE DEF r
        <5>1. Local(d, r, db', backend')
          BY <4>1, <4>2 DEF Local
        <5> QED BY <5>1 DEF r
      <4>3. CASE d \in Migrators
        <5>1. DOMAIN r.own \cap DOMAIN own = {}
          <6>1. r = session[d] /\ {c, d} = {"cli", "engine"}
            BY <1>2, <1>8, <4>3 DEF Migrators
          <6> QED BY <6>1 DEF MigrationInv, Apart, own
        <5> HIDE DEF r
        <5>2. ASSUME NEW n \in Known, NEW k \in 1..(Steps + 2), Amid(n, k, r, db, backend)
              PROVE  Amid(n, k, r, db', backend')
          <6>1. DOMAIN r.own = Ran(n, k)
            BY <2>4, <5>2 DEF Amid
          <6>2. \A x \in Ran(n, k) : db'[x] = db[x]
            <7> TAKE x \in Ran(n, k)
            <7>1. PICK i \in 0..Steps : x = <<n, i>>
              BY RanItems
            <7>2. x \notin DOMAIN own /\ x \in Item
              BY <5>1, <6>1, <7>1, MigrationItem
            <7> QED BY <1>1, <7>2
          <6> QED BY <1>5, <2>4, <5>2, <6>2 DEF Amid
        <5>3. Midway(r, db, backend) => Midway(r, db', backend')
          BY <5>2 DEF Midway
        <5>4. Local(d, r, db', backend')
          BY <4>1, <4>3, <5>3 DEF Local
        <5> QED BY <5>4 DEF r
      <4> QED BY <4>2, <4>3
    <3>10. \A d \in Client : Local(d, session'[d], db', backend')
      BY <1>2, <1>3, <3>9
    <3> QED BY <1>2, <1>4, <1>5, <3>6, <3>7, <3>8, <3>10 DEF MigrationInv
  <2> QED BY <2>3, <2>4
<1> QED BY <1>7, <1>8

LEMMA CommitKeeps ==
  ASSUME MigrationInv, NEW c \in Client, Commit(c) \/ CommitUnreported(c)
  PROVE  MigrationInv'
<1> USE SessionFieldsAre
<1>1. UNCHANGED given /\ session[c].pc = "open" /\ session[c].todo = <<>>
  BY DEF Commit, CommitUnreported, At
<1>2. CASE Failed(c) /\ db' = db
  BY <1>1, <1>2, FailedKeeps
<1>3. CASE Committed(c, After(c))
  <2> DEFINE after == After(c)
  <2>1. c \in Migrators => session[c].pending \subseteq Known
    BY DEF MigrationInv, Local
  <2>2. /\ DOMAIN after = SessionFields /\ DOMAIN after.own = {} /\ after.todo = <<>>
        /\ after.pending \subseteq Known /\ after.pc \in {"next", "export", "done"}
        /\ after.pc = "next" => c \in Migrators
    <3>1. CASE c \in Migrators
      BY <2>1, <3>1 DEF After, Rest, Migrators
    <3>2. CASE c \notin Migrators
      BY <3>2 DEF After, Rest, Migrators
    <3> QED BY <3>1, <3>2
  <2> HIDE DEF after
  <2> QED BY <1>1, <1>3, <2>2, PlainNone, CommittedKeeps DEF after
<1>4. CASE Committed(c, FailedState(c))
  <2> DEFINE after == FailedState(c)
  <2>1. /\ DOMAIN after = SessionFields /\ DOMAIN after.own = {} /\ after.todo = <<>>
        /\ after.pending = {} /\ after.pc \in {"rest", "done"}
    BY DEF FailedState, Rest
  <2> HIDE DEF after
  <2> QED BY <1>1, <1>4, <2>1, PlainNone, CommittedKeeps DEF after
<1> QED BY <1>2, <1>3, <1>4 DEF Commit, CommitUnreported

-----------------------------------------------------------------------------
LEMMA MigrationInit == DatabaseInit => MigrationInv
<1> SUFFICES ASSUME DatabaseInit PROVE MigrationInv
  OBVIOUS
<1> USE ConstantsAssumption
<1>1. GivenTyped
  <2>1. <<>> \in Seq(Input)
    OBVIOUS
  <2> QED BY <2>1 DEF GivenTyped, DatabaseInit
<1>2. PICK ran : db = [x \in Item |-> IF x[1] = 0 THEN NoRow ELSE IF x[1] \in ran THEN 1 ELSE 0]
  BY DEF DatabaseInit
<1>3. \A m \in Known, i \in 0..Steps : db[<<m, i>>] = IF m \in ran THEN 1 ELSE 0
  BY <1>2, MigrationItem
<1>4. 0 \in 0..Steps /\ \A i \in 1..Steps : i \in 0..Steps
  OBVIOUS
<1>5. Counted
  BY <1>2, <1>3 DEF Counted
<1>6. RecordedOnce
  <2>1. ASSUME NEW m \in Known PROVE db[<<m, 0>>] <= 1
    <3>1. db[<<m, 0>>] = IF m \in ran THEN 1 ELSE 0
      BY <1>3, <1>4
    <3> QED BY <3>1
  <2> QED BY <2>1 DEF RecordedOnce
<1>7. MigratedOnce
  BY <1>3, <1>4 DEF MigratedOnce
<1>8. session = [c \in Client |-> Rest]
  BY DEF DatabaseInit
<1>9. \A c \in Client : Local(c, session[c], db, backend)
  BY <1>8, FailedLocal
<1>10. Apart
  BY <1>8 DEF Apart, Client, Rest
<1> QED BY <1>1, <1>5, <1>6, <1>7, <1>8, <1>9, <1>10 DEF MigrationInv

LEMMA MigrationNext == MigrationInv /\ [DatabaseNext]_databaseVars => MigrationInv'
<1> SUFFICES ASSUME MigrationInv, [DatabaseNext]_databaseVars PROVE MigrationInv'
  OBVIOUS
<1>1. UNCHANGED <<given, db, session>> => MigrationInv'
  BY DEF MigrationInv, GivenTyped, given, Counted, Apart, RecordedOnce, MigratedOnce
<1>2. CASE \/ StartLoad \/ StartFlush \/ AskDelete \/ ConfirmDelete \/ AskClear \/ AskMigrate
           \/ ReporterRaises \/ Export
  BY <1>2, StartsKeep
<1>3. CASE \E c \in Client : \/ Answer(c) \/ Scan(c) \/ NextMigration(c) \/ Connect(c)
                             \/ Begin(c) \/ TimeOut(c) \/ Crash(c) \/ Again(c)
  BY <1>3, StepsKeep
<1>4. CASE \E c \in Client : Execute(c)
  BY <1>4, ExecutePlain, ExecuteScript
<1>5. CASE \E c \in Client : Commit(c) \/ CommitUnreported(c)
  BY <1>5, CommitKeeps
<1>6. CASE \/ \E to \in {"table", "file", "pipe"}, header \in BOOLEAN : StartSelect(to, header)
           \/ Chunk \/ Resolve \/ Deliver
  BY <1>1, <1>6 DEF StartSelect, Chunk, Resolve, Deliver
<1>7. CASE UNCHANGED databaseVars
  BY <1>1, <1>7 DEF databaseVars
<1> QED BY <1>2, <1>3, <1>4, <1>5, <1>6, <1>7 DEF DatabaseNext

\* Whoever else migrates, writes, times out or dies meanwhile: a migration is recorded only
\* with every statement of its script, at most once, and where a script is one transaction
\* each statement took effect exactly as often as the record (migrate, execute_script).
THEOREM AlwaysMigratedOnce == DatabaseSpec => [](MigratedOnce /\ RecordedOnce)
<1>1. MigrationInv => MigratedOnce /\ RecordedOnce
  BY DEF MigrationInv
<1> QED BY <1>1, MigrationInit, MigrationNext, PTL DEF DatabaseSpec

-----------------------------------------------------------------------------
\* A set of numbers that is not empty has a smallest one.
LEMMA LeastOf ==
  ASSUME NEW T, T \subseteq Nat, T # {}
  PROVE  \E x \in T : \A y \in T : x <= y
<1> DEFINE R == OpToRel(<, Nat)
<1>1. IsWellFoundedOn(R, Nat)
  BY NatLessThanWellFounded
<1>2. R = {ss \in Nat \X Nat : ss[1] < ss[2]}
  BY DEF OpToRel
<1> HIDE DEF R
<1>3. \E x \in T : \A y \in T : ~(<<y, x>> \in R)
  BY <1>1, WFMin
<1>4. \A x, y \in T : ~(<<y, x>> \in R) => x <= y
  BY <1>2
<1> QED BY <1>3, <1>4

-----------------------------------------------------------------------------
(* The matcher and the SQL.                                                *)

\* The tokens of a pattern that stand for one character each cut the text one character
\* further each.
LEMMA CutsOn ==
  ASSUME NEW cut, NEW a \in Nat, NEW b \in Nat,
         \A i \in a .. b : cut[i] \in Int,
         \A i \in a .. b : i # a => cut[i] = cut[i - 1] + 1
  PROVE  \A i \in a .. b : cut[i] = cut[a] + (i - a)
<1> DEFINE B == {i \in a .. b : cut[i] # cut[a] + (i - a)}
<1> SUFFICES ASSUME B # {} PROVE FALSE
  OBVIOUS
<1>1. PICK i \in B : \A j \in B : i <= j
  <2>1. B \subseteq Nat
    OBVIOUS
  <2> HIDE DEF B
  <2> QED BY <2>1, LeastOf
<1>2. i # a
  BY <1>1
<1>3. i \in a .. b /\ i - 1 \in a .. b /\ i - 1 \notin B
  BY <1>1, <1>2
<1>4. cut[i - 1] = cut[a] + (i - 1 - a) /\ cut[a] \in Int
  BY <1>3
<1> QED BY <1>1, <1>2, <1>3, <1>4

\* A pattern without escapes: a sequence of characters and of Many, any run of characters.
Many == None
Wrap(kind, p) ==
  CASE kind = "contains" -> <<Many>> \o p \o <<Many>>
    [] kind = "prefix" -> p \o <<Many>>
    [] kind = "suffix" -> <<Many>> \o p
PatternMatches(p, t) ==
  \E cut \in [0..Len(p) -> 0..Len(t)] :
    /\ cut[0] = 0 /\ cut[Len(p)] = Len(t)
    /\ \A i \in 1..Len(p) :
         IF p[i] = Many THEN cut[i - 1] <= cut[i]
         ELSE cut[i] = cut[i - 1] + 1 /\ t[cut[i]] = p[i]

LEMMA Characters ==
  ASSUME NEW p \in Seq(STRING)
  PROVE  \A i \in 1 .. Len(p) : p[i] \in STRING /\ p[i] # Many
  BY FilterAssumption DEF Many

\* What a compiled text matches (PatternMatches, with_wildcards) is what text_matches says.
LEMMA PrefixMatches ==
  ASSUME NEW p, NEW t, IsText(p), IsText(t)
  PROVE  PatternMatches(p \o <<Many>>, t) <=> IsPrefixOf(p, t)
<1> DEFINE q == p \o <<Many>>
           n == Len(p)
<1>1. p \in Seq(STRING) /\ t \in Seq(STRING) /\ n \in Nat /\ Len(t) \in Nat
  BY DEF IsText
<1>2. /\ Len(q) = n + 1 /\ \A i \in 1 .. n : q[i] = p[i] /\ q[i] # Many
      /\ q[n + 1] = Many
  BY <1>1, Characters
<1>3. ASSUME PatternMatches(q, t) PROVE IsPrefixOf(p, t)
  <2>1. PICK cut \in [0 .. Len(q) -> 0 .. Len(t)] :
           /\ cut[0] = 0 /\ cut[Len(q)] = Len(t)
           /\ \A i \in 1 .. Len(q) :
                IF q[i] = Many THEN cut[i - 1] <= cut[i]
                ELSE cut[i] = cut[i - 1] + 1 /\ t[cut[i]] = q[i]
    BY <1>3 DEF PatternMatches
  <2> HIDE DEF q
  <2>2. cut \in [0 .. n + 1 -> 0 .. Len(t)]
    BY <1>2
  <2>3. \A i \in 1 .. n : cut[i] = cut[i - 1] + 1 /\ t[cut[i]] = p[i]
    BY <1>1, <1>2, <2>1
  <2>4. \A i \in 0 .. n : cut[i] = i
    <3> HIDE DEF n
    <3>1. /\ 0 \in Nat /\ \A i \in 0 .. n : cut[i] \in Int
          /\ \A i \in 0 .. n : i # 0 => cut[i] = cut[i - 1] + 1
      BY <1>1, <2>2, <2>3
    <3>2. \A i \in 0 .. n : cut[i] = cut[0] + (i - 0)
      BY ONLY <1>1, <3>1, CutsOn
    <3> QED BY <1>1, <2>1, <3>2
  <2>5. n <= Len(t)
    <3>1. n \in 0 .. n + 1 /\ n \in 0 .. n
      BY <1>1
    <3>2. cut[n] \in 0 .. Len(t) /\ cut[n] = n
      BY <3>1, <2>2, <2>4
    <3> QED BY <1>1, <3>2
  <2>6. \A i \in 1 .. n : t[i] = p[i]
    BY <1>1, <2>1, <2>3, <2>4
  <2>7. SubSeq(t, 1, n) = p
    BY <1>1, <2>5, <2>6
  <2> QED BY <2>5, <2>7 DEF IsPrefixOf
<1>4. ASSUME IsPrefixOf(p, t) PROVE PatternMatches(q, t)
  <2>1. n <= Len(t) /\ \A i \in 1 .. n : t[i] = p[i]
    <3>1. n <= Len(t) /\ SubSeq(t, 1, n) = p
      BY <1>4 DEF IsPrefixOf
    <3>2. \A i \in 1 .. n : SubSeq(t, 1, n)[i] = t[i]
      BY <1>1, <3>1
    <3> QED BY <3>1, <3>2
  <2> DEFINE cut == [i \in 0 .. n + 1 |-> IF i = n + 1 THEN Len(t) ELSE i]
  <2>2. cut \in [0 .. Len(q) -> 0 .. Len(t)]
    BY <1>1, <1>2, <2>1
  <2>3. cut[0] = 0 /\ cut[Len(q)] = Len(t)
    BY <1>1, <1>2
  <2>4. ASSUME NEW i \in 1 .. Len(q)
        PROVE  IF q[i] = Many THEN cut[i - 1] <= cut[i]
               ELSE cut[i] = cut[i - 1] + 1 /\ t[cut[i]] = q[i]
    <3>1. CASE i = n + 1
      <4>1. q[i] = Many
        BY <1>2, <3>1
      <4>2. cut[i - 1] = n /\ cut[i] = Len(t)
        BY <1>1, <3>1
      <4> QED BY <4>1, <4>2, <2>1
    <3>2. CASE i # n + 1
      <4>1. i \in 1 .. n /\ i - 1 \in 0 .. n /\ i - 1 # n + 1
        BY <1>1, <1>2, <3>2
      <4>2. q[i] = p[i] /\ q[i] # Many
        BY <1>2, <4>1
      <4>3. cut[i] = i /\ cut[i - 1] = i - 1
        BY <1>1, <4>1
      <4> QED BY <4>1, <4>2, <4>3, <2>1
    <3> QED BY <3>1, <3>2
  <2> HIDE DEF cut
  <2> QED BY <2>2, <2>3, <2>4 DEF PatternMatches
<1> QED BY <1>3, <1>4

\* A run of a sequence, read place by place.
LEMMA CutOut ==
  ASSUME NEW t \in Seq(STRING), NEW p \in Seq(STRING), NEW k \in Nat, k + Len(p) <= Len(t)
  PROVE  (SubSeq(t, k + 1, k + Len(p)) = p) <=> (\A i \in 1 .. Len(p) : t[k + i] = p[i])
<1> DEFINE u == SubSeq(t, k + 1, k + Len(p))
<1>1. u \in Seq(STRING) /\ Len(u) = Len(p) /\ \A i \in 1 .. Len(p) : u[i] = t[k + i]
  <2>1. Len(p) \in Nat /\ Len(t) \in Nat
    OBVIOUS
  <2>2. \A i \in 1 .. Len(p) : k + 1 + i - 1 = k + i
    BY <2>1
  <2> QED BY <2>1, <2>2, SubSeqProperties
<1> HIDE DEF u
<1>2. (\A i \in 1 .. Len(p) : u[i] = p[i]) => u = p
  BY <1>1, SeqEqual
<1> QED BY <1>1, <1>2 DEF u

\* A text wrapped as a suffix.
LEMMA SuffixMatches ==
  ASSUME NEW p, NEW t, IsText(p), IsText(t)
  PROVE  PatternMatches(<<Many>> \o p, t)
           <=> Len(p) <= Len(t) /\ SubSeq(t, Len(t) - Len(p) + 1, Len(t)) = p
<1> DEFINE q == <<Many>> \o p
           n == Len(p)
<1>1. p \in Seq(STRING) /\ t \in Seq(STRING) /\ n \in Nat /\ Len(t) \in Nat
  BY DEF IsText
<1>2. /\ Len(q) = n + 1 /\ \A i \in 1 .. n : q[i + 1] = p[i] /\ q[i + 1] # Many
      /\ q[1] = Many
  BY <1>1, Characters
<1>3. ASSUME PatternMatches(q, t) PROVE n <= Len(t) /\ SubSeq(t, Len(t) - n + 1, Len(t)) = p
  <2>1. PICK cut \in [0 .. Len(q) -> 0 .. Len(t)] :
           /\ cut[0] = 0 /\ cut[Len(q)] = Len(t)
           /\ \A i \in 1 .. Len(q) :
                IF q[i] = Many THEN cut[i - 1] <= cut[i]
                ELSE cut[i] = cut[i - 1] + 1 /\ t[cut[i]] = q[i]
    BY <1>3 DEF PatternMatches
  <2> HIDE DEF q
  <2>2. cut \in [0 .. n + 1 -> 0 .. Len(t)]
    BY <1>2
  <2>3. \A i \in 1 .. n : cut[i + 1] = cut[i] + 1 /\ t[cut[i + 1]] = p[i]
    <3> SUFFICES ASSUME NEW i \in 1 .. n
                 PROVE  cut[i + 1] = cut[i] + 1 /\ t[cut[i + 1]] = p[i]
      OBVIOUS
    <3>1. i + 1 \in 1 .. Len(q) /\ (i + 1) - 1 = i
      BY <1>1, <1>2
    <3> QED BY <1>2, <2>1, <3>1
  <2>4. \A i \in 1 .. n + 1 : cut[i] = cut[1] + (i - 1)
    <3> HIDE DEF n
    <3>1. /\ 1 \in Nat /\ n + 1 \in Nat /\ \A i \in 1 .. n + 1 : cut[i] \in Int
      BY <1>1, <2>2
    <3>2. ASSUME NEW i \in 1 .. n + 1, i # 1 PROVE cut[i] = cut[i - 1] + 1
      <4>1. i - 1 \in 1 .. n /\ (i - 1) + 1 = i
        BY <1>1, <3>2
      <4> QED BY <4>1, <2>3
    <3> QED BY ONLY <1>1, <3>1, <3>2, CutsOn
  <2>5. cut[1] \in 0 .. Len(t) /\ cut[n + 1] \in 0 .. Len(t) /\ cut[n + 1] = cut[1] + n
    <3>1. n + 1 \in 1 .. n + 1 /\ n + 1 \in 0 .. n + 1 /\ 1 \in 0 .. n + 1
      BY <1>1
    <3>2. cut[n + 1] = cut[1] + ((n + 1) - 1)
      BY <2>4, <3>1
    <3>3. cut[1] \in 0 .. Len(t) /\ cut[n + 1] \in 0 .. Len(t)
      BY <2>2, <3>1
    <3> QED BY <1>1, <3>2, <3>3
  <2>6. \A i \in 1 .. n : t[cut[1] + i] = p[i]
    <3> SUFFICES ASSUME NEW i \in 1 .. n PROVE t[cut[1] + i] = p[i]
      OBVIOUS
    <3>1. i + 1 \in 1 .. n + 1
      BY <1>1
    <3>2. cut[i + 1] = cut[1] + ((i + 1) - 1)
      BY <2>4, <3>1
    <3>3. cut[i + 1] = cut[1] + i
      BY <1>1, <2>5, <3>2
    <3> QED BY <2>3, <3>3
  <2>7. SubSeq(t, cut[1] + 1, cut[1] + n) = p
    <3> DEFINE k == cut[1]
    <3>1. k \in Nat /\ k + Len(p) <= Len(t) /\ \A i \in 1 .. Len(p) : t[k + i] = p[i]
      BY <1>1, <2>5, <2>6
    <3> HIDE DEF k
    <3>2. SubSeq(t, k + 1, k + Len(p)) = p
      BY ONLY <1>1, <3>1, CutOut
    <3> QED BY <3>2 DEF k
  <2>8. cut[n + 1] = Len(t)
    BY <1>2, <2>1
  <2>9. cut[1] = Len(t) - n /\ n <= Len(t) /\ cut[1] + n = Len(t)
    <3> DEFINE k == cut[1]
               l == Len(t)
    <3>1. k \in Nat /\ l \in Nat /\ n \in Nat
      BY <1>1, <2>5
    <3>2. l = k + n
      BY <2>5, <2>8, Zenon
    <3> HIDE DEF k, l, n
    <3>3. k = l - n /\ n <= l /\ k + n = l
      BY ONLY <3>1, <3>2
    <3> QED BY <3>3 DEF k, l
  <2> QED BY <2>7, <2>9
<1>4. ASSUME n <= Len(t), SubSeq(t, Len(t) - n + 1, Len(t)) = p PROVE PatternMatches(q, t)
  <2> DEFINE k == Len(t) - n
  <2>1. k \in Nat /\ k + n = Len(t)
    BY <1>1, <1>4
  <2>2. \A i \in 1 .. n : t[k + i] = p[i]
    <3>1. SubSeq(t, k + 1, k + n) = p /\ k + n <= Len(t)
      BY <1>1, <1>4, <2>1
    <3> HIDE DEF k
    <3> QED BY <1>1, <2>1, <3>1, CutOut
  <2> HIDE DEF k
  <2> DEFINE cut == [i \in 0 .. n + 1 |-> IF i = 0 THEN 0 ELSE k + i - 1]
  <2>3. cut \in [0 .. Len(q) -> 0 .. Len(t)]
    BY <1>1, <1>2, <2>1
  <2>4. cut[0] = 0 /\ cut[Len(q)] = Len(t)
    BY <1>1, <1>2, <2>1
  <2>5. ASSUME NEW i \in 1 .. Len(q)
        PROVE  IF q[i] = Many THEN cut[i - 1] <= cut[i]
               ELSE cut[i] = cut[i - 1] + 1 /\ t[cut[i]] = q[i]
    <3>1. CASE i = 1
      <4>1. q[i] = Many
        BY <1>2, <3>1
      <4>2. cut[i - 1] = 0 /\ cut[i] = k
        BY <1>1, <2>1, <3>1
      <4> QED BY <4>1, <4>2, <2>1
    <3>2. CASE i # 1
      <4>1. i - 1 \in 1 .. n /\ (i - 1) + 1 = i /\ i \in 0 .. n + 1 /\ i - 1 \in 0 .. n + 1
        BY <1>1, <1>2, <3>2
      <4>2. q[i] = p[i - 1] /\ q[i] # Many
        BY <1>2, <4>1
      <4>3. cut[i] = k + (i - 1) /\ cut[i - 1] = k + (i - 1) - 1
        BY <1>1, <2>1, <4>1
      <4>4. t[k + (i - 1)] = p[i - 1]
        BY <2>2, <4>1
      <4> QED BY <4>1, <4>2, <4>3, <4>4, <2>1
    <3> QED BY <3>1, <3>2
  <2> HIDE DEF cut
  <2> QED BY <2>3, <2>4, <2>5 DEF PatternMatches
<1> QED BY <1>3, <1>4

\* A text wrapped on both sides.
LEMMA ContainsMatches ==
  ASSUME NEW p, NEW t, IsText(p), IsText(t)
  PROVE  PatternMatches(<<Many>> \o p \o <<Many>>, t)
           <=> \E i \in 0 .. (Len(t) - Len(p)) : SubSeq(t, i + 1, i + Len(p)) = p
<1> DEFINE q == <<Many>> \o p \o <<Many>>
           n == Len(p)
<1>1. p \in Seq(STRING) /\ t \in Seq(STRING) /\ n \in Nat /\ Len(t) \in Nat
  BY DEF IsText
<1>2. /\ Len(q) = n + 2 /\ \A i \in 1 .. n : q[i + 1] = p[i] /\ q[i + 1] # Many
      /\ q[1] = Many /\ q[n + 2] = Many
  BY <1>1, Characters
<1>3. ASSUME PatternMatches(q, t) PROVE \E i \in 0 .. (Len(t) - n) : SubSeq(t, i + 1, i + n) = p
  <2>1. PICK cut \in [0 .. Len(q) -> 0 .. Len(t)] :
           /\ cut[0] = 0 /\ cut[Len(q)] = Len(t)
           /\ \A i \in 1 .. Len(q) :
                IF q[i] = Many THEN cut[i - 1] <= cut[i]
                ELSE cut[i] = cut[i - 1] + 1 /\ t[cut[i]] = q[i]
    BY <1>3 DEF PatternMatches
  <2> HIDE DEF q
  <2>2. cut \in [0 .. n + 2 -> 0 .. Len(t)]
    BY <1>2
  <2>3. \A i \in 1 .. n : cut[i + 1] = cut[i] + 1 /\ t[cut[i + 1]] = p[i]
    <3> SUFFICES ASSUME NEW i \in 1 .. n
                 PROVE  cut[i + 1] = cut[i] + 1 /\ t[cut[i + 1]] = p[i]
      OBVIOUS
    <3>1. i + 1 \in 1 .. Len(q) /\ (i + 1) - 1 = i
      BY <1>1, <1>2
    <3> QED BY <1>2, <2>1, <3>1
  <2>4. \A i \in 1 .. n + 1 : cut[i] = cut[1] + (i - 1)
    <3> HIDE DEF n
    <3>1. /\ 1 \in Nat /\ n + 1 \in Nat /\ \A i \in 1 .. n + 1 : cut[i] \in Int
      BY <1>1, <2>2
    <3>2. ASSUME NEW i \in 1 .. n + 1, i # 1 PROVE cut[i] = cut[i - 1] + 1
      <4>1. i - 1 \in 1 .. n /\ (i - 1) + 1 = i
        BY <1>1, <3>2
      <4> QED BY <4>1, <2>3
    <3> QED BY ONLY <1>1, <3>1, <3>2, CutsOn
  <2>5. cut[1] \in 0 .. Len(t) /\ cut[n + 1] \in 0 .. Len(t) /\ cut[n + 1] = cut[1] + n
    <3>1. n + 1 \in 1 .. n + 1 /\ n + 1 \in 0 .. n + 2 /\ 1 \in 0 .. n + 2
      BY <1>1
    <3>2. cut[n + 1] = cut[1] + ((n + 1) - 1)
      BY <2>4, <3>1
    <3>3. cut[1] \in 0 .. Len(t) /\ cut[n + 1] \in 0 .. Len(t)
      BY <2>2, <3>1
    <3> QED BY <1>1, <3>2, <3>3
  <2>6. \A i \in 1 .. n : t[cut[1] + i] = p[i]
    <3> SUFFICES ASSUME NEW i \in 1 .. n PROVE t[cut[1] + i] = p[i]
      OBVIOUS
    <3>1. i + 1 \in 1 .. n + 1
      BY <1>1
    <3>2. cut[i + 1] = cut[1] + ((i + 1) - 1)
      BY <2>4, <3>1
    <3>3. cut[i + 1] = cut[1] + i
      BY <1>1, <2>5, <3>2
    <3> QED BY <2>3, <3>3
  <2>7. SubSeq(t, cut[1] + 1, cut[1] + n) = p
    <3> DEFINE k == cut[1]
    <3>1. k \in Nat /\ k + Len(p) <= Len(t) /\ \A i \in 1 .. Len(p) : t[k + i] = p[i]
      BY <1>1, <2>5, <2>6
    <3> HIDE DEF k
    <3>2. SubSeq(t, k + 1, k + Len(p)) = p
      BY ONLY <1>1, <3>1, CutOut
    <3> QED BY <3>2 DEF k
  <2>8. cut[1] \in 0 .. (Len(t) - n)
    BY <1>1, <2>5
  <2> QED BY <2>7, <2>8
<1>4. ASSUME NEW k \in 0 .. (Len(t) - n), SubSeq(t, k + 1, k + n) = p PROVE PatternMatches(q, t)
  <2>1. k \in Nat /\ k + n <= Len(t)
    BY <1>1, <1>4
  <2>2. \A i \in 1 .. n : t[k + i] = p[i]
    BY <1>1, <1>4, <2>1, CutOut
  <2> DEFINE cut == [i \in 0 .. n + 2 |-> IF i = 0 THEN 0 ELSE IF i = n + 2 THEN Len(t)
                                          ELSE k + i - 1]
  <2>3. cut \in [0 .. Len(q) -> 0 .. Len(t)]
    BY <1>1, <1>2, <2>1
  <2>4. cut[0] = 0 /\ cut[Len(q)] = Len(t)
    BY <1>1, <1>2, <2>1
  <2>5. ASSUME NEW i \in 1 .. Len(q)
        PROVE  IF q[i] = Many THEN cut[i - 1] <= cut[i]
               ELSE cut[i] = cut[i - 1] + 1 /\ t[cut[i]] = q[i]
    <3>1. CASE i = 1
      <4>1. q[i] = Many
        BY <1>2, <3>1
      <4>2. cut[i - 1] = 0 /\ cut[i] = k
        BY <1>1, <2>1, <3>1
      <4> QED BY <4>1, <4>2, <2>1
    <3>2. CASE i = n + 2
      <4>1. q[i] = Many
        BY <1>2, <3>2
      <4>2. cut[i - 1] = k + n /\ cut[i] = Len(t)
        BY <1>1, <2>1, <3>2
      <4> QED BY <4>1, <4>2, <2>1
    <3>3. CASE i # 1 /\ i # n + 2
      <4>1. /\ i - 1 \in 1 .. n /\ (i - 1) + 1 = i /\ i \in 0 .. n + 2 /\ i - 1 \in 0 .. n + 2
            /\ i - 1 # n + 2
        BY <1>1, <1>2, <3>3
      <4>2. q[i] = p[i - 1] /\ q[i] # Many
        BY <1>2, <4>1
      <4>3. cut[i] = k + (i - 1) /\ cut[i - 1] = k + (i - 1) - 1
        BY <1>1, <2>1, <3>3, <4>1
      <4>4. t[k + (i - 1)] = p[i - 1]
        BY <2>2, <4>1
      <4> QED BY <4>1, <4>2, <4>3, <4>4, <2>1
    <3> QED BY <3>1, <3>2, <3>3
  <2> HIDE DEF cut
  <2> QED BY <2>3, <2>4, <2>5 DEF PatternMatches
<1> QED BY <1>3, <1>4

\* An absolute segment is a segment.
LEMMA AbsoluteSegment ==
  ASSUME NEW s \in Segment, NEW root, root = None \/ root \in Seq(STRING)
  PROVE  Absolute(s, root) \in Segment /\ Absolute(s, root).modifier = s.modifier
<1>1. Base(root) \in Seq(STRING)
  <2>1. CASE root \in {None, Engine}
    BY <2>1 DEF Base
  <2>2. CASE root \notin {None, Engine}
    BY <2>2 DEF Base
  <2> QED BY <2>1, <2>2
<1>2. s.path \in Seq(STRING) /\ Base(root) \o s.path \in Seq(STRING)
  BY <1>1 DEF Segment
<1> QED BY <1>2 DEF Absolute, Segment

\* segment_matches and segment_condition select the same addresses.
LEMMA SegmentAgrees ==
  ASSUME NEW s \in Segment, NEW a \in Seq(STRING)
  PROVE  SegmentMatches(s, a) <=> SegmentCondition(s, a)
<1>1. s.path \in Seq(STRING) /\ (s.modifier # None => s.modifier \in Modifiers)
  BY DEF Segment
<1>2. Len(a) \in Nat /\ Len(s.path) \in Nat
  BY <1>1
<1>3. CASE s.modifier = None
  BY <1>3 DEF SegmentMatches, SegmentCondition
<1>4. CASE s.modifier # None /\ s.path = Engine
  BY <1>4 DEF SegmentMatches, SegmentCondition
<1>5. CASE s.modifier # None /\ s.path # Engine /\ s.path = <<>>
  BY <1>2, <1>5 DEF SegmentMatches, SegmentCondition
<1>6. CASE s.modifier # None /\ s.path # Engine /\ s.path # <<>>
  <2>1. Below(s.path, a) => Len(a) >= Len(s.path) + 1
    BY <1>2 DEF Below
  <2>2. Prefixed(s.path, 1, a) <=> Below(s.path, a)
    BY <2>1 DEF Prefixed
  <2>3. Below(s.path, a) => (~Prefixed(s.path, 2, a) <=> Len(a) = Len(s.path) + 1)
    BY <1>2, <2>1 DEF Prefixed
  <2>4. CASE s.modifier = "all"
    BY <1>6, <2>2, <2>4 DEF SegmentMatches, SegmentCondition
  <2>5. CASE s.modifier = "descendants"
    BY <1>6, <2>2, <2>5 DEF SegmentMatches, SegmentCondition
  <2>6. CASE s.modifier = "children"
    BY <1>6, <2>2, <2>3, <2>6 DEF SegmentMatches, SegmentCondition
  <2> QED BY <1>1, <1>6, <2>4, <2>5, <2>6 DEF Modifiers
<1> QED BY <1>3, <1>4, <1>5, <1>6

\* Selectors agree when their segments do.
LEMMA SelectAgrees ==
  ASSUME NEW segments, segments \subseteq Segment, NEW a \in Seq(STRING),
         NEW root, root = None \/ root \in Seq(STRING)
  PROVE  Selects(segments, root, a) <=> SelectCondition(segments, root, a)
<1>1. \A s \in segments : Absolute(s, root) \in Segment
  BY AbsoluteSegment
<1>2. \A s \in segments : SegmentMatches(Absolute(s, root), a)
                            <=> SegmentCondition(Absolute(s, root), a)
  BY <1>1, SegmentAgrees
<1> QED BY <1>2 DEF Selects, SelectCondition

\* A part of a text that is one character.
LEMMA OnePart ==
  ASSUME NEW t \in Seq(STRING), NEW i \in 0 .. Len(t), NEW j \in 0 .. Len(t), i <= j, NEW c
  PROVE  /\ SubSeq(t, i + 1, j) \in Seq(STRING)
         /\ (SubSeq(t, i + 1, j) = <<c>>) <=> (j = i + 1 /\ t[j] = c)
<1> DEFINE u == SubSeq(t, i + 1, j)
<1>1. i \in Nat /\ j \in Nat /\ Len(t) \in Nat
  OBVIOUS
<1>2. u \in Seq(STRING) /\ Len(u) = j - i
  BY <1>1, SubSeqProperties
<1>3. j = i + 1 => u[1] = t[j]
  <2>1. ASSUME j = i + 1 PROVE 1 \in 1 .. j - (i + 1) + 1 /\ (i + 1) + 1 - 1 = j
    BY <1>1, <2>1
  <2> QED BY <1>1, <2>1, SubSeqProperties
<1> HIDE DEF u
<1>4. ASSUME u = <<c>> PROVE j = i + 1 /\ t[j] = c
  <2>1. Len(u) = 1
    BY <1>4
  <2>2. j - i = 1
    BY <1>2, <2>1
  <2>3. j = i + 1
    BY ONLY <1>1, <2>2
  <2>4. u[1] = c
    BY <1>4
  <2> QED BY <1>3, <2>3, <2>4
<1>5. ASSUME j = i + 1, t[j] = c PROVE u = <<c>>
  <2>1. Len(u) = 1 /\ u[1] = c
    BY <1>1, <1>2, <1>3, <1>5
  <2> QED BY <1>2, <2>1
<1> QED BY <1>2, <1>4, <1>5 DEF u

\* What an escaped piece stands for: any run, or the character it escapes.
StandsFor(w, piece) ==
  /\ piece # <<"^">>
  /\ \A part \in Seq(STRING) : LikePart(piece, FALSE, part) <=> (w = Many \/ part = <<w>>)
GlobStandsFor(w, piece) ==
  \A part \in Seq(STRING) : GlobPart(piece, part) <=> (w = Many \/ part = <<w>>)

\* A cut that gives every piece its part.
LEMMA CutAgrees ==
  ASSUME NEW w, NEW t \in Seq(STRING), NEW i \in 0 .. Len(t), NEW j \in 0 .. Len(t)
  PROVE  (i <= j /\ (w = Many \/ SubSeq(t, i + 1, j) = <<w>>))
           <=> (IF w = Many THEN i <= j ELSE j = i + 1 /\ t[j] = w)
<1>1. i \in Nat /\ j \in Nat
  OBVIOUS
<1>2. CASE w = Many
  BY <1>2
<1>3. CASE w # Many
  <2>1. i <= j => (SubSeq(t, i + 1, j) = <<w>> <=> (j = i + 1 /\ t[j] = w))
    BY OnePart
  <2> QED BY <1>1, <1>3, <2>1
<1> QED BY <1>2, <1>3

LEMMA LikeIs ==
  ASSUME NEW g, NEW w, NEW t \in Seq(STRING), Len(w) \in Nat, Len(g) = Len(w),
         \A i \in 1 .. Len(w) : StandsFor(w[i], g[i])
  PROVE  Like(g, t) <=> PatternMatches(w, t)
<1> DEFINE n == Len(w)
           Cut(cut) == /\ cut[0] = 0 /\ cut[n] = Len(t)
                       /\ \A i \in 1 .. n :
                            /\ cut[i - 1] <= cut[i]
                            /\ LikePart(g[i], FALSE, SubSeq(t, cut[i - 1] + 1, cut[i]))
           Whole(cut) == /\ cut[0] = 0 /\ cut[n] = Len(t)
                         /\ \A i \in 1 .. n :
                              IF w[i] = Many THEN cut[i - 1] <= cut[i]
                              ELSE cut[i] = cut[i - 1] + 1 /\ t[cut[i]] = w[i]
<1>1. ASSUME NEW cut \in [0 .. n -> 0 .. Len(t)] PROVE Cut(cut) <=> Whole(cut)
  <2>1. ASSUME NEW i \in 1 .. n
        PROVE  (cut[i - 1] <= cut[i] /\ LikePart(g[i], FALSE, SubSeq(t, cut[i - 1] + 1, cut[i])))
                 <=> (IF w[i] = Many THEN cut[i - 1] <= cut[i]
                      ELSE cut[i] = cut[i - 1] + 1 /\ t[cut[i]] = w[i])
    <3>1. cut[i - 1] \in 0 .. Len(t) /\ cut[i] \in 0 .. Len(t)
      OBVIOUS
    <3>2. cut[i - 1] <= cut[i] => SubSeq(t, cut[i - 1] + 1, cut[i]) \in Seq(STRING)
      BY <3>1, OnePart
    <3>3. cut[i - 1] <= cut[i] =>
            (LikePart(g[i], FALSE, SubSeq(t, cut[i - 1] + 1, cut[i]))
               <=> (w[i] = Many \/ SubSeq(t, cut[i - 1] + 1, cut[i]) = <<w[i]>>))
      BY <3>2 DEF StandsFor
    <3>4. (cut[i - 1] <= cut[i] /\ (w[i] = Many \/ SubSeq(t, cut[i - 1] + 1, cut[i]) = <<w[i]>>))
            <=> (IF w[i] = Many THEN cut[i - 1] <= cut[i]
                 ELSE cut[i] = cut[i - 1] + 1 /\ t[cut[i]] = w[i])
      <4> DEFINE a == cut[i - 1]
                 b == cut[i]
                 c == w[i]
      <4>1. a \in 0 .. Len(t) /\ b \in 0 .. Len(t)
        BY <3>1
      <4> HIDE DEF a, b, c
      <4>2. (a <= b /\ (c = Many \/ SubSeq(t, a + 1, b) = <<c>>))
              <=> (IF c = Many THEN a <= b ELSE b = a + 1 /\ t[b] = c)
        BY ONLY t \in Seq(STRING), <4>1, CutAgrees
      <4> QED BY <4>2 DEF a, b, c
    <3> QED BY <3>3, <3>4
  <2> QED BY <2>1
<1>2. PatternMatches(w, t) <=> \E cut \in [0 .. n -> 0 .. Len(t)] : Whole(cut)
  BY DEF PatternMatches
<1>3. ASSUME NEW pending \in [0 .. n -> BOOLEAN], ~pending[0],
             \A i \in 1 .. n : pending[i] = (g[i] = <<"^">> /\ ~pending[i - 1])
      PROVE  \A i \in 0 .. n : pending[i] = FALSE
  <2>1. \A i \in 1 .. n : g[i] # <<"^">>
    BY DEF StandsFor
  <2>2. \A i \in 0 .. n : i = 0 \/ i \in 1 .. n
    OBVIOUS
  <2>3. \A i \in 1 .. n : pending[i] = FALSE
    BY <1>3, <2>1, Zenon
  <2>4. pending[0] = FALSE
    <3>1. 0 \in 0 .. n
      OBVIOUS
    <3>2. pending[0] \in BOOLEAN
      BY <3>1, Zenon
    <3> QED BY <1>3, <3>2, Zenon
  <2> QED BY <2>2, <2>3, <2>4, Zenon
<1>4. Like(g, t) <=> \E cut \in [0 .. n -> 0 .. Len(t)] : Cut(cut)
  <2>1. ASSUME Like(g, t) PROVE \E cut \in [0 .. n -> 0 .. Len(t)] : Cut(cut)
    <3>1. PICK pending \in [0 .. n -> BOOLEAN] :
            /\ ~pending[0]
            /\ \A i \in 1 .. n : pending[i] = (g[i] = <<"^">> /\ ~pending[i - 1])
            /\ \E cut \in [0 .. n -> 0 .. Len(t)] :
                 /\ cut[0] = 0 /\ cut[n] = Len(t)
                 /\ \A i \in 1 .. n :
                      /\ cut[i - 1] <= cut[i]
                      /\ LikePart(g[i], pending[i - 1], SubSeq(t, cut[i - 1] + 1, cut[i]))
      BY <2>1 DEF Like
    <3>2. \A i \in 1 .. n : pending[i - 1] = FALSE
      <4>1. \A i \in 1 .. n : i - 1 \in 0 .. n
        OBVIOUS
      <4> QED BY <1>3, <3>1, <4>1
    <3> QED BY <3>1, <3>2
  <2>2. ASSUME NEW cut \in [0 .. n -> 0 .. Len(t)], Cut(cut) PROVE Like(g, t)
    <3> DEFINE pending == [i \in 0 .. n |-> FALSE]
    <3>1. pending \in [0 .. Len(g) -> BOOLEAN] /\ ~pending[0] /\ ~pending[Len(g)]
      OBVIOUS
    <3>2. \A i \in 1 .. n : pending[i] = (g[i] = <<"^">> /\ ~pending[i - 1])
      <4>1. \A i \in 1 .. n : pending[i] = FALSE
        OBVIOUS
      <4>2. \A i \in 1 .. n : g[i] # <<"^">>
        BY DEF StandsFor
      <4> HIDE DEF pending
      <4> QED BY <4>1, <4>2, Zenon
    <3>3. \A i \in 1 .. n : pending[i - 1] = FALSE
      OBVIOUS
    <3> HIDE DEF pending
    <3> QED BY <2>2, <3>1, <3>2, <3>3 DEF Like
  <2> QED BY <2>1, <2>2
<1> HIDE DEF Cut, Whole
<1> QED BY <1>1, <1>2, <1>4

LEMMA GlobIs ==
  ASSUME NEW g, NEW w, NEW t \in Seq(STRING), Len(w) \in Nat, Len(g) = Len(w),
         \A i \in 1 .. Len(w) : GlobStandsFor(w[i], g[i])
  PROVE  Glob(g, t) <=> PatternMatches(w, t)
<1> DEFINE n == Len(w)
           Cut(cut) == /\ cut[0] = 0 /\ cut[n] = Len(t)
                       /\ \A i \in 1 .. n :
                            /\ cut[i - 1] <= cut[i]
                            /\ GlobPart(g[i], SubSeq(t, cut[i - 1] + 1, cut[i]))
           Whole(cut) == /\ cut[0] = 0 /\ cut[n] = Len(t)
                         /\ \A i \in 1 .. n :
                              IF w[i] = Many THEN cut[i - 1] <= cut[i]
                              ELSE cut[i] = cut[i - 1] + 1 /\ t[cut[i]] = w[i]
<1>1. ASSUME NEW cut \in [0 .. n -> 0 .. Len(t)] PROVE Cut(cut) <=> Whole(cut)
  <2>1. ASSUME NEW i \in 1 .. n
        PROVE  (cut[i - 1] <= cut[i] /\ GlobPart(g[i], SubSeq(t, cut[i - 1] + 1, cut[i])))
                 <=> (IF w[i] = Many THEN cut[i - 1] <= cut[i]
                      ELSE cut[i] = cut[i - 1] + 1 /\ t[cut[i]] = w[i])
    <3>1. cut[i - 1] \in 0 .. Len(t) /\ cut[i] \in 0 .. Len(t)
      OBVIOUS
    <3>2. cut[i - 1] <= cut[i] => SubSeq(t, cut[i - 1] + 1, cut[i]) \in Seq(STRING)
      BY <3>1, OnePart
    <3>3. cut[i - 1] <= cut[i] =>
            (GlobPart(g[i], SubSeq(t, cut[i - 1] + 1, cut[i]))
               <=> (w[i] = Many \/ SubSeq(t, cut[i - 1] + 1, cut[i]) = <<w[i]>>))
      BY <3>2 DEF GlobStandsFor
    <3>4. (cut[i - 1] <= cut[i] /\ (w[i] = Many \/ SubSeq(t, cut[i - 1] + 1, cut[i]) = <<w[i]>>))
            <=> (IF w[i] = Many THEN cut[i - 1] <= cut[i]
                 ELSE cut[i] = cut[i - 1] + 1 /\ t[cut[i]] = w[i])
      <4> DEFINE a == cut[i - 1]
                 b == cut[i]
                 c == w[i]
      <4>1. a \in 0 .. Len(t) /\ b \in 0 .. Len(t)
        BY <3>1
      <4> HIDE DEF a, b, c
      <4>2. (a <= b /\ (c = Many \/ SubSeq(t, a + 1, b) = <<c>>))
              <=> (IF c = Many THEN a <= b ELSE b = a + 1 /\ t[b] = c)
        BY ONLY t \in Seq(STRING), <4>1, CutAgrees
      <4> QED BY <4>2 DEF a, b, c
    <3> QED BY <3>3, <3>4
  <2> QED BY <2>1
<1>2. PatternMatches(w, t) <=> \E cut \in [0 .. n -> 0 .. Len(t)] : Whole(cut)
  BY DEF PatternMatches
<1>3. Glob(g, t) <=> \E cut \in [0 .. n -> 0 .. Len(t)] : Cut(cut)
  BY DEF Glob
<1> HIDE DEF Cut, Whole
<1> QED BY <1>1, <1>2, <1>3

\* with_wildcards puts its wildcard where Wrap has Many, and leaves the pieces in order.
LEMMA Wrapped ==
  ASSUME NEW kind \in {"contains", "prefix", "suffix"}, NEW p \in Seq(STRING),
         NEW S, NEW u \in Seq(S), Len(u) = Len(p), NEW wild \in S
  PROVE  /\ Len(Wrap(kind, p)) \in Nat
         /\ Len(with_wildcards(u, kind, wild)) = Len(Wrap(kind, p))
         /\ \A i \in 1 .. Len(Wrap(kind, p)) :
              \/ Wrap(kind, p)[i] = Many /\ with_wildcards(u, kind, wild)[i] = wild
              \/ \E j \in 1 .. Len(p) : /\ Wrap(kind, p)[i] = p[j]
                                        /\ with_wildcards(u, kind, wild)[i] = u[j]
<1> DEFINE w == Wrap(kind, p)
           g == with_wildcards(u, kind, wild)
           n == Len(p)
<1>1. n \in Nat
  OBVIOUS
<1>2. CASE kind = "contains"
  <2>1. w = <<Many>> \o p \o <<Many>> /\ g = <<wild>> \o u \o <<wild>>
    BY <1>2 DEF Wrap, with_wildcards
  <2> HIDE DEF w, g
  <2>2. Len(w) = n + 2 /\ Len(g) = n + 2
    BY <2>1
  <2>3. w[1] = Many /\ g[1] = wild /\ w[n + 2] = Many /\ g[n + 2] = wild
    BY <2>1
  <2>4. \A i \in 2 .. n + 1 : w[i] = p[i - 1] /\ g[i] = u[i - 1]
    BY <2>1
  <2>5. \A i \in 1 .. n + 2 : i = 1 \/ i = n + 2 \/ (i \in 2 .. n + 1 /\ i - 1 \in 1 .. n)
    BY <1>1
  <2>6. n + 2 \in Nat
    BY <1>1
  <2>7. ASSUME NEW i \in 1 .. n + 2
        PROVE  \/ w[i] = Many /\ g[i] = wild
               \/ \E j \in 1 .. n : w[i] = p[j] /\ g[i] = u[j]
    BY <2>3, <2>4, <2>5
  <2> QED BY <2>2, <2>6, <2>7 DEF w, g
<1>3. CASE kind = "prefix"
  <2>1. w = p \o <<Many>> /\ g = u \o <<wild>>
    BY <1>3 DEF Wrap, with_wildcards
  <2> HIDE DEF w, g
  <2>2. Len(w) = n + 1 /\ Len(g) = n + 1
    BY <2>1
  <2>3. w[n + 1] = Many /\ g[n + 1] = wild
    BY <2>1
  <2>4. \A i \in 1 .. n : w[i] = p[i] /\ g[i] = u[i]
    BY <2>1
  <2>5. \A i \in 1 .. n + 1 : i = n + 1 \/ i \in 1 .. n
    BY <1>1
  <2>6. n + 1 \in Nat
    BY <1>1
  <2>7. ASSUME NEW i \in 1 .. n + 1
        PROVE  \/ w[i] = Many /\ g[i] = wild
               \/ \E j \in 1 .. n : w[i] = p[j] /\ g[i] = u[j]
    BY <2>3, <2>4, <2>5
  <2> QED BY <2>2, <2>6, <2>7 DEF w, g
<1>4. CASE kind = "suffix"
  <2>1. w = <<Many>> \o p /\ g = <<wild>> \o u
    BY <1>4 DEF Wrap, with_wildcards
  <2> HIDE DEF w, g
  <2>2. Len(w) = n + 1 /\ Len(g) = n + 1
    BY <2>1
  <2>3. w[1] = Many /\ g[1] = wild
    BY <2>1
  <2>4. \A i \in 2 .. n + 1 : w[i] = p[i - 1] /\ g[i] = u[i - 1]
    BY <2>1
  <2>5. \A i \in 1 .. n + 1 : i = 1 \/ (i \in 2 .. n + 1 /\ i - 1 \in 1 .. n)
    BY <1>1
  <2>6. n + 1 \in Nat
    BY <1>1
  <2>7. ASSUME NEW i \in 1 .. n + 1
        PROVE  \/ w[i] = Many /\ g[i] = wild
               \/ \E j \in 1 .. n : w[i] = p[j] /\ g[i] = u[j]
    BY <2>3, <2>4, <2>5
  <2> QED BY <2>2, <2>6, <2>7 DEF w, g
<1> QED BY <1>2, <1>3, <1>4

\* Every wildcard of a text is literal in its pattern (like_escape, glob_escape), unless the
\* text holds the escape character of LIKE.
LEMMA Escaped ==
  ASSUME NEW kind \in {"contains", "prefix", "suffix"}, NEW p \in Seq(STRING),
         NEW t \in Seq(STRING), NEW like \in BOOLEAN,
         like => \A i \in 1 .. Len(p) : p[i] # "^"
  PROVE  (IF like THEN Like(with_wildcards(like_escape(p), kind, <<"%">>), t)
          ELSE Glob(with_wildcards(glob_escape(p), kind, <<"*">>), t))
            <=> PatternMatches(Wrap(kind, p), t)
<1>1. \A i \in 1 .. Len(p) : p[i] \in STRING /\ p[i] # Many
  BY Characters
<1>2. CASE like
  <2> DEFINE u == like_escape(p)
             S == {u[j] : j \in 1 .. Len(p)} \cup {<<"%">>}
             g == with_wildcards(u, kind, <<"%">>)
             w == Wrap(kind, p)
  <2>1. /\ u \in Seq(S) /\ Len(u) = Len(p) /\ <<"%">> \in S
        /\ \A j \in 1 .. Len(p) :
             u[j] = IF p[j] \in {"%", "_"} THEN <<"^", p[j]>> ELSE <<p[j]>>
    <3>1. DOMAIN p = 1 .. Len(p) /\ Len(p) \in Nat
      OBVIOUS
    <3>3. /\ DOMAIN u = 1 .. Len(p)
          /\ \A j \in 1 .. Len(p) :
               u[j] = IF p[j] \in {"%", "_"} THEN <<"^", p[j]>> ELSE <<p[j]>>
      BY <3>1 DEF like_escape
    <3>4. u = [j \in 1 .. Len(p) |-> u[j]]
      BY <3>1 DEF like_escape
    <3> HIDE DEF u
    <3>5. <<"%">> \in S /\ \A j \in 1 .. Len(p) : u[j] \in S
      OBVIOUS
    <3> HIDE DEF S
    <3>6. u \in [1 .. Len(p) -> S]
      BY ONLY <3>4, <3>5
    <3>7. u \in Seq(S) /\ Len(u) = Len(p)
      BY ONLY <3>1, <3>6
    <3> QED BY <3>3, <3>5, <3>7
  <2>2. StandsFor(Many, <<"%">>)
    BY DEF StandsFor, LikePart, LikeCharacter
  <2>3. ASSUME NEW j \in 1 .. Len(p) PROVE StandsFor(p[j], u[j])
    <3>1. p[j] # "^" /\ p[j] # Many /\ p[j] \in STRING
      BY <1>1, <1>2
    <3>2. CASE p[j] \in {"%", "_"}
      <4>1. u[j] = <<"^", p[j]>>
        BY <2>1, <3>2
      <4>2. Len(u[j]) = 2 /\ u[j][2] = p[j] /\ u[j] # <<"^">>
        BY <4>1
      <4> QED BY <3>1, <4>2 DEF StandsFor, LikePart
    <3>3. CASE p[j] \notin {"%", "_"}
      <4>1. u[j] = <<p[j]>>
        BY <2>1, <3>3
      <4>2. Len(u[j]) = 1 /\ u[j][1] = p[j] /\ u[j] # <<"^">>
        BY <3>1, <4>1
      <4> QED BY <3>1, <3>3, <4>2 DEF StandsFor, LikePart, LikeCharacter
    <3> QED BY <3>2, <3>3
  <2>4. /\ Len(w) \in Nat /\ Len(g) = Len(w)
        /\ \A i \in 1 .. Len(w) : \/ w[i] = Many /\ g[i] = <<"%">>
                                  \/ \E j \in 1 .. Len(p) : w[i] = p[j] /\ g[i] = u[j]
    <3> DEFINE wild == <<"%">>
    <3>1. wild \in S /\ u \in Seq(S) /\ Len(u) = Len(p)
      BY <2>1
    <3> HIDE DEF u, S, wild
    <3>2. /\ Len(Wrap(kind, p)) \in Nat
          /\ Len(with_wildcards(u, kind, wild)) = Len(Wrap(kind, p))
          /\ \A i \in 1 .. Len(Wrap(kind, p)) :
               \/ Wrap(kind, p)[i] = Many /\ with_wildcards(u, kind, wild)[i] = wild
               \/ \E j \in 1 .. Len(p) : /\ Wrap(kind, p)[i] = p[j]
                                         /\ with_wildcards(u, kind, wild)[i] = u[j]
      BY ONLY kind \in {"contains", "prefix", "suffix"}, p \in Seq(STRING), <3>1, Wrapped
    <3> QED BY <3>2 DEF g, w, wild
  <2> HIDE DEF u, S, g, w
  <2>5. \A i \in 1 .. Len(w) : StandsFor(w[i], g[i])
    BY <2>2, <2>3, <2>4
  <2>6. Like(g, t) <=> PatternMatches(w, t)
    BY <2>4, <2>5, LikeIs
  <2> QED BY <1>2, <2>6 DEF u, g, w
<1>3. CASE ~like
  <2> DEFINE u == glob_escape(p)
             S == {u[j] : j \in 1 .. Len(p)} \cup {<<"*">>}
             g == with_wildcards(u, kind, <<"*">>)
             w == Wrap(kind, p)
  <2>1. /\ u \in Seq(S) /\ Len(u) = Len(p) /\ <<"*">> \in S
        /\ \A j \in 1 .. Len(p) :
             u[j] = IF p[j] \in {"[", "*", "?"} THEN <<"[", p[j], "]">> ELSE <<p[j]>>
    <3>1. DOMAIN p = 1 .. Len(p) /\ Len(p) \in Nat
      OBVIOUS
    <3>3. /\ DOMAIN u = 1 .. Len(p)
          /\ \A j \in 1 .. Len(p) :
               u[j] = IF p[j] \in {"[", "*", "?"} THEN <<"[", p[j], "]">> ELSE <<p[j]>>
      BY <3>1 DEF glob_escape
    <3>4. u = [j \in 1 .. Len(p) |-> u[j]]
      BY <3>1 DEF glob_escape
    <3> HIDE DEF u
    <3>5. <<"*">> \in S /\ \A j \in 1 .. Len(p) : u[j] \in S
      OBVIOUS
    <3> HIDE DEF S
    <3>6. u \in [1 .. Len(p) -> S]
      BY ONLY <3>4, <3>5
    <3>7. u \in Seq(S) /\ Len(u) = Len(p)
      BY ONLY <3>1, <3>6
    <3> QED BY <3>3, <3>5, <3>7
  <2>2. GlobStandsFor(Many, <<"*">>)
    BY DEF GlobStandsFor, GlobPart
  <2>3. ASSUME NEW j \in 1 .. Len(p) PROVE GlobStandsFor(p[j], u[j])
    <3>1. p[j] # Many /\ p[j] \in STRING
      BY <1>1
    <3>2. CASE p[j] \in {"[", "*", "?"}
      <4>1. u[j] = <<"[", p[j], "]">>
        BY <2>1, <3>2
      <4>2. Len(u[j]) = 3 /\ u[j][2] = p[j]
        BY <4>1
      <4> QED BY <3>1, <4>2 DEF GlobStandsFor, GlobPart
    <3>3. CASE p[j] \notin {"[", "*", "?"}
      <4>1. u[j] = <<p[j]>>
        BY <2>1, <3>3
      <4>2. Len(u[j]) = 1 /\ u[j] # <<"*">> /\ u[j] # <<"?">>
        BY <3>3, <4>1
      <4> QED BY <3>1, <4>1, <4>2 DEF GlobStandsFor, GlobPart
    <3> QED BY <3>2, <3>3
  <2>4. /\ Len(w) \in Nat /\ Len(g) = Len(w)
        /\ \A i \in 1 .. Len(w) : \/ w[i] = Many /\ g[i] = <<"*">>
                                  \/ \E j \in 1 .. Len(p) : w[i] = p[j] /\ g[i] = u[j]
    <3> DEFINE wild == <<"*">>
    <3>1. wild \in S /\ u \in Seq(S) /\ Len(u) = Len(p)
      BY <2>1
    <3> HIDE DEF u, S, wild
    <3>2. /\ Len(Wrap(kind, p)) \in Nat
          /\ Len(with_wildcards(u, kind, wild)) = Len(Wrap(kind, p))
          /\ \A i \in 1 .. Len(Wrap(kind, p)) :
               \/ Wrap(kind, p)[i] = Many /\ with_wildcards(u, kind, wild)[i] = wild
               \/ \E j \in 1 .. Len(p) : /\ Wrap(kind, p)[i] = p[j]
                                         /\ with_wildcards(u, kind, wild)[i] = u[j]
      BY ONLY kind \in {"contains", "prefix", "suffix"}, p \in Seq(STRING), <3>1, Wrapped
    <3> QED BY <3>2 DEF g, w, wild
  <2> HIDE DEF u, S, g, w
  <2>5. \A i \in 1 .. Len(w) : GlobStandsFor(w[i], g[i])
    BY <2>2, <2>3, <2>4
  <2>6. Glob(g, t) <=> PatternMatches(w, t)
    BY <2>4, <2>5, GlobIs
  <2> QED BY <1>3, <2>6 DEF u, g, w
<1> QED BY <1>2, <1>3

\* text_matches and match_text_patterns hold of the same texts.
LEMMA TextAgrees ==
  ASSUME NEW op, op.kind \in {"contains", "prefix", "suffix"}, op.like \in BOOLEAN,
         op.patterns # {}, \A p \in op.patterns : IsText(p),
         op.like => \A p \in op.patterns : \A i \in DOMAIN p : p[i] # "^",
         NEW t, t = None \/ IsText(t), t = None => \E p \in op.patterns : p # <<>>
  PROVE  TextMatches(op, t) <=> TextCondition(op, t)
<1>1. CASE t = None
  BY <1>1 DEF TextMatches, TextCondition
<1>2. CASE t # None
  <2> DEFINE kind == op.kind
             M(p) == CASE kind = "contains" ->
                            \E i \in 0 .. (Len(t) - Len(p)) : SubSeq(t, i + 1, i + Len(p)) = p
                       [] kind = "prefix" -> IsPrefixOf(p, t)
                       [] kind = "suffix" -> Len(p) <= Len(t)
                                              /\ SubSeq(t, Len(t) - Len(p) + 1, Len(t)) = p
             C(p) == IF op.like THEN Like(with_wildcards(like_escape(p), kind, <<"%">>), t)
                     ELSE Glob(with_wildcards(glob_escape(p), kind, <<"*">>), t)
  <2>0. IsText(t) /\ t \in Seq(STRING) /\ kind \in {"contains", "prefix", "suffix"}
    BY <1>2 DEF IsText
  <2>1. ASSUME NEW p \in op.patterns PROVE C(p) <=> M(p)
    <3>0. C(p) <=> PatternMatches(Wrap(kind, p), t)
      <4>1. p \in Seq(STRING) /\ (op.like => \A i \in 1 .. Len(p) : p[i] # "^")
        BY DEF IsText
      <4> HIDE DEF kind
      <4> QED BY <2>0, <4>1, Escaped
    <3>1. CASE kind = "contains"
      <4>1. Wrap(kind, p) = <<Many>> \o p \o <<Many>>
        BY <3>1 DEF Wrap
      <4>2. M(p) <=> \E i \in 0 .. (Len(t) - Len(p)) : SubSeq(t, i + 1, i + Len(p)) = p
        BY <3>1
      <4> HIDE DEF C, M, kind
      <4> QED BY <2>0, <3>0, <4>1, <4>2, ContainsMatches
    <3>2. CASE kind = "prefix"
      <4>1. Wrap(kind, p) = p \o <<Many>>
        BY <3>2 DEF Wrap
      <4>2. M(p) <=> IsPrefixOf(p, t)
        BY <3>2
      <4> HIDE DEF C, M, kind
      <4> QED BY <2>0, <3>0, <4>1, <4>2, PrefixMatches
    <3>3. CASE kind = "suffix"
      <4>1. Wrap(kind, p) = <<Many>> \o p
        BY <3>3 DEF Wrap
      <4>2. M(p) <=> Len(p) <= Len(t) /\ SubSeq(t, Len(t) - Len(p) + 1, Len(t)) = p
        BY <3>3
      <4> HIDE DEF C, M, kind
      <4> QED BY <2>0, <3>0, <4>1, <4>2, SuffixMatches
    <3> HIDE DEF C, M
    <3> QED BY <2>0, <3>1, <3>2, <3>3
  <2>2. ASSUME NEW p \in op.patterns, p = <<>> PROVE M(p)
    <3>1. t \in Seq(STRING) /\ Len(t) \in Nat /\ Len(p) = 0
      BY <2>0, <2>2
    <3>2. SubSeq(t, 1, 0) = <<>> /\ SubSeq(t, 0 + 1, 0) = <<>>
      BY <3>1
    <3>3. SubSeq(t, Len(t) + 1, Len(t)) = <<>>
      BY <3>1
    <3>4. kind = "contains" => M(p)
      <4>1. 0 \in 0 .. (Len(t) - Len(p)) /\ SubSeq(t, 0 + 1, 0 + Len(p)) = p
        BY <2>2, <3>1, <3>2
      <4> QED BY <4>1
    <3>5. kind = "prefix" => M(p)
      BY <2>2, <3>1, <3>2 DEF IsPrefixOf
    <3>6. kind = "suffix" => M(p)
      BY <2>2, <3>1, <3>3
    <3> HIDE DEF M
    <3> QED BY <2>0, <3>4, <3>5, <3>6
  <2>3. TextMatches(op, t) <=> \E p \in op.patterns : M(p)
    BY <1>2 DEF TextMatches
  <2>4. TextCondition(op, t) <=> \/ \A p \in op.patterns : p = <<>>
                                 \/ \E p \in op.patterns : C(p)
    BY <1>2 DEF TextCondition
  <2> HIDE DEF M, C
  <2> QED BY <2>1, <2>2, <2>3, <2>4
<1> QED BY <1>1, <1>2

\* What parsing makes of a node's own conditions.
TypedOwn(own) ==
  /\ \A k \in (Windows \cup Clocks \cup Bounds) \cap DOMAIN own : own[k] \in Int
  /\ Has(own, "address") => own["address"] \subseteq Segment /\ IsFiniteSet(own["address"])
  /\ Has(own, "root") => own["root"] \in Seq(STRING)
  /\ Has(own, "text") => /\ own["text"].kind \in {"contains", "prefix", "suffix"}
                         /\ own["text"].like \in BOOLEAN
                         /\ \A p \in own["text"].patterns : IsText(p)
                         /\ Get(own, "impossible", FALSE) \/ own["text"].patterns # {}

\* The root of a node's selector, if there is one.
RootOf(own) == Get(own, "root", None)

LEMMA RootTyped ==
  ASSUME NEW own, TypedOwn(own)
  PROVE  RootOf(own) = None \/ RootOf(own) \in Seq(STRING)
  BY DEF TypedOwn, RootOf, Get

\* timestamp_matches and window_conditions with clock_conditions hold of the same times.
LEMMA TimeAgrees ==
  ASSUME NEW own, TypedOwn(own), NEW ts \in Int
  PROVE  TimestampMatches(own, ts) <=> WindowCondition(own, ts) /\ ClockCondition(own, ts)
<1>1. \A k \in {"after", "before", "timespan", "max_age", "min_age", "after_hour", "before_hour"} :
        Has(own, k) => own[k] \in Int
  BY DEF TypedOwn, Windows, Clocks, Has
<1>2. Now \in Int /\ Day \in Int
  BY FilterAssumption
<1>3. SpanStart(own) \subseteq Int /\ SpanEnd(own) \subseteq Int
  BY <1>1, <1>2 DEF SpanStart, SpanEnd
<1> DEFINE w == ClockWindow(own)
           hour == ts % Day
<1>4. w.minimum \in Int /\ w.maximum \in Int /\ hour \in Int
  BY <1>1, <1>2, FilterAssumption DEF ClockWindow, Get
<1>5. hour >= w.minimum <=> w.minimum <= hour
  BY <1>4
<1> DEFINE clock == Has(own, "after_hour") \/ Has(own, "before_hour")
           in == IF w.contiguous THEN w.minimum <= hour /\ hour < w.maximum
                 ELSE w.minimum <= hour \/ hour < w.maximum
<1>7. ClockCondition(own, ts) <=> (clock => in)
  BY DEF ClockCondition
<1> DEFINE W == /\ Has(own, "after") => ts >= own["after"]
                /\ Has(own, "before") => ts < own["before"]
                /\ \A start \in SpanStart(own) : ts >= start
                /\ \A end \in SpanEnd(own) : ts < end
                /\ Has(own, "max_age") => ts > Now - own["max_age"]
                /\ Has(own, "min_age") => ts <= Now - own["min_age"]
           N == \/ Has(own, "after") /\ ts < own["after"]
                \/ Has(own, "before") /\ ts >= own["before"]
                \/ \E start \in SpanStart(own) : ts < start
                \/ \E end \in SpanEnd(own) : ts >= end
                \/ Has(own, "max_age") /\ ts <= Now - own["max_age"]
                \/ Has(own, "min_age") /\ ts > Now - own["min_age"]
<1>8. TimestampMatches(own, ts) <=> ~(N \/ (clock /\ ~(IF w.contiguous
             THEN hour >= w.minimum /\ hour < w.maximum
             ELSE hour >= w.minimum \/ hour < w.maximum)))
  BY DEF TimestampMatches
<1>9. W <=> ~N
  BY <1>1, <1>2, <1>3
<1>10. WindowCondition(own, ts) <=> W
  BY DEF WindowCondition
<1> HIDE DEF W, N, w, hour, clock
<1> QED BY <1>5, <1>7, <1>8, <1>9, <1>10

\* A record, as the matcher reads it.
TypedRow(r) ==
  /\ r.address \in Seq(STRING) /\ r.ts \in Int /\ r.level \in 1 .. Levels
  /\ r.text = None \/ IsText(r.text)

\* FilterNode::matches_own and conditions_with_address hold of the same records.
LEMMA OwnAgrees ==
  ASSUME NEW own, TypedOwn(own), ~Has(own, "subsample"), ~Has(own, "subsample_every"),
         ~CaretedOwn(own), NEW r, TypedRow(r), r.text = None => ~BlankOwn(own)
  PROVE  MatchesOwn(own, r) <=> OwnCondition(own, {}, r, TRUE)
<1>1. CASE Get(own, "impossible", FALSE)
  BY <1>1 DEF MatchesOwn, OwnCondition
<1>2. CASE ~Get(own, "impossible", FALSE)
  <2>1. Has(own, "text") => (TextMatches(own["text"], r.text) <=> TextCondition(own["text"], r.text))
    <3>1. ASSUME Has(own, "text")
          PROVE  TextMatches(own["text"], r.text) <=> TextCondition(own["text"], r.text)
      <4> DEFINE op == own["text"]
                 t == r.text
      <4>1. /\ op.kind \in {"contains", "prefix", "suffix"} /\ op.like \in BOOLEAN
            /\ op.patterns # {} /\ \A p \in op.patterns : IsText(p)
            /\ t = None \/ IsText(t)
        BY <1>2, <3>1 DEF TypedOwn, TypedRow
      <4>2. op.like => \A p \in op.patterns : \A i \in DOMAIN p : p[i] # "^"
        BY <3>1 DEF CaretedOwn
      <4>3. t = None => \E p \in op.patterns : p # <<>>
        BY <3>1 DEF BlankOwn
      <4> HIDE DEF op, t
      <4>4. TextMatches(op, t) <=> TextCondition(op, t)
        BY ONLY <4>1, <4>2, <4>3, TextAgrees
      <4> QED BY <4>4 DEF op, t
    <3> QED BY <3>1
  <2>2. Has(own, "address") =>
          (Selects(own["address"], Get(own, "root", None), r.address)
             <=> SelectCondition(own["address"], Get(own, "root", None), r.address))
    BY RootTyped, SelectAgrees DEF TypedOwn, TypedRow, RootOf
  <2>3. TimestampMatches(own, r.ts) <=> WindowCondition(own, r.ts) /\ ClockCondition(own, r.ts)
    BY TimeAgrees DEF TypedRow
  <2>4. SubsampleCondition(own, {}, r.ts)
    BY DEF SubsampleCondition
  <2>5. Has(own, "min_level") => (~(r.level < own["min_level"])
                                    <=> r.level \in own["min_level"] .. Levels)
    BY FilterAssumption DEF TypedOwn, TypedRow, Bounds, Has
  <2>6. Has(own, "max_level") => (~(r.level > own["max_level"])
                                    <=> r.level \in 1 .. own["max_level"])
    BY FilterAssumption DEF TypedOwn, TypedRow, Bounds, Has
  <2> QED BY <1>2, <2>1, <2>2, <2>3, <2>4, <2>5, <2>6, Zenon DEF MatchesOwn, OwnCondition
<1> QED BY <1>1, <1>2

\* A finite set of numbers that is not empty has a largest one.
LEMMA GreatestOf ==
  ASSUME NEW T, T \subseteq Nat, T # {}, IsFiniteSet(T)
  PROVE  \E x \in T : \A y \in T : x >= y
<1> DEFINE Over(x) == {y \in T : y > x}
           C == {Cardinality(Over(x)) : x \in T}
<1>1. \A x \in T : IsFiniteSet(Over(x)) /\ Cardinality(Over(x)) \in Nat
  BY FS_Subset, FS_CardinalityType
<1>2. C \subseteq Nat /\ C # {}
  BY <1>1
<1>3. PICK c \in C : \A d \in C : c <= d
  <2> HIDE DEF C
  <2> QED BY <1>2, LeastOf
<1>4. PICK x \in T : c = Cardinality(Over(x))
  BY <1>3
<1>5. ASSUME NEW y \in T, ~(x >= y) PROVE FALSE
  <2>1. Over(y) \subseteq Over(x) /\ y \in Over(x) /\ y \notin Over(y)
    <3>1. x \in Nat /\ y \in Nat /\ y > x /\ \A z \in T : z \in Nat
      BY <1>5
    <3>2. \A z \in T : z > y => z > x
      BY <3>1
    <3>3. ~(y > y)
      BY <3>1
    <3> QED BY <3>1, <3>2, <3>3
  <2>2. Over(y) # Over(x) /\ IsFiniteSet(Over(x))
    BY <2>1, <1>1
  <2> HIDE DEF Over
  <2>3. Cardinality(Over(y)) < Cardinality(Over(x))
    BY <2>1, <2>2, <1>1, FS_Subset
  <2>4. Cardinality(Over(y)) \in C
    OBVIOUS
  <2> QED BY <2>3, <2>4, <1>1, <1>3, <1>4
<1> QED BY <1>5

\* The image of a finite set is finite.
LEMMA FiniteImage ==
  ASSUME NEW T, IsFiniteSet(T), NEW f
  PROVE  IsFiniteSet({f[x] : x \in T})
<1> DEFINE U == {f[x] : x \in T}
           g == [x \in T |-> f[x]]
<1>1. g \in Surjection(T, U)
  BY DEF Surjection
<1> HIDE DEF g, U
<1>2. IsFiniteSet(U)
  BY <1>1, FS_Surjection
<1> QED BY <1>2 DEF U

\* MinOf and MaxOf take an element of the set.
LEMMA MinIn ==
  ASSUME NEW T, T \subseteq Nat, T # {}
  PROVE  MinOf(T) \in T
  BY LeastOf DEF MinOf

LEMMA MaxIn ==
  ASSUME NEW T, T \subseteq Nat, T # {}, IsFiniteSet(T)
  PROVE  MaxOf(T) \in T
  BY GreatestOf DEF MaxOf

\* What the schema takes the keys for whose values matter here.
LEMMA Roles ==
  /\ \A k \in Windows : RoleOf(k) = "window"
  /\ \A k \in Clocks : RoleOf(k) = "clock"
  /\ \A k \in Bounds : RoleOf(k) = "bound"
  /\ RoleOf("address") = "equality" /\ RoleOf("text") = "operation" /\ RoleOf("root") = "root"
<1> USE DEF Controls, Groups, Operations, Windows, Clocks, Samples, Bounds
<1>1. DOMAIN Family \ Delegated = {"id", "ts", "level", "address"}
  BY DEF Family, Delegated
<1>2. RoleOf("address") = "equality"
  BY <1>1 DEF RoleOf
<1>3. RoleOf("text") = "operation" /\ RoleOf("root") = "root"
  BY <1>1 DEF RoleOf
<1>4. \A k \in Windows : RoleOf(k) = "window"
  BY <1>1 DEF RoleOf
<1>5. \A k \in Clocks : RoleOf(k) = "clock"
  BY <1>1 DEF RoleOf
<1>6. \A k \in Bounds : RoleOf(k) = "bound"
  BY <1>1 DEF RoleOf
<1> QED BY <1>2, <1>3, <1>4, <1>5, <1>6

\* The pairs Parsed::apply takes.
Taken(pairs) ==
  /\ TypedPairs(pairs)
  /\ \A i \in DOMAIN pairs : pairs[i][2] # None /\ ~Invalid(pairs[i])

\* A key that is given has a first value.
LEMMA FirstIs ==
  ASSUME NEW pairs, Taken(pairs), NEW k, Places(pairs, k) # {}
  PROVE  \E i \in DOMAIN pairs : pairs[i][1] = k /\ First(pairs, k) = pairs[i][2]
<1>1. Places(pairs, k) \subseteq Nat
  BY DEF Places, Taken, TypedPairs
<1>2. MinOf(Places(pairs, k)) \in Places(pairs, k)
  BY <1>1, MinIn
<1> QED BY <1>2 DEF First, Places

\* Parsed::apply, over the pairs of a node.
LEMMA OwnTyped ==
  ASSUME NEW pairs, Taken(pairs)
  PROVE  TypedOwn(Own(pairs))
<1> DEFINE own == Own(pairs)
<1>1. \A k \in DOMAIN own : k # "impossible" =>
        /\ k \in Keys(pairs) /\ own[k] = Collect(pairs, k)
        /\ Places(pairs, k) # {}
  BY DEF Own, Keys, Places
<1>2. "impossible" \in DOMAIN own => own["impossible"] = TRUE
  BY DEF Own
<1>3. Empty(pairs) => "impossible" \in DOMAIN own
  BY DEF Own
<1> HIDE DEF own
<1>4. \A i \in DOMAIN pairs : Typed(pairs[i])
  BY DEF Taken, TypedPairs
<1>5. ASSUME NEW k \in (Windows \cup Clocks \cup Bounds) \cap DOMAIN own
      PROVE  own[k] \in Int
  <2>1. k # "impossible"
    BY DEF Windows, Clocks, Bounds
  <2>2. Collect(pairs, k) = First(pairs, k)
    BY Roles DEF Collect
  <2>3. PICK i \in DOMAIN pairs : pairs[i][1] = k /\ First(pairs, k) = pairs[i][2]
    BY <1>1, <2>1, FirstIs
  <2> QED BY <1>1, <1>4, <2>1, <2>2, <2>3 DEF Typed
<1>6. ASSUME Has(own, "address")
      PROVE  own["address"] \subseteq Segment /\ IsFiniteSet(own["address"])
  <2>1. own["address"] = UNION Values(pairs, "address")
    BY <1>1, <1>6, Roles DEF Collect, Has
  <2>2. \A v \in Values(pairs, "address") : v \subseteq Segment /\ IsFiniteSet(v)
    BY <1>4 DEF Values, Places, Typed
  <2>3. IsFiniteSet(Values(pairs, "address"))
    <3>1. IsFiniteSet(Places(pairs, "address"))
      BY FS_Subset DEF Places, Taken, TypedPairs
    <3> DEFINE V == [i \in Places(pairs, "address") |-> pairs[i][2]]
    <3>2. IsFiniteSet({V[i] : i \in Places(pairs, "address")})
      <4> HIDE DEF V
      <4> QED BY <3>1, FiniteImage
    <3>3. {V[i] : i \in Places(pairs, "address")} = Values(pairs, "address")
      BY DEF Values
    <3> QED BY <3>2, <3>3
  <2>4. IsFiniteSet(UNION Values(pairs, "address"))
    BY <2>2, <2>3, FS_UNION
  <2> QED BY <2>1, <2>2, <2>4
<1>7. ASSUME Has(own, "root") PROVE own["root"] \in Seq(STRING)
  <2>1. own["root"] = First(pairs, "root")
    BY <1>1, <1>7, Roles DEF Collect, Has
  <2>2. PICK i \in DOMAIN pairs : pairs[i][1] = "root" /\ First(pairs, "root") = pairs[i][2]
    BY <1>1, <1>7, FirstIs DEF Has
  <2> QED BY <1>4, <2>1, <2>2 DEF Typed
<1>8. ASSUME Has(own, "text")
      PROVE  /\ own["text"].kind \in {"contains", "prefix", "suffix"}
             /\ own["text"].like \in BOOLEAN
             /\ \A p \in own["text"].patterns : IsText(p)
             /\ Get(own, "impossible", FALSE) \/ own["text"].patterns # {}
  <2> DEFINE asked == Values(pairs, "text")
             t == CHOOSE t \in asked : TRUE
  <2>1. own["text"] = [t EXCEPT !.patterns = UNION {u.patterns : u \in asked}]
    BY <1>1, <1>8, Roles DEF Collect, Has
  <2>2. \A u \in asked : /\ DOMAIN u = {"kind", "patterns", "like"}
                         /\ u.kind \in {"contains", "prefix", "suffix"} /\ u.like \in BOOLEAN
                         /\ \A p \in u.patterns : IsText(p)
    BY <1>4 DEF Values, Places, Typed
  <2>3. asked # {}
    BY <1>1, <1>8 DEF Values, Has
  <2>4. t \in asked
    BY <2>3
  <2>5. ASSUME \A u \in asked : u.patterns = {} PROVE Get(own, "impossible", FALSE)
    <3>1. PICK i \in DOMAIN pairs : pairs[i][1] = "text" /\ pairs[i][2] = t
      BY <2>4 DEF Values, Places
    <3>2. Empty(pairs)
      BY <2>4, <2>5, <3>1, Roles DEF Empty
    <3> QED BY <3>2, <1>2, <1>3 DEF Get, Has
  <2> HIDE DEF asked, t
  <2>0. /\ own["text"].patterns = UNION {u.patterns : u \in asked}
        /\ own["text"].kind = t.kind /\ own["text"].like = t.like
    BY <2>1, <2>2, <2>4
  <2>6. \A p \in own["text"].patterns : \E u \in asked : p \in u.patterns
    BY <2>0
  <2>7. own["text"].patterns = {} => \A u \in asked : u.patterns = {}
    BY <2>0
  <2>8. own["text"].kind \in {"contains", "prefix", "suffix"} /\ own["text"].like \in BOOLEAN
    BY <2>0, <2>2, <2>4
  <2>9. \A p \in own["text"].patterns : IsText(p)
    BY <2>2, <2>6
  <2>10. Get(own, "impossible", FALSE) \/ own["text"].patterns # {}
    BY <2>5, <2>7, Zenon
  <2> QED BY <2>8, <2>9, <2>10
<1>9. TypedOwn(own)
  BY <1>5, <1>6, <1>7, <1>8 DEF TypedOwn
<1> QED BY <1>9 DEF own

\* What parsing makes of a filter.
NodeFields == {"own", "and", "or", "order", "limit", "offset"}

TypedNode(n) ==
  /\ DOMAIN n = NodeFields
  /\ TypedOwn(n.own)
  /\ \A i \in DOMAIN n.and : TypedOwn(n.and[i])
  /\ \A i \in DOMAIN n.or : TypedOwn(n.or[i])
  /\ n.limit = None \/ n.limit \in Nat
  /\ n.offset \in Nat

\* FilterNode::matches and combined_conditions hold of the same records.
LEMMA NodeAgrees ==
  ASSUME NEW n, TypedNode(n), ~Sampled(n), ~OnlyOr(n), ~Careted(n), NEW r, TypedRow(r),
         r.text = None => ~Blank(n)
  PROVE  Matches(n, r) <=> Condition(n, {}, r, TRUE)
<1>1. MatchesOwn(n.own, r) <=> OwnCondition(n.own, {}, r, TRUE)
  BY OwnAgrees DEF TypedNode, Sampled, Careted, Blank, Owns
<1>2. \A i \in DOMAIN n.and : MatchesOwn(n.and[i], r) <=> OwnCondition(n.and[i], {}, r, TRUE)
  BY OwnAgrees DEF TypedNode, Sampled, Careted, Blank, Owns
<1>3. \A i \in DOMAIN n.or : MatchesOwn(n.or[i], r) <=> OwnCondition(n.or[i], {}, r, TRUE)
  BY OwnAgrees DEF TypedNode, Sampled, Careted, Blank, Owns
<1> DEFINE ands == OwnCondition(n.own, {}, r, TRUE)
                     /\ \A i \in DOMAIN n.and : OwnCondition(n.and[i], {}, r, TRUE)
           some == Conditions(n.own) \cup UNION {Conditions(n.and[i]) : i \in DOMAIN n.and}
           ors == \E i \in DOMAIN n.or : OwnCondition(n.or[i], {}, r, TRUE)
<1>4. Matches(n, r) <=> ands \/ ors
  BY <1>1, <1>2, <1>3, Zenon DEF Matches
<1>5. Condition(n, {}, r, TRUE) <=> IF n.or = <<>> THEN ands ELSE (some # {} /\ ands) \/ ors
  BY Zenon DEF Condition
<1>6. n.or = <<>> => DOMAIN n.or = {}
  OBVIOUS
<1>7. n.or # <<>> => some # {}
  BY DEF OnlyOr
<1>8. n.or = <<>> => ~ors
  BY <1>6
<1> HIDE DEF ands, some, ors
<1> QED BY <1>4, <1>5, <1>7, <1>8, Zenon

\* The first value of a control, a limit or an offset, that is given.
LEMMA ControlNat ==
  ASSUME NEW pairs, Taken(pairs), NEW k \in {"limit", "offset"}
  PROVE  Control(pairs, k) \subseteq Nat /\ IsFiniteSet(Control(pairs, k))
<1>1. CASE Places(pairs, k) = {}
  BY <1>1, FS_EmptySet DEF Control
<1>2. CASE Places(pairs, k) # {}
  <2>1. PICK i \in DOMAIN pairs : pairs[i][1] = k /\ First(pairs, k) = pairs[i][2]
    BY <1>2, FirstIs
  <2>2. pairs[i][2] \in Int
    BY <2>1 DEF Taken, TypedPairs, Typed
  <2>3. ~(pairs[i][2] < 0)
    BY <2>1 DEF Taken, Invalid
  <2>4. Control(pairs, k) = {pairs[i][2]}
    BY <1>2, <2>1 DEF Control
  <2>5. IsFiniteSet({pairs[i][2]})
    BY FS_Singleton
  <2> QED BY <2>2, <2>3, <2>4, <2>5
<1> QED BY <1>1, <1>2

\* The limits, or the offsets, of a filter and of its `and` group.
LEMMA HoistedNat ==
  ASSUME NEW w, Taken(w.pairs), IsFiniteSet(DOMAIN w.and),
         \A i \in DOMAIN w.and : Taken(w.and[i]), NEW k \in {"limit", "offset"}
  PROVE  Hoisted(w, k) \subseteq Nat /\ IsFiniteSet(Hoisted(w, k))
<1> DEFINE C == [i \in DOMAIN w.and |-> Control(w.and[i], k)]
           U == {C[i] : i \in DOMAIN w.and}
<1>1. \A i \in DOMAIN w.and : C[i] \subseteq Nat /\ IsFiniteSet(C[i])
  BY ControlNat
<1>2. IsFiniteSet(U)
  <2> HIDE DEF C
  <2> QED BY FiniteImage
<1>3. U = {Control(w.and[i], k) : i \in DOMAIN w.and}
  OBVIOUS
<1>4. \A u \in U : u \subseteq Nat /\ IsFiniteSet(u)
  <2> HIDE DEF C
  <2> QED BY <1>1
<1>5. Hoisted(w, k) = Control(w.pairs, k) \cup UNION U
  BY <1>3 DEF Hoisted
<1> HIDE DEF U
<1>6. IsFiniteSet(UNION U)
  BY <1>2, <1>4, FS_UNION
<1>7. Control(w.pairs, k) \subseteq Nat /\ IsFiniteSet(Control(w.pairs, k))
  BY ControlNat
<1>8. IsFiniteSet(Control(w.pairs, k) \cup UNION U)
  BY <1>6, <1>7, FS_Union
<1> QED BY <1>4, <1>5, <1>7, <1>8

\* Schema::group_children: the children that are mappings, without their nulls.
LEMMA ChildTaken ==
  ASSUME NEW group, \A i \in DOMAIN group : group[i] # None => TypedPairs(group[i]),
         NEW i \in DOMAIN GroupChildren(group), GroupChildren(group)[i] # None,
         \A j \in DOMAIN GroupChildren(group)[i] : ~Invalid(GroupChildren(group)[i][j])
  PROVE  Taken(GroupChildren(group)[i])
<1> DEFINE g == group[i]
           c == GroupChildren(group)[i]
<1>1. i \in DOMAIN group /\ c = IF g = None THEN None ELSE FromYaml(g)
  BY DEF GroupChildren
<1>2. g # None /\ c = FromYaml(g) /\ TypedPairs(g)
  BY <1>1
<1>3. /\ DOMAIN c \subseteq DOMAIN g
      /\ \A j \in DOMAIN c : c[j] = g[j] /\ g[j][2] # None
  BY <1>2 DEF FromYaml
<1>4. \A j \in DOMAIN c : ~Invalid(c[j])
  OBVIOUS
<1>5. DOMAIN c \subseteq Nat /\ IsFiniteSet(DOMAIN c)
  BY <1>2, <1>3, FS_Subset DEF TypedPairs
<1> HIDE DEF g, c
<1>6. TypedPairs(c)
  BY <1>2, <1>3, <1>5 DEF TypedPairs
<1> QED BY <1>3, <1>4, <1>6 DEF Taken, c

\* A filter that parses is a typed tree, with the controls hoisted (Parsed::finish).
LEMMA ParseTyped ==
  ASSUME NEW asked, TypedWire(asked), Parse(asked) # Refused
  PROVE  TypedNode(Parse(asked))
<1> DEFINE w == [asked EXCEPT !.and = GroupChildren(@), !.or = GroupChildren(@)]
           all == {w.pairs} \cup {w.and[i] : i \in DOMAIN w.and}
                    \cup {w.or[i] : i \in DOMAIN w.or}
<1>1. /\ Parse(asked) = Core(w) /\ None \notin all
      /\ \A p \in all : \A i \in DOMAIN p : ~Invalid(p[i])
  BY DEF Parse
<1>2. /\ w.pairs = asked.pairs /\ w.and = GroupChildren(asked.and)
      /\ w.or = GroupChildren(asked.or)
  BY DEF TypedWire
<1>3. Taken(w.pairs)
  BY <1>1, <1>2 DEF Taken, TypedWire
<1>4. ASSUME NEW i \in DOMAIN w.and PROVE Taken(w.and[i])
  BY <1>1, <1>2, ChildTaken DEF TypedWire
<1>5. ASSUME NEW i \in DOMAIN w.or PROVE Taken(w.or[i])
  BY <1>1, <1>2, ChildTaken DEF TypedWire
<1>6. IsFiniteSet(DOMAIN w.and)
  BY <1>2 DEF TypedWire, GroupChildren
<1> HIDE DEF w
<1> DEFINE n == Core(w)
<1>7. /\ DOMAIN n = NodeFields /\ n.own = Own(w.pairs)
      /\ DOMAIN n.and = DOMAIN w.and /\ \A i \in DOMAIN w.and : n.and[i] = Own(w.and[i])
      /\ DOMAIN n.or = DOMAIN w.or /\ \A i \in DOMAIN w.or : n.or[i] = Own(w.or[i])
      /\ n.limit = IF Hoisted(w, "limit") = {} THEN None ELSE MinOf(Hoisted(w, "limit"))
      /\ n.offset = IF Hoisted(w, "offset") = {} THEN 0 ELSE MaxOf(Hoisted(w, "offset"))
  BY DEF Core, NodeFields
<1> HIDE DEF n
<1>8. TypedOwn(n.own)
  BY <1>3, <1>7, OwnTyped
<1>9. \A i \in DOMAIN n.and : TypedOwn(n.and[i])
  BY <1>4, <1>7, OwnTyped
<1>10. \A i \in DOMAIN n.or : TypedOwn(n.or[i])
  BY <1>5, <1>7, OwnTyped
<1>11. Hoisted(w, "limit") \subseteq Nat
  BY <1>3, <1>4, <1>6, HoistedNat
<1>12. n.limit = None \/ n.limit \in Nat
  BY <1>7, <1>11, MinIn
<1>13. Hoisted(w, "offset") \subseteq Nat /\ IsFiniteSet(Hoisted(w, "offset"))
  BY <1>3, <1>4, <1>6, HoistedNat
<1>14. n.offset \in Nat
  BY <1>7, <1>13, MaxIn
<1> QED BY <1>1, <1>7, <1>8, <1>9, <1>10, <1>12, <1>14 DEF TypedNode, n

\* The filters that the store is asked for are typed trees.
LEMMA ListedTyped ==
  ASSUME NEW n \in Listed, n # Refused
  PROVE  TypedNode(n)
<1>1. \A m \in Asked : m # Refused => TypedNode(m)
  <2> SUFFICES ASSUME NEW m \in Asked, m # Refused PROVE TypedNode(m)
    OBVIOUS
  <2>1. PICK w \in Wire : m = Parse(w)
    BY DEF Asked, Parsed
  <2> QED BY <2>1, StoreAssumption, ParseTyped
<1>2. CASE n \in Asked
  BY <1>1, <1>2
<1>3. CASE n \notin Asked
  <2>1. PICK m \in Asked : n = WithLimitCap(m, LimitCap)
    BY <1>3 DEF Listed
  <2>2. m # Refused
    BY <2>1 DEF WithLimitCap
  <2>3. TypedNode(m)
    BY <1>1, <2>2
  <2>4. CASE m.limit = None
    <3>1. n = [m EXCEPT !.limit = LimitCap]
      BY <2>1, <2>2, <2>4 DEF WithLimitCap
    <3>2. /\ DOMAIN n = NodeFields /\ n.own = m.own /\ n.and = m.and /\ n.or = m.or
          /\ n.offset = m.offset /\ n.limit = LimitCap
      BY <2>3, <3>1 DEF TypedNode, NodeFields
    <3> QED BY <2>3, <3>2, StoreAssumption DEF TypedNode
  <2>5. CASE m.limit # None
    <3>1. n = m
      BY <2>1, <2>2, <2>5 DEF WithLimitCap
    <3> QED BY <2>3, <3>1
  <2> QED BY <2>4, <2>5
<1> QED BY <1>2, <1>3

\* What is being answered is a filter that parsed.
QueryInv == query = None \/ (query \in Listed /\ query # Refused)

\* Requests alone change the query.
LEMMA QueryNext == QueryInv /\ [StoreNext]_storeVars => QueryInv'
<1> SUFFICES ASSUME QueryInv, [StoreNext]_storeVars PROVE QueryInv'
  OBVIOUS
<1>1. ASSUME query' = query PROVE QueryInv'
  BY <1>1 DEF QueryInv
<1>2. ASSUME NEW n \in Listed, Refuse(n) \/ Request(n) PROVE QueryInv'
  BY <1>1, <1>2 DEF Refuse, Request, QueryInv
<1>3. ASSUME NEW n \in Asked, CountMatches(n) \/ AnyMatches(n) PROVE QueryInv'
  BY <1>3 DEF CountMatches, AnyMatches, QueryInv, Listed
<1>4. CASE Answered
  BY <1>4 DEF Answered, QueryInv
<1>5. CASE Ask
  BY <1>1, <1>2, <1>3, <1>5 DEF Ask, RefuseUpdate
<1>6. CASE \E r \in Row : Insert(r)
  BY <1>1, <1>6 DEF Insert
<1>7. CASE \E w \in Changing : Delete(w) \/ \E set \in Sets : Update(w, set)
  BY <1>1, <1>7 DEF Delete, Update, Write
<1>8. CASE Hop \/ RangeDone \/ Discovered \/ Fetch
  BY <1>1, <1>8 DEF Hop, RangeDone, Discovered, Fetch
<1>9. CASE UNCHANGED storeVars
  BY <1>1, <1>9 DEF storeVars
<1> QED BY <1>4, <1>5, <1>6, <1>7, <1>8, <1>9 DEF StoreNext

\* A filter that parsed means the same to both readers.
LEMMA QueryAgrees == QueryInv => MatcherAgrees
<1> SUFFICES ASSUME QueryInv, query # None, ~Sampled(query), ~OnlyOr(query), ~Careted(query),
                    NEW r \in Row, r.text = None => ~Blank(query)
             PROVE  Matches(query, r) <=> Condition(query, {}, r, TRUE)
  BY DEF MatcherAgrees
<1>1. TypedNode(query)
  BY ListedTyped DEF QueryInv
<1>2. TypedRow(r)
  BY StoreAssumption DEF TypedRow
<1> QED BY <1>1, <1>2, NodeAgrees

\* The live matcher and the SQL select the same records (FilterNode::matches,
\* combined_conditions), for every filter that parses and every record, but for a lone `or`
\* group, for subsampling, for a `^` in a LIKE pattern and for empty patterns on NULL.
THEOREM AlwaysMatcherAgrees == StoreSpec => []MatcherAgrees
<1>1. StoreInit => QueryInv
  BY DEF StoreInit, QueryInv
<1> QED BY <1>1, QueryNext, QueryAgrees, PTL DEF StoreSpec

-----------------------------------------------------------------------------
(* Pages.                                                                  *)

\* What a page skips.
Skips(s, p, rows, order, limit, offset) ==
  /\ IsFiniteSet(s) /\ Cardinality(s) \in Nat /\ Cardinality(s) <= offset
  /\ Leading(order, s, rows) /\ Leading(order, s \cup p, rows)
  /\ \/ s \cup p = rows
     \/ limit \in Nat /\ Cardinality(p) = limit /\ Cardinality(s) = offset

\* LIMIT and OFFSET: what is skipped leads the rows, with the page behind it, and only the
\* limit leaves rows out behind the page.
LEMMA PageIs ==
  ASSUME NEW rows, IsFiniteSet(rows), NEW order, NEW limit, limit = None \/ limit \in Nat,
         NEW offset \in Nat, NEW p \in Pages(rows, order, limit, offset)
  PROVE  /\ p \subseteq rows /\ IsFiniteSet(p) /\ Cardinality(p) \in Nat
         /\ limit \in Nat => Cardinality(p) <= limit
         /\ \E s \in SUBSET (rows \ p) : Skips(s, p, rows, order, limit, offset)
<1> DEFINE n == Cardinality(rows)
           skipped == IF offset < n THEN offset ELSE n
           taken == IF limit # None /\ limit < n - skipped THEN limit ELSE n - skipped
<1>1. p \in SUBSET rows /\ Cardinality(p) = taken
  BY DEF Pages
<1>2. PICK s \in SUBSET (rows \ p) : /\ Cardinality(s) = skipped
                                     /\ Leading(order, s, rows)
                                     /\ Leading(order, s \cup p, rows)
  BY DEF Pages
<1>3. IsFiniteSet(s) /\ IsFiniteSet(p) /\ s \cap p = {}
  BY <1>1, <1>2, FS_Subset
<1>4. n \in Nat /\ skipped \in Nat /\ skipped <= offset /\ skipped <= n
  BY FS_CardinalityType
<1>5. None \notin Nat
  BY FilterAssumption
<1>6. taken \in Nat /\ (limit \in Nat => taken <= limit)
  <2> HIDE DEF n, skipped
  <2> QED BY <1>4, <1>5
<1>7. IsFiniteSet(s \cup p) /\ Cardinality(s \cup p) = skipped + taken
  <2>1. Cardinality(s \cup p) = Cardinality(s) + Cardinality(p) - Cardinality(s \cap p)
    BY <1>3, FS_Union
  <2>2. Cardinality(s \cap p) = 0
    BY <1>3, FS_EmptySet
  <2>3. IsFiniteSet(s \cup p)
    BY <1>3, FS_Union
  <2> HIDE DEF skipped, taken, n
  <2> QED BY <1>1, <1>2, <1>4, <1>6, <2>1, <2>2, <2>3
<1>8. ASSUME s \cup p # rows
      PROVE  limit \in Nat /\ Cardinality(p) = limit /\ Cardinality(s) = offset
  <2>1. s \cup p \subseteq rows
    BY <1>1
  <2>2. Cardinality(s \cup p) < n
    <3>1. IsFiniteSet(rows) /\ s \cup p \in SUBSET rows
      BY <2>1
    <3>2. Cardinality(s \cup p) <= Cardinality(rows)
          /\ (Cardinality(s \cup p) = Cardinality(rows) => s \cup p = rows)
      BY <3>1, FS_Subset
    <3> HIDE DEF skipped, taken
    <3> QED BY <1>4, <1>6, <1>7, <1>8, <3>2
  <2>3. skipped + taken < n
    BY <1>7, <2>2
  <2>4. skipped = offset
    <3> HIDE DEF taken
    <3> QED BY <1>4, <1>6, <2>3
  <2>5. taken = limit /\ limit # None
    <3> HIDE DEF n, skipped
    <3> QED BY <1>4, <1>5, <2>3
  <2> QED BY <1>1, <1>2, <2>4, <2>5
<1> HIDE DEF n, skipped, taken
<1>9. /\ p \subseteq rows /\ IsFiniteSet(p) /\ Cardinality(p) \in Nat
      /\ limit \in Nat => Cardinality(p) <= limit
  BY <1>1, <1>3, <1>6
<1>10. /\ IsFiniteSet(s) /\ Cardinality(s) \in Nat /\ Cardinality(s) <= offset
       /\ Leading(order, s, rows) /\ Leading(order, s \cup p, rows)
  BY <1>2, <1>3, <1>4
<1>11. Skips(s, p, rows, order, limit, offset)
  BY <1>8, <1>10 DEF Skips
<1> QED BY <1>9, <1>11

\* A set with one element more than another holds.
LEMMA OneMore ==
  ASSUME NEW T, IsFiniteSet(T), NEW x, x \notin T, NEW U, IsFiniteSet(U), T \subseteq U, x \in U
  PROVE  /\ Cardinality(T) \in Nat /\ Cardinality(U) \in Nat
         /\ Cardinality(T) + 1 <= Cardinality(U)
<1>1. Cardinality(T \cup {x}) = Cardinality(T) + 1 /\ IsFiniteSet(T \cup {x})
  BY FS_AddElement
<1>2. T \cup {x} \subseteq U
  OBVIOUS
<1>3. Cardinality(T \cup {x}) <= Cardinality(U)
  BY <1>2, FS_Subset
<1> QED BY <1>1, <1>3, FS_CardinalityType

\* The order of times.
LEMMA Order ==
  ASSUME NEW order, NEW a, NEW b, NEW c, a.ts \in Int, b.ts \in Int, c.ts \in Int
  PROVE  /\ ~Precedes(order, a, a)
         /\ ~Precedes(order, a, b) /\ Precedes(order, a, c) => Precedes(order, b, c)
  BY DEF Precedes

\* A page of what was merged is complete for the rows that were to be found, when every
\* one that was left out of the merge has as many rows before or beside it as the page is
\* deep.
LEMMA PageComplete ==
  ASSUME NEW m, IsFiniteSet(m), NEW order, NEW limit, limit = None \/ limit \in Nat,
         NEW offset \in Nat, NEW p \in Pages(m, order, limit, offset), NEW kept,
         \A x \in m \cup kept : x.ts \in Int,
         \A r \in kept \ m : /\ limit \in Nat
                             /\ \E D \in SUBSET m : /\ Cardinality(D) = limit + offset
                                                    /\ \A d \in D : ~Precedes(order, r, d)
  PROVE  \A r \in kept \ p :
           \/ Cardinality({x \in kept : Precedes(order, x, r)}) < offset
           \/ /\ Cardinality(p) = limit
              /\ \A x \in p : ~Precedes(order, r, x)
<1>1. /\ p \subseteq m /\ IsFiniteSet(p) /\ Cardinality(p) \in Nat
      /\ limit \in Nat => Cardinality(p) <= limit
  BY PageIs
<1>2. PICK s \in SUBSET (m \ p) : Skips(s, p, m, order, limit, offset)
  BY PageIs
<1> USE DEF Skips
<1>3. IsFiniteSet(s \cup p) /\ Cardinality(s \cup p) = Cardinality(s) + Cardinality(p)
  <2>1. s \cap p = {} /\ Cardinality(s \cap p) = 0
    BY FS_EmptySet
  <2>2. Cardinality(s \cup p) = Cardinality(s) + Cardinality(p) - Cardinality(s \cap p)
    BY <1>1, <1>2, FS_Union
  <2>3. IsFiniteSet(s \cup p)
    BY <1>1, <1>2, FS_Union
  <2> QED BY <1>1, <1>2, <2>1, <2>2, <2>3
<1> SUFFICES ASSUME NEW r \in kept \ p
             PROVE  \/ Cardinality({x \in kept : Precedes(order, x, r)}) < offset
                    \/ /\ Cardinality(p) = limit
                       /\ \A x \in p : ~Precedes(order, r, x)
  OBVIOUS
<1>4. CASE r \notin m
  <2>1. limit \in Nat
    BY <1>4
  <2>2. PICK D \in SUBSET m : /\ Cardinality(D) = limit + offset
                              /\ \A d \in D : ~Precedes(order, r, d)
    BY <1>4
  <2>3. IsFiniteSet(D) /\ Cardinality(D) <= Cardinality(m)
    BY FS_Subset
  <2>4. Cardinality(p) = limit /\ Cardinality(s \cup p) <= limit + offset
    <3>1. CASE s \cup p = m
      <4>1. limit + offset <= Cardinality(s) + Cardinality(p)
        BY <1>3, <2>2, <2>3, <3>1
      <4>2. Cardinality(p) <= limit
        BY <1>1, <2>1
      <4> QED BY <1>1, <1>2, <1>3, <2>1, <4>1, <4>2
    <3>2. CASE s \cup p # m
      BY <1>2, <1>3, <2>1, <3>2
    <3> QED BY <3>1, <3>2
  <2>5. ASSUME NEW x \in p, Precedes(order, r, x) PROVE FALSE
    <3>1. x \notin D /\ x \in m
      BY <2>2, <2>5, <1>1
    <3>2. \A d \in D : Precedes(order, d, x)
      BY <2>2, <2>5, <3>1, Order
    <3>3. D \subseteq s \cup p
      BY <1>2, <3>2 DEF Leading
    <3>4. Cardinality(D) + 1 <= Cardinality(s \cup p) /\ Cardinality(s \cup p) \in Nat
      BY <1>3, <2>3, <3>1, <3>3, OneMore
    <3> QED BY <2>1, <2>2, <2>4, <3>4
  <2> QED BY <2>4, <2>5
<1>5. CASE r \in s
  <2> DEFINE first == {x \in kept : Precedes(order, x, r)}
  <2>1. ASSUME NEW x \in first PROVE x \in s \ {r}
    <3>1. x # r
      BY Order
    <3>2. CASE x \in m
      BY <1>2, <1>5, <3>1, <3>2 DEF Leading
    <3>3. CASE x \notin m
      <4>1. limit \in Nat
        BY <3>3
      <4>2. PICK D \in SUBSET m : /\ Cardinality(D) = limit + offset
                                  /\ \A d \in D : ~Precedes(order, x, d)
        BY <3>3
      <4>3. r \notin D /\ IsFiniteSet(D)
        BY <4>2, FS_Subset
      <4>4. \A d \in D : Precedes(order, d, r)
        BY <4>2, <1>5, Order
      <4>5. D \subseteq s
        BY <1>2, <1>5, <4>4 DEF Leading
      <4>6. Cardinality(D) + 1 <= Cardinality(s)
        BY <1>2, <1>5, <4>3, <4>5, OneMore
      <4> QED BY <1>2, <4>1, <4>2, <4>6
    <3> QED BY <3>2, <3>3
  <2>2. first \subseteq s /\ r \notin first
    BY <2>1
  <2> HIDE DEF first
  <2>3. IsFiniteSet(first)
    BY <1>2, <2>2, FS_Subset
  <2>4. Cardinality(first) + 1 <= Cardinality(s) /\ Cardinality(first) \in Nat
    BY <1>2, <1>5, <2>2, <2>3, OneMore
  <2>5. Cardinality(first) < offset
    BY <1>2, <2>4
  <2> QED BY <2>5 DEF first
<1>6. CASE r \in m /\ r \notin s
  <2>1. r \notin s \cup p /\ s \cup p # m
    BY <1>6
  <2>2. Cardinality(p) = limit
    BY <1>2, <2>1
  <2>3. \A x \in p : ~Precedes(order, r, x)
    BY <1>2, <1>6, <2>1 DEF Leading
  <2> QED BY <2>2, <2>3
<1> QED BY <1>4, <1>5, <1>6

\* What one seek leaves out of its branch has as many rows before it as it fetched.
LEMMA SeekLeaves ==
  ASSUME NEW rows, IsFiniteSet(rows), NEW order, NEW depth \in Nat,
         NEW p \in Pages(rows, order, depth, 0), NEW r \in rows \ p
  PROVE  Cardinality(p) = depth /\ \A d \in p : ~Precedes(order, r, d)
<1>1. PICK s \in SUBSET (rows \ p) : Skips(s, p, rows, order, depth, 0)
  <2>1. 0 \in Nat /\ (depth = None \/ depth \in Nat)
    OBVIOUS
  <2> HIDE DEF Skips
  <2> QED BY <2>1, PageIs
<1> USE DEF Skips
<1>2. s = {}
  BY <1>1, FS_EmptySet
<1>3. s \cup p = p /\ p # rows /\ p \subseteq rows
  BY <1>2, PageIs
<1> QED BY <1>1, <1>3 DEF Leading

\* Every page of the same rows has the same length.
LEMMA PageLength ==
  ASSUME NEW rows, IsFiniteSet(rows), NEW order, NEW limit, limit = None \/ limit \in Nat,
         NEW offset \in Nat, NEW p \in Pages(rows, order, limit, offset)
  PROVE  /\ \A q \in Pages(rows, order, limit, offset) : Cardinality(q) = Cardinality(p)
         /\ limit = 0 => Cardinality(p) = 0
         /\ limit = None /\ offset = 0 => Cardinality(p) = Cardinality(rows)
         /\ Cardinality(p) > 0 <=> Cardinality(rows) > offset /\ limit # 0
<1> DEFINE n == Cardinality(rows)
           skipped == IF offset < n THEN offset ELSE n
           taken == IF limit # None /\ limit < n - skipped THEN limit ELSE n - skipped
<1>1. \A q \in Pages(rows, order, limit, offset) : Cardinality(q) = taken
  BY DEF Pages
<1>2. n \in Nat /\ None \notin Int
  BY FS_CardinalityType, FilterAssumption
<1> HIDE DEF n
<1>3. limit = 0 => taken = 0
  BY <1>2
<1>4. limit = None /\ offset = 0 => taken = n
  BY <1>2
<1>5. taken > 0 <=> n > offset /\ limit # 0
  BY <1>2
<1> QED BY <1>1, <1>3, <1>4, <1>5 DEF n

-----------------------------------------------------------------------------
(* A listing by branches.                                                  *)

\* The addresses a range holds, and the ones the filter selects.
Reach(g, a) == g = Everything \/ Below(g.path, a)
Selected(a) == Selects(query.own["address"], RootOf(query.own), a)

\* A filter that is answered by branches.
ByBranches(n) == n.limit # None /\ n.or = <<>> /\ Has(n.own, "address")

\* What the walk of this range has behind it.
Passed == {a \in found \cap Addresses : cursor # None /\ Rank[a] <= Rank[cursor]}

\* Every selected address of a row that stayed is found, or ahead of the walk.
Covered ==
  \A x \in stayed : Selected(x.address) =>
    \/ x.address \in found
    \/ \E g \in ranges : /\ Reach(g, x.address)
                         /\ g = range /\ cursor # None => Rank[x.address] > Rank[cursor]

\* Rows are of their types, and what stayed is still there.
RowsInv ==
  /\ IsFiniteSet(stored)
  /\ \A x \in stored : DOMAIN x = Columns /\ x.address \in Addresses /\ x.ts \in Int
  /\ stayed \subseteq stored

\* Where the walk stands: the seeks of a range found as many addresses as they were.
StateInv ==
  /\ IsFiniteSet(found) /\ hops \in Nat /\ length \in Nat /\ hops <= length
  /\ cursor = None \/ cursor \in Addresses
  /\ ranges \subseteq Segment /\ (range = None \/ range \in ranges)
  /\ range = None => ranges = {} /\ cursor = None /\ hops = 0
  /\ phase # "walk" => range = None
  /\ phase \notin {"walk", "fetch", "done"} => found = {} /\ ~short
  /\ short => range = None
  /\ hops <= Cardinality(Passed)

\* A walk covers what the filter selects, was cut short, or found more than the cap.
WalkInv ==
  /\ phase = "walk" => /\ query \in Listed /\ query # Refused /\ ByBranches(query)
                       /\ Covered \/ short \/ Cardinality(found) > BranchCap
  /\ phase = "fetch" => /\ query \in Listed /\ query # Refused
                        /\ found # {} => ByBranches(query) /\ (Covered \/ short)
  /\ phase \in {"done", "counted", "told"} => query \in Listed /\ query # Refused

\* The inductive invariant.
MissedInv == RowsInv /\ StateInv /\ WalkInv /\ NoneMissed

\* The rows that a statement narrows on are rows of the table.
LEMMA NarrowedRows ==
  ASSUME NEW n, NEW table, NEW p \in Narrowed(n, table)
  PROVE  p \subseteq table
  BY DEF Narrowed, Matching

\* A delete leaves rows of the table.
LEMMA DeleteRows ==
  ASSUME RowsInv, NEW n, NEW t \in DeleteStatement(n, stored)
  PROVE  /\ IsFiniteSet(t)
         /\ \A x \in t : DOMAIN x = Columns /\ x.address \in Addresses /\ x.ts \in Int
<1>1. t \subseteq stored
  BY DEF DeleteStatement
<1> QED BY <1>1, FS_Subset DEF RowsInv

\* An update leaves rows of the same columns.
LEMMA UpdateRows ==
  ASSUME RowsInv, NEW n, NEW set \in Sets, SetClauses(set) # Refused,
         NEW t \in UpdateStatement(n, SetClauses(set), stored)
  PROVE  /\ IsFiniteSet(t)
         /\ \A x \in t : DOMAIN x = Columns /\ x.address \in Addresses /\ x.ts \in Int
<1>1. SetClauses(set) = set
  BY DEF SetClauses, Encoded
<1> DEFINE new(r) == [c \in DOMAIN r |-> IF c \in DOMAIN set THEN set[c] ELSE r[c]]
<1>2. PICK p \in Narrowed(n, stored) : t = (stored \ p) \cup {new(r) : r \in p}
  BY <1>1 DEF UpdateStatement
<1>3. p \subseteq stored
  BY NarrowedRows
<1>4. ASSUME NEW r \in stored
      PROVE  DOMAIN new(r) = Columns /\ new(r).address \in Addresses /\ new(r).ts \in Int
  <2>1. DOMAIN r = Columns /\ r.address \in Addresses /\ r.ts \in Int
    BY DEF RowsInv
  <2>2. "address" \in Columns /\ "ts" \in Columns
    BY DEF Columns
  <2>3. new(r).address = IF "address" \in DOMAIN set THEN set["address"] ELSE r.address
    BY <2>1, <2>2
  <2>4. new(r).ts = IF "ts" \in DOMAIN set THEN set["ts"] ELSE r.ts
    BY <2>1, <2>2
  <2>5. DOMAIN new(r) = Columns
    BY <2>1
  <2> HIDE DEF new
  <2> QED BY <2>1, <2>3, <2>4, <2>5, StoreAssumption
<1>5. IsFiniteSet(t)
  <2> DEFINE f == [r \in p |-> new(r)]
  <2>1. {f[r] : r \in p} = {new(r) : r \in p}
    OBVIOUS
  <2>2. IsFiniteSet(p) /\ IsFiniteSet(stored \ p)
    BY <1>3, FS_Subset DEF RowsInv
  <2> HIDE DEF f, new
  <2>3. IsFiniteSet({f[r] : r \in p})
    BY <2>2, FiniteImage
  <2> QED BY <1>2, <2>1, <2>2, <2>3, FS_Union
<1> HIDE DEF new
<1>6. \A x \in t : x \in stored \/ \E r \in stored : x = new(r)
  BY <1>2, <1>3
<1> QED BY <1>4, <1>5, <1>6 DEF RowsInv

\* Who writes, and what is left of the rows a listing began with.
LEMMA RowsNext == RowsInv /\ [StoreNext]_storeVars => RowsInv'
<1> SUFFICES ASSUME RowsInv, [StoreNext]_storeVars PROVE RowsInv'
  OBVIOUS
<1>1. ASSUME stored' = stored, stayed' \subseteq stored PROVE RowsInv'
  BY <1>1 DEF RowsInv
<1>2. ASSUME NEW r \in Row, Insert(r) PROVE RowsInv'
  <2>1. stored' = stored \cup {r} /\ stayed' = stayed
    BY <1>2 DEF Insert
  <2>2. DOMAIN r = Columns /\ r.address \in Addresses /\ r.ts \in Int
    BY StoreAssumption DEF Addresses
  <2>3. IsFiniteSet(stored')
    BY <2>1, FS_AddElement DEF RowsInv
  <2> QED BY <2>1, <2>2, <2>3 DEF RowsInv
<1>3. ASSUME NEW w \in Changing, Delete(w) PROVE RowsInv'
  <2>1. stored' \in DeleteStatement(Parsed[w], stored) /\ stayed' = stayed \cap stored'
    BY <1>3 DEF Delete, Write
  <2> QED BY <2>1, DeleteRows DEF RowsInv
<1>4. ASSUME NEW w \in Changing, NEW set \in Sets, Update(w, set) PROVE RowsInv'
  <2>1. /\ stored' \in UpdateStatement(Parsed[w], SetClauses(set), stored)
        /\ stayed' = stayed \cap stored' /\ SetClauses(set) # Refused
    BY <1>4 DEF Update, Write
  <2> QED BY <2>1, UpdateRows DEF RowsInv
<1>5. CASE Ask
  <2>1. stored' = stored /\ (stayed' = stayed \/ stayed' = stored)
    BY <1>5 DEF Ask, Refuse, Request, CountMatches, AnyMatches, RefuseUpdate
  <2> QED BY <1>1, <2>1 DEF RowsInv
<1>6. CASE Hop \/ RangeDone \/ Discovered \/ Fetch \/ Answered
  <2>1. stored' = stored /\ (stayed' = stayed \/ stayed' = {})
    BY <1>6 DEF Hop, RangeDone, Discovered, Fetch, Answered
  <2> QED BY <1>1, <2>1 DEF RowsInv
<1>7. CASE UNCHANGED storeVars
  <2>1. stored' = stored /\ stayed' = stayed
    BY <1>7 DEF storeVars
  <2> QED BY <1>1, <2>1 DEF RowsInv
<1> QED BY <1>2, <1>3, <1>4, <1>5, <1>6, <1>7 DEF StoreNext

\* AddressSelector::scope: what a selector selects is one of its literals or in one of
\* its ranges.
LEMMA ScopeCovers ==
  ASSUME NEW n, TypedNode(n), ExpansionScope(n) # None
  PROVE  /\ ByBranches(n)
         /\ ExpansionScope(n).walks \subseteq Segment
         /\ IsFiniteSet(ExpansionScope(n).literals) /\ ExpansionScope(n).pushed \in Nat
         /\ \A a \in Seq(STRING) : Selects(n.own["address"], RootOf(n.own), a) =>
              \/ ExpansionScope(n).unbounded
              \/ a \in ExpansionScope(n).literals
              \/ \E s \in ExpansionScope(n).walks : Below(s.path, a)
<1> DEFINE segments == n.own["address"]
           root == RootOf(n.own)
           held == {Absolute(s, root) : s \in segments}
           wild == {s \in held : s.modifier # None}
<1>1. ByBranches(n) /\ ExpansionScope(n) = Scope(segments, root)
  BY DEF ExpansionScope, ByBranches, RootOf
<1>2. segments \subseteq Segment /\ IsFiniteSet(segments) /\ (root = None \/ root \in Seq(STRING))
  BY <1>1, RootTyped DEF TypedNode, TypedOwn, ByBranches
<1>3. /\ ExpansionScope(n).unbounded <=> \E s \in wild : s.path \in {<<>>, Engine}
      /\ ExpansionScope(n).literals
           = {s.path : s \in {h \in held : h.modifier \in {None, "all"}}}
      /\ ExpansionScope(n).walks = wild
  BY <1>1 DEF Scope
<1> HIDE DEF segments, root
<1>4. held \subseteq Segment
  BY <1>2, AbsoluteSegment
<1>5. IsFiniteSet(ExpansionScope(n).literals)
  <2> DEFINE f == [s \in segments |-> Absolute(s, root)]
             g == [s \in held |-> s.path]
             L == {h \in held : h.modifier \in {None, "all"}}
  <2>1. {f[s] : s \in segments} = held
    OBVIOUS
  <2>2. IsFiniteSet({f[s] : s \in segments})
    <3> HIDE DEF f
    <3> QED BY <1>2, FiniteImage
  <2>3. IsFiniteSet(L)
    <3>1. L \subseteq held /\ IsFiniteSet(held)
      BY <2>1, <2>2
    <3> HIDE DEF L, held
    <3> QED BY <3>1, FS_Subset
  <2>4. {g[s] : s \in L} = {s.path : s \in L}
    OBVIOUS
  <2>5. IsFiniteSet({g[s] : s \in L})
    <3> HIDE DEF g, L
    <3> QED BY <2>3, FiniteImage
  <2> QED BY <1>3, <2>4, <2>5
<1>6. ASSUME NEW a \in Seq(STRING), Selects(segments, root, a)
      PROVE  \/ \E s \in wild : s.path \in {<<>>, Engine}
             \/ a \in {s.path : s \in {h \in held : h.modifier \in {None, "all"}}}
             \/ \E s \in wild : Below(s.path, a)
  <2>1. PICK h \in held : SegmentMatches(h, a)
    BY <1>6 DEF Selects
  <2>2. CASE h.modifier = None
    BY <2>1, <2>2 DEF SegmentMatches
  <2>3. CASE h.modifier # None /\ h.path \in {<<>>, Engine}
    BY <2>3
  <2>4. CASE h.modifier # None /\ h.path \notin {<<>>, Engine}
    <3>1. (h.modifier = "all" /\ a = h.path) \/ Below(h.path, a)
      BY <2>1, <2>4 DEF SegmentMatches
    <3>2. h \in wild
      BY <2>4
    <3> QED BY <3>1, <3>2
  <2> QED BY <2>2, <2>3, <2>4
<1> HIDE DEF held
<1>7. ExpansionScope(n).pushed \in Nat
  <2>1. ExpansionScope(n).pushed = Cardinality({s \in segments : s.modifier \in {None, "all"}})
    BY <1>1 DEF Scope
  <2>2. IsFiniteSet(segments)
    BY <1>2
  <2> QED BY <2>1, <2>2, FS_Subset, FS_CardinalityType
<1> QED BY <1>1, <1>3, <1>4, <1>5, <1>6, <1>7 DEF segments, root

\* A request that is answered by branches begins its walk with everything ahead of it.
LEMMA RequestWalks ==
  ASSUME RowsInv, StateInv, phase = "idle", NEW n \in Listed, Request(n), phase' = "walk"
  PROVE  StateInv' /\ WalkInv'
<1> DEFINE scope == ExpansionScope(n)
<1>1. /\ n # Refused /\ query' = n /\ stayed' = stored /\ stored' = stored
      /\ short' = short /\ cursor' = cursor /\ hops' = hops
      /\ ranges' = IF scope.unbounded THEN {Everything} ELSE scope.walks
      /\ range' \in ranges'
      /\ found' = IF scope.unbounded THEN {} ELSE scope.literals
      /\ length' = IF scope.unbounded THEN 0 ELSE scope.pushed
  BY DEF Request
<1>2. scope # None
  BY DEF Request
<1>3. TypedNode(n)
  BY <1>1, ListedTyped
<1>4. /\ ByBranches(n) /\ scope.walks \subseteq Segment /\ IsFiniteSet(scope.literals)
      /\ scope.pushed \in Nat
      /\ \A a \in Seq(STRING) : Selects(n.own["address"], RootOf(n.own), a) =>
           \/ scope.unbounded \/ a \in scope.literals \/ \E s \in scope.walks : Below(s.path, a)
  BY <1>2, <1>3, ScopeCovers
<1> HIDE DEF scope
<1>5. range = None /\ ranges = {} /\ cursor = None /\ hops = 0 /\ ~short
  BY DEF StateInv
<1>6. Everything \in Segment /\ None \notin Segment
  BY FilterAssumption DEF Everything, Segment, Modifiers
<1>7. ranges' \subseteq Segment /\ range' # None
  BY <1>1, <1>4, <1>6
<1>8. IsFiniteSet(found') /\ length' \in Nat
  BY <1>1, <1>4, FS_EmptySet, FS_CardinalityType
<1>9. Passed' = {} /\ Cardinality(Passed') = 0
  BY <1>1, <1>5, FS_EmptySet DEF Passed
<1>10. StateInv'
  BY <1>1, <1>5, <1>7, <1>8, <1>9 DEF StateInv
<1>11. ASSUME NEW x \in stored, Selects(n.own["address"], RootOf(n.own), x.address)
       PROVE  x.address \in found' \/ \E g \in ranges' : Reach(g, x.address)
  <2>1. x.address \in Seq(STRING)
    BY StoreAssumption DEF RowsInv, Addresses
  <2> QED BY <1>1, <1>4, <1>11, <2>1 DEF Reach
<1>12. cursor' = None
  BY <1>1, <1>5
<1>13. Covered'
  BY <1>1, <1>11, <1>12 DEF Covered, Selected
<1> QED BY <1>1, <1>4, <1>10, <1>13 DEF WalkInv

\* The other requests, and what ends them.
LEMMA AskKeeps ==
  ASSUME RowsInv, StateInv, WalkInv, Ask
  PROVE  StateInv' /\ WalkInv'
<1>1. phase = "idle" /\ range = None /\ ranges = {} /\ cursor = None /\ hops = 0
      /\ found = {} /\ ~short
  BY DEF Ask, StateInv
<1>2. ASSUME phase' # "walk", UNCHANGED <<walk, short>> PROVE StateInv'
  <2>1. UNCHANGED <<ranges, range, cursor, found, length, hops, short>>
    BY <1>2 DEF walk
  <2>2. Passed' = Passed
    BY <2>1 DEF Passed
  <2> QED BY <1>1, <1>2, <2>1, <2>2 DEF StateInv
<1>3. ASSUME NEW n \in Listed, Refuse(n) PROVE StateInv' /\ WalkInv'
  BY <1>2, <1>3 DEF Refuse, WalkInv
<1>4. ASSUME NEW n \in Listed, Request(n) PROVE StateInv' /\ WalkInv'
  <2>1. CASE phase' = "walk"
    BY <1>1, <1>4, <2>1, RequestWalks
  <2>2. CASE phase' # "walk"
    <3>1. UNCHANGED <<walk, short>> /\ query' = n /\ n # Refused
      BY <1>4, <2>2 DEF Request
    <3>2. found' = {}
      BY <1>1, <3>1 DEF walk
    <3> QED BY <1>2, <2>2, <3>1, <3>2 DEF WalkInv
  <2> QED BY <2>1, <2>2
<1>5. ASSUME NEW n \in Asked, CountMatches(n) \/ AnyMatches(n) PROVE StateInv' /\ WalkInv'
  <2>1. /\ UNCHANGED <<walk, short>> /\ query' = n /\ n # Refused /\ n \in Listed
        /\ phase' \in {"counted", "told"}
    BY <1>5 DEF CountMatches, AnyMatches, Listed
  <2> QED BY <1>2, <2>1 DEF WalkInv
<1>6. ASSUME NEW set \in Sets, RefuseUpdate(set) PROVE StateInv' /\ WalkInv'
  BY <1>2, <1>6 DEF RefuseUpdate, WalkInv
<1> QED BY <1>3, <1>4, <1>5, <1>6 DEF Ask

\* A writer takes nothing from what the walk found.
LEMMA WriterKeeps ==
  ASSUME StateInv, WalkInv, stayed' \subseteq stayed, UNCHANGED <<query, phase, walk, short>>
  PROVE  StateInv' /\ WalkInv'
<1>1. UNCHANGED <<ranges, range, cursor, found, length, hops>>
  BY DEF walk
<1>2. Passed' = Passed
  BY <1>1 DEF Passed
<1>3. StateInv'
  BY <1>1, <1>2 DEF StateInv
<1>4. Covered => Covered'
  BY <1>1 DEF Covered, Selected
<1> QED BY <1>1, <1>3, <1>4 DEF WalkInv

\* The first address ahead.
LEMMA NextAhead ==
  ASSUME RowsInv, Ahead # {}
  PROVE  LET next == CHOOSE a \in Ahead : \A b \in Ahead : Rank[a] <= Rank[b]
         IN  next \in Ahead /\ \A b \in Ahead : Rank[next] <= Rank[b]
<1>1. Ahead \subseteq Addresses
  BY DEF Ahead, RowsInv
<1>2. \A a \in Ahead : Rank[a] \in Nat
  BY <1>1, RankAssumption
<1> DEFINE T == {Rank[a] : a \in Ahead}
<1>3. T \subseteq Nat /\ T # {}
  BY <1>2
<1>4. \E t \in T : \A u \in T : t <= u
  <2> HIDE DEF T
  <2> QED BY <1>3, LeastOf
<1>5. \E a \in Ahead : \A b \in Ahead : Rank[a] <= Rank[b]
  BY <1>4
<1> QED BY <1>5

\* walk_distinct, one seek.
LEMMA HopKeeps ==
  ASSUME RowsInv, StateInv, WalkInv, Hop
  PROVE  StateInv' /\ WalkInv'
<1> DEFINE next == CHOOSE a \in Ahead : \A b \in Ahead : Rank[a] <= Rank[b]
<1>1. /\ phase = "walk" /\ range # None /\ Ahead # {}
      /\ found' = found \cup {next} /\ cursor' = next
      /\ length' = length + 1 /\ hops' = hops + 1
      /\ UNCHANGED <<stored, query, phase, ranges, range, page, stayed, short>>
  BY DEF Hop
<1>2. next \in Ahead /\ \A b \in Ahead : Rank[next] <= Rank[b]
  BY <1>1, NextAhead
<1> HIDE DEF next
<1>3. Ahead \subseteq Addresses /\ \A a \in Ahead : cursor # None => Rank[a] > Rank[cursor]
  BY DEF Ahead, RowsInv
<1>4. next \in Addresses /\ \A a \in Addresses : Rank[a] \in Nat
  BY <1>2, <1>3, RankAssumption
<1>5. next # None
  BY <1>4, StoreAssumption, FilterAssumption DEF Addresses
<1>6. IsFiniteSet(found') /\ IsFiniteSet(Passed) /\ IsFiniteSet(Passed')
  <2>1. IsFiniteSet(found) /\ IsFiniteSet(found')
    BY <1>1, FS_AddElement DEF StateInv
  <2>2. Passed \subseteq found /\ Passed' \subseteq found'
    BY DEF Passed
  <2> QED BY <2>1, <2>2, FS_Subset
<1>7. hops' <= Cardinality(Passed')
  <2>1. next \in Passed'
    BY <1>1, <1>4, <1>5 DEF Passed
  <2>2. next \notin Passed
    BY <1>2, <1>3, <1>4 DEF Passed, StateInv
  <2>3. ASSUME NEW a \in Passed PROVE a \in Passed'
    <3>1. a \in found /\ a \in Addresses /\ cursor # None /\ cursor \in Addresses
          /\ Rank[a] <= Rank[cursor]
      BY DEF Passed, StateInv
    <3>2. Rank[next] > Rank[cursor]
      BY <1>2, <1>3, <3>1
    <3>3. Rank[a] <= Rank[next]
      BY <1>4, <3>1, <3>2
    <3> QED BY <1>1, <1>5, <3>1, <3>3 DEF Passed
  <2>4. Cardinality(Passed) + 1 <= Cardinality(Passed') /\ Cardinality(Passed) \in Nat
        /\ Cardinality(Passed') \in Nat
    BY <1>6, <2>1, <2>2, <2>3, OneMore
  <2> QED BY <1>1, <2>4 DEF StateInv
<1>8. StateInv'
  BY <1>1, <1>4, <1>6, <1>7 DEF StateInv
<1>9. ASSUME Covered PROVE Covered'
  <2> SUFFICES ASSUME NEW x \in stayed, Selected(x.address), x.address \notin found'
               PROVE  \E g \in ranges : /\ Reach(g, x.address)
                                        /\ g = range => Rank[x.address] > Rank[next]
    BY <1>1 DEF Covered, Selected
  <2>1. PICK g \in ranges : /\ Reach(g, x.address)
                            /\ g = range /\ cursor # None => Rank[x.address] > Rank[cursor]
    BY <1>1, <1>9 DEF Covered
  <2>2. x \in stored /\ x.address \in Addresses
    BY DEF RowsInv
  <2>3. ASSUME g = range PROVE Rank[x.address] > Rank[next]
    <3>1. x.address \in Ahead
      BY <2>1, <2>2, <2>3 DEF Ahead, InRange, Reach
    <3>2. Rank[next] <= Rank[x.address] /\ Rank[next] # Rank[x.address]
      BY <1>1, <1>2, <1>4, <2>2, <3>1, RankAssumption
    <3> QED BY <1>4, <2>2, <3>2
  <2> QED BY <2>1, <2>3
<1>10. Cardinality(found) > BranchCap => Cardinality(found') > BranchCap
  <2>1. IsFiniteSet(found) /\ found \in SUBSET found'
    BY <1>1 DEF StateInv
  <2>2. Cardinality(found) <= Cardinality(found')
    BY <1>6, <2>1, FS_Subset
  <2>3. Cardinality(found) \in Nat /\ Cardinality(found') \in Nat
    BY <1>6, <2>1, FS_CardinalityType
  <2> QED BY <2>2, <2>3, StoreAssumption
<1> QED BY <1>1, <1>8, <1>9, <1>10 DEF WalkInv

\* discover_branches, after a range.
LEMMA RangeKeeps ==
  ASSUME RowsInv, StateInv, WalkInv, RangeDone
  PROVE  StateInv' /\ WalkInv'
<1>1. /\ phase = "walk" /\ range # None /\ (Ahead = {} \/ hops > BranchCap)
      /\ ranges' = IF length > BranchCap THEN {} ELSE ranges \ {range}
      /\ range' \in IF ranges' = {} THEN {None} ELSE ranges'
      /\ short' = (ranges' # ranges \ {range} /\ Cardinality(found) <= BranchCap)
      /\ cursor' = None /\ hops' = 0
      /\ UNCHANGED <<stored, query, phase, found, length, page, stayed>>
  BY DEF RangeDone
<1>2. ranges' \subseteq Segment /\ None \notin Segment
  BY <1>1, FilterAssumption DEF StateInv
<1>3. Passed' = {} /\ Cardinality(Passed') = 0
  BY <1>1, FS_EmptySet DEF Passed
<1>4. short' => ranges' = {}
  BY <1>1
<1>5. StateInv'
  BY <1>1, <1>2, <1>3, <1>4 DEF StateInv
<1>6. Cardinality(found) \in Nat /\ Cardinality(Passed) <= Cardinality(found)
      /\ Cardinality(Passed) \in Nat
  <2>1. IsFiniteSet(found) /\ Passed \subseteq found
    BY DEF StateInv, Passed
  <2> QED BY <2>1, FS_Subset, FS_CardinalityType
<1>7. hops > BranchCap => Cardinality(found) > BranchCap
  BY <1>6, StoreAssumption DEF StateInv
<1>8. ~short
  BY <1>1 DEF StateInv
<1>9. ASSUME Covered, Ahead = {}, ranges' = ranges \ {range} PROVE Covered'
  <2> SUFFICES ASSUME NEW x \in stayed, Selected(x.address), x.address \notin found
               PROVE  \E g \in ranges' : Reach(g, x.address)
    BY <1>1 DEF Covered, Selected
  <2>1. PICK g \in ranges : /\ Reach(g, x.address)
                            /\ g = range /\ cursor # None => Rank[x.address] > Rank[cursor]
    BY <1>9 DEF Covered
  <2>2. x \in stored
    BY DEF RowsInv
  <2>3. g # range
    BY <1>9, <2>1, <2>2 DEF Ahead, InRange, Reach
  <2> QED BY <1>9, <2>1, <2>3
<1>10. ASSUME ~(Cardinality(found) > BranchCap) PROVE Covered' \/ short'
  <2>1. Covered /\ Ahead = {} /\ Cardinality(found) <= BranchCap
    BY <1>1, <1>6, <1>7, <1>8, <1>10, StoreAssumption DEF WalkInv
  <2>2. CASE ranges' = ranges \ {range}
    BY <1>9, <2>1, <2>2
  <2>3. CASE ranges' # ranges \ {range}
    BY <1>1, <2>1, <2>3
  <2> QED BY <2>2, <2>3
<1> QED BY <1>1, <1>5, <1>10 DEF WalkInv

\* listing_statement: a walk that came to its end found every address that matters, or too
\* many.
LEMMA DiscoveredKeeps ==
  ASSUME StateInv, WalkInv, Discovered
  PROVE  StateInv' /\ WalkInv'
<1>1. /\ phase = "walk" /\ range = None /\ phase' = "fetch" /\ found' = Choose(found)
      /\ length' = 0
      /\ UNCHANGED <<stored, query, ranges, range, cursor, hops, page, stayed, short>>
  BY DEF Discovered
<1>2. found' = {} \/ (found' = found /\ ~(Cardinality(found) > BranchCap))
  BY <1>1 DEF Choose
<1>3. IsFiniteSet(found')
  BY <1>2, FS_EmptySet DEF StateInv
<1>4. Passed' = {} /\ Cardinality(Passed') = 0
  BY <1>1, FS_EmptySet DEF Passed, StateInv
<1>5. StateInv'
  BY <1>1, <1>3, <1>4 DEF StateInv
<1>6. found' = found /\ Covered => Covered'
  BY <1>1 DEF Covered, Selected
<1> QED BY <1>1, <1>2, <1>5, <1>6 DEF WalkInv

\* What a seek within a branch leaves out of the condition is what admitted the branch.
LEMMA BranchCondition ==
  ASSUME NEW n, TypedNode(n), ByBranches(n), NEW table, NEW r, r.address \in Seq(STRING)
  PROVE  Condition(n, table, r, TRUE)
           <=> Condition(n, table, r, FALSE) /\ Selects(n.own["address"], RootOf(n.own), r.address)
<1> DEFINE S == SelectCondition(n.own["address"], Get(n.own, "root", None), r.address)
           rest == \A i \in DOMAIN n.and : OwnCondition(n.and[i], table, r, TRUE)
<1>1. Has(n.own, "address") /\ n.or = <<>>
  BY DEF ByBranches
<1>2. OwnCondition(n.own, table, r, TRUE) <=> OwnCondition(n.own, table, r, FALSE) /\ S
  BY <1>1, Zenon DEF OwnCondition
<1>3. Condition(n, table, r, TRUE) <=> OwnCondition(n.own, table, r, TRUE) /\ rest
  BY <1>1, Zenon DEF Condition
<1>4. Condition(n, table, r, FALSE) <=> OwnCondition(n.own, table, r, FALSE) /\ rest
  BY <1>1, Zenon DEF Condition
<1>5. Selects(n.own["address"], RootOf(n.own), r.address) <=> S
  <2>1. n.own["address"] \subseteq Segment
    BY <1>1 DEF TypedNode, TypedOwn
  <2> QED BY <2>1, RootTyped, SelectAgrees DEF TypedNode, RootOf
<1> HIDE DEF S, rest
<1> QED BY <1>2, <1>3, <1>4, <1>5, Zenon

\* A page that Complete holds of.
CompleteOf(p) ==
  LET match == Matching(query, stored)
      kept == stayed \cap match
  IN  /\ p \subseteq match
      /\ \A r \in kept \ p :
           \/ Cardinality({x \in kept : Precedes(query.order, x, r)}) < query.offset
           \/ /\ Cardinality(p) = query.limit
              /\ \A x \in p : ~Precedes(query.order, r, x)

\* A page of the plain statement is complete.
LEMMA StatementComplete ==
  ASSUME RowsInv, TypedNode(query), NEW p \in Statement(query, stored)
  PROVE  CompleteOf(p)
<1> DEFINE match == Matching(query, stored)
           kept == stayed \cap match
<1>1. match \subseteq stored /\ IsFiniteSet(match)
  BY FS_Subset DEF RowsInv, Matching
<1>2. p \in Pages(match, query.order, query.limit, query.offset)
  BY DEF Statement
<1>3. \A x \in match : x.ts \in Int
  BY <1>1 DEF RowsInv
<1>4. (query.limit = None \/ query.limit \in Nat) /\ query.offset \in Nat
  BY DEF TypedNode
<1> HIDE DEF match
<1>5. p \subseteq match
  BY <1>1, <1>2, <1>4, PageIs
<1>6. kept \ match = {} /\ \A x \in match \cup kept : x.ts \in Int
  BY <1>3
<1>7. \A r \in kept \ p :
        \/ Cardinality({x \in kept : Precedes(query.order, x, r)}) < query.offset
        \/ /\ Cardinality(p) = query.limit
           /\ \A x \in p : ~Precedes(query.order, r, x)
  <2> HIDE DEF kept
  <2> DEFINE order == query.order
             limit == query.limit
             offset == query.offset
  <2>1. \A r \in kept \ match :
          /\ limit \in Nat
          /\ \E D \in SUBSET match : /\ Cardinality(D) = limit + offset
                                    /\ \A d \in D : ~Precedes(order, r, d)
    BY <1>6
  <2>2. /\ limit = None \/ limit \in Nat
        /\ offset \in Nat /\ p \in Pages(match, order, limit, offset)
    BY <1>2, <1>4
  <2> HIDE DEF order, limit, offset
  <2>3. \A r \in kept \ p :
          \/ Cardinality({x \in kept : Precedes(order, x, r)}) < offset
          \/ Cardinality(p) = limit /\ \A x \in p : ~Precedes(order, r, x)
    BY <1>1, <1>6, <2>1, <2>2, PageComplete
  <2> QED BY <2>3 DEF order, limit, offset
<1> QED BY <1>5, <1>7 DEF CompleteOf, match

\* FilterCore::statement_over: the merge of the branches is as complete, when every address
\* that matters is among them.
LEMMA BranchesComplete ==
  ASSUME RowsInv, TypedNode(query), ByBranches(query),
         \A x \in stayed : Selected(x.address) => x.address \in found,
         NEW p \in StatementOver(query, stored, found)
  PROVE  CompleteOf(p)
<1> DEFINE admitted == Admitted(query, found)
           merged == {m \in SUBSET {r \in stored : r.address \in admitted} :
                        \A b \in admitted : {r \in m : r.address = b} \in Seek(query, stored, b)}
<1>1. CASE admitted = {}
  BY <1>1, StatementComplete DEF StatementOver
<1>2. CASE admitted # {}
  <2>1. PICK m \in merged : p \in Pages(m, query.order, query.limit, query.offset)
    BY <1>2 DEF StatementOver
  <2>2. /\ m \subseteq stored /\ \A r \in m : r.address \in admitted
        /\ \A b \in admitted : {r \in m : r.address = b} \in Seek(query, stored, b)
    BY <2>1
  <2> HIDE DEF merged
  <2> DEFINE match == Matching(query, stored)
             kept == stayed \cap match
             Rows(b) == {r \in stored : r.address = b /\ Condition(query, stored, r, FALSE)}
  <2>3. /\ IsFiniteSet(m) /\ \A b \in admitted : IsFiniteSet(Rows(b))
        /\ \A x \in m \cup kept : x.ts \in Int
    BY <2>2, FS_Subset DEF RowsInv, Matching
  <2>4. query.limit \in Nat /\ query.offset \in Nat /\ query.limit + query.offset \in Nat
    BY DEF TypedNode, ByBranches
  <2>5. \A b \in admitted : {r \in m : r.address = b}
                              \in Pages(Rows(b), query.order, query.limit + query.offset, 0)
    BY <2>2 DEF Seek, Depth
  <2>6. \A b \in admitted : {r \in m : r.address = b} \subseteq Rows(b)
    <3> SUFFICES ASSUME NEW b \in admitted PROVE {r \in m : r.address = b} \subseteq Rows(b)
      OBVIOUS
    <3> DEFINE q == {r \in m : r.address = b}
               T == Rows(b)
               depth == query.limit + query.offset
    <3>1. q \in Pages(T, query.order, depth, 0) /\ IsFiniteSet(T) /\ depth \in Nat /\ 0 \in Nat
      BY <2>3, <2>4, <2>5
    <3> HIDE DEF q, T, depth
    <3>2. q \subseteq T
      BY <3>1, PageIs
    <3> QED BY <3>2 DEF q, T
  <2>7. \A r \in stored : r.address \in Seq(STRING)
    BY StoreAssumption DEF RowsInv, Addresses
  <2>8. \A b \in admitted : Selects(query.own["address"], RootOf(query.own), b) /\ b \in found
    BY DEF Admitted, RootOf
  <2>9. m \subseteq match
    <3> SUFFICES ASSUME NEW r \in m PROVE Condition(query, stored, r, TRUE)
      BY <2>2 DEF Matching
    <3>1. r.address \in admitted /\ r \in stored
      BY <2>2
    <3>2. Condition(query, stored, r, FALSE)
      BY <2>6, <3>1
    <3>3. Selects(query.own["address"], RootOf(query.own), r.address)
      BY <2>8, <3>1
    <3> QED BY <2>7, <3>1, <3>2, <3>3, BranchCondition
  <2>10. p \subseteq m
    BY <2>1, <2>3, <2>4, PageIs
  <2>11. ASSUME NEW r \in kept \ m
         PROVE  \E D \in SUBSET m : /\ Cardinality(D) = query.limit + query.offset
                                    /\ \A d \in D : ~Precedes(query.order, r, d)
    <3>1. r \in stayed /\ r \in stored /\ Condition(query, stored, r, TRUE)
      BY DEF Matching
    <3>2. /\ Condition(query, stored, r, FALSE)
          /\ Selects(query.own["address"], RootOf(query.own), r.address)
      BY <2>7, <3>1, BranchCondition
    <3>3. r.address \in found
      BY <3>1, <3>2 DEF Selected
    <3>4. r.address \in admitted
      BY <3>2, <3>3 DEF Admitted, RootOf
    <3> DEFINE D == {x \in m : x.address = r.address}
               T == Rows(r.address)
               depth == query.limit + query.offset
    <3>5. r \in T \ D
      BY <3>1, <3>2
    <3>6. D \in Pages(T, query.order, depth, 0) /\ IsFiniteSet(T) /\ depth \in Nat
      BY <2>3, <2>4, <2>5, <3>4
    <3>7. D \in SUBSET m
      OBVIOUS
    <3> HIDE DEF D, T, depth
    <3>8. Cardinality(D) = depth /\ \A d \in D : ~Precedes(query.order, r, d)
      BY <3>5, <3>6, SeekLeaves
    <3> QED BY <3>7, <3>8 DEF depth
  <2> HIDE DEF kept, match, Rows, admitted
  <2>12. \A r \in kept \ p :
           \/ Cardinality({x \in kept : Precedes(query.order, x, r)}) < query.offset
           \/ /\ Cardinality(p) = query.limit
              /\ \A x \in p : ~Precedes(query.order, r, x)
    <3> DEFINE order == query.order
               limit == query.limit
               offset == query.offset
    <3>1. \A r \in kept \ m :
            /\ limit \in Nat
            /\ \E D \in SUBSET m : /\ Cardinality(D) = limit + offset
                                  /\ \A d \in D : ~Precedes(order, r, d)
      BY <2>4, <2>11
    <3>2. /\ limit = None \/ limit \in Nat
          /\ offset \in Nat /\ p \in Pages(m, order, limit, offset)
      BY <2>1, <2>4
    <3> HIDE DEF order, limit, offset
    <3>3. \A r \in kept \ p :
            \/ Cardinality({x \in kept : Precedes(order, x, r)}) < offset
            \/ Cardinality(p) = limit /\ \A x \in p : ~Precedes(order, r, x)
      BY <2>3, <3>1, <3>2, PageComplete
    <3> QED BY <3>3 DEF order, limit, offset
  <2> QED BY <2>9, <2>10, <2>12 DEF CompleteOf, kept, match
<1> QED BY <1>1, <1>2

\* The listing's page.
LEMMA FetchKeeps ==
  ASSUME RowsInv, StateInv, WalkInv, Fetch
  PROVE  StateInv' /\ WalkInv' /\ NoneMissed'
<1>1. /\ phase = "fetch" /\ phase' = "done"
      /\ page' \in IF found = {} THEN Statement(query, stored)
                   ELSE StatementOver(query, stored, found)
      /\ UNCHANGED <<stored, query, ranges, range, cursor, found, length, hops, stayed, short>>
  BY DEF Fetch, walk
<1>2. Passed' = Passed
  BY <1>1 DEF Passed
<1>3. StateInv'
  BY <1>1, <1>2 DEF StateInv
<1>4. WalkInv'
  BY <1>1 DEF WalkInv
<1>5. TypedNode(query)
  BY <1>1, ListedTyped DEF WalkInv
<1>6. ASSUME ~short PROVE CompleteOf(page')
  <2>1. CASE found = {}
    BY <1>1, <1>5, <2>1, StatementComplete
  <2>2. CASE found # {}
    <3>1. ByBranches(query) /\ Covered /\ ranges = {}
      BY <1>1, <1>6, <2>2 DEF WalkInv, StateInv
    <3>2. \A x \in stayed : Selected(x.address) => x.address \in found
      BY <3>1 DEF Covered
    <3> QED BY <1>1, <1>5, <2>2, <3>1, <3>2, BranchesComplete
  <2> QED BY <2>1, <2>2
<1>7. CompleteOf(page') => Complete'
  BY <1>1 DEF CompleteOf, Complete, Matching
<1>8. NoneMissed'
  BY <1>1, <1>6, <1>7 DEF NoneMissed
<1> QED BY <1>3, <1>4, <1>8

\* A count is the length of every page of that moment.
LEMMA CountsRight ==
  ASSUME RowsInv, NEW n \in Asked, CountMatches(n)
  PROVE  NoneMissed'
<1>1. /\ n # Refused /\ query' = n /\ phase' = "counted" /\ stored' = stored
      /\ page' \in IF n.limit = 0 THEN {0} ELSE CountStatement(n, stored)
  BY DEF CountMatches
<1>2. TypedNode(n)
  BY <1>1, ListedTyped DEF Listed
<1> DEFINE match == Matching(n, stored)
<1>3. IsFiniteSet(match)
  BY FS_Subset DEF RowsInv, Matching
<1>4. (n.limit = None \/ n.limit \in Nat) /\ n.offset \in Nat
  BY <1>2 DEF TypedNode
<1>5. Statement(n, stored) = Pages(match, n.order, n.limit, n.offset)
  BY DEF Statement
<1> HIDE DEF match
<1>6. ASSUME NEW p \in Pages(match, n.order, n.limit, n.offset) PROVE Cardinality(p) = page'
  <2>1. /\ \A q \in Pages(match, n.order, n.limit, n.offset) : Cardinality(q) = Cardinality(p)
        /\ n.limit = 0 => Cardinality(p) = 0
        /\ n.limit = None /\ n.offset = 0 => Cardinality(p) = Cardinality(match)
    BY <1>3, <1>4, PageLength
  <2>2. CASE n.limit = 0
    BY <1>1, <2>1, <2>2
  <2>3. CASE n.limit # 0 /\ HasPage(n)
    <3>1. PICK q \in Pages(match, n.order, n.limit, n.offset) : page' = Cardinality(q)
      BY <1>1, <1>5, <2>3 DEF CountStatement
    <3> QED BY <2>1, <3>1
  <2>4. CASE n.limit # 0 /\ ~HasPage(n)
    <3>1. page' = Cardinality(match)
      BY <1>1, <2>4 DEF CountStatement, match
    <3> QED BY <2>1, <2>4, <3>1 DEF HasPage
  <2> QED BY <2>2, <2>3, <2>4
<1> QED BY <1>1, <1>5, <1>6 DEF NoneMissed

\* An existence check is true when those pages are not empty.
LEMMA TellsRight ==
  ASSUME RowsInv, NEW n \in Asked, AnyMatches(n)
  PROVE  NoneMissed'
<1>1. /\ n # Refused /\ query' = n /\ phase' = "told" /\ stored' = stored
      /\ page' = (n.limit # 0 /\ ExistsStatement(n, stored))
  BY DEF AnyMatches
<1>2. TypedNode(n)
  BY <1>1, ListedTyped DEF Listed
<1> DEFINE match == Matching(n, stored)
<1>3. IsFiniteSet(match)
  BY FS_Subset DEF RowsInv, Matching
<1>4. (n.limit = None \/ n.limit \in Nat) /\ n.offset \in Nat /\ None \notin Int
  BY <1>2, FilterAssumption DEF TypedNode
<1>5. Statement(n, stored) = Pages(match, n.order, n.limit, n.offset)
  BY DEF Statement
<1>6. ExistsStatement(n, stored) <=> /\ n.limit # None => n.limit > 0
                                     /\ Cardinality(match) > n.offset
  BY DEF ExistsStatement
<1> HIDE DEF match
<1>7. ASSUME NEW p \in Pages(match, n.order, n.limit, n.offset) PROVE page' <=> p # {}
  <2>1. Cardinality(p) > 0 <=> Cardinality(match) > n.offset /\ n.limit # 0
    BY <1>3, <1>4, PageLength
  <2>2. IsFiniteSet(p) /\ Cardinality(p) \in Nat
    BY <1>3, <1>4, PageIs
  <2>3. p # {} <=> Cardinality(p) > 0
    BY <2>2, FS_EmptySet
  <2>4. (n.limit # None => n.limit > 0) <=> n.limit # 0
    BY <1>4
  <2> QED BY <1>1, <1>6, <2>1, <2>3, <2>4
<1> QED BY <1>1, <1>5, <1>7 DEF NoneMissed

\* At first nothing is stored and nothing is asked.
LEMMA MissedInit == StoreInit => MissedInv
<1> SUFFICES ASSUME StoreInit PROVE MissedInv
  OBVIOUS
<1> USE DEF StoreInit
<1>1. RowsInv
  BY FS_EmptySet DEF RowsInv
<1>2. Passed = {} /\ Cardinality(Passed) = 0
  BY FS_EmptySet DEF Passed
<1>3. StateInv
  BY <1>2, FS_EmptySet DEF StateInv
<1>4. WalkInv /\ NoneMissed
  BY DEF WalkInv, NoneMissed
<1> QED BY <1>1, <1>3, <1>4 DEF MissedInv

\* One step of a writer, of the walk or of the request keeps the invariant.
LEMMA MissedNext == MissedInv /\ [StoreNext]_storeVars => MissedInv'
<1> SUFFICES ASSUME MissedInv, [StoreNext]_storeVars PROVE MissedInv'
  OBVIOUS
<1>1. RowsInv /\ StateInv /\ WalkInv /\ NoneMissed /\ RowsInv'
  BY RowsNext DEF MissedInv
<1> SUFFICES StateInv' /\ WalkInv' /\ NoneMissed'
  BY <1>1 DEF MissedInv
<1>2. ASSUME phase' \notin {"done", "counted", "told"} PROVE NoneMissed'
  BY <1>2 DEF NoneMissed
<1>3. ASSUME NEW r \in Row, Insert(r) PROVE StateInv' /\ WalkInv' /\ NoneMissed'
  <2>1. stayed' \subseteq stayed /\ UNCHANGED <<query, phase, walk, short>>
    BY <1>3 DEF Insert
  <2>2. phase' \notin {"done", "counted", "told"}
    BY <1>3 DEF Insert
  <2> QED BY <1>1, <1>2, <2>1, <2>2, WriterKeeps
<1>4. ASSUME NEW n, NEW tables, Write(n, tables) PROVE StateInv' /\ WalkInv' /\ NoneMissed'
  <2>1. stayed' \subseteq stayed /\ UNCHANGED <<query, phase, walk, short>>
    BY <1>4 DEF Write
  <2>2. phase' \notin {"done", "counted", "told"}
    BY <1>4 DEF Write
  <2> QED BY <1>1, <1>2, <2>1, <2>2, WriterKeeps
<1>5. ASSUME NEW w \in Changing, Delete(w) \/ \E set \in Sets : Update(w, set)
      PROVE  StateInv' /\ WalkInv' /\ NoneMissed'
  BY <1>4, <1>5 DEF Delete, Update
<1>6. CASE Ask
  <2>1. StateInv' /\ WalkInv'
    BY <1>1, <1>6, AskKeeps
  <2>2. ASSUME NEW n \in Listed, Refuse(n) \/ Request(n) PROVE NoneMissed'
    <3>1. CASE Refuse(n)
      BY <1>2, <3>1 DEF Refuse
    <3>2. CASE Request(n)
      <4>1. query' = n /\ (phase' = "done" => n.limit = 0) /\ phase' \notin {"counted", "told"}
        BY <3>2 DEF Request
      <4> QED BY <4>1 DEF NoneMissed
    <3> QED BY <2>2, <3>1, <3>2
  <2>3. ASSUME NEW set \in Sets, RefuseUpdate(set) PROVE NoneMissed'
    BY <1>2, <2>3 DEF RefuseUpdate
  <2> QED BY <1>1, <1>6, <2>1, <2>2, <2>3, CountsRight, TellsRight DEF Ask
<1>7. CASE Hop
  <2>1. phase' \notin {"done", "counted", "told"}
    BY <1>7 DEF Hop
  <2> QED BY <1>1, <1>2, <1>7, <2>1, HopKeeps
<1>8. CASE RangeDone
  <2>1. phase' \notin {"done", "counted", "told"}
    BY <1>8 DEF RangeDone
  <2> QED BY <1>1, <1>2, <1>8, <2>1, RangeKeeps
<1>9. CASE Discovered
  <2>1. phase' \notin {"done", "counted", "told"}
    BY <1>9 DEF Discovered
  <2> QED BY <1>1, <1>2, <1>9, <2>1, DiscoveredKeeps
<1>10. CASE Fetch
  BY <1>1, <1>10, FetchKeeps
<1>11. CASE Answered
  <2>1. /\ phase \in {"done", "counted", "told", "refused"} /\ phase' = "idle"
        /\ found' = {} /\ short' = FALSE
        /\ UNCHANGED <<ranges, range, cursor, length, hops>>
    BY <1>11 DEF Answered
  <2>2. range = None /\ cursor = None
    BY <1>1, <2>1 DEF StateInv
  <2>3. Passed' = {} /\ Cardinality(Passed') = 0
    BY <2>1, FS_EmptySet DEF Passed
  <2>4. StateInv'
    BY <1>1, <2>1, <2>2, <2>3, FS_EmptySet DEF StateInv
  <2> QED BY <1>2, <2>1, <2>4 DEF WalkInv
<1>12. CASE UNCHANGED storeVars
  <2>1. /\ UNCHANGED <<stored, query, phase, walk, page, stayed, short>>
        /\ UNCHANGED <<ranges, range, cursor, found, length, hops>>
    BY <1>12 DEF storeVars, walk
  <2>2. NoneMissed'
    BY <1>1, <2>1 DEF NoneMissed, Complete
  <2> QED BY <1>1, <2>1, <2>2, WriterKeeps
<1> QED BY <1>3, <1>5, <1>6, <1>7, <1>8, <1>9, <1>10, <1>11, <1>12 DEF StoreNext

\* Whatever writers do between the seeks of a listing (discover_branches, statement_over),
\* its page holds every matching row that stayed, but for the limit and the offset and for
\* the cut of overlapping ranges at the cap; counts and existence checks agree with it.
THEOREM AlwaysNoneMissed == StoreSpec => []NoneMissed
<1>1. MissedInv => NoneMissed
  BY DEF MissedInv
<1> QED BY <1>1, MissedInit, MissedNext, PTL DEF StoreSpec
=============================================================================
