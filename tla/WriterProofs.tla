---------------------------- MODULE WriterProofs ----------------------------
(***************************************************************************)
(* Proofs about Writer for every number of flushes and entities: the       *)
(* writer loses nothing, writes in order, one flush at a time, notifies    *)
(* only what is stored, flush() means what its callers rely on, and the    *)
(* whole implements the log of RecordLog.                                  *)
(***************************************************************************)
EXTENDS Writer, TLAPS

Writing == {"write", "committed"}
Pending == {"wait", "write", "committed"}

(* The shape of the flush queue.                                           *)
Membership ==
  \A f \in Flush : pc[f] \in Pending <=> \E i \in 1..Len(flushes) : flushes[i] = f
Distinct ==
  \A i, j \in 1..Len(flushes) : flushes[i] = flushes[j] => i = j
Waiting ==
  \A i \in 2..Len(flushes) :
    pc[flushes[i]] = "wait" /\ previous[flushes[i]] = flushes[i - 1]
EventEnded == \A f \in event : pc[f] \in Ended
Shape == Membership /\ Distinct /\ Waiting /\ EventEnded

(* What a flush that writes has handed to the database.                    *)
NonEmpty == \A i \in 1..Len(flushes) : entities[flushes[i]] # <<>>
BatchSame == \A f \in Flush : pc[f] \in Writing => batch[f] = entities[f]
CommittedStored ==
  \A f \in Flush : pc[f] = "committed" => Range(batch[f]) \subseteq stored
Batches == NonEmpty /\ BatchSame /\ CommittedStored

Inv1 == TypeOK /\ Shape /\ Batches
-----------------------------------------------------------------------------
LEMMA AppendFacts ==
  ASSUME NEW S, NEW s \in Seq(S), NEW x \in S
  PROVE  /\ Append(s, x) \in Seq(S)
         /\ Len(Append(s, x)) = Len(s) + 1
         /\ \A i \in 1..Len(s) : Append(s, x)[i] = s[i]
         /\ Append(s, x)[Len(s) + 1] = x
         /\ Len(s) \in Nat
OBVIOUS

LEMMA TailFacts ==
  ASSUME NEW S, NEW s \in Seq(S), s # <<>>
  PROVE  /\ Tail(s) \in Seq(S)
         /\ Len(Tail(s)) = Len(s) - 1
         /\ \A i \in 1..Len(s) - 1 : Tail(s)[i] = s[i + 1]
         /\ Len(s) \in Nat /\ Len(s) >= 1
         /\ s[1] \in S
OBVIOUS

LEMMA ConcatFacts ==
  ASSUME NEW S, NEW s \in Seq(S), NEW t \in Seq(S)
  PROVE  /\ s \o t \in Seq(S)
         /\ Len(s \o t) = Len(s) + Len(t)
         /\ \A i \in 1..Len(s) : (s \o t)[i] = s[i]
         /\ \A i \in 1..Len(t) : (s \o t)[Len(s) + i] = t[i]
         /\ Len(s) \in Nat /\ Len(t) \in Nat
OBVIOUS

LEMMA LenFacts ==
  ASSUME NEW S, NEW s \in Seq(S)
  PROVE  /\ Len(s) \in Nat
         /\ DOMAIN s = 1..Len(s)
         /\ s = <<>> <=> Len(s) = 0
         /\ \A i \in 1..Len(s) : s[i] \in S
         /\ Range(s) \subseteq S
BY DEF Range

LEMMA RangeConcat ==
  ASSUME NEW S, NEW s \in Seq(S), NEW t \in Seq(S)
  PROVE  Range(s \o t) = Range(s) \cup Range(t)
<1>1. \A x \in Range(s) : x \in Range(s \o t)
  BY ConcatFacts, LenFacts DEF Range
<1>2. \A x \in Range(t) : x \in Range(s \o t)
  <2> SUFFICES ASSUME NEW i \in 1..Len(t) PROVE t[i] \in Range(s \o t)
    BY LenFacts DEF Range
  <2>1. Len(s) + i \in 1..Len(s \o t) /\ (s \o t)[Len(s) + i] = t[i]
    BY ConcatFacts
  <2> QED BY <2>1, LenFacts, ConcatFacts DEF Range
<1>3. \A x \in Range(s \o t) : x \in Range(s) \cup Range(t)
  <2> SUFFICES ASSUME NEW i \in 1..Len(s \o t)
               PROVE (s \o t)[i] \in Range(s) \cup Range(t)
    BY LenFacts, ConcatFacts DEF Range
  <2>1. CASE i <= Len(s) BY <2>1, ConcatFacts, LenFacts DEF Range
  <2>2. CASE i > Len(s)
    <3>1. i - Len(s) \in 1..Len(t) /\ i = Len(s) + (i - Len(s))
      BY <2>2, ConcatFacts
    <3> QED BY <3>1, ConcatFacts, LenFacts DEF Range
  <2> QED BY <2>1, <2>2, ConcatFacts
<1> QED BY <1>1, <1>2, <1>3

LEMMA RangeAppend ==
  ASSUME NEW S, NEW s \in Seq(S), NEW x \in S
  PROVE  Range(Append(s, x)) = Range(s) \cup {x}
<1>1. \A i \in 1..Len(s) : i \in 1..Len(Append(s, x)) /\ Append(s, x)[i] = s[i]
  BY AppendFacts
<1>2. \A i \in 1..Len(Append(s, x)) : i \in 1..Len(s) \/ i = Len(s) + 1
  BY AppendFacts
<1>3. Len(s) + 1 \in 1..Len(Append(s, x)) /\ Append(s, x)[Len(s) + 1] = x
  BY AppendFacts
<1> QED BY <1>1, <1>2, <1>3, LenFacts, AppendFacts DEF Range

LEMMA RangeEmpty == Range(<<>>) = {}
BY DEF Range
-----------------------------------------------------------------------------
(* Inv1 is inductive.                                                      *)
LEMMA InitInv1 == Init => Inv1
BY ConstantsAssumption, RangeEmpty
DEF Init, Inv1, TypeOK, Shape, Membership, Distinct, Waiting, EventEnded,
    Batches, NonEmpty, BatchSame, CommittedStored, PCs, Pending, Writing

LEMMA AddInv1 == ASSUME Inv1, Add PROVE Inv1'
<1> USE DEF Inv1, Add, Unsettle
<1>1. TypeOK'
  <2>1. added + 1 \in 0..MaxEntity /\ added + 1 \in 1..MaxEntity
    BY ConstantsAssumption DEF TypeOK
  <2>2. buffer' \in Seq(1..MaxEntity)
    BY <2>1, AppendFacts DEF TypeOK
  <2>3. settled' \in BOOLEAN /\ added' \in 0..MaxEntity
    BY <2>1, Zenon
  <2> QED BY <2>2, <2>3 DEF TypeOK
<1>2. Shape' BY DEF Shape, Membership, Distinct, Waiting, EventEnded
<1>3. Batches' BY DEF Batches, NonEmpty, BatchSame, CommittedStored
<1> QED BY <1>1, <1>2, <1>3

LEMMA LastFlushFacts ==
  ASSUME TypeOK
  PROVE  /\ flushes = <<>> => LastFlush = NoFlush
         /\ flushes # <<>> => LastFlush = flushes[Len(flushes)] /\ LastFlush \in Flush
         /\ LastFlush \in Flush \cup {NoFlush}
BY LenFacts DEF TypeOK, LastFlush

(* The flushes in the queue, and only they, wait or write.                 *)
LEMMA QueueFacts ==
  ASSUME Inv1
  PROVE  /\ Len(flushes) \in Nat
         /\ DOMAIN flushes = 1..Len(flushes)
         /\ \A i \in 1..Len(flushes) : flushes[i] \in Flush /\ pc[flushes[i]] \in Pending
         /\ \A i \in 2..Len(flushes) : i \in 1..Len(flushes) /\ i - 1 \in 1..Len(flushes)
<1>1. flushes \in Seq(Flush) BY DEF Inv1, TypeOK
<1>2. \A i \in 1..Len(flushes) : flushes[i] \in Flush BY <1>1, LenFacts
<1>3. Len(flushes) \in Nat /\ DOMAIN flushes = 1..Len(flushes) BY <1>1, LenFacts
<1> QED BY <1>2, <1>3 DEF Inv1, Shape, Membership

LEMMA HeadIndex ==
  ASSUME Inv1, flushes # <<>>
  PROVE  /\ 1 \in 1..Len(flushes) /\ Len(flushes) >= 1
         /\ flushes[1] \in Flush /\ pc[flushes[1]] \in Pending
         /\ \A i \in 2..Len(flushes) : flushes[i] \in Flush \ {flushes[1]}
<1>1. flushes \in Seq(Flush) BY DEF Inv1, TypeOK
<1>2. 1 \in 1..Len(flushes) /\ Len(flushes) >= 1 BY <1>1
<1>3. flushes[1] \in Flush /\ pc[flushes[1]] \in Pending BY <1>2, QueueFacts
<1>4. \A i \in 2..Len(flushes) : i \in 1..Len(flushes) /\ i # 1 BY <1>2, QueueFacts
<1>5. Distinct BY DEF Inv1, Shape
<1> QED BY <1>2, <1>3, <1>4, <1>5, QueueFacts DEF Distinct

LEMMA TailIndex ==
  ASSUME Inv1, flushes # <<>>
  PROVE  /\ Len(Tail(flushes)) = Len(flushes) - 1
         /\ \A i \in 1..Len(Tail(flushes)) :
              Tail(flushes)[i] = flushes[i + 1] /\ i + 1 \in 2..Len(flushes)
         /\ \A i \in 2..Len(flushes) :
              i - 1 \in 1..Len(Tail(flushes)) /\ flushes[i] = Tail(flushes)[i - 1]
<1>1. flushes \in Seq(Flush) BY DEF Inv1, TypeOK
<1>2. /\ Len(flushes) \in Nat
      /\ Len(Tail(flushes)) = Len(flushes) - 1
      /\ \A i \in 1..Len(flushes) - 1 : Tail(flushes)[i] = flushes[i + 1]
  BY <1>1, TailFacts
<1>3. \A i \in 1..Len(Tail(flushes)) :
        Tail(flushes)[i] = flushes[i + 1] /\ i + 1 \in 2..Len(flushes)
  BY <1>2
<1>4. ASSUME NEW i \in 2..Len(flushes)
      PROVE i - 1 \in 1..Len(Tail(flushes)) /\ flushes[i] = Tail(flushes)[i - 1]
  <2>1. i - 1 \in 1..Len(flushes) - 1 /\ (i - 1) + 1 = i BY <1>2
  <2> QED BY <1>2, <2>1
<1> QED BY <1>2, <1>3, <1>4

(* Only the head of the queue writes, and only the head can be released.   *)
LEMMA HeadFacts ==
  ASSUME Inv1, NEW f \in Flush,
         pc[f] \in Writing \/ (pc[f] = "wait" /\ previous[f] \in event)
  PROVE  flushes # <<>> /\ Len(flushes) >= 1 /\ f = flushes[1]
<1>1. PICK i \in 1..Len(flushes) : flushes[i] = f
  BY DEF Inv1, Shape, Membership, Pending, Writing
<1>2. CASE i = 1 BY <1>1, <1>2, QueueFacts, LenFacts DEF Inv1, TypeOK
<1>3. CASE i # 1
  <2>1. i \in 2..Len(flushes) /\ i - 1 \in 1..Len(flushes)
    BY <1>3, QueueFacts
  <2>2. pc[f] = "wait" /\ previous[f] = flushes[i - 1]
    BY <1>1, <2>1 DEF Inv1, Shape, Waiting
  <2>3. pc[flushes[i - 1]] \in Ended
    BY <2>2 DEF Inv1, Shape, EventEnded, Writing
  <2> QED BY <2>1, <2>3, QueueFacts DEF Ended, Pending
<1> QED BY <1>2, <1>3

(* A step of a call that is not in the queue.                              *)
LEMMA OutsideQueue ==
  ASSUME Inv1, NEW f \in Flush, TypeOK',
         flushes' = flushes, stored' = stored,
         pc[f] \notin Pending, pc'[f] \notin Pending,
         \A g \in Flush \ {f} : /\ pc'[g] = pc[g]
                                /\ previous'[g] = previous[g]
                                /\ entities'[g] = entities[g]
                                /\ batch'[g] = batch[g],
         event' \subseteq event, f \in event' => pc'[f] \in Ended
  PROVE  Inv1'
<1>1. \A i \in 1..Len(flushes) : flushes[i] \in Flush \ {f}
  BY QueueFacts
<1>2. Membership'
  BY <1>1 DEF Inv1, Shape, Membership
<1>3. Distinct' BY DEF Inv1, Shape, Distinct
<1>4. Waiting' BY <1>1, QueueFacts DEF Inv1, Shape, Waiting
<1>5. EventEnded' BY DEF Inv1, TypeOK, Shape, EventEnded
<1>6. NonEmpty' BY <1>1 DEF Inv1, Batches, NonEmpty
<1>7. BatchSame' BY DEF Inv1, Batches, BatchSame, Writing, Pending
<1>8. CommittedStored'
  BY DEF Inv1, Batches, CommittedStored, Pending
<1> QED BY <1>2, <1>3, <1>4, <1>5, <1>6, <1>7, <1>8 DEF Inv1, Shape, Batches

(* A step of the head of the queue that leaves it in the queue.            *)
LEMMA InsideQueue ==
  ASSUME Inv1, NEW f \in Flush, TypeOK',
         flushes # <<>>, f = flushes[1],
         flushes' = flushes, stored \subseteq stored', event' = event,
         entities' = entities, previous' = previous,
         pc'[f] \in Writing, batch'[f] = entities[f],
         pc'[f] = "committed" => Range(batch'[f]) \subseteq stored',
         \A g \in Flush \ {f} : pc'[g] = pc[g] /\ batch'[g] = batch[g]
  PROVE  Inv1'
<1>0. 1 \in 1..Len(flushes) /\ pc[f] \in Pending
  BY HeadIndex
<1>1. \A i \in 2..Len(flushes) : flushes[i] \in Flush \ {f}
  BY HeadIndex
<1>2. Membership' BY <1>0 DEF Inv1, Shape, Membership, Writing, Pending
<1>3. Distinct' BY DEF Inv1, Shape, Distinct
<1>4. Waiting' BY <1>1, QueueFacts DEF Inv1, Shape, Waiting
<1>5. EventEnded' BY <1>0 DEF Inv1, TypeOK, Shape, EventEnded, Ended, Pending
<1>6. NonEmpty' BY DEF Inv1, Batches, NonEmpty
<1>7. BatchSame' BY DEF Inv1, Batches, BatchSame
<1>8. CommittedStored' BY DEF Inv1, Batches, CommittedStored
<1> QED BY <1>2, <1>3, <1>4, <1>5, <1>6, <1>7, <1>8 DEF Inv1, Shape, Batches

(* The head of the queue leaves it.                                        *)
LEMMA LeaveQueue ==
  ASSUME Inv1, NEW f \in Flush, TypeOK',
         flushes # <<>>, f = flushes[1],
         flushes' = Tail(flushes), stored \subseteq stored',
         event' = event \cup {f}, previous' = previous, batch' = batch,
         pc'[f] \in Ended, \A g \in Flush \ {f} : pc'[g] = pc[g],
         \A g \in Flush : entities[g] # <<>> => entities'[g] # <<>>,
         \A g \in Flush : pc[g] # "wait" => entities'[g] = entities[g]
  PROVE  Inv1'
<1>0. /\ 1 \in 1..Len(flushes) /\ pc[f] \in Pending
      /\ Len(flushes') = Len(flushes) - 1
      /\ \A i \in 1..Len(flushes') : flushes'[i] = flushes[i + 1] /\ i + 1 \in 2..Len(flushes)
      /\ \A i \in 2..Len(flushes) : i - 1 \in 1..Len(flushes') /\ flushes[i] = flushes'[i - 1]
  BY HeadIndex, TailIndex
<1>1. \A i \in 2..Len(flushes) : flushes[i] \in Flush \ {f}
  BY HeadIndex
<1>2. Membership'
  <2> SUFFICES ASSUME NEW g \in Flush
               PROVE (pc[g] \in Pending <=> \E i \in 1..Len(flushes) : flushes[i] = g)'
    BY DEF Membership
  <2>1. CASE g = f
    BY <2>1, <1>0, <1>1 DEF Ended, Pending
  <2>2. CASE g # f
    <3>1. (\E i \in 1..Len(flushes) : flushes[i] = g) <=> \E i \in 2..Len(flushes) : flushes[i] = g
      BY <2>2, <1>0, QueueFacts
    <3>2. (\E i \in 2..Len(flushes) : flushes[i] = g) <=> \E i \in 1..Len(flushes') : flushes'[i] = g
      <4>1. ASSUME NEW i \in 2..Len(flushes), flushes[i] = g
            PROVE \E j \in 1..Len(flushes') : flushes'[j] = g
        BY <1>0, <4>1
      <4>2. ASSUME NEW i \in 1..Len(flushes'), flushes'[i] = g
            PROVE \E j \in 2..Len(flushes) : flushes[j] = g
        BY <1>0, <4>2
      <4> QED BY <4>1, <4>2
    <3> QED BY <2>2, <3>1, <3>2 DEF Inv1, Shape, Membership
  <2> QED BY <2>1, <2>2
<1>3. Distinct'
  <2> SUFFICES ASSUME NEW i \in 1..Len(flushes'), NEW j \in 1..Len(flushes'),
                      flushes'[i] = flushes'[j]
               PROVE i = j
    BY DEF Distinct
  <2>1. i + 1 \in 1..Len(flushes) /\ j + 1 \in 1..Len(flushes) /\ flushes[i + 1] = flushes[j + 1]
    BY <1>0, QueueFacts
  <2>2. i + 1 = j + 1 BY <2>1 DEF Inv1, Shape, Distinct
  <2> QED BY <2>2
<1>4. Waiting'
  <2> SUFFICES ASSUME NEW i \in 2..Len(flushes')
               PROVE pc'[flushes'[i]] = "wait" /\ previous'[flushes'[i]] = flushes'[i - 1]
    BY DEF Waiting
  <2>1. i \in 1..Len(flushes') /\ i - 1 \in 1..Len(flushes') /\ (i - 1) + 1 = i
    BY <1>0, QueueFacts
  <2>2. flushes'[i] = flushes[i + 1] /\ flushes'[i - 1] = flushes[i] /\ i + 1 \in 2..Len(flushes)
    BY <2>1, <1>0
  <2>3. pc[flushes[i + 1]] = "wait" /\ previous[flushes[i + 1]] = flushes[(i + 1) - 1] /\ (i + 1) - 1 = i
    BY <2>2 DEF Inv1, Shape, Waiting
  <2> QED BY <1>1, <2>2, <2>3
<1>5. EventEnded' BY <1>0 DEF Inv1, TypeOK, Shape, EventEnded, Ended, Pending
<1>6. NonEmpty'
  BY <1>0, <1>1, QueueFacts DEF Inv1, Batches, NonEmpty
<1>7. BatchSame' BY DEF Inv1, Batches, BatchSame, Writing, Ended
<1>8. CommittedStored' BY DEF Inv1, Batches, CommittedStored, Ended
<1> QED BY <1>2, <1>3, <1>4, <1>5, <1>6, <1>7, <1>8 DEF Inv1, Shape, Batches

LEMMA CallEmptyInv1 ==
  ASSUME Inv1, NEW f \in Flush, CallEmpty(f)
  PROVE  Inv1'
<1>1. TypeOK' BY LastFlushFacts DEF Inv1, CallEmpty, TypeOK, PCs
<1> QED BY <1>1, OutsideQueue DEF Inv1, CallEmpty, TypeOK, Pending, Shape, EventEnded, Ended

LEMMA JoinReturnInv1 ==
  ASSUME Inv1, NEW f \in Flush, JoinReturn(f)
  PROVE  Inv1'
<1>1. TypeOK' BY DEF Inv1, JoinReturn, TypeOK, PCs
<1> QED BY <1>1, OutsideQueue DEF Inv1, JoinReturn, TypeOK, Pending, Ended

LEMMA CollectInv1 ==
  ASSUME Inv1, NEW f \in Flush, Collect(f)
  PROVE  Inv1'
<1>1. TypeOK'
  <2>1. 0 \in 0..MaxEntity /\ <<>> \in Seq(1..MaxEntity) BY ConstantsAssumption
  <2> QED BY <2>1 DEF Inv1, Collect, TypeOK, PCs
<1> QED BY <1>1, OutsideQueue DEF Inv1, Collect, TypeOK, Pending, Ended

LEMMA ProceedInv1 ==
  ASSUME Inv1, NEW f \in Flush, Proceed(f)
  PROVE  Inv1'
<1>1. TypeOK' BY DEF Inv1, Proceed, TypeOK, PCs
<1>2. flushes # <<>> /\ f = flushes[1] BY HeadFacts DEF Proceed
<1> QED BY <1>1, <1>2, InsideQueue DEF Inv1, Proceed, TypeOK, Writing

LEMMA CommitInv1 ==
  ASSUME Inv1, NEW f \in Flush, Commit(f)
  PROVE  Inv1'
<1>1. TypeOK' BY LenFacts DEF Inv1, Commit, TypeOK, PCs
<1>2. flushes # <<>> /\ f = flushes[1] BY HeadFacts DEF Commit, Writing
<1>3. batch[f] = entities[f] BY DEF Inv1, Batches, BatchSame, Commit, Writing
<1> QED BY <1>1, <1>2, <1>3, InsideQueue DEF Inv1, Commit, TypeOK, Writing

LEMMA SucceedInv1 ==
  ASSUME Inv1, NEW f \in Flush, Succeed(f)
  PROVE  Inv1'
<1>2. flushes # <<>> /\ f = flushes[1] BY HeadFacts DEF Succeed, Writing
<1>1. TypeOK'
  <2>1. settled' \in BOOLEAN BY Zenon DEF Succeed, Finish, Settle
  <2>2. flushes' \in Seq(Flush) BY <1>2, TailFacts DEF Inv1, TypeOK, Succeed, Finish
  <2> QED BY <2>1, <2>2, LenFacts DEF Inv1, Succeed, Finish, TypeOK, PCs
<1> QED BY <1>1, <1>2, LeaveQueue DEF Inv1, Succeed, Finish, TypeOK, Ended

(* The flush that a failing one hands its entities on to is waiting.       *)
LEMMA FailRequeue ==
  ASSUME Inv1, NEW f \in Flush, Fail(f)
  PROVE  /\ flushes # <<>> /\ f = flushes[1]
         /\ entities \in [Flush -> Seq(1..MaxEntity)]
         /\ entities[f] # <<>>
         /\ Len(flushes) > 1 =>
              /\ flushes[2] \in Flush \ {f} /\ pc[flushes[2]] = "wait"
              /\ entities' = [entities EXCEPT ![flushes[2]] = entities[f] \o @]
              /\ buffer' = buffer
         /\ Len(flushes) <= 1 => buffer' = entities[f] \o buffer /\ entities' = entities
<1>1. flushes # <<>> /\ f = flushes[1] BY HeadFacts DEF Fail, Writing
<1>2. entities[f] # <<>> BY <1>1, HeadIndex DEF Inv1, Batches, NonEmpty
<1>3. Len(flushes) > 1 => 2 \in 2..Len(flushes) BY QueueFacts
<1>4. Len(flushes) > 1 => flushes[2] \in Flush \ {f} /\ pc[flushes[2]] = "wait"
  BY <1>1, <1>3, HeadIndex DEF Inv1, Shape, Waiting
<1>5. ~(Len(flushes) > 1) <=> Len(flushes) <= 1 BY QueueFacts
<1> QED BY <1>1, <1>2, <1>4, <1>5 DEF Fail, Requeue, Inv1, TypeOK

LEMMA FailInv1 ==
  ASSUME Inv1, NEW f \in Flush, Fail(f)
  PROVE  Inv1'
<1>1. flushes # <<>> /\ f = flushes[1] BY FailRequeue
<1>0. Len(flushes) > 1 \/ Len(flushes) <= 1 BY QueueFacts
<1>2. \A g \in Flush : entities[g] \in Seq(1..MaxEntity) BY DEF Inv1, TypeOK
<1>3. buffer' \in Seq(1..MaxEntity)
  <2>1. buffer \in Seq(1..MaxEntity) /\ entities[f] \in Seq(1..MaxEntity)
    BY <1>2 DEF Inv1, TypeOK
  <2>2. entities[f] \o buffer \in Seq(1..MaxEntity) BY <2>1, ConcatFacts
  <2> QED BY <1>0, <2>1, <2>2, FailRequeue
<1>4. Len(flushes) > 1 => entities[f] \o entities[flushes[2]] \in Seq(1..MaxEntity)
  BY <1>2, FailRequeue, ConcatFacts
<1>5. entities' \in [Flush -> Seq(1..MaxEntity)]
  BY <1>0, <1>2, <1>4, FailRequeue
<1>6. Len(flushes) > 1 => entities[f] \o entities[flushes[2]] # <<>>
  <2>1. SUFFICES ASSUME Len(flushes) > 1 PROVE entities[f] \o entities[flushes[2]] # <<>>
    OBVIOUS
  <2>2. entities[f] \in Seq(1..MaxEntity) /\ entities[flushes[2]] \in Seq(1..MaxEntity)
    BY <1>2, <2>1, FailRequeue
  <2>4. entities[f] # <<>> BY FailRequeue
  <2>3. Len(entities[f]) > 0 BY <2>2, <2>4
  <2> QED BY <2>2, <2>3, ConcatFacts
<1>7. \A g \in Flush : entities[g] # <<>> => entities'[g] # <<>>
  BY <1>0, <1>2, <1>6, FailRequeue
<1>8. \A g \in Flush : pc[g] # "wait" => entities'[g] = entities[g]
  BY <1>0, FailRequeue
<1>9. stored \subseteq stored' /\ stored' \subseteq 1..MaxEntity
  <2>1. PICK left \in Leftover(f) : stored' = stored \cup left BY DEF Fail
  <2>2. Range(batch[f]) \subseteq 1..MaxEntity BY LenFacts DEF Inv1, TypeOK
  <2>3. left \subseteq Range(batch[f]) BY DEF Leftover
  <2> QED BY <2>1, <2>2, <2>3 DEF Inv1, TypeOK
<1>10. TypeOK'
  <2>1. settled' \in BOOLEAN BY Zenon DEF Fail, Finish, Settle
  <2>2. flushes' \in Seq(Flush) BY <1>1, TailFacts DEF Inv1, TypeOK, Fail, Finish
  <2>3. event' \subseteq Flush BY DEF Inv1, TypeOK, Fail, Finish
  <2>4. pc' \in [Flush -> PCs] BY DEF Inv1, TypeOK, Fail, PCs
  <2> QED BY <2>1, <2>2, <2>3, <2>4, <1>3, <1>5, <1>9 DEF Inv1, Fail, TypeOK
<1> QED BY <1>1, <1>7, <1>8, <1>9, <1>10, LeaveQueue DEF Inv1, Fail, Finish, TypeOK, Ended

LEMMA CallRegisterInv1 ==
  ASSUME Inv1, NEW f \in Flush, CallRegister(f)
  PROVE  Inv1'
<1>0. /\ flushes \in Seq(Flush) /\ buffer \in Seq(1..MaxEntity)
      /\ Len(flushes) \in Nat /\ Len(flushes') = Len(flushes) + 1
      /\ flushes' \in Seq(Flush)
      /\ \A i \in 1..Len(flushes) : flushes'[i] = flushes[i]
      /\ flushes'[Len(flushes) + 1] = f
  BY AppendFacts DEF Inv1, TypeOK, CallRegister
<1>1. \A i \in 1..Len(flushes') : i \in 1..Len(flushes) \/ i = Len(flushes) + 1
  BY <1>0
<1>2. \A i \in 1..Len(flushes) : flushes[i] \in Flush \ {f} /\ i \in 1..Len(flushes') /\ i # Len(flushes) + 1
  <2>1. \A i \in 1..Len(flushes) : flushes[i] \in Flush \ {f}
    BY QueueFacts DEF CallRegister, Pending
  <2> QED BY <1>0, <2>1
<1>3. /\ pc'[f] \in {"wait", "write"}
      /\ pc'[f] = "write" => batch'[f] = buffer
      /\ \A g \in Flush \ {f} : pc'[g] = pc[g] /\ batch'[g] = batch[g]
      /\ pc' \in [Flush -> PCs]
      /\ batch' \in [Flush -> Seq(1..MaxEntity)]
  BY DEF CallRegister, Inv1, TypeOK, PCs
<1>4. /\ entities'[f] = buffer /\ entities' \in [Flush -> Seq(1..MaxEntity)]
      /\ \A g \in Flush \ {f} : entities'[g] = entities[g] /\ previous'[g] = previous[g]
      /\ previous'[f] = LastFlush /\ previous' \in [Flush -> Flush \cup {NoFlush}]
  BY LastFlushFacts DEF CallRegister, Inv1, TypeOK
<1>5. TypeOK'
  <2>1. before' \in [Flush -> 0..MaxEntity] /\ buffer' \in Seq(1..MaxEntity)
    BY DEF CallRegister, Inv1, TypeOK
  <2> QED BY <1>0, <1>3, <1>4, <2>1 DEF CallRegister, Inv1, TypeOK
<1>6. Membership'
  <2> SUFFICES ASSUME NEW g \in Flush
               PROVE (pc[g] \in Pending <=> \E i \in 1..Len(flushes) : flushes[i] = g)'
    BY DEF Membership
  <2>1. CASE g = f BY <2>1, <1>0, <1>3 DEF Pending
  <2>2. CASE g # f
    <3>1. (\E i \in 1..Len(flushes) : flushes[i] = g) <=> \E i \in 1..Len(flushes') : flushes'[i] = g
      BY <2>2, <1>0, <1>1, <1>2
    <3> QED BY <2>2, <3>1, <1>3 DEF Inv1, Shape, Membership
  <2> QED BY <2>1, <2>2
<1>7. Distinct' BY <1>0, <1>1, <1>2 DEF Inv1, Shape, Distinct
<1>8. Waiting'
  <2> SUFFICES ASSUME NEW i \in 2..Len(flushes')
               PROVE pc'[flushes'[i]] = "wait" /\ previous'[flushes'[i]] = flushes'[i - 1]
    BY DEF Waiting
  <2>1. CASE i = Len(flushes) + 1
    <3>1. Len(flushes) \in 1..Len(flushes) /\ i - 1 = Len(flushes) /\ flushes # <<>>
      BY <1>0, <2>1, LenFacts
    <3>2. LastFlush = flushes[Len(flushes)] /\ LastFlush # NoFlush
      BY <3>1, LastFlushFacts, ConstantsAssumption DEF Inv1
    <3>3. pc'[f] = "wait" BY <3>2 DEF CallRegister, Inv1, TypeOK
    <3> QED BY <1>0, <1>4, <2>1, <3>1, <3>2, <3>3
  <2>2. CASE i # Len(flushes) + 1
    <3>1. i \in 2..Len(flushes) /\ i \in 1..Len(flushes) /\ i - 1 \in 1..Len(flushes)
      BY <1>0, <2>2
    <3>2. flushes'[i] = flushes[i] /\ flushes'[i - 1] = flushes[i - 1] /\ flushes[i] \in Flush \ {f}
      BY <1>0, <1>2, <3>1
    <3>3. pc[flushes[i]] = "wait" /\ previous[flushes[i]] = flushes[i - 1]
      BY <3>1 DEF Inv1, Shape, Waiting
    <3> QED BY <1>3, <1>4, <3>2, <3>3
  <2> QED BY <2>1, <2>2
<1>9. EventEnded'
  <2>1. f \notin event BY DEF CallRegister, Inv1, Shape, EventEnded, Ended
  <2> QED BY <2>1, <1>3 DEF CallRegister, Inv1, TypeOK, Shape, EventEnded
<1>10. NonEmpty'
  BY <1>0, <1>1, <1>2, <1>4 DEF CallRegister, Inv1, Batches, NonEmpty
<1>11. BatchSame'
  BY <1>3, <1>4 DEF Inv1, Batches, BatchSame, Writing
<1>12. CommittedStored'
  BY <1>3 DEF CallRegister, Inv1, Batches, CommittedStored
<1> QED BY <1>5, <1>6, <1>7, <1>8, <1>9, <1>10, <1>11, <1>12 DEF Inv1, Shape, Batches

LEMMA StutterInv1 == ASSUME Inv1, UNCHANGED vars PROVE Inv1'
BY DEF vars, Inv1, TypeOK, Shape, Membership, Distinct, Waiting, EventEnded,
       Batches, NonEmpty, BatchSame, CommittedStored

LEMMA NextInv1 == Inv1 /\ [Next]_vars => Inv1'
<1> SUFFICES ASSUME Inv1, [Next]_vars PROVE Inv1' OBVIOUS
<1>1. CASE Add BY <1>1, AddInv1
<1>2. ASSUME NEW f \in Flush, Step(f) PROVE Inv1'
  BY <1>2, CallEmptyInv1, CallRegisterInv1, ProceedInv1, JoinReturnInv1, CommitInv1,
     SucceedInv1, FailInv1, CollectInv1 DEF Step, Call, LoopFlush
<1>3. CASE UNCHANGED vars BY <1>3, StutterInv1
<1> QED BY <1>1, <1>2, <1>3 DEF Next

(* Type correctness of the writer's state, for any number of flush() calls. *)
THEOREM TypeCorrect == Spec => []TypeOK
<1>1. Inv1 => TypeOK BY DEF Inv1
<1> QED BY <1>1, InitInv1, NextInv1, PTL DEF Spec
-----------------------------------------------------------------------------
(* Nothing is lost, and a flush is answerable for all that was added before it. *)
NoBatch == \A f \in Flush : pc[f] \in {"idle", "join"} => batch[f] = <<>>
Ahead ==
  \A i \in 1..Len(flushes) : \A e \in 1..before[flushes[i]] :
    e \in stored \/ \E j \in 1..i : e \in Range(entities[flushes[j]])
Inv2 == NoDataLost /\ NotifiedStored /\ SettledExact /\ FlushDurable /\ NoBatch /\ Ahead

LEMMA InitInv2 == Init => Inv2
BY DEF Init, Inv2, NoDataLost, NotifiedStored, SettledExact, FlushDurable, NoBatch, Ahead

(* The quantifier over DOMAIN flushes in Queued ranges over 1..Len(flushes). *)
LEMMA QueuedFacts ==
  ASSUME Inv1, NEW e
  PROVE  Queued(e) <=> \/ e \in Range(buffer)
                       \/ \E i \in 1..Len(flushes) : e \in Range(entities[flushes[i]])
BY QueueFacts DEF Queued, InFlush

(* A step that changes neither the queue nor what it holds, and whose call is not
   in the queue.                                                             *)
LEMMA OutsideInv2 ==
  ASSUME Inv1, Inv1', Inv2, NEW f \in Flush,
         UNCHANGED <<buffer, flushes, settled, stored, notified, added>>,
         pc[f] \notin Pending,
         \A g \in Flush \ {f} : /\ pc'[g] = pc[g]
                                /\ entities'[g] = entities[g]
                                /\ batch'[g] = batch[g]
                                /\ before'[g] = before[g],
         batch'[f] = <<>>
  PROVE  Inv2'
<1>1. \A i \in 1..Len(flushes) : flushes[i] \in Flush \ {f}
  BY QueueFacts
<1>2. NoDataLost'
  <2> SUFFICES ASSUME NEW e \in 1..added PROVE (e \in stored \/ Queued(e))'
    BY DEF NoDataLost
  <2>1. e \in stored \/ Queued(e) BY DEF Inv2, NoDataLost
  <2>2. Queued(e) => Queued(e)'
    BY <1>1, QueueFacts DEF Queued, InFlush
  <2> QED BY <2>1, <2>2
<1>3. NotifiedStored' BY DEF Inv2, NotifiedStored
<1>4. SettledExact' BY DEF Inv2, SettledExact
<1>5. FlushDurable'
  BY DEF Inv2, FlushDurable
<1>6. NoBatch' BY DEF Inv2, NoBatch
<1>7. Ahead'
  <2> SUFFICES ASSUME NEW i \in 1..Len(flushes), NEW e \in 1..before'[flushes[i]]
               PROVE e \in stored \/ \E j \in 1..i : e \in Range(entities'[flushes[j]])
    BY DEF Ahead
  <2>1. e \in stored \/ \E j \in 1..i : e \in Range(entities[flushes[j]])
    BY <1>1 DEF Inv2, Ahead
  <2>2. \A j \in 1..i : j \in 1..Len(flushes) BY QueueFacts
  <2> QED BY <2>1, <2>2, <1>1
<1> QED BY <1>2, <1>3, <1>4, <1>5, <1>6, <1>7 DEF Inv2

(* A step of the head of the queue that leaves it there.                     *)
LEMMA InsideInv2 ==
  ASSUME Inv1, Inv1', Inv2, NEW f \in Flush,
         UNCHANGED <<buffer, flushes, settled, notified, added, entities, before>>,
         stored \subseteq stored', pc'[f] \in Writing,
         \A g \in Flush \ {f} : pc'[g] = pc[g] /\ batch'[g] = batch[g]
  PROVE  Inv2'
<1>2. NoDataLost' BY DEF Inv2, NoDataLost, Queued, InFlush
<1>3. NotifiedStored' BY DEF Inv2, NotifiedStored
<1>4. SettledExact' BY DEF Inv2, SettledExact
<1>5. FlushDurable' BY DEF Inv2, FlushDurable, Writing
<1>6. NoBatch' BY DEF Inv2, NoBatch, Writing
<1>7. Ahead' BY DEF Inv2, Ahead
<1> QED BY <1>2, <1>3, <1>4, <1>5, <1>6, <1>7 DEF Inv2

LEMMA AddRange ==
  ASSUME Inv1, Add
  PROVE  /\ added \in Nat
         /\ Range(buffer') = Range(buffer) \cup {added + 1}
<1>0. buffer \in Seq(1..MaxEntity) /\ added \in Nat /\ added + 1 \in 1..MaxEntity
  BY ConstantsAssumption DEF Inv1, TypeOK, Add
<1>1. buffer' = Append(buffer, added + 1) BY DEF Add
<1>2. ASSUME NEW S, buffer \in Seq(S), NEW x \in S
      PROVE Range(Append(buffer, x)) = Range(buffer) \cup {x}
  BY <1>2, RangeAppend
<1> DEFINE y == added + 1
<1>3. y \in 1..MaxEntity BY <1>0
<1> HIDE DEF y
<1>4. Range(Append(buffer, y)) = Range(buffer) \cup {y} BY <1>0, <1>2, <1>3
<1> QED BY <1>0, <1>1, <1>4 DEF y

LEMMA AddInv2 == ASSUME Inv1, Inv1', Inv2, Add PROVE Inv2'
<1>0. added \in Nat BY AddRange
<1>1. Range(buffer') = Range(buffer) \cup {added + 1} BY AddRange
<1>2. NoDataLost'
  <2> SUFFICES ASSUME NEW e \in 1..(added + 1) PROVE (e \in stored \/ Queued(e))'
    BY DEF NoDataLost, Add
  <2>1. CASE e = added + 1 BY <2>1, <1>1 DEF Queued
  <2>2. CASE e # added + 1
    <3>1. e \in 1..added BY <1>0, <2>2
    <3>2. e \in stored \/ Queued(e) BY <3>1 DEF Inv2, NoDataLost
    <3> QED BY <3>2, <1>1 DEF Queued, InFlush, Add
  <2> QED BY <2>1, <2>2
<1>3. NotifiedStored' BY DEF Inv2, NotifiedStored, Add
<1>4. SettledExact'
  <2>1. buffer' # <<>> BY <1>1, RangeEmpty
  <2>2. settled' = FALSE BY DEF Add, Unsettle
  <2> QED BY <2>1, <2>2, Zenon DEF SettledExact
<1>5. FlushDurable' BY DEF Inv2, FlushDurable, Add
<1>6. NoBatch' BY DEF Inv2, NoBatch, Add
<1>7. Ahead' BY DEF Inv2, Ahead, Add
<1> QED BY <1>2, <1>3, <1>4, <1>5, <1>6, <1>7 DEF Inv2

LEMMA CallRegisterInv2 ==
  ASSUME Inv1, Inv1', Inv2, NEW f \in Flush, CallRegister(f)
  PROVE  Inv2'
<1>0. /\ flushes \in Seq(Flush)
      /\ Len(flushes) \in Nat /\ Len(flushes') = Len(flushes) + 1
      /\ \A i \in 1..Len(flushes) : flushes'[i] = flushes[i] /\ i \in 1..Len(flushes')
      /\ flushes'[Len(flushes) + 1] = f /\ Len(flushes) + 1 \in 1..Len(flushes')
  BY AppendFacts DEF Inv1, TypeOK, CallRegister
<1>1. \A i \in 1..Len(flushes) : flushes[i] \in Flush \ {f}
  BY QueueFacts DEF CallRegister, Pending
<1>2. entities'[f] = buffer /\ \A g \in Flush \ {f} : entities'[g] = entities[g] /\ before'[g] = before[g]
  BY DEF CallRegister, Inv1, TypeOK
<1>3. NoDataLost'
  <2> SUFFICES ASSUME NEW e \in 1..added PROVE (e \in stored \/ Queued(e))'
    BY DEF NoDataLost, CallRegister
  <2>1. e \in stored \/ Queued(e) BY DEF Inv2, NoDataLost
  <2>2. ASSUME e \in Range(buffer) PROVE Queued(e)'
    <3>1. e \in Range(entities'[flushes'[Len(flushes) + 1]]) BY <2>2, <1>0, <1>2
    <3>2. DOMAIN flushes' = 1..Len(flushes') BY LenFacts DEF Inv1, TypeOK
    <3> QED BY <3>1, <3>2, <1>0 DEF Queued, InFlush
  <2>3. ASSUME NEW i \in 1..Len(flushes), e \in Range(entities[flushes[i]]) PROVE Queued(e)'
    <3>1. e \in Range(entities'[flushes'[i]]) BY <2>3, <1>0, <1>1, <1>2
    <3>2. DOMAIN flushes' = 1..Len(flushes') BY LenFacts DEF Inv1, TypeOK
    <3> QED BY <3>1, <3>2, <1>0 DEF Queued, InFlush
  <2>4. stored' = stored BY DEF CallRegister
  <2> QED BY <2>1, <2>2, <2>3, <2>4, QueuedFacts
<1>4. NotifiedStored' BY DEF Inv2, NotifiedStored, CallRegister
<1>5. SettledExact'
  <2>1. flushes' # <<>> BY <1>0, LenFacts DEF Inv1, TypeOK
  <2>2. settled' = settled /\ buffer # <<>> BY DEF CallRegister
  <2>3. settled \in BOOLEAN BY DEF Inv1, TypeOK
  <2> QED BY <2>1, <2>2, <2>3, Zenon DEF SettledExact, Inv2
<1>6. /\ pc'[f] \in {"wait", "write"}
      /\ \A g \in Flush \ {f} : pc'[g] = pc[g] /\ batch'[g] = batch[g] /\ before'[g] = before[g]
      /\ before'[f] = added /\ stored' = stored
  BY DEF CallRegister, Inv1, TypeOK
<1>7. FlushDurable' BY <1>6 DEF Inv2, FlushDurable
<1>8. NoBatch' BY <1>6 DEF Inv2, NoBatch
<1>9. Ahead'
  <2> SUFFICES ASSUME NEW i \in 1..Len(flushes'), NEW e \in 1..before'[flushes'[i]], e \notin stored
               PROVE \E j \in 1..i : e \in Range(entities'[flushes'[j]])
    BY <1>6 DEF Ahead
  <2>1. CASE i = Len(flushes) + 1
    <3>1. e \in 1..added BY <2>1, <1>0, <1>6
    <3>2. Queued(e) BY <3>1 DEF Inv2, NoDataLost
    <3>3. CASE e \in Range(buffer)
      BY <3>3, <2>1, <1>0, <1>2
    <3>4. ASSUME NEW j \in 1..Len(flushes), e \in Range(entities[flushes[j]])
          PROVE \E k \in 1..i : e \in Range(entities'[flushes'[k]])
      <4>1. j \in 1..i BY <1>0, <2>1
      <4>2. e \in Range(entities'[flushes'[j]]) BY <3>4, <1>0, <1>1, <1>2
      <4> QED BY <4>1, <4>2
    <3> QED BY <3>2, <3>3, <3>4, QueuedFacts
  <2>2. CASE i # Len(flushes) + 1
    <3>1. i \in 1..Len(flushes) BY <1>0, <2>2
    <3>2. flushes'[i] = flushes[i] /\ before'[flushes'[i]] = before[flushes[i]]
      BY <3>1, <1>0, <1>1, <1>2
    <3>3. PICK j \in 1..i : e \in Range(entities[flushes[j]])
      BY <3>1, <3>2 DEF Inv2, Ahead
    <3>4. j \in 1..Len(flushes) BY <3>1, <1>0
    <3> QED BY <3>3, <3>4, <1>0, <1>1, <1>2
  <2> QED BY <2>1, <2>2
<1> QED BY <1>3, <1>4, <1>5, <1>7, <1>8, <1>9 DEF Inv2

(* The head of the queue leaves it; its entities are stored, in the buffer, or in the
   flush behind it.                                                          *)
LEMMA LeaveInv2 ==
  ASSUME Inv1, Inv1', Inv2, NEW f \in Flush,
         flushes # <<>>, f = flushes[1], flushes' = Tail(flushes),
         stored \subseteq stored', UNCHANGED <<added, before, batch>>,
         \A g \in Flush \ {f} : pc'[g] = pc[g],
         pc'[f] = "returned" => Range(entities[f]) \subseteq stored',
         pc'[f] \in Ended,
         settled' = (settled \/ (buffer' = <<>> /\ Tail(flushes) = <<>>)),
         Range(buffer) \subseteq Range(buffer'),
         \A g \in Flush : Range(entities[g]) \subseteq Range(entities'[g]),
         \A e \in Range(entities[f]) :
           \/ e \in stored'
           \/ Len(flushes) <= 1 /\ e \in Range(buffer')
           \/ Len(flushes) > 1 /\ e \in Range(entities'[flushes[2]]),
         notified' \subseteq stored'
  PROVE  Inv2'
<1>0. /\ 1 \in 1..Len(flushes) /\ pc[f] \in Pending
      /\ Len(flushes') = Len(flushes) - 1
      /\ \A i \in 1..Len(flushes') : flushes'[i] = flushes[i + 1] /\ i + 1 \in 2..Len(flushes)
      /\ \A i \in 2..Len(flushes) : i - 1 \in 1..Len(flushes') /\ flushes[i] = flushes'[i - 1]
  BY HeadIndex, TailIndex
<1>1. DOMAIN flushes' = 1..Len(flushes') BY LenFacts DEF Inv1, TypeOK
<1>2. Len(flushes) \in Nat BY QueueFacts
<1>3. Len(flushes) > 1 => 1 \in 1..Len(flushes') /\ flushes'[1] = flushes[2]
  <2>1. Len(flushes) > 1 => 2 \in 2..Len(flushes) /\ 2 - 1 = 1 BY <1>2
  <2> QED BY <2>1, <1>0
<1>4. NoDataLost'
  <2> SUFFICES ASSUME NEW e \in 1..added, e \notin stored' PROVE Queued(e)'
    BY DEF NoDataLost
  <2>1. Queued(e) BY DEF Inv2, NoDataLost
  <2>2. CASE e \in Range(buffer) BY <2>2 DEF Queued
  <2>3. CASE e \in Range(entities[f])
    BY <2>3, <1>1, <1>3 DEF Queued, InFlush
  <2>4. ASSUME NEW i \in 2..Len(flushes), e \in Range(entities[flushes[i]]) PROVE Queued(e)'
    <3>1. i - 1 \in 1..Len(flushes') /\ flushes'[i - 1] = flushes[i] /\ flushes[i] \in Flush
      BY <1>0, QueueFacts
    <3> QED BY <2>4, <3>1, <1>1 DEF Queued, InFlush
  <2>5. \A i \in 1..Len(flushes) : i = 1 \/ i \in 2..Len(flushes) BY <1>2
  <2> QED BY <2>1, <2>2, <2>3, <2>4, <2>5, QueuedFacts
<1>5. NotifiedStored' BY DEF NotifiedStored
<1>6. SettledExact'
  <2>1. ~settled BY Zenon DEF Inv2, SettledExact
  <2> QED BY <2>1, Zenon DEF SettledExact
<1>7. FlushDurable'
  <2> SUFFICES ASSUME NEW g \in Flush, pc'[g] = "returned", batch[g] # <<>>, NEW e \in 1..before[g]
               PROVE e \in stored'
    BY DEF FlushDurable
  <2>1. CASE g = f
    <3>1. e \in stored \/ \E j \in 1..1 : e \in Range(entities[flushes[j]])
      BY <2>1, <1>0 DEF Inv2, Ahead
    <3>2. \A j \in 1..1 : j = 1 OBVIOUS
    <3> QED BY <2>1, <3>1, <3>2
  <2>2. CASE g # f BY <2>2 DEF Inv2, FlushDurable
  <2> QED BY <2>1, <2>2
<1>8. NoBatch' BY DEF Inv2, NoBatch, Ended
<1>9. Ahead'
  <2> SUFFICES ASSUME NEW i \in 1..Len(flushes'), NEW e \in 1..before[flushes'[i]], e \notin stored'
               PROVE \E j \in 1..i : e \in Range(entities'[flushes'[j]])
    BY DEF Ahead
  <2>1. i + 1 \in 1..Len(flushes) /\ i + 1 \in 2..Len(flushes) /\ flushes'[i] = flushes[i + 1]
    BY <1>0, <1>2
  <2>2. PICK j \in 1..(i + 1) : e \in Range(entities[flushes[j]])
    BY <2>1 DEF Inv2, Ahead
  <2>3. CASE j = 1
    <3>1. Len(flushes) > 1 BY <2>1, <1>2
    <3>4. Len(flushes) > 1 => ~(Len(flushes) <= 1) BY <1>2
    <3>2. e \in Range(entities'[flushes'[1]])
      BY <2>2, <2>3, <3>1, <3>4, <1>3
    <3>3. 1 \in 1..i BY <2>1, <1>2
    <3> QED BY <3>2, <3>3
  <2>4. CASE j # 1
    <3>1. j \in 2..Len(flushes) /\ j - 1 \in 1..i BY <2>1, <2>4, <1>2
    <3>2. flushes'[j - 1] = flushes[j] /\ flushes[j] \in Flush BY <3>1, <1>0, QueueFacts
    <3>3. e \in Range(entities'[flushes'[j - 1]]) BY <3>2, <2>2
    <3> QED BY <3>1, <3>3
  <2> QED BY <2>3, <2>4
<1> QED BY <1>4, <1>5, <1>6, <1>7, <1>8, <1>9 DEF Inv2

LEMMA SucceedInv2 ==
  ASSUME Inv1, Inv1', Inv2, NEW f \in Flush, Succeed(f)
  PROVE  Inv2'
<1>1. flushes # <<>> /\ f = flushes[1] BY HeadFacts DEF Succeed, Writing
<1>2. Range(entities[f]) \subseteq stored
  BY DEF Succeed, Inv1, Batches, BatchSame, CommittedStored, Writing
<1>3. notified' \subseteq stored BY <1>2 DEF Inv2, NotifiedStored, Succeed
<1>4. settled' = (settled \/ (buffer' = <<>> /\ Tail(flushes) = <<>>))
  BY Zenon DEF Succeed, Finish, Settle
<1>5. pc'[f] = "returned" /\ \A g \in Flush \ {f} : pc'[g] = pc[g]
  BY DEF Succeed, Inv1, TypeOK
<1>6. UNCHANGED <<buffer, entities, stored, added, before, batch>> /\ flushes' = Tail(flushes)
  BY DEF Succeed, Finish
<1> QED BY <1>1, <1>2, <1>3, <1>4, <1>5, <1>6, LeaveInv2 DEF Ended

LEMMA FailInv2 ==
  ASSUME Inv1, Inv1', Inv2, NEW f \in Flush, Fail(f)
  PROVE  Inv2'
<1>1. flushes # <<>> /\ f = flushes[1] BY FailRequeue
<1>2. \A g \in Flush : entities[g] \in Seq(1..MaxEntity) BY DEF Inv1, TypeOK
<1>3. buffer \in Seq(1..MaxEntity) /\ Len(flushes) \in Nat BY QueueFacts DEF Inv1, TypeOK
<1>4. Range(entities[f] \o buffer) = Range(entities[f]) \cup Range(buffer)
  BY <1>2, <1>3, RangeConcat
<1>5. Len(flushes) > 1 => Range(entities[f] \o entities[flushes[2]]) =
                            Range(entities[f]) \cup Range(entities[flushes[2]])
  <2>1. SUFFICES ASSUME Len(flushes) > 1
                 PROVE Range(entities[f] \o entities[flushes[2]]) =
                         Range(entities[f]) \cup Range(entities[flushes[2]])
    OBVIOUS
  <2>2. entities[f] \in Seq(1..MaxEntity) /\ entities[flushes[2]] \in Seq(1..MaxEntity)
    BY <1>2, <2>1, FailRequeue
  <2> QED BY <2>2, RangeConcat, Zenon
<1>6. stored \subseteq stored' BY DEF Fail
<1>7. settled' = (settled \/ (buffer' = <<>> /\ Tail(flushes) = <<>>))
  BY Zenon DEF Fail, Finish, Settle
<1>8. pc'[f] = "raised" /\ \A g \in Flush \ {f} : pc'[g] = pc[g]
  BY DEF Fail, Inv1, TypeOK
<1>9. UNCHANGED <<added, before, batch, notified>> /\ flushes' = Tail(flushes)
  BY DEF Fail, Finish
<1>10. notified' \subseteq stored' BY <1>6, <1>9 DEF Inv2, NotifiedStored
<1>11. CASE Len(flushes) > 1
  <2>1. /\ buffer' = buffer
        /\ entities'[flushes[2]] = entities[f] \o entities[flushes[2]]
        /\ \A g \in Flush \ {flushes[2]} : entities'[g] = entities[g]
    BY <1>11, FailRequeue
  <2>2. /\ \A g \in Flush : Range(entities[g]) \subseteq Range(entities'[g])
        /\ \A e \in Range(entities[f]) : e \in Range(entities'[flushes[2]])
    BY <1>11, <1>5, <2>1
  <2> QED BY <1>1, <1>6, <1>7, <1>8, <1>9, <1>10, <1>11, <2>1, <2>2, LeaveInv2 DEF Ended
<1>12. CASE Len(flushes) <= 1
  <2>1. buffer' = entities[f] \o buffer /\ entities' = entities
    BY <1>12, FailRequeue
  <2> QED BY <1>1, <1>4, <1>6, <1>7, <1>8, <1>9, <1>10, <1>12, <2>1, LeaveInv2 DEF Ended
<1> QED BY <1>3, <1>11, <1>12

LEMMA NextInv2 == Inv1 /\ Inv1' /\ Inv2 /\ [Next]_vars => Inv2'
<1> SUFFICES ASSUME Inv1, Inv1', Inv2, [Next]_vars PROVE Inv2' OBVIOUS
<1>1. CASE Add BY <1>1, AddInv2
<1>2. ASSUME NEW f \in Flush, Step(f) PROVE Inv2'
  <2>1. CASE CallEmpty(f)
    <3>1. batch'[f] = <<>> BY <2>1 DEF CallEmpty, Inv2, NoBatch
    <3> QED BY <2>1, <3>1, OutsideInv2 DEF CallEmpty, Inv1, TypeOK, Pending
  <2>2. CASE CallRegister(f) BY <2>2, CallRegisterInv2
  <2>3. CASE Proceed(f) BY <2>3, InsideInv2 DEF Proceed, Inv1, TypeOK, Writing
  <2>4. CASE JoinReturn(f)
    <3>1. batch'[f] = <<>> BY <2>4 DEF JoinReturn, Inv2, NoBatch
    <3> QED BY <2>4, <3>1, OutsideInv2 DEF JoinReturn, Inv1, TypeOK, Pending
  <2>5. CASE Commit(f) BY <2>5, InsideInv2 DEF Commit, Inv1, TypeOK, Writing
  <2>6. CASE Succeed(f) BY <2>6, SucceedInv2
  <2>7. CASE Fail(f) BY <2>7, FailInv2
  <2>8. CASE Collect(f) BY <2>8, OutsideInv2 DEF Collect, Inv1, TypeOK, Pending, Ended
  <2> QED BY <1>2, <2>1, <2>2, <2>3, <2>4, <2>5, <2>6, <2>7, <2>8 DEF Step, Call, LoopFlush
<1>3. CASE UNCHANGED vars
  BY <1>3 DEF vars, Inv2, NoDataLost, Queued, InFlush, NotifiedStored, SettledExact,
              FlushDurable, NoBatch, Ahead
<1> QED BY <1>1, <1>2, <1>3 DEF Next

LEMMA Inductive == Spec => [](Inv1 /\ Inv2)
<1>1. Inv1 /\ Inv2 /\ [Next]_vars => Inv1' /\ Inv2' BY NextInv1, NextInv2
<1> QED BY <1>1, InitInv1, InitInv2, PTL DEF Spec

(* However flushes overlap and fail, no entity added to the writer is lost. *)
THEOREM NothingLost == Spec => []NoDataLost
<1>1. Inv2 => NoDataLost BY DEF Inv2
<1> QED BY <1>1, Inductive, PTL

(* Subscribers only hear of records the database holds.                    *)
THEOREM NotificationsTrue == Spec => []NotifiedStored
<1>1. Inv2 => NotifiedStored BY DEF Inv2
<1> QED BY <1>1, Inductive, PTL

(* The settled event is set exactly when nothing is buffered or being flushed. *)
THEOREM SettledCorrect == Spec => []SettledExact
<1>1. Inv2 => SettledExact BY DEF Inv2
<1> QED BY <1>1, Inductive, PTL

(* A flush() with entities of its own that returns has made everything added before
   it durable.                                                              *)
THEOREM FlushesDurable == Spec => []FlushDurable
<1>1. Inv2 => FlushDurable BY DEF Inv2
<1> QED BY <1>1, Inductive, PTL
-----------------------------------------------------------------------------
(* The queue is ordered: what an earlier flush holds is older than what a later one or
   the buffer holds.                                                         *)
Held(i) == Range(entities[flushes[i]])
Accepted ==
  /\ \A e \in Range(buffer) : e <= added
  /\ \A i \in 1..Len(flushes) : \A e \in Held(i) : e <= added
OlderFirst ==
  \A i, j \in 1..Len(flushes) : i < j => \A e \in Held(i), d \in Held(j) : e < d
FlushesFirst ==
  \A i \in 1..Len(flushes) : \A e \in Held(i), d \in Range(buffer) : e < d
Inv3 == Accepted /\ OlderFirst /\ FlushesFirst

LEMMA InitInv3 == Init => Inv3
BY RangeEmpty DEF Init, Inv3, Accepted, OlderFirst, FlushesFirst, Held

(* A step that leaves the queue and what its flushes hold alone.             *)
LEMMA SameInv3 ==
  ASSUME Inv3, UNCHANGED <<buffer, flushes, added>>,
         \A i \in 1..Len(flushes) : entities'[flushes[i]] = entities[flushes[i]]
  PROVE  Inv3'
BY DEF Inv3, Accepted, OlderFirst, FlushesFirst, Held

LEMMA HeldNat ==
  ASSUME Inv1
  PROVE  Range(buffer) \subseteq Nat /\ \A i \in 1..Len(flushes) : Held(i) \subseteq Nat
<1>1. 1..MaxEntity \subseteq Nat BY ConstantsAssumption
<1>2. Range(buffer) \subseteq 1..MaxEntity BY LenFacts DEF Inv1, TypeOK
<1>3. ASSUME NEW i \in 1..Len(flushes) PROVE Held(i) \subseteq 1..MaxEntity
  <2>1. entities[flushes[i]] \in Seq(1..MaxEntity) BY QueueFacts DEF Inv1, TypeOK
  <2> QED BY <2>1, LenFacts DEF Held
<1> QED BY <1>1, <1>2, <1>3

LEMMA AddInv3 == ASSUME Inv1, Inv3, Add PROVE Inv3'
<1>0. added \in Nat BY AddRange
<1>1. Range(buffer') = Range(buffer) \cup {added + 1} BY AddRange
<1>2. \A i \in 1..Len(flushes) : Held(i) \subseteq Nat BY HeldNat
<1>3. Range(buffer) \subseteq Nat BY HeldNat
<1>4. \A i \in 1..Len(flushes) : Held(i)' = Held(i) /\ flushes' = flushes /\ added' = added + 1
  BY DEF Held, Add
<1> HIDE DEF Held
<1>5. Accepted' BY <1>0, <1>1, <1>2, <1>3, <1>4 DEF Inv3, Accepted, Add
<1>6. OlderFirst' BY <1>4 DEF Inv3, OlderFirst, Add
<1>7. FlushesFirst'
  <2> SUFFICES ASSUME NEW i \in 1..Len(flushes), NEW e \in Held(i), NEW d \in Range(buffer')
               PROVE e < d
    BY <1>4 DEF FlushesFirst, Add
  <2>1. e \in Nat /\ e <= added BY <1>2 DEF Inv3, Accepted
  <2> QED BY <2>1, <1>0, <1>1 DEF Inv3, FlushesFirst
<1> QED BY <1>5, <1>6, <1>7 DEF Inv3

LEMMA CallRegisterInv3 ==
  ASSUME Inv1, Inv3, NEW f \in Flush, CallRegister(f)
  PROVE  Inv3'
<1>0. /\ Len(flushes) \in Nat /\ Len(flushes') = Len(flushes) + 1
      /\ \A i \in 1..Len(flushes) : flushes'[i] = flushes[i]
      /\ flushes'[Len(flushes) + 1] = f
  BY AppendFacts DEF Inv1, TypeOK, CallRegister
<1>1. \A i \in 1..Len(flushes') : i \in 1..Len(flushes) \/ i = Len(flushes) + 1
  BY <1>0
<1>2. \A i \in 1..Len(flushes) : flushes[i] \in Flush \ {f}
  BY QueueFacts DEF CallRegister, Pending
<1>3. \A i \in 1..Len(flushes) : Held(i)' = Held(i)
  BY <1>0, <1>2 DEF Held, CallRegister, Inv1, TypeOK
<1>4. Range(entities'[flushes'[Len(flushes) + 1]]) = Range(buffer)
  BY <1>0 DEF CallRegister, Inv1, TypeOK
<1>5. Range(buffer') = {} /\ added' = added BY RangeEmpty DEF CallRegister
<1>6. Accepted' BY <1>1, <1>3, <1>4, <1>5 DEF Inv3, Accepted, Held
<1>7. OlderFirst'
  <2> SUFFICES ASSUME NEW i \in 1..Len(flushes'), NEW j \in 1..Len(flushes'), i < j,
                      NEW e \in Held(i)', NEW d \in Held(j)'
               PROVE e < d
    BY DEF OlderFirst
  <2>1. i \in 1..Len(flushes) BY <1>0
  <2>2. e \in Held(i) BY <2>1, <1>3
  <2>3. CASE j \in 1..Len(flushes) BY <2>1, <2>2, <2>3, <1>3 DEF Inv3, OlderFirst
  <2>4. CASE j = Len(flushes) + 1
    BY <2>1, <2>2, <2>4, <1>4 DEF Inv3, FlushesFirst, Held
  <2> QED BY <1>1, <2>3, <2>4
<1>8. FlushesFirst' BY <1>5 DEF FlushesFirst
<1> QED BY <1>6, <1>7, <1>8 DEF Inv3

(* The head leaves; the flush behind it, or the buffer, may take over what it held. *)
LEMMA LeaveInv3 ==
  ASSUME Inv1, Inv3, flushes # <<>>, flushes' = Tail(flushes), added' = added,
         \A i \in 2..Len(flushes) :
           Range(entities'[flushes[i]]) \subseteq
             Held(i) \cup (IF i = 2 THEN Held(1) ELSE {}),
         Range(buffer') \subseteq
           Range(buffer) \cup (IF Len(flushes) <= 1 THEN Held(1) ELSE {})
  PROVE  Inv3'
<1>0. /\ 1 \in 1..Len(flushes) /\ Len(flushes) \in Nat
      /\ Len(flushes') = Len(flushes) - 1
      /\ \A i \in 1..Len(flushes') :
           flushes'[i] = flushes[i + 1] /\ i + 1 \in 2..Len(flushes) /\ i + 1 \in 1..Len(flushes)
  BY HeadIndex, TailIndex, QueueFacts
<1>1. \A i \in 1..Len(flushes') : Held(i)' \subseteq Held(i + 1) \cup (IF i + 1 = 2 THEN Held(1) ELSE {})
  BY <1>0 DEF Held
<1>2. Accepted' BY <1>0, <1>1 DEF Inv3, Accepted
<1>3. OlderFirst'
  <2> SUFFICES ASSUME NEW i \in 1..Len(flushes'), NEW j \in 1..Len(flushes'), i < j,
                      NEW e \in Held(i)', NEW d \in Held(j)'
               PROVE e < d
    BY DEF OlderFirst
  <2>1. j + 1 # 2 /\ i + 1 < j + 1 /\ 1 < j + 1 BY <1>0
  <2>2. d \in Held(j + 1) /\ e \in Held(i + 1) \cup Held(1) BY <1>1, <2>1
  <2> QED BY <1>0, <2>1, <2>2 DEF Inv3, OlderFirst
<1>4. FlushesFirst'
  <2> SUFFICES ASSUME NEW i \in 1..Len(flushes'), NEW e \in Held(i)', NEW d \in Range(buffer')
               PROVE e < d
    BY DEF FlushesFirst
  <2>1. ~(Len(flushes) <= 1) BY <1>0
  <2>2. d \in Range(buffer) /\ e \in Held(i + 1) \cup Held(1) BY <1>1, <2>1
  <2> QED BY <1>0, <2>2 DEF Inv3, FlushesFirst
<1> QED BY <1>2, <1>3, <1>4 DEF Inv3

LEMMA FailInv3 ==
  ASSUME Inv1, Inv3, NEW f \in Flush, Fail(f)
  PROVE  Inv3'
<1>1. flushes # <<>> /\ f = flushes[1] /\ flushes' = Tail(flushes) /\ added' = added
  BY FailRequeue DEF Fail, Finish
<1>2. \A g \in Flush : entities[g] \in Seq(1..MaxEntity) BY DEF Inv1, TypeOK
<1>3. buffer \in Seq(1..MaxEntity) /\ Len(flushes) \in Nat BY QueueFacts DEF Inv1, TypeOK
<1>4. CASE Len(flushes) > 1
  <2>1. /\ buffer' = buffer /\ flushes[2] \in Flush
        /\ entities'[flushes[2]] = entities[f] \o entities[flushes[2]]
        /\ \A g \in Flush \ {flushes[2]} : entities'[g] = entities[g]
    BY <1>4, FailRequeue
  <2>2. entities[flushes[2]] \in Seq(1..MaxEntity) /\ entities[f] \in Seq(1..MaxEntity)
    BY <1>2, <2>1
  <2>3. Range(entities[f] \o entities[flushes[2]]) = Held(1) \cup Held(2)
    BY <1>1, <2>2, RangeConcat, Zenon DEF Held
  <2>4. \A i \in 2..Len(flushes) : flushes[i] \in Flush /\ (i # 2 => flushes[i] # flushes[2])
    BY <1>4, <1>3, QueueFacts DEF Inv1, Shape, Distinct
  <2>5. \A i \in 2..Len(flushes) :
          Range(entities'[flushes[i]]) \subseteq Held(i) \cup (IF i = 2 THEN Held(1) ELSE {})
    BY <2>1, <2>3, <2>4 DEF Held
  <2> QED BY <1>1, <2>1, <2>5, LeaveInv3
<1>5. CASE Len(flushes) <= 1
  <2>1. buffer' = entities[f] \o buffer /\ entities' = entities
    BY <1>5, FailRequeue
  <2>2. entities[f] \in Seq(1..MaxEntity) BY <1>2
  <2>3. Range(buffer') = Held(1) \cup Range(buffer)
    BY <1>1, <1>3, <2>1, <2>2, RangeConcat, Zenon DEF Held
  <2> QED BY <1>1, <1>5, <2>1, <2>3, LeaveInv3 DEF Held
<1> QED BY <1>3, <1>4, <1>5

LEMMA NextInv3 == Inv1 /\ Inv3 /\ [Next]_vars => Inv3'
<1> SUFFICES ASSUME Inv1, Inv3, [Next]_vars PROVE Inv3' OBVIOUS
<1>1. CASE Add BY <1>1, AddInv3
<1>2. ASSUME NEW f \in Flush, Step(f) PROVE Inv3'
  <2>1. CASE CallEmpty(f) BY <2>1, SameInv3 DEF CallEmpty
  <2>2. CASE CallRegister(f) BY <2>2, CallRegisterInv3
  <2>3. CASE Proceed(f) BY <2>3, SameInv3 DEF Proceed
  <2>4. CASE JoinReturn(f) BY <2>4, SameInv3 DEF JoinReturn
  <2>5. CASE Commit(f) BY <2>5, SameInv3 DEF Commit
  <2>6. CASE Succeed(f)
    <3>1. flushes # <<>> BY <2>6, HeadFacts DEF Succeed, Writing
    <3> QED BY <2>6, <3>1, LeaveInv3 DEF Succeed, Finish, Held
  <2>7. CASE Fail(f) BY <2>7, FailInv3
  <2>8. CASE Collect(f)
    <3>1. \A i \in 1..Len(flushes) : flushes[i] \in Flush \ {f}
      BY <2>8, QueueFacts DEF Collect, Pending, Ended
    <3> QED BY <2>8, <3>1, SameInv3 DEF Collect, Inv1, TypeOK
  <2> QED BY <1>2, <2>1, <2>2, <2>3, <2>4, <2>5, <2>6, <2>7, <2>8 DEF Step, Call, LoopFlush
<1>3. CASE UNCHANGED vars BY <1>3, SameInv3 DEF vars
<1> QED BY <1>1, <1>2, <1>3 DEF Next

(* One flush writes at a time, and the oldest entities first.               *)
THEOREM OrderedWrites == Spec => []WritesInOrder
<1>1. Inv1 /\ Inv3 => WritesInOrder
  <2> SUFFICES ASSUME Inv1, Inv3, NEW f \in Flush, pc[f] \in Writing
               PROVE /\ \A g \in Flush : pc[g] \in Writing => g = f
                     /\ \A e \in Range(batch[f]), d \in 1..added :
                          d < e /\ Queued(d) => d \in Range(batch[f])
    BY DEF WritesInOrder, Writing
  <2>1. \A g \in Flush : pc[g] \in Writing => g = flushes[1] /\ flushes # <<>> BY HeadFacts
  <2>2. Range(batch[f]) = Held(1) BY <2>1 DEF Held, Inv1, Batches, BatchSame
  <2>3. ASSUME NEW e \in Held(1), NEW d \in 1..added, d < e, Queued(d) PROVE d \in Held(1)
    <3>0. 1 \in 1..Len(flushes) /\ Len(flushes) \in Nat BY <2>1, HeadIndex, QueueFacts
    <3>4. e \in Nat BY <3>0, HeldNat
    <3>1. d \notin Range(buffer) BY <3>0, <2>3, <3>4 DEF Inv3, FlushesFirst
    <3>2. PICK i \in 1..Len(flushes) : d \in Held(i) BY <2>3, <3>1, QueuedFacts DEF Held
    <3>3. CASE i # 1
      <4>1. 1 < i BY <3>3, <3>0
      <4>2. e < d BY <4>1, <3>0, <3>2, <2>3 DEF Inv3, OlderFirst
      <4> QED BY <4>2, <2>3, <3>4
    <3> QED BY <3>2, <3>3
  <2> QED BY <2>1, <2>2, <2>3
<1>2. Inv1 /\ Inv3 /\ [Next]_vars => Inv1' /\ Inv3' BY NextInv1, NextInv3
<1> QED BY <1>1, <1>2, InitInv1, InitInv3, PTL DEF Spec
-----------------------------------------------------------------------------
(* What is queued is one run of consecutive entities that ends with the last one added:
   Oldest(i) is the first entity of the i-th flush, or of what no flush holds yet.     *)
Consecutive(s) == \A k \in 1..Len(s) : s[k] = s[1] + k - 1
Front == IF buffer = <<>> THEN added + 1 ELSE buffer[1]
Size(i) == Len(entities[flushes[i]])
Oldest(i) == IF i = Len(flushes) + 1 THEN Front ELSE entities[flushes[i]][1]
Runs ==
  /\ Consecutive(buffer)
  /\ \A i \in 1..Len(flushes) : Consecutive(entities[flushes[i]])
Linked == \A i \in 1..Len(flushes) : Oldest(i + 1) = Oldest(i) + Size(i)
UpToAdded == Front + Len(buffer) = added + 1
Inv4 == Runs /\ Linked /\ UpToAdded

LEMMA NumberFacts ==
  ASSUME Inv1
  PROVE  /\ Len(flushes) \in Nat /\ added \in Nat /\ Len(buffer) \in Nat /\ Front \in Nat
         /\ \A i \in 1..Len(flushes) :
              /\ flushes[i] \in Flush /\ entities[flushes[i]] \in Seq(1..MaxEntity)
              /\ Size(i) \in Nat /\ Size(i) > 0
              /\ Oldest(i) = entities[flushes[i]][1] /\ Oldest(i) \in Nat
         /\ Oldest(Len(flushes) + 1) = Front
<1>1. MaxEntity \in Nat BY ConstantsAssumption
<1>2. buffer \in Seq(1..MaxEntity) /\ added \in 0..MaxEntity BY DEF Inv1, TypeOK
<1>3. buffer # <<>> => buffer[1] \in 1..MaxEntity BY <1>2, TailFacts
<1>4. ASSUME NEW i \in 1..Len(flushes)
      PROVE  /\ flushes[i] \in Flush /\ entities[flushes[i]] \in Seq(1..MaxEntity)
             /\ Size(i) \in Nat /\ Size(i) > 0
             /\ Oldest(i) = entities[flushes[i]][1] /\ Oldest(i) \in Nat
  <2>1. flushes[i] \in Flush /\ i # Len(flushes) + 1 BY QueueFacts
  <2>2. entities[flushes[i]] \in Seq(1..MaxEntity) BY <2>1 DEF Inv1, TypeOK
  <2>3. entities[flushes[i]] # <<>> BY DEF Inv1, Batches, NonEmpty
  <2>4. /\ Len(entities[flushes[i]]) \in Nat /\ Len(entities[flushes[i]]) >= 1
        /\ entities[flushes[i]][1] \in 1..MaxEntity
    BY <2>2, <2>3, TailFacts
  <2> QED BY <1>1, <2>1, <2>2, <2>4 DEF Size, Oldest
<1> QED BY <1>1, <1>2, <1>3, <1>4, QueueFacts, LenFacts DEF Front, Oldest

LEMMA RetiredFacts ==
  ASSUME Inv1
  PROVE  Retired = Oldest(1) - 1
<1>1. CASE flushes = <<>>
  <2>1. Len(flushes) = 0 BY <1>1
  <2> QED BY <1>1, <2>1, NumberFacts DEF Retired, Oldest, Front
<1>2. CASE flushes # <<>> BY <1>2, HeadIndex, NumberFacts DEF Retired
<1> QED BY <1>1, <1>2

(* Two runs that meet make one.                                              *)
LEMMA RunConcat ==
  ASSUME NEW s \in Seq(1..MaxEntity), NEW t \in Seq(1..MaxEntity),
         Consecutive(s), Consecutive(t), s # <<>>, t # <<>> => t[1] = s[1] + Len(s)
  PROVE  Consecutive(s \o t) /\ (s \o t)[1] = s[1] /\ Len(s \o t) = Len(s) + Len(t)
<1>1. /\ Len(s \o t) = Len(s) + Len(t) /\ Len(s) \in Nat /\ Len(t) \in Nat
      /\ \A i \in 1..Len(s) : (s \o t)[i] = s[i]
      /\ \A i \in 1..Len(t) : (s \o t)[Len(s) + i] = t[i]
  BY ConcatFacts
<1>2. Len(s) >= 1 /\ s[1] \in Nat BY TailFacts, ConstantsAssumption
<1>3. (s \o t)[1] = s[1] BY <1>1, <1>2
<1>4. ASSUME NEW k \in 1..Len(s \o t) PROVE (s \o t)[k] = (s \o t)[1] + k - 1
  <2>1. CASE k \in 1..Len(s) BY <1>1, <1>3, <2>1 DEF Consecutive
  <2>2. CASE k \notin 1..Len(s)
    <3>1. k - Len(s) \in 1..Len(t) /\ Len(s) + (k - Len(s)) = k BY <1>1, <2>2
    <3>2. t # <<>> BY <1>1, <3>1
    <3>3. (s \o t)[k] = t[k - Len(s)] BY <1>1, <3>1
    <3>4. t[k - Len(s)] = t[1] + (k - Len(s)) - 1 BY <3>1 DEF Consecutive
    <3>5. t[1] = s[1] + Len(s) BY <3>2
    <3>6. k \in Nat BY <1>1
    <3>7. s[1] + Len(s) + (k - Len(s)) - 1 = s[1] + k - 1 BY <1>1, <1>2, <3>6
    <3> QED BY <1>3, <3>3, <3>4, <3>5, <3>7
  <2> QED BY <2>1, <2>2
<1> QED BY <1>1, <1>3, <1>4 DEF Consecutive

(* A run is the interval from its first member on.                           *)
LEMMA RunRange ==
  ASSUME NEW s \in Seq(1..MaxEntity), Consecutive(s), s # <<>>
  PROVE  Range(s) = s[1]..(s[1] + Len(s) - 1)
<1>1. /\ DOMAIN s = 1..Len(s) /\ Len(s) \in Nat /\ Len(s) >= 1 /\ s[1] \in Nat
  BY TailFacts, LenFacts, ConstantsAssumption
<1>2. ASSUME NEW e \in Range(s) PROVE e \in s[1]..(s[1] + Len(s) - 1)
  <2>1. PICK k \in 1..Len(s) : e = s[k] BY <1>1 DEF Range
  <2> QED BY <1>1, <2>1 DEF Consecutive
<1>3. ASSUME NEW e \in s[1]..(s[1] + Len(s) - 1) PROVE e \in Range(s)
  <2>1. e - s[1] + 1 \in 1..Len(s) BY <1>1
  <2>2. s[e - s[1] + 1] = e BY <1>1, <2>1 DEF Consecutive
  <2> QED BY <1>1, <2>1, <2>2 DEF Range
<1> QED BY <1>2, <1>3

LEMMA InitInv4 == Init => Inv4
<1> SUFFICES ASSUME Init PROVE Inv4 OBVIOUS
<1>1. buffer = <<>> /\ flushes = <<>> /\ added = 0 /\ Len(buffer) = 0 /\ Len(flushes) = 0
  BY DEF Init
<1> QED BY <1>1 DEF Inv4, Runs, Linked, UpToAdded, Consecutive, Front

(* A step that leaves the queue and what its flushes hold alone.             *)
LEMMA SameInv4 ==
  ASSUME Inv1, Inv4, UNCHANGED <<buffer, flushes, added>>,
         \A i \in 1..Len(flushes) : entities'[flushes[i]] = entities[flushes[i]]
  PROVE  Inv4' /\ Oldest(1)' = Oldest(1)
<1>1. Front' = Front BY DEF Front
<1>2. \A i \in 1..Len(flushes) : Size(i)' = Size(i) BY DEF Size
<1>3. \A i \in 1..Len(flushes) + 1 : Oldest(i)' = Oldest(i)
  BY <1>1, NumberFacts DEF Oldest
<1>4. \A i \in 1..Len(flushes) : i + 1 \in 1..Len(flushes) + 1 /\ i \in 1..Len(flushes) + 1
  BY NumberFacts
<1>5. Linked' BY <1>2, <1>3, <1>4 DEF Inv4, Linked
<1>6. Runs' BY DEF Inv4, Runs
<1>7. UpToAdded' BY <1>1 DEF Inv4, UpToAdded
<1>8. 1 \in 1..Len(flushes) + 1 BY NumberFacts
<1> QED BY <1>3, <1>5, <1>6, <1>7, <1>8 DEF Inv4

LEMMA AddInv4 ==
  ASSUME Inv1, Inv4, Add
  PROVE  Inv4' /\ Oldest(1)' = Oldest(1)
<1>1. buffer \in Seq(1..MaxEntity) /\ added \in Nat /\ added + 1 \in 1..MaxEntity
  BY ConstantsAssumption DEF Inv1, TypeOK, Add
<1>2. buffer' = Append(buffer, added + 1) /\ added' = added + 1 /\ UNCHANGED <<flushes, entities>>
  BY DEF Add
<1>3. /\ Len(buffer') = Len(buffer) + 1 /\ Len(buffer) \in Nat
      /\ \A i \in 1..Len(buffer) : buffer'[i] = buffer[i]
      /\ buffer'[Len(buffer) + 1] = added + 1
  BY <1>1, <1>2, AppendFacts
<1>4. buffer' # <<>> /\ (buffer = <<>> => Len(buffer) = 0) /\ (buffer # <<>> => Len(buffer) >= 1)
  BY <1>1, <1>2, <1>3
<1>5. Front' = Front /\ Front = buffer'[1] BY <1>3, <1>4 DEF Front
<1>6. Front + Len(buffer) = added + 1 /\ Front \in Nat BY NumberFacts DEF Inv4, UpToAdded
<1>7. ASSUME NEW k \in 1..Len(buffer') PROVE buffer'[k] = buffer'[1] + k - 1
  <2>1. CASE k \in 1..Len(buffer)
    <3>1. buffer'[1] = buffer[1] /\ buffer'[k] = buffer[k] BY <1>3, <2>1
    <3> QED BY <2>1, <3>1 DEF Inv4, Runs, Consecutive
  <2>2. CASE k = Len(buffer) + 1 BY <1>1, <1>3, <1>5, <1>6, <2>2
  <2> QED BY <1>3, <2>1, <2>2
<1>8. Runs' BY <1>2, <1>7 DEF Inv4, Runs, Consecutive
<1>9. UpToAdded'
  <2>1. Front' = Front /\ Len(buffer') = Len(buffer) + 1 /\ added' = added + 1
    BY <1>2, <1>3, <1>5
  <2>2. Front + (Len(buffer) + 1) = (added + 1) + 1 BY <1>1, <1>3, <1>6
  <2> QED BY <2>1, <2>2 DEF UpToAdded
<1>10. /\ \A i \in 1..Len(flushes) : Size(i)' = Size(i)
       /\ \A i \in 1..Len(flushes) + 1 : Oldest(i)' = Oldest(i)
  BY <1>2, <1>5 DEF Oldest, Size
<1>11. \A i \in 1..Len(flushes) : i + 1 \in 1..Len(flushes) + 1 /\ i \in 1..Len(flushes) + 1
  BY NumberFacts
<1>12. Linked' BY <1>2, <1>10, <1>11 DEF Inv4, Linked
<1>13. 1 \in 1..Len(flushes) + 1 BY NumberFacts
<1> QED BY <1>8, <1>9, <1>10, <1>12, <1>13 DEF Inv4

LEMMA CallRegisterInv4 ==
  ASSUME Inv1, Inv4, NEW f \in Flush, CallRegister(f)
  PROVE  Inv4' /\ Oldest(1)' = Oldest(1)
<1>n. PICK n \in Nat : n = Len(flushes) BY NumberFacts
<1>0. /\ n \in Nat /\ Len(flushes') = n + 1
      /\ \A i \in 1..n : flushes'[i] = flushes[i]
      /\ flushes'[n + 1] = f
  BY <1>n, AppendFacts DEF Inv1, TypeOK, CallRegister
<1>1. \A i \in 1..n : flushes[i] \in Flush \ {f} BY <1>n, QueueFacts DEF CallRegister, Pending
<1>2. \A i \in 1..n : entities'[flushes'[i]] = entities[flushes[i]]
  BY <1>0, <1>1 DEF CallRegister, Inv1, TypeOK
<1>3. entities'[flushes'[n + 1]] = buffer BY <1>0 DEF CallRegister, Inv1, TypeOK
<1>4. buffer' = <<>> /\ added' = added /\ Len(buffer') = 0 /\ buffer # <<>> BY DEF CallRegister
<1>5. Front' = added + 1 BY <1>4 DEF Front
<1>6. Front = buffer[1] /\ Front + Len(buffer) = added + 1
  BY <1>4 DEF Front, Inv4, UpToAdded
<1>7. \A i \in 1..n : Size(i)' = Size(i) /\ Oldest(i)' = Oldest(i)
  BY <1>n, <1>0, <1>2 DEF Size, Oldest
<1>8. Oldest(n + 1) = Front BY <1>n, NumberFacts
<1>9. Oldest(n + 1)' = Front BY <1>0, <1>3, <1>6 DEF Oldest
<1>10. Size(n + 1)' = Len(buffer) BY <1>3 DEF Size
<1>11. Oldest(n + 2)' = added + 1 BY <1>0, <1>5 DEF Oldest
<1>12. \A i \in 1..n + 1 : Oldest(i)' = Oldest(i) BY <1>0, <1>7, <1>8, <1>9
<1>13. Linked'
  <2> SUFFICES ASSUME NEW i \in 1..n + 1 PROVE Oldest(i + 1)' = Oldest(i)' + Size(i)'
    BY <1>0 DEF Linked
  <2>1. CASE i \in 1..n
    <3>1. i + 1 \in 1..n + 1 BY <1>0, <2>1
    <3> QED BY <1>n, <1>7, <1>12, <2>1, <3>1 DEF Inv4, Linked
  <2>2. CASE i = n + 1
    <3>1. i + 1 = n + 2 BY <1>0, <2>2
    <3> QED BY <1>6, <1>9, <1>10, <1>11, <2>2, <3>1
  <2> QED BY <1>0, <2>1, <2>2
<1>14. Runs'
  <2>1. Consecutive(buffer') BY <1>4 DEF Consecutive
  <2>2. ASSUME NEW i \in 1..n + 1 PROVE Consecutive(entities'[flushes'[i]])
    <3>1. CASE i \in 1..n BY <1>n, <1>2, <3>1 DEF Inv4, Runs
    <3>2. CASE i = n + 1 BY <1>3, <3>2 DEF Inv4, Runs
    <3> QED BY <1>0, <3>1, <3>2
  <2> QED BY <1>0, <2>1, <2>2 DEF Runs
<1>15. UpToAdded'
  <2>1. added \in Nat BY NumberFacts
  <2> QED BY <1>4, <1>5, <2>1 DEF UpToAdded
<1>16. 1 \in 1..n + 1 BY <1>0
<1> QED BY <1>12, <1>13, <1>14, <1>15, <1>16 DEF Inv4

(* The head leaves with what it held.                                        *)
LEMMA LeaveInv4 ==
  ASSUME Inv1, Inv4, flushes # <<>>, flushes' = Tail(flushes),
         UNCHANGED <<buffer, entities, added>>
  PROVE  Inv4' /\ Oldest(1)' = Oldest(1) + Size(1)
<1>1. /\ Len(flushes) \in Nat /\ Len(flushes') = Len(flushes) - 1 /\ 1 \in 1..Len(flushes)
      /\ \A i \in 1..Len(flushes') :
           flushes'[i] = flushes[i + 1] /\ i + 1 \in 1..Len(flushes)
  BY HeadIndex, TailIndex, QueueFacts
<1>2. Front' = Front BY DEF Front
<1>3. \A i \in 1..Len(flushes') : Size(i)' = Size(i + 1) BY <1>1 DEF Size
<1>0. Len(flushes') \in Nat /\ Len(flushes) = Len(flushes') + 1 BY <1>1
<1>m. PICK m \in Nat : m = Len(flushes') /\ Len(flushes) = m + 1 BY <1>0
<1>4. ASSUME NEW i \in 1..m + 1 PROVE Oldest(i)' = Oldest(i + 1)
  <2>1. CASE i \in 1..m
    <3>1. i # m + 1 /\ i + 1 # m + 2 BY <2>1
    <3>2. flushes'[i] = flushes[i + 1] BY <1>1, <1>m, <2>1
    <3> QED BY <1>m, <3>1, <3>2 DEF Oldest
  <2>2. CASE i = m + 1 BY <1>2, <1>m, <2>2 DEF Oldest
  <2> QED BY <2>1, <2>2
<1>5. Linked'
  <2> SUFFICES ASSUME NEW i \in 1..m PROVE Oldest(i + 1)' = Oldest(i)' + Size(i)'
    BY <1>m DEF Linked
  <2>1. i \in 1..m + 1 /\ i + 1 \in 1..m + 1 OBVIOUS
  <2>2. Oldest(i + 1)' = Oldest((i + 1) + 1) /\ Oldest(i)' = Oldest(i + 1)
    BY <1>4, <2>1
  <2> QED BY <1>1, <1>3, <1>m, <2>2 DEF Inv4, Linked
<1>6. Runs' BY <1>1 DEF Inv4, Runs
<1>7. UpToAdded' BY <1>2 DEF Inv4, UpToAdded
<1>8. Oldest(1)' = Oldest(1 + 1) BY <1>4
<1> QED BY <1>1, <1>5, <1>6, <1>7, <1>8 DEF Inv4, Linked

(* The head leaves, and what it held goes in front of what is behind it.     *)
LEMMA FailInv4 ==
  ASSUME Inv1, Inv4, NEW f \in Flush, Fail(f)
  PROVE  Inv4' /\ Oldest(1)' = Oldest(1)
<1>0. flushes # <<>> /\ f = flushes[1] /\ flushes' = Tail(flushes) /\ added' = added
  BY FailRequeue DEF Fail, Finish
<1>1. /\ Len(flushes) \in Nat /\ Len(flushes') = Len(flushes) - 1 /\ 1 \in 1..Len(flushes)
      /\ \A i \in 1..Len(flushes') :
           flushes'[i] = flushes[i + 1] /\ i + 1 \in 1..Len(flushes)
  BY <1>0, HeadIndex, TailIndex, QueueFacts
<1>2. Len(flushes') \in Nat /\ Len(flushes) = Len(flushes') + 1 BY <1>1
<1>m. PICK m \in Nat : m = Len(flushes') /\ Len(flushes) = m + 1 BY <1>2
<1>3. /\ entities[f] \in Seq(1..MaxEntity) /\ entities[f] # <<>> /\ Consecutive(entities[f])
      /\ Oldest(1) = entities[f][1] /\ Size(1) = Len(entities[f])
      /\ Oldest(1) \in Nat /\ Size(1) \in Nat
  BY <1>0, <1>1, NumberFacts, FailRequeue DEF Size, Inv4, Runs
<1>4. Oldest(2) = Oldest(1) + Size(1)
  <2>1. 1 + 1 = 2 OBVIOUS
  <2> QED BY <1>1, <2>1 DEF Inv4, Linked
<1>5. CASE m >= 1
  <2>1. Len(flushes) > 1 BY <1>5, <1>m
  <2>2. /\ flushes[2] \in Flush \ {f} /\ buffer' = buffer
        /\ entities' = [entities EXCEPT ![flushes[2]] = entities[f] \o @]
    BY <2>1, FailRequeue
  <2>3. 2 \in 1..Len(flushes) /\ 2 # Len(flushes) + 1 BY <2>1, <1>m
  <2>4. entities[flushes[2]] \in Seq(1..MaxEntity) /\ Consecutive(entities[flushes[2]])
    BY <2>3, NumberFacts DEF Inv4, Runs
  <2>5. /\ Oldest(2) = entities[flushes[2]][1] /\ Size(2) = Len(entities[flushes[2]])
        /\ Size(2) \in Nat
    BY <2>3, NumberFacts DEF Size
  <2>6. /\ Consecutive(entities[f] \o entities[flushes[2]])
        /\ (entities[f] \o entities[flushes[2]])[1] = Oldest(1)
        /\ Len(entities[f] \o entities[flushes[2]]) = Size(1) + Size(2)
    BY <1>3, <1>4, <2>4, <2>5, RunConcat
  <2>7. flushes'[1] = flushes[2]
    <3>1. 1 \in 1..Len(flushes') /\ 1 + 1 = 2 BY <1>5, <1>m
    <3> QED BY <1>1, <3>1
  <2>8. entities'[flushes'[1]] = entities[f] \o entities[flushes[2]]
    BY <2>2, <2>7, FailRequeue
  <2>9. ASSUME NEW i \in 2..m
        PROVE entities'[flushes'[i]] = entities[flushes[i + 1]] /\ i + 1 \in 1..Len(flushes)
    <3>1. i \in 1..Len(flushes') /\ i + 1 # 2 BY <1>m
    <3>2. flushes'[i] = flushes[i + 1] /\ i + 1 \in 1..Len(flushes) BY <1>1, <3>1
    <3>3. flushes[i + 1] \in Flush /\ flushes[i + 1] # flushes[2]
      BY <2>3, <3>1, <3>2, NumberFacts DEF Inv1, Shape, Distinct
    <3> QED BY <2>2, <3>2, <3>3, FailRequeue
  <2>10. Front' = Front BY <1>0, <2>2 DEF Front
  <2>11. Oldest(1)' = Oldest(1) /\ Size(1)' = Size(1) + Size(2)
    <3>1. Size(1)' = Size(1) + Size(2) BY <2>6, <2>8 DEF Size
    <3>2. 1 # m + 1 BY <1>5
    <3> QED BY <1>m, <2>6, <2>8, <3>1, <3>2 DEF Oldest
  <2>12. \A i \in 2..m : Size(i)' = Size(i + 1) BY <2>9 DEF Size
  <2>13. ASSUME NEW i \in 2..m + 1 PROVE Oldest(i)' = Oldest(i + 1)
    <3>1. CASE i \in 2..m
      <4>1. i # m + 1 /\ i + 1 # m + 2 BY <3>1
      <4> QED BY <1>m, <2>9, <3>1, <4>1 DEF Oldest
    <3>2. CASE i = m + 1 BY <1>m, <2>10, <3>2 DEF Oldest
    <3> QED BY <3>1, <3>2
  <2>14. Linked'
    <3> SUFFICES ASSUME NEW i \in 1..m PROVE Oldest(i + 1)' = Oldest(i)' + Size(i)'
      BY <1>m DEF Linked
    <3>1. Oldest(i + 1)' = Oldest((i + 1) + 1) BY <2>13
    <3>2. i + 1 \in 1..Len(flushes) BY <1>m
    <3>3. Oldest((i + 1) + 1) = Oldest(i + 1) + Size(i + 1) BY <3>2 DEF Inv4, Linked
    <3>4. CASE i = 1
      <4>1. i + 1 = 2 BY <3>4
      <4>2. Oldest(2) + Size(2) = Oldest(1) + (Size(1) + Size(2)) BY <1>3, <1>4, <2>5
      <4> QED BY <3>1, <3>3, <3>4, <4>1, <4>2, <2>11
    <3>5. CASE i # 1
      <4>1. i \in 2..m /\ i \in 2..m + 1 BY <3>5
      <4> QED BY <2>12, <2>13, <3>1, <3>3, <4>1
    <3> QED BY <3>4, <3>5
  <2>15. Runs'
    <3> SUFFICES ASSUME NEW i \in 1..m PROVE Consecutive(entities'[flushes'[i]])
      BY <1>m, <2>2 DEF Inv4, Runs
    <3>1. CASE i = 1 BY <2>6, <2>8, <3>1
    <3>2. CASE i # 1
      <4>1. i \in 2..m BY <3>2
      <4> QED BY <2>9, <4>1 DEF Inv4, Runs
    <3> QED BY <3>1, <3>2
  <2>16. UpToAdded' BY <1>0, <2>2, <2>10 DEF Inv4, UpToAdded
  <2> QED BY <2>11, <2>14, <2>15, <2>16 DEF Inv4
<1>6. CASE m = 0
  <2>1. Len(flushes) <= 1 /\ Len(flushes) = 1 BY <1>6, <1>m
  <2>2. buffer' = entities[f] \o buffer BY <2>1, FailRequeue
  <2>3. buffer \in Seq(1..MaxEntity) BY DEF Inv1, TypeOK
  <2>4. Oldest(2) = Front /\ Front + Len(buffer) = added + 1 /\ Len(buffer) \in Nat
    <3>1. 2 = Len(flushes) + 1 BY <2>1
    <3> QED BY <3>1, NumberFacts DEF Inv4, UpToAdded
  <2>5. buffer # <<>> => buffer[1] = entities[f][1] + Len(entities[f])
    BY <1>3, <1>4, <2>4 DEF Front
  <2>6. /\ Consecutive(buffer') /\ buffer'[1] = Oldest(1)
        /\ Len(buffer') = Size(1) + Len(buffer)
    BY <1>3, <2>2, <2>3, <2>5, RunConcat DEF Inv4, Runs
  <2>7. buffer' # <<>>
    <3>1. Size(1) > 0 BY <1>1, NumberFacts
    <3> QED BY <1>3, <2>4, <2>6, <3>1
  <2>8. Front' = Oldest(1) BY <2>6, <2>7 DEF Front
  <2>9. Oldest(1)' = Oldest(1) BY <1>6, <1>m, <2>8 DEF Oldest
  <2>10. Linked' BY <1>6, <1>m DEF Linked
  <2>11. Runs' BY <1>6, <1>m, <2>6 DEF Runs
  <2>12. UpToAdded' BY <1>0, <1>3, <1>4, <2>4, <2>6, <2>8 DEF UpToAdded
  <2> QED BY <2>9, <2>10, <2>11, <2>12 DEF Inv4
<1> QED BY <1>5, <1>6

(* What a step of the writer does to the log.                                *)
Unmoved == UNCHANGED <<added, Retired, stored, notified>>
Refines == Inv4' /\ (Log!Next \/ Unmoved)

LEMMA RetiredAfter == Inv1' => (Retired = Oldest(1) - 1)'
<1>1. Inv1 => Retired = Oldest(1) - 1 BY RetiredFacts
<1> QED BY <1>1, PTL

LEMMA QuietRefines ==
  ASSUME Inv1, Inv1', Inv4, UNCHANGED <<buffer, flushes, added, stored, notified>>,
         \A i \in 1..Len(flushes) : entities'[flushes[i]] = entities[flushes[i]]
  PROVE  Refines
<1>1. Inv4' /\ Oldest(1)' = Oldest(1) BY SameInv4
<1>2. Retired = Oldest(1) - 1 BY RetiredFacts
<1>3. Retired' = Oldest(1)' - 1 BY RetiredAfter
<1> QED BY <1>1, <1>2, <1>3 DEF Refines, Unmoved

(* What the flush that writes holds: the oldest entities, and no others.     *)
LEMMA HeadRange ==
  ASSUME Inv1, Inv3, Inv4, NEW f \in Flush, pc[f] \in Writing
  PROVE  /\ flushes # <<>> /\ f = flushes[1]
         /\ Oldest(1) \in Nat /\ Size(1) \in Nat /\ Size(1) > 0 /\ Retired = Oldest(1) - 1
         /\ Range(entities[f]) = Oldest(1)..(Oldest(1) + Size(1) - 1)
         /\ Range(batch[f]) = Range(entities[f])
         /\ Oldest(1) + Size(1) - 1 <= added /\ added \in Nat
         /\ \A e \in Range(batch[f]) : e > Retired /\ e <= added
<1>1. flushes # <<>> /\ f = flushes[1] /\ 1 \in 1..Len(flushes) BY HeadFacts, HeadIndex
<1>2. /\ entities[f] \in Seq(1..MaxEntity) /\ entities[f] # <<>> /\ Consecutive(entities[f])
      /\ Oldest(1) = entities[f][1] /\ Size(1) = Len(entities[f])
      /\ Oldest(1) \in Nat /\ Size(1) \in Nat /\ Size(1) > 0 /\ added \in Nat
  BY <1>1, NumberFacts DEF Size, Inv4, Runs, Inv1, Batches, NonEmpty
<1>3. Range(entities[f]) = Oldest(1)..(Oldest(1) + Size(1) - 1) BY <1>2, RunRange
<1>4. Range(batch[f]) = Range(entities[f]) BY DEF Inv1, Batches, BatchSame
<1>5. \A e \in Range(entities[f]) : e <= added BY <1>1 DEF Inv3, Accepted, Held
<1>6. Oldest(1) + Size(1) - 1 \in Range(entities[f]) BY <1>2, <1>3
<1>7. Retired = Oldest(1) - 1 BY RetiredFacts
<1> QED BY <1>1, <1>2, <1>3, <1>4, <1>5, <1>6, <1>7

LEMMA AddRefines ==
  ASSUME Inv1, Inv1', Inv4, Add
  PROVE  Refines
<1>1. Inv4' /\ Oldest(1)' = Oldest(1) BY AddInv4
<1>2. Retired' = Retired BY <1>1, RetiredFacts, RetiredAfter
<1>3. Log!Accept BY <1>2 DEF Log!Accept, Add
<1> QED BY <1>1, <1>3 DEF Refines, Log!Next

LEMMA CallRegisterRefines ==
  ASSUME Inv1, Inv1', Inv4, NEW f \in Flush, CallRegister(f)
  PROVE  Refines
<1>1. Inv4' /\ Oldest(1)' = Oldest(1) BY CallRegisterInv4
<1>2. Retired' = Retired BY <1>1, RetiredFacts, RetiredAfter
<1> QED BY <1>1, <1>2 DEF Refines, Unmoved, CallRegister

LEMMA CommitRefines ==
  ASSUME Inv1, Inv1', Inv3, Inv4, NEW f \in Flush, Commit(f)
  PROVE  Refines
<1>1. Inv4' /\ Oldest(1)' = Oldest(1) BY SameInv4 DEF Commit
<1>2. Retired' = Retired BY <1>1, RetiredFacts, RetiredAfter
<1>3. \A e \in Range(batch[f]) : e > Retired /\ e <= added BY HeadRange DEF Commit, Writing
<1>4. Log!Write BY <1>2, <1>3 DEF Log!Write, Commit
<1> QED BY <1>1, <1>4 DEF Refines, Log!Next

LEMMA FailRefines ==
  ASSUME Inv1, Inv1', Inv3, Inv4, NEW f \in Flush, Fail(f)
  PROVE  Refines
<1>1. Inv4' /\ Oldest(1)' = Oldest(1) BY FailInv4
<1>2. Retired' = Retired BY <1>1, RetiredFacts, RetiredAfter
<1>3. \A e \in Range(batch[f]) : e > Retired /\ e <= added BY HeadRange DEF Fail, Writing
<1>4. PICK left \in Leftover(f) : stored' = stored \cup left BY DEF Fail
<1>5. left \subseteq Range(batch[f]) BY DEF Leftover
<1>6. Log!Write BY <1>2, <1>3, <1>4, <1>5 DEF Log!Write, Fail
<1> QED BY <1>1, <1>6 DEF Refines, Log!Next

LEMMA SucceedRefines ==
  ASSUME Inv1, Inv1', Inv3, Inv4, NEW f \in Flush, Succeed(f)
  PROVE  Refines
<1>1. pc[f] \in Writing BY DEF Succeed, Writing
<1>2. flushes # <<>> /\ f = flushes[1] BY <1>1, HeadRange
<1>3. Inv4' /\ Oldest(1)' = Oldest(1) + Size(1)
  BY <1>2, LeaveInv4 DEF Succeed, Finish
<1>4. Oldest(1) \in Nat /\ Size(1) \in Nat /\ Size(1) > 0 /\ Retired = Oldest(1) - 1
  BY <1>1, HeadRange
<1>5. Retired' = Oldest(1) + Size(1) - 1
  <2>1. Retired' = Oldest(1)' - 1 BY RetiredAfter
  <2> QED BY <1>3, <1>4, <2>1
<1>6. (Retired + 1)..Retired' = Range(entities[f]) /\ Retired' > Retired
  <2>1. Retired + 1 = Oldest(1) BY <1>4
  <2> QED BY <1>1, <1>4, <1>5, <2>1, HeadRange
<1>7. Retired' <= added BY <1>1, <1>5, HeadRange
<1>8. Range(entities[f]) \subseteq stored
  BY <1>1, HeadRange DEF Succeed, Inv1, Batches, CommittedStored
<1>9. Log!Retire BY <1>6, <1>7, <1>8 DEF Log!Retire, Succeed
<1> QED BY <1>3, <1>9 DEF Refines, Log!Next

LEMMA NextRefines == Inv1 /\ Inv1' /\ Inv3 /\ Inv4 /\ [Next]_vars => Refines
<1> SUFFICES ASSUME Inv1, Inv1', Inv3, Inv4, [Next]_vars PROVE Refines OBVIOUS
<1>1. CASE Add BY <1>1, AddRefines
<1>2. ASSUME NEW f \in Flush, Step(f) PROVE Refines
  <2>1. CASE CallEmpty(f) BY <2>1, QuietRefines DEF CallEmpty
  <2>2. CASE CallRegister(f) BY <2>2, CallRegisterRefines
  <2>3. CASE Proceed(f) BY <2>3, QuietRefines DEF Proceed
  <2>4. CASE JoinReturn(f) BY <2>4, QuietRefines DEF JoinReturn
  <2>5. CASE Commit(f) BY <2>5, CommitRefines
  <2>6. CASE Succeed(f) BY <2>6, SucceedRefines
  <2>7. CASE Fail(f) BY <2>7, FailRefines
  <2>8. CASE Collect(f)
    <3>1. \A i \in 1..Len(flushes) : flushes[i] \in Flush \ {f}
      BY <2>8, QueueFacts DEF Collect, Pending, Ended
    <3> QED BY <2>8, <3>1, QuietRefines DEF Collect, Inv1, TypeOK
  <2> QED BY <1>2, <2>1, <2>2, <2>3, <2>4, <2>5, <2>6, <2>7, <2>8 DEF Step, Call, LoopFlush
<1>3. CASE UNCHANGED vars BY <1>3, QuietRefines DEF vars
<1> QED BY <1>1, <1>2, <1>3 DEF Next

(* The writer implements the log its docstring promises (Writer): with flushes that
   overlap, fail in part or in full and hand their entities on, entities are still
   given up oldest first, only once stored, and subscribers hear of exactly those.  *)
THEOREM WriterImplementsLog == Spec => ImplementsLog
<1>1. Init => Log!Init
  <2> SUFFICES ASSUME Init PROVE Log!Init OBVIOUS
  <2>1. Retired = 0 BY DEF Init, Retired
  <2> QED BY <2>1 DEF Init, Log!Init
<1>2. Inv1 /\ Inv3 /\ Inv4 /\ [Next]_vars => Inv1' /\ Inv3' /\ Inv4' /\ [Log!Next]_(Log!logvars)
  BY NextInv1, NextInv3, NextRefines DEF Refines, Unmoved, Log!logvars
<1> QED BY <1>1, <1>2, InitInv1, InitInv3, InitInv4, PTL DEF Spec, ImplementsLog, Log!Spec
=============================================================================
