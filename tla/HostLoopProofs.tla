--------------------------- MODULE HostLoopProofs ---------------------------
(***************************************************************************)
(* Proofs about HostLoop, for every bound on the boundaries, every width of *)
(* a batch and every set of prompts: its type invariant, the three          *)
(* invariants of its run, what an interrupt stops, and that the loop uses   *)
(* the session as RequestReply allows.                                      *)
(*                                                                         *)
(* The inductive invariant says, for each place of the loop, which          *)
(* completions have been posted: at a boundary all there are, in a batch    *)
(* those of the earlier batches, and while completions are posted also the  *)
(* items of this batch up to the last one posted.                           *)
(***************************************************************************)
EXTENDS HostLoop, FiniteSetTheorems, SequenceTheorems, TLAPS

(* Every item of batch b has been posted. *)
Whole(b) == \A j \in DOMAIN batches[b] : \E n \in DOMAIN sent : sent[n] = <<b, j>>

BatchesNotEmpty == \A b \in 1..guard : batches[b] # <<>>

(* A completion posted is of an item of a batch that was started. *)
SentOfBatches ==
  \A n \in DOMAIN sent :
    sent[n][1] \in 1..guard /\ sent[n][2] \in DOMAIN batches[sent[n][1]]

Ordered == \A m, n \in DOMAIN sent : m < n => Before(sent[m], sent[n])

SentSucceeded ==
  \A n \in DOMAIN sent :
    \A j \in DOMAIN batches[sent[n][1]] : activity[<<sent[n][1], j>>] = "done"

EarlierWhole == \A b \in 1..(guard - 1) : Whole(b)

(* What has been posted at each place of the loop. *)
PostedSoFar ==
  /\ loop = "report" => guard = 0 /\ sent = <<>>
  /\ loop = "boundary" /\ latest.ok /\ latest.blocked => \A b \in 1..guard : Whole(b)
  /\ loop = "batch" => guard > 0 /\ \A n \in DOMAIN sent : sent[n][1] < guard
  /\ loop \in {"completing", "posting"} =>
       /\ sent # <<>> /\ Posted[1] = guard
       /\ \A j \in 1..Posted[2] : \E n \in DOMAIN sent : sent[n] = Item(j)
  /\ loop = "posting" => Posted[2] < Len(Batch)

PostInv ==
  BatchesNotEmpty /\ SentOfBatches /\ Ordered /\ SentSucceeded /\ EarlierWhole /\ PostedSoFar

(* While no completion is posted the context is what the last answer to one *)
(* left, and so are the copies the activities got; before any such answer   *)
(* it is what the loop was given.                                           *)
StartedInv ==
  \A j \in DOMAIN started :
    \/ started[j].value = engine
    \/ guard = 1 /\ ~started[j].own /\ started[j].value = Start

ContextInv ==
  /\ loop \in {"report", "boundary", "batch"} =>
       context = IF sent = <<>> THEN Start ELSE engine
  /\ loop = "batch" => StartedInv

(* The stall guard remembers every prompt that was shown. *)
ShownInv ==
  \A p \in Prompts :
    shown[p] = {} \/ (p \in seen /\ \E b \in Boundaries : shown[p] = {b})

IInv == TypeOK /\ PostInv /\ ContextInv /\ ShownInv

-----------------------------------------------------------------------------
(* A batch is a sequence of at most Width items. *)
LEMMA BatchIsSeq ==
  \A w \in Batches :
    /\ w \in Seq(Kinds) /\ Len(w) \in 0..Width /\ DOMAIN w = 1..Len(w)
    /\ w # <<>> => Len(w) > 0
<1> SUFFICES ASSUME NEW n \in 0..Width, NEW w \in [1..n -> Kinds]
             PROVE  /\ w \in Seq(Kinds) /\ Len(w) = n /\ DOMAIN w = 1..n
                    /\ w # <<>> => n > 0
  BY DEF Batches
<1>1. n \in Nat
  BY BoundsAssumption
<1>2. w \in Seq(Kinds) /\ Len(w) = n
  BY <1>1
<1> QED BY <1>1, <1>2, EmptySeq

LEMMA FunctionIsSeq ==
  ASSUME NEW S, NEW n \in Nat, NEW f \in [1..n -> S]
  PROVE  f \in Seq(S)
OBVIOUS

(* What Append does to the completions and to the batches. *)
LEMMA Appended ==
  ASSUME NEW S, NEW s \in Seq(S), NEW e \in S
  PROVE  /\ Append(s, e) \in Seq(S) /\ Len(Append(s, e)) = Len(s) + 1
         /\ DOMAIN Append(s, e) = DOMAIN s \cup {Len(s) + 1}
         /\ Append(s, e)[Len(s) + 1] = e
         /\ \A n \in DOMAIN s : Append(s, e)[n] = s[n]
OBVIOUS

(* The items of the batch at hand are activities. *)
LEMMA ItemsAreActivities ==
  ASSUME TypeOK, guard > 0, NEW j \in DOMAIN Batch
  PROVE  /\ Batch \in Batches /\ DOMAIN Batch = 1..Len(Batch) /\ Len(Batch) \in 1..Width
         /\ Item(j) \in Activities
<1>1. Batch \in Batches /\ guard \in Boundaries
  BY BoundsAssumption DEF TypeOK, Batch, Boundaries
<1>2. DOMAIN Batch = 1..Len(Batch) /\ Len(Batch) \in 0..Width
  BY <1>1, BatchIsSeq
<1> QED BY <1>1, <1>2, BoundsAssumption DEF Item, Activities

-----------------------------------------------------------------------------
(* Type correctness, with the places of the completions. *)

LEMMA InitInv == Init => IInv
<1> SUFFICES ASSUME Init PROVE IInv
  OBVIOUS
<1>1. <<>> \in Batches
  BY BoundsAssumption DEF Batches
<1>2. TypeOK
  <2>1. batches \in Seq(Batches) /\ Len(batches) = guard /\ sent \in Seq(Activities)
    BY DEF Init
  <2>2. latest \in [ok : BOOLEAN, blocked : BOOLEAN, work : Batches]
    BY <1>1 DEF Init
  <2>3. context \in Values /\ engine \in Values
    BY DEF Init, Values
  <2>4. activity \in [Activities -> {"absent", "running", "done", "failed"}]
    BY DEF Init
  <2>5. shown \in [Prompts -> SUBSET Boundaries] /\ seen \in SUBSET Prompts
    BY DEF Init
  <2>6. guard \in 0..MaxBoundaries
    BY BoundsAssumption DEF Init
  <2>7. started \in Seq([own : BOOLEAN, value : Values])
    BY DEF Init
  <2> QED BY <2>1, <2>2, <2>3, <2>4, <2>5, <2>6, <2>7 DEF Init, TypeOK
<1>3. PostInv
  BY DEF Init, PostInv, BatchesNotEmpty, SentOfBatches, Ordered, SentSucceeded,
         EarlierWhole, PostedSoFar
<1>4. ContextInv /\ ShownInv
  BY DEF Init, ContextInv, ShownInv
<1> QED BY <1>2, <1>3, <1>4 DEF IInv

-----------------------------------------------------------------------------
(* Where the loop is tells what the last completion is. *)
LEMMA PostedIsItem ==
  ASSUME IInv, loop \in {"completing", "posting"}
  PROVE  /\ guard > 0 /\ guard \in Boundaries
         /\ Posted \in Activities /\ Len(sent) \in DOMAIN sent
         /\ Posted[1] = guard /\ Posted[2] \in DOMAIN Batch /\ Posted = Item(Posted[2])
<1>1. sent \in Seq(Activities) /\ sent # <<>> /\ Posted[1] = guard
  BY DEF IInv, TypeOK, PostInv, PostedSoFar
<1>2. Len(sent) \in DOMAIN sent /\ Posted \in Activities
  BY <1>1 DEF Posted
<1>3. Posted[1] \in 1..guard /\ Posted[2] \in DOMAIN Batch
  BY <1>1, <1>2 DEF IInv, PostInv, SentOfBatches, Posted, Batch
<1>4. Posted = <<Posted[1], Posted[2]>>
  BY <1>2 DEF Activities
<1> QED BY <1>1, <1>2, <1>3, <1>4 DEF Item, Activities

(* The batch at hand, once it was started. *)
LEMMA BatchAtHand ==
  ASSUME IInv, loop = "batch"
  PROVE  /\ guard > 0 /\ guard \in Boundaries
         /\ 1 \in DOMAIN Batch /\ Len(Batch) \in DOMAIN Batch
<1>1. guard > 0 /\ guard \in 1..guard /\ guard \in Boundaries
  BY DEF IInv, TypeOK, PostInv, PostedSoFar, Boundaries
<1>2. Batch # <<>> /\ Batch \in Batches
  BY <1>1 DEF IInv, TypeOK, PostInv, BatchesNotEmpty, Batch
<1> QED BY <1>1, <1>2, BatchIsSeq

(* The next item to post. *)
LEMMA NextItem ==
  ASSUME IInv, loop = "posting"
  PROVE  Posted[2] + 1 \in DOMAIN Batch
<1>1. guard > 0 /\ Posted[2] \in DOMAIN Batch /\ Posted[2] < Len(Batch)
  BY PostedIsItem DEF IInv, PostInv, PostedSoFar
<1>2. DOMAIN Batch = 1..Len(Batch) /\ Len(Batch) \in 1..Width
  BY <1>1, ItemsAreActivities DEF IInv
<1> QED BY <1>1, <1>2

LEMMA NextType == IInv /\ [Next]_vars => TypeOK'
<1> SUFFICES ASSUME IInv, [Next]_vars PROVE TypeOK'
  OBVIOUS
<1> USE DEF IInv
<1>1. ASSUME NEW a \in Answer PROVE a \in [ok : BOOLEAN, blocked : BOOLEAN, work : Batches]
  <2>1. <<>> \in Batches
    BY BoundsAssumption DEF Batches
  <2>2. ASSUME NEW w \in Batches, a = Blocked(w)
        PROVE  a \in [ok : BOOLEAN, blocked : BOOLEAN, work : Batches]
    BY <2>2 DEF Blocked
  <2>3. CASE a = Finished
    BY <2>1, <2>3 DEF Finished
  <2>4. CASE a = Failed
    BY <2>1, <2>4 DEF Failed
  <2> QED BY <1>1, <2>2, <2>3, <2>4 DEF Answer
<1>2. ASSUME NEW j \in DOMAIN Batch, Post(j), guard > 0
      PROVE  loop' \in {"completing"} \cup Ended /\ sent' \in Seq(Activities)
  <2>1. Item(j) \in Activities
    BY <1>2, ItemsAreActivities
  <2>2. loop' \in {"completing"} \cup Ended
    BY <1>2 DEF Post, Ended
  <2>3. sent' = sent \/ sent' = Append(sent, Item(j))
    BY <1>2 DEF Post
  <2>4. sent \in Seq(Activities)
    BY DEF TypeOK
  <2>5. sent' \in Seq(Activities)
    BY <2>1, <2>3, <2>4, Appended
  <2> QED BY <2>2, <2>5
<1>3. CASE Report
  <2>1. engine' \in Values
    BY <1>3, BoundsAssumption DEF Report, Values
  <2> QED BY <1>1, <1>3, <2>1 DEF Report, TypeOK
<1>4. CASE Answered
  <2>1. Posted \in Values /\ FromEngine(guard) \in Values
    BY <1>4, PostedIsItem DEF Answered, Values, TypeOK
  <2>2. engine' \in Values /\ context' \in Values
    <3>1. engine' \in {Posted, FromEngine(guard)}
      BY <1>4 DEF Answered
    <3> QED BY <1>4, <2>1, <3>1 DEF Answered, Merge
  <2> QED BY <1>1, <1>4, <2>2 DEF Answered, AfterAnswer, TypeOK
<1>5. CASE SessionFails
  <2>1. engine' \in Values
    BY <1>5, PostedIsItem DEF SessionFails, Values, TypeOK
  <2> QED BY <1>5, <2>1 DEF SessionFails, TypeOK, Ended
<1>6. CASE Interrupt
  BY <1>6 DEF Interrupt, TypeOK
<1>7. CASE Return \/ BoundaryThrows \/ CallbackThrows
  BY <1>7 DEF Return, BoundaryThrows, CallbackThrows, TypeOK, Ended
<1>8. CASE StartBatch
  <2>1. guard + 1 \in Boundaries /\ guard' = guard + 1 /\ guard' \in 0..MaxBoundaries
    BY <1>8, BoundsAssumption DEF StartBatch, Exhausted, TypeOK, Boundaries
  <2>2. batches' \in Seq(Batches) /\ Len(batches') = guard'
    BY <1>8, <2>1 DEF StartBatch, TypeOK
  <2>3. seen' \in SUBSET Prompts /\ shown' \in [Prompts -> SUBSET Boundaries]
    BY <1>8, <2>1 DEF StartBatch, TypeOK, Inspected, PromptsOf
  <2>4. activity' \in [Activities -> {"absent", "running", "done", "failed"}]
    BY <1>8 DEF StartBatch, TypeOK
  <2>5. loop' = "batch"
    BY <1>8 DEF StartBatch
  <2>6. UNCHANGED <<latest, sent, context, engine, signal>>
    BY <1>8 DEF StartBatch
  <2>7. started' \in Seq([own : BOOLEAN, value : Values])
    <3>1. PICK n \in Nat : DOMAIN latest.work = 1..n
      BY BatchIsSeq, BoundsAssumption DEF TypeOK
    <3>2. \A listed \in BOOLEAN : TokenVariables(listed) \in [own : BOOLEAN, value : Values]
      BY DEF TokenVariables, TypeOK
    <3>3. PICK listed \in [1..n -> BOOLEAN] :
            started' = [j \in 1..n |-> TokenVariables(listed[j])]
      BY <1>8, <3>1 DEF StartBatch
    <3>4. started' \in [1..n -> [own : BOOLEAN, value : Values]]
      BY <3>2, <3>3
    <3> QED BY <3>4, FunctionIsSeq
  <2> QED BY <2>1, <2>2, <2>3, <2>4, <2>5, <2>6, <2>7 DEF TypeOK
<1>9. CASE PostFirst
  <2>1. loop' \in {"completing"} \cup Ended /\ sent' \in Seq(Activities)
    BY <1>2, <1>9, BatchAtHand DEF PostFirst
  <2>2. context' \in Values
    BY <1>9, BatchAtHand, ItemsAreActivities DEF PostFirst, Values
  <2>3. started' \in Seq([own : BOOLEAN, value : Values])
    BY <1>9 DEF PostFirst
  <2> QED BY <1>9, <2>1, <2>2, <2>3 DEF PostFirst, TypeOK
<1>10. CASE PostNext
  <2>1. loop' \in {"completing"} \cup Ended /\ sent' \in Seq(Activities)
    BY <1>2, <1>10, NextItem, PostedIsItem DEF PostNext
  <2> QED BY <1>10, <2>1 DEF PostNext, TypeOK
<1>11. ASSUME NEW t \in Activities, ActivityDone(t) \/ ActivityFails(t) PROVE TypeOK'
  BY <1>11 DEF ActivityDone, ActivityFails, TypeOK, Ended
<1>12. CASE UNCHANGED vars
  BY <1>12 DEF vars, TypeOK
<1>13. CASE AnswerUnreadable
  <2>1. engine' \in Values
    BY <1>13, PostedIsItem DEF AnswerUnreadable, Values
  <2> QED BY <1>13, <2>1 DEF AnswerUnreadable, TypeOK, Ended
<1> QED BY <1>3, <1>4, <1>5, <1>6, <1>7, <1>8, <1>9, <1>10, <1>11, <1>12, <1>13 DEF Next, LoopStep

-----------------------------------------------------------------------------
(* What has been posted. *)

DoneStays == \A t \in Activities : activity[t] = "done" => activity'[t] = "done"

(* Items posted are activities of the batch they belong to. *)
LEMMA SentActivities ==
  ASSUME TypeOK, SentOfBatches, NEW n \in DOMAIN sent, NEW j \in DOMAIN batches[sent[n][1]]
  PROVE  <<sent[n][1], j>> \in Activities
<1>1. sent[n][1] \in 1..guard /\ sent[n][1] \in Boundaries
  BY BoundsAssumption DEF SentOfBatches, TypeOK, Boundaries
<1>2. batches[sent[n][1]] \in Batches
  BY <1>1 DEF TypeOK
<1>3. j \in 1..Width
  BY <1>2, BatchIsSeq, BoundsAssumption
<1> QED BY <1>1, <1>3 DEF Activities

(* Nothing posted and no batch started: what was posted stays as it was. *)
LEMMA PostsKept ==
  ASSUME IInv, DoneStays, UNCHANGED <<guard, batches, sent>>
  PROVE  BatchesNotEmpty' /\ SentOfBatches' /\ Ordered' /\ SentSucceeded' /\ EarlierWhole'
<1> USE DEF IInv, PostInv
<1>1. BatchesNotEmpty' /\ SentOfBatches' /\ Ordered'
  BY DEF BatchesNotEmpty, SentOfBatches, Ordered, Before
<1>2. SentSucceeded'
  BY SentActivities DEF SentSucceeded, DoneStays
<1>3. EarlierWhole'
  BY DEF EarlierWhole, Whole
<1> QED BY <1>1, <1>2, <1>3

(* A completion of the batch at hand is posted after all those before it. *)
LEMMA PostStep ==
  ASSUME IInv, guard > 0, NEW j \in DOMAIN Batch, Post(j), BatchDone,
         UNCHANGED <<guard, batches, activity>>,
         \A n \in DOMAIN sent : sent[n][1] = guard => sent[n][2] < j,
         \A i \in 1..(j - 1) : \E n \in DOMAIN sent : sent[n] = Item(i)
  PROVE  PostInv'
<1> USE DEF IInv, PostInv
<1>0. DoneStays
  BY DEF DoneStays
<1>1. CASE UNCHANGED sent /\ loop' \in {"threw", "interrupted"}
  BY <1>0, <1>1, PostsKept DEF PostedSoFar
<1>2. CASE loop' = "completing" /\ sent' = Append(sent, Item(j))
  <2>1. Item(j) \in Activities /\ sent \in Seq(Activities) /\ j \in Nat
    BY ItemsAreActivities DEF TypeOK
  <2> DEFINE last == Len(sent) + 1
  <2>2. /\ DOMAIN sent' = DOMAIN sent \cup {last} /\ sent'[last] = Item(j)
        /\ \A n \in DOMAIN sent : sent'[n] = sent[n] /\ n < last
        /\ last \notin DOMAIN sent /\ Len(sent') = last
    BY <1>2, <2>1, Appended
  <2> HIDE DEF last
  <2>3. Item(j)[1] = guard /\ Item(j)[2] = j /\ guard \in 1..guard
    BY DEF Item, TypeOK
  <2>4. BatchesNotEmpty' /\ SentOfBatches'
    BY <2>2, <2>3 DEF BatchesNotEmpty, SentOfBatches, Batch
  <2>5. Ordered'
    <3> SUFFICES ASSUME NEW m \in DOMAIN sent', NEW n \in DOMAIN sent', m < n
                 PROVE  Before(sent'[m], sent'[n])
      BY DEF Ordered, Before
    <3>1. m \in DOMAIN sent
      BY <2>1, <2>2
    <3>2. CASE n \in DOMAIN sent
      BY <2>2, <3>1, <3>2 DEF Ordered, Before
    <3>3. CASE n = last
      <4>1. sent[m][1] \in 1..guard
        BY <3>1 DEF SentOfBatches
      <4> QED BY <2>2, <2>3, <3>1, <3>3, <4>1 DEF Before, TypeOK
    <3> QED BY <2>2, <3>2, <3>3
  <2>6. SentSucceeded'
    <3> SUFFICES ASSUME NEW n \in DOMAIN sent', NEW i \in DOMAIN batches[sent'[n][1]]
                 PROVE  activity[<<sent'[n][1], i>>] = "done"
      BY DEF SentSucceeded
    <3>1. CASE n \in DOMAIN sent
      BY <2>2, <3>1 DEF SentSucceeded
    <3>2. CASE n = last
      BY <2>2, <2>3, <3>2 DEF BatchDone, Item, Batch
    <3> QED BY <2>2, <3>1, <3>2
  <2>7. EarlierWhole'
    <3> SUFFICES ASSUME NEW b \in 1..(guard - 1), NEW i \in DOMAIN batches[b]
                 PROVE  \E n \in DOMAIN sent' : sent'[n] = <<b, i>>
      BY DEF EarlierWhole, Whole
    <3>1. PICK n \in DOMAIN sent : sent[n] = <<b, i>>
      BY DEF EarlierWhole, Whole
    <3> QED BY <2>2, <3>1
  <2>8. PostedSoFar'
    <3>1. Posted' = Item(j) /\ Posted'[1] = guard' /\ Posted'[2] = j
      BY <2>2, <2>3 DEF Posted
    <3>2. ASSUME NEW i \in 1..j PROVE \E n \in DOMAIN sent' : sent'[n] = Item(i)'
      <4>1. Item(i)' = Item(i)
        BY DEF Item
      <4>2. CASE i = j
        BY <2>2, <4>1, <4>2
      <4>3. CASE i \in 1..(j - 1)
        <5>1. PICK n \in DOMAIN sent : sent[n] = Item(i)
          BY <4>3
        <5> QED BY <2>2, <4>1, <5>1
      <4> QED BY <2>1, <4>2, <4>3
    <3>3. sent' # <<>>
      BY <2>2
    <3> QED BY <1>2, <3>1, <3>2, <3>3 DEF PostedSoFar
  <2> QED BY <2>4, <2>5, <2>6, <2>7, <2>8
<1> QED BY <1>1, <1>2 DEF Post

(* A new batch is started when the earlier ones are posted. *)
LEMMA StartPosts == IInv /\ StartBatch => PostInv'
<1> SUFFICES ASSUME IInv, StartBatch PROVE PostInv'
  OBVIOUS
<1> USE DEF IInv, PostInv
<1>1. /\ guard \in Nat /\ guard' = guard + 1 /\ sent' = sent /\ loop' = "batch"
      /\ latest.work \in Batches /\ latest.work # <<>>
      /\ batches \in Seq(Batches) /\ DOMAIN batches = 1..guard
  BY BoundsAssumption DEF StartBatch, TypeOK
<1>2. /\ batches'[guard'] = latest.work
      /\ \A b \in 1..guard : batches'[b] = batches[b]
  BY <1>1, Appended DEF StartBatch, TypeOK
<1>3. \A b \in 1..guard : Whole(b)
  BY <1>1 DEF StartBatch, PostedSoFar
<1>4. BatchesNotEmpty'
  BY <1>1, <1>2 DEF BatchesNotEmpty
<1>5. SentOfBatches' /\ Ordered'
  BY <1>1, <1>2 DEF SentOfBatches, Ordered, Before
<1>6. SentSucceeded'
  <2> SUFFICES ASSUME NEW n \in DOMAIN sent, NEW j \in DOMAIN batches[sent[n][1]]
               PROVE  activity'[<<sent[n][1], j>>] = "done"
    BY <1>1, <1>2 DEF SentSucceeded, SentOfBatches
  <2>1. <<sent[n][1], j>> \in Activities /\ activity[<<sent[n][1], j>>] = "done"
    BY SentActivities DEF SentSucceeded
  <2>2. <<sent[n][1], j>>[1] # guard'
    BY <1>1 DEF SentOfBatches
  <2> QED BY <2>1, <2>2 DEF StartBatch
<1>7. EarlierWhole'
  BY <1>1, <1>2, <1>3 DEF EarlierWhole, Whole
<1>8. PostedSoFar'
  BY <1>1 DEF PostedSoFar, SentOfBatches
<1> QED BY <1>4, <1>5, <1>6, <1>7, <1>8

LEMMA NextPost == IInv /\ [Next]_vars => PostInv'
<1> SUFFICES ASSUME IInv, [Next]_vars PROVE PostInv'
  OBVIOUS
<1> USE DEF IInv, PostInv
<1>1. CASE Report
  <2>1. DoneStays /\ guard = 0
    BY <1>1 DEF Report, DoneStays, PostedSoFar
  <2> QED BY <1>1, <2>1, PostsKept DEF Report, PostedSoFar
<1>2. CASE Answered
  <2>1. DoneStays
    BY <1>2 DEF Answered, DoneStays
  <2>2. /\ guard > 0 /\ Posted[2] \in DOMAIN Batch
        /\ DOMAIN Batch = 1..Len(Batch) /\ Len(Batch) \in 1..Width
    BY <1>2, PostedIsItem, ItemsAreActivities DEF Answered
  <2>3. ASSUME ~(Posted[2] < Len(Batch)) PROVE \A b \in 1..guard : Whole(b)
    <3>1. \A j \in DOMAIN Batch : \E n \in DOMAIN sent : sent[n] = Item(j)
      BY <1>2, <2>2, <2>3, BoundsAssumption DEF Answered, PostedSoFar
    <3>2. Whole(guard)
      BY <3>1 DEF Whole, Batch, Item
    <3> QED BY <3>2 DEF EarlierWhole, TypeOK
  <2>4. PostedSoFar'
    <3>1. UNCHANGED <<sent, batches, guard, Posted, Batch>> /\ \A j : Item(j)' = Item(j)
      BY <1>2 DEF Answered, Posted, Batch, Item
    <3>2. CASE loop' = "posting"
      <4>1. Posted[2] < Len(Batch)
        BY <1>2, <3>2 DEF Answered, AfterAnswer
      <4>2. /\ sent # <<>> /\ Posted[1] = guard
            /\ \A j \in 1..Posted[2] : \E n \in DOMAIN sent : sent[n] = Item(j)
        BY <1>2 DEF Answered, PostedSoFar
      <4> QED BY <3>1, <3>2, <4>1, <4>2 DEF PostedSoFar
    <3>3. CASE loop' = "boundary"
      <4>1. latest'.ok => ~(Posted[2] < Len(Batch))
        BY <1>2, <3>3 DEF Answered, AfterAnswer
      <4> QED BY <2>3, <3>1, <3>3, <4>1 DEF PostedSoFar, Whole
    <3> QED BY <1>2, <3>2, <3>3 DEF Answered, AfterAnswer
  <2> QED BY <1>2, <2>1, <2>4, PostsKept DEF Answered
<1>3. CASE \/ SessionFails \/ AnswerUnreadable \/ Interrupt \/ Return
           \/ BoundaryThrows \/ CallbackThrows \/ UNCHANGED vars
  <2>1. DoneStays /\ UNCHANGED <<guard, batches, sent, latest>> /\ loop' \in {loop} \cup Ended
    BY <1>3 DEF SessionFails, AnswerUnreadable, Interrupt, Return, BoundaryThrows,
         CallbackThrows, vars, DoneStays, Ended
  <2>2. PostedSoFar'
    BY <2>1 DEF PostedSoFar, Ended, Whole, Posted, Item, Batch
  <2> QED BY <2>1, <2>2, PostsKept
<1>4. CASE StartBatch
  BY <1>4, StartPosts
<1>5. CASE PostFirst
  <2>1. \A n \in DOMAIN sent : sent[n][1] < guard /\ sent[n][1] \in Nat
    BY <1>5 DEF PostFirst, PostedSoFar, SentOfBatches
  <2> QED BY <1>5, <2>1, BatchAtHand, PostStep DEF PostFirst, TypeOK
<1>6. CASE PostNext
  <2>1. /\ guard > 0 /\ Posted[2] + 1 \in DOMAIN Batch /\ Posted[2] \in Nat
        /\ Posted \in Activities /\ Posted[1] = guard /\ Len(sent) \in DOMAIN sent
    BY <1>6, NextItem, PostedIsItem DEF PostNext, Activities
  <2>2. BatchDone
    BY <2>1 DEF SentSucceeded, BatchDone, Batch, Item, Posted
  <2>3. ASSUME NEW n \in DOMAIN sent, sent[n][1] = guard PROVE sent[n][2] < Posted[2] + 1
    <3>1. CASE n = Len(sent)
      BY <2>1, <3>1 DEF Posted
    <3>2. CASE n < Len(sent)
      <4>1. Before(sent[n], Posted) /\ sent[n] \in Activities
        BY <2>1, <3>2 DEF Ordered, Posted, TypeOK
      <4> QED BY <2>1, <2>3, <4>1 DEF Before, Activities, TypeOK
    <3> QED BY <3>1, <3>2 DEF TypeOK
  <2>4. \A i \in 1..((Posted[2] + 1) - 1) : \E n \in DOMAIN sent : sent[n] = Item(i)
    BY <1>6, <2>1 DEF PostNext, PostedSoFar
  <2> QED BY <1>6, <2>1, <2>2, <2>3, <2>4, PostStep DEF PostNext
<1>7. ASSUME NEW t \in Activities, ActivityDone(t) \/ ActivityFails(t) PROVE PostInv'
  <2>1. DoneStays /\ UNCHANGED <<guard, batches, sent, latest>> /\ loop' \in {loop} \cup Ended
    BY <1>7 DEF ActivityDone, ActivityFails, DoneStays, Ended, TypeOK
  <2>2. PostedSoFar'
    BY <2>1 DEF PostedSoFar, Ended, Whole, Posted, Item, Batch
  <2> QED BY <2>1, <2>2, PostsKept
<1> QED BY <1>1, <1>2, <1>3, <1>4, <1>5, <1>6, <1>7 DEF Next, LoopStep

-----------------------------------------------------------------------------
(* The context, and what the stall guard remembers. *)

(* A batch after the first is started when something has been posted. *)
LEMMA NothingPosted ==
  ASSUME IInv, loop = "boundary", latest.ok, latest.blocked, sent = <<>>
  PROVE  guard = 0
<1> SUFFICES ASSUME guard # 0 PROVE FALSE
  OBVIOUS
<1>1. guard \in 1..guard
  BY DEF IInv, TypeOK
<1>2. batches[guard] # <<>> /\ batches[guard] \in Batches /\ Whole(guard)
  BY <1>1 DEF IInv, TypeOK, PostInv, BatchesNotEmpty, PostedSoFar
<1>3. 1 \in DOMAIN batches[guard]
  BY <1>2, BatchIsSeq
<1> QED BY <1>2, <1>3 DEF Whole

LEMMA NextContext == IInv /\ [Next]_vars => ContextInv'
<1> SUFFICES ASSUME IInv, [Next]_vars PROVE ContextInv'
  OBVIOUS
<1> USE DEF IInv, ContextInv
<1>1. CASE Report
  <2>1. sent' = <<>> /\ context' = context /\ loop' = "boundary" /\ context = Start
    BY <1>1 DEF Report, PostInv, PostedSoFar
  <2> QED BY <2>1
<1>2. CASE Answered
  <2>1. sent' # <<>> /\ context' = engine' /\ loop' \in {"posting", "boundary"}
    BY <1>2 DEF Answered, AfterAnswer, Merge, PostInv, PostedSoFar
  <2> QED BY <2>1
<1>3. CASE StartBatch
  <2>1. UNCHANGED <<sent, context, engine>> /\ loop = "boundary" /\ latest.ok /\ latest.blocked
    BY <1>3 DEF StartBatch
  <2>2. guard' = guard + 1
    BY <1>3 DEF StartBatch
  <2>3. ASSUME NEW listed \in BOOLEAN
        PROVE  LET t == TokenVariables(listed) IN
                 t.value = engine \/ (guard' = 1 /\ ~t.own /\ t.value = Start)
    <3>1. sent = <<>> => guard' = 1
      BY <2>1, <2>2, NothingPosted
    <3>2. context = IF sent = <<>> THEN Start ELSE engine
      BY <2>1
    <3> QED BY <3>1, <3>2 DEF TokenVariables
  <2>4. PICK listed \in [DOMAIN latest.work -> BOOLEAN] :
          started' = [j \in DOMAIN latest.work |-> TokenVariables(listed[j])]
    BY <1>3 DEF StartBatch
  <2>5. StartedInv'
    BY <2>1, <2>3, <2>4 DEF StartedInv
  <2> QED BY <2>1, <2>5
<1>4. CASE \/ SessionFails \/ AnswerUnreadable \/ Return \/ BoundaryThrows
           \/ CallbackThrows \/ PostFirst \/ PostNext
  <2>1. loop' \notin {"report", "boundary", "batch"}
    BY <1>4 DEF SessionFails, AnswerUnreadable, Return, BoundaryThrows, CallbackThrows,
         PostFirst, PostNext, Post
  <2> QED BY <2>1
<1>5. CASE Interrupt \/ UNCHANGED vars
  BY <1>5 DEF Interrupt, vars, StartedInv
<1>6. ASSUME NEW t \in Activities, ActivityDone(t) \/ ActivityFails(t) PROVE ContextInv'
  <2>1. UNCHANGED <<sent, context, engine, started, guard>> /\ (loop' = loop \/ loop' \in Ended)
    BY <1>6 DEF ActivityDone, ActivityFails, Ended
  <2> QED BY <2>1 DEF StartedInv, Ended
<1> QED BY <1>1, <1>2, <1>3, <1>4, <1>5, <1>6 DEF Next, LoopStep

LEMMA NextShown == IInv /\ [Next]_vars => ShownInv'
<1> SUFFICES ASSUME IInv, [Next]_vars PROVE ShownInv'
  OBVIOUS
<1> USE DEF IInv, ShownInv
<1>1. CASE StartBatch
  <2> SUFFICES ASSUME NEW p \in Prompts
               PROVE  shown'[p] = {} \/ (p \in seen' /\ \E b \in Boundaries : shown'[p] = {b})
    BY DEF ShownInv
  <2>1. p \in seen => p \in seen'
    BY <1>1 DEF StartBatch, Inspected
  <2>2. CASE p \in PromptsOf(latest.work)
    <3>1. shown[p] = {}
      BY <1>1, <2>2 DEF StartBatch, Stalled
    <3>2. shown'[p] = {guard'} /\ p \in seen'
      BY <1>1, <2>2, <3>1 DEF StartBatch, Inspected
    <3>3. guard' \in Boundaries
      BY <1>1, BoundsAssumption DEF StartBatch, Exhausted, TypeOK, Boundaries
    <3> QED BY <3>2, <3>3
  <2>3. CASE p \notin PromptsOf(latest.work)
    BY <1>1, <2>1, <2>3 DEF StartBatch
  <2> QED BY <2>2, <2>3
<1>2. CASE UNCHANGED <<seen, shown>>
  BY <1>2
<1> QED BY <1>1, <1>2 DEF Next, vars, Report, Answered, AnswerUnreadable, SessionFails, Interrupt,
      LoopStep, CallbackThrows, Return, BoundaryThrows, PostFirst, PostNext, ActivityDone, ActivityFails

-----------------------------------------------------------------------------
(* The loop always satisfies the invariant. *)
THEOREM InvariantHolds == Spec => []IInv
<1>1. IInv /\ [Next]_vars => IInv'
  BY NextType, NextPost, NextContext, NextShown DEF IInv
<1> QED BY <1>1, InitInv, PTL DEF Spec

(* runPendingHostWork and the posting loop: nothing of a batch reaches      *)
(* qianji unless all of its activities succeeded; then all of it does, once *)
(* and in the order of the batch, before the next boundary is met.          *)
THEOREM PostedInOrder == Spec => []BatchesPostedInOrder
<1>1. IInv => BatchesPostedInOrder
  BY DEF IInv, PostInv, BatchesPostedInOrder, CompletionsInOrder, Ordered, SentSucceeded,
         EarlierWhole, Whole
<1> QED BY <1>1, InvariantHolds, PTL

(* Activities start from the variables qianji has: options.context is what  *)
(* the last answer to a completion left, and the copies of a batch are made *)
(* of it and of the work items' own variables.  Only the first batch may    *)
(* start from what the loop was given.                                      *)
THEOREM ContextIsEngines == Spec => []ContextMatchesEngine
<1>1. IInv => ContextMatchesEngine
  BY DEF IInv, ContextInv, StartedInv, ContextMatchesEngine, ContextIsLast
<1> QED BY <1>1, InvariantHolds, PTL

(* WorkflowStallGuard lets no question with the same inputs be shown at two *)
(* boundaries.                                                              *)
THEOREM ShownOnce == Spec => []PromptShownOnce
<1>1. IInv => PromptShownOnce
  <2> SUFFICES ASSUME IInv, NEW p \in Prompts PROVE Cardinality(shown[p]) <= 1
    BY DEF PromptShownOnce
  <2>1. CASE shown[p] = {}
    BY <2>1, FS_EmptySet
  <2>2. ASSUME NEW b, shown[p] = {b} PROVE Cardinality(shown[p]) <= 1
    BY <2>2, FS_Singleton
  <2> QED BY <2>1, <2>2 DEF IInv, ShownInv
<1> QED BY <1>1, InvariantHolds, PTL

(* After the soft interrupt the loop starts no activity and posts no        *)
(* completion.                                                              *)
THEOREM InterruptStops == Spec => NothingBegunAfterInterrupt
<1>1. ASSUME TypeOK, [Next]_vars, signal
      PROVE  /\ sent' = sent
             /\ \A t \in Activities : activity[t] = "absent" => activity'[t] = "absent"
  <2>1. CASE UNCHANGED <<sent, activity>>
    BY <2>1
  <2>2. ASSUME NEW t \in Activities, ActivityFails(t) PROVE UNCHANGED sent /\
               \A u \in Activities : activity[u] = "absent" => activity'[u] = "absent"
    BY <2>2 DEF ActivityFails, TypeOK
  <2> QED BY <1>1, <2>1, <2>2 DEF Next, vars, Report, Answered, AnswerUnreadable, SessionFails,
        Interrupt, LoopStep, CallbackThrows, Return, BoundaryThrows, StartBatch, PostFirst, PostNext, Post, ActivityDone
<1>2. IInv => TypeOK
  BY DEF IInv
<1> QED BY <1>1, <1>2, InvariantHolds, PTL DEF Spec, NothingBegunAfterInterrupt

-----------------------------------------------------------------------------
(* The requests as RequestReply sees them: n completions were answered, and *)
(* request n + 1 is the last one sent.                                      *)
States(n, last) ==
  [k \in Requests |->
    CASE k <= n -> "replied" [] k > n + 1 -> "unsent" [] OTHER -> last]

LastState ==
  IF loop \in {"report", "completing"} THEN "pending"
  ELSE IF loop = "session failed" THEN "failed" ELSE "replied"

ConversationState == States(Len(sent), LastState)

Settles(s, t) == \E k \in Requests : s[k] = "pending" /\ \E r \in {"replied", "failed"} : t = [s EXCEPT ![k] = r]
Sends(s, t) ==
  \E k \in Requests :
    /\ s[k] = "unsent" /\ k - 1 \in Requests /\ s[k - 1] = "replied"
    /\ t = [s EXCEPT ![k] = "pending"]

LEMMA RequestsRange == \E m \in Nat \ {0} : Requests = 1..m
<1>1. MaxBoundaries * Width \in Nat
  BY BoundsAssumption
<1> QED BY <1>1 DEF Requests

LEMMA LastSettles ==
  ASSUME NEW n \in Nat, NEW r \in {"replied", "failed"}
  PROVE  States(n, r) = States(n, "pending") \/ Settles(States(n, "pending"), States(n, r))
<1>0. PICK m \in Nat \ {0} : Requests = 1..m
  BY RequestsRange
<1>1. CASE n + 1 \in Requests
  <2>1. States(n, r) = [States(n, "pending") EXCEPT ![n + 1] = r]
    <3>1. \A k \in Requests :
            States(n, r)[k] = IF k = n + 1 THEN r ELSE States(n, "pending")[k]
      BY <1>0 DEF States
    <3> QED BY <1>1, <3>1 DEF States
  <2>2. States(n, "pending")[n + 1] = "pending"
    BY <1>0, <1>1 DEF States
  <2> QED BY <1>1, <2>1, <2>2 DEF Settles
<1>2. CASE n + 1 \notin Requests
  BY <1>0, <1>2 DEF States
<1> QED BY <1>1, <1>2

LEMMA NextIsSent ==
  ASSUME NEW n \in Nat
  PROVE  States(n + 1, "pending") = States(n, "replied")
         \/ Sends(States(n, "replied"), States(n + 1, "pending"))
<1>0. PICK m \in Nat \ {0} : Requests = 1..m
  BY RequestsRange
<1>1. CASE n + 2 \in Requests
  <2>1. States(n + 1, "pending") = [States(n, "replied") EXCEPT ![n + 2] = "pending"]
    <3>1. \A k \in Requests :
            States(n + 1, "pending")[k] = IF k = n + 2 THEN "pending" ELSE States(n, "replied")[k]
      BY <1>0 DEF States
    <3> QED BY <1>1, <3>1 DEF States
  <2>2. /\ States(n, "replied")[n + 2] = "unsent" /\ (n + 2) - 1 \in Requests
        /\ States(n, "replied")[(n + 2) - 1] = "replied"
    BY <1>0, <1>1 DEF States
  <2> QED BY <1>1, <2>1, <2>2 DEF Sends
<1>2. CASE n + 2 \notin Requests
  BY <1>0, <1>2 DEF States
<1> QED BY <1>1, <1>2

(* Every step of the loop sends a request, settles one or leaves them.      *)
LEMMA StepConverses ==
  ASSUME IInv, [Next]_vars
  PROVE  \/ UNCHANGED ConversationState
         \/ Settles(ConversationState, ConversationState')
         \/ Sends(ConversationState, ConversationState')
<1> USE DEF IInv
<1>1. CASE sent' = sent /\ LastState' = LastState
  BY <1>1 DEF ConversationState, States
<1>2. CASE UNCHANGED sent /\ LastState = "pending" /\ LastState' \in {"replied", "failed"}
  <2>1. Len(sent) \in Nat
    BY DEF TypeOK
  <2>2. ConversationState = States(Len(sent), "pending")
    BY <1>2 DEF ConversationState
  <2>3. ConversationState' = States(Len(sent), LastState')
    BY <1>2 DEF ConversationState, States
  <2> QED BY <1>2, <2>1, <2>2, <2>3, LastSettles
<1>3. CASE Len(sent') = Len(sent) + 1 /\ LastState = "replied" /\ LastState' = "pending"
  <2>1. Len(sent) \in Nat
    BY DEF TypeOK
  <2>2. ConversationState = States(Len(sent), "replied")
    BY <1>3 DEF ConversationState
  <2>3. ConversationState' = States(Len(sent) + 1, "pending")
    BY <1>3 DEF ConversationState, States
  <2> QED BY <2>1, <2>2, <2>3, NextIsSent
<1>4. CASE Report \/ SessionFails \/ Answered \/ AnswerUnreadable
  BY <1>2, <1>4 DEF Report, SessionFails, Answered, AnswerUnreadable, AfterAnswer, LastState
<1>5. CASE \/ Interrupt \/ Return \/ BoundaryThrows \/ CallbackThrows
           \/ StartBatch \/ UNCHANGED vars
  BY <1>1, <1>5 DEF Interrupt, Return, BoundaryThrows, CallbackThrows, StartBatch, LastState, vars
<1>6. ASSUME NEW j \in DOMAIN Batch, Post(j), guard > 0, loop \in {"batch", "posting"}
      PROVE  \/ sent' = sent /\ LastState' = LastState
             \/ Len(sent') = Len(sent) + 1 /\ LastState = "replied" /\ LastState' = "pending"
  <2>1. Item(j) \in Activities
    BY <1>6, ItemsAreActivities
  <2>2. Len(Append(sent, Item(j))) = Len(sent) + 1
    BY <2>1 DEF TypeOK
  <2>3. LastState = "replied"
    BY <1>6 DEF LastState
  <2>4. CASE sent' = sent /\ loop' \in {"threw", "interrupted"}
    <3>1. LastState' = "replied"
      BY <2>4 DEF LastState
    <3> QED BY <2>3, <2>4, <3>1
  <2>5. CASE sent' = Append(sent, Item(j)) /\ loop' = "completing"
    BY <2>2, <2>3, <2>5 DEF LastState
  <2> QED BY <1>6, <2>4, <2>5 DEF Post
<1>7. CASE PostFirst
  BY <1>1, <1>3, <1>6, <1>7, BatchAtHand DEF PostFirst
<1>8. CASE PostNext
  BY <1>1, <1>3, <1>6, <1>8, NextItem, PostedIsItem DEF PostNext
<1>9. ASSUME NEW t \in Activities, ActivityDone(t) \/ ActivityFails(t)
      PROVE  sent' = sent /\ LastState' = LastState
  BY <1>9 DEF ActivityDone, ActivityFails, LastState
<1> QED BY <1>1, <1>4, <1>5, <1>7, <1>8, <1>9 DEF Next, LoopStep

(* The host loop uses the session as RequestReply allows: one request at a  *)
(* time, and none after one that failed.                                    *)
THEOREM ConversationUsed == Spec => UsesConversation
<1>0. \A k \in Requests : k \in Nat /\ k # 0
  BY RequestsRange
<1>1. Init => Conversation!Init
  <2> SUFFICES ASSUME Init PROVE Conversation!Init
    OBVIOUS
  <2>1. Len(sent) = 0 /\ loop = "report"
    BY DEF Init
  <2> QED BY <1>0, <2>1 DEF Conversation!Init
<1>2. IInv /\ [Next]_vars => [Conversation!Next]_(ConversationState)
  <2> SUFFICES ASSUME IInv, [Next]_vars
               PROVE  \/ UNCHANGED ConversationState
                      \/ Conversation!Next
    OBVIOUS
  <2>1. CASE Settles(ConversationState, ConversationState')
    BY <2>1 DEF Settles, ConversationState, States, LastState,
         Conversation!Next, Conversation!Settle
  <2>2. CASE Sends(ConversationState, ConversationState')
    BY <2>2 DEF Sends, ConversationState, States, LastState,
         Conversation!Next, Conversation!Send
  <2> QED BY <2>1, <2>2, StepConverses
<1>3. UsesConversation <=> Conversation!Init /\ [][Conversation!Next]_(ConversationState)
  BY DEF UsesConversation, Conversation!Spec, ConversationState, States, LastState
<1> QED BY <1>1, <1>2, <1>3, InvariantHolds, PTL DEF Spec

=============================================================================
