------------------------------ MODULE HostLoop ------------------------------
(***************************************************************************)
(* The executor's host loop (src/executor/executor-host-loop.ts): whenever  *)
(* qianji stops on host work, run the whole batch of activities             *)
(* concurrently, merge their outputs into the context, post the completions *)
(* one after the other, and start over with the last answer.                *)
(*                                                                         *)
(* qianji, the activities (agents and people) and the soft interrupt are    *)
(* the environment.  The session is used as RequestReply describes it.      *)
(* Activity <<b, j>> is item j of the batch of boundary b; every activity   *)
(* writes the same variable, and its output is named after the activity.    *)
(* qianji is taken to report its variables in every answer with work.       *)
(***************************************************************************)
EXTENDS Naturals, Sequences, FiniteSets

CONSTANTS
  MaxBoundaries,   \* 100 in the code
  Width,           \* bound: host work items in one batch
  Prompts          \* what users can be asked: a fingerprint of question and inputs

ASSUME BoundsAssumption ==
  /\ MaxBoundaries \in Nat \ {0}
  /\ Width \in Nat \ {0}
  /\ Prompts \cap {"service", "business_rule"} = {}

(* A user task, work for an agent, and work that has no completion request. *)
Kinds == Prompts \cup {"service", "business_rule"}
Batches == UNION {[1..n -> Kinds] : n \in 0..Width}

Boundaries == 1..MaxBoundaries
Activities == Boundaries \X (1..Width)
Start == <<0, 1>>                     \* the context the loop was given
FromEngine(b) == <<b, 0>>             \* a value qianji wrote itself after batch b
Values == {Start} \cup Activities \cup {FromEngine(b) : b \in 0..MaxBoundaries}

VARIABLES
  loop,       \* where runQianjiExternalHostLoopInternal is, or how it ended
  latest,     \* the last answer: [ok, blocked, work]
  guard,      \* host boundaries met
  activity,   \* the state of each activity
  batches,    \* the batch of each boundary; the last is hostCompletions
  sent,       \* the completions posted, in order
  context,    \* the value of the variable in options.context
  engine,     \* its value in qianji
  started,    \* tokenVariables: its value in the copy each activity of the batch got,
              \* and whether that is the work item's own
  seen,       \* the stall guard's fingerprints
  shown,      \* history: the boundaries at which each prompt was shown
  signal      \* the soft-interrupt signal has fired

vars == <<loop, latest, guard, activity, batches, sent, context, engine, started, seen, shown, signal>>

Ended == {"returned", "threw", "interrupted", "session failed"}

TypeOK ==
  /\ loop \in {"report", "boundary", "batch", "completing", "posting"} \cup Ended
  /\ latest \in [ok : BOOLEAN, blocked : BOOLEAN, work : Batches]
  /\ guard \in 0..MaxBoundaries
  /\ activity \in [Activities -> {"absent", "running", "done", "failed"}]
  /\ batches \in Seq(Batches) /\ Len(batches) = guard
  /\ sent \in Seq(Activities)
  /\ context \in Values /\ engine \in Values
  /\ started \in Seq([own : BOOLEAN, value : Values])
  /\ seen \in SUBSET Prompts
  /\ shown \in [Prompts -> SUBSET Boundaries]
  /\ signal \in BOOLEAN

Init ==
  /\ loop = "report"
  /\ latest = [ok |-> TRUE, blocked |-> FALSE, work |-> <<>>]
  /\ guard = 0
  /\ activity = [t \in Activities |-> "absent"]
  /\ batches = <<>>
  /\ sent = <<>>
  /\ context = Start /\ engine = Start
  /\ started = <<>>
  /\ seen = {} /\ shown = [p \in Prompts |-> {}]
  /\ signal = FALSE

(* What qianji answers: blocked on host work, finished, or an exit code.    *)
Blocked(work) == [ok |-> TRUE, blocked |-> TRUE, work |-> work]
Finished == [ok |-> TRUE, blocked |-> FALSE, work |-> <<>>]
Failed == [ok |-> FALSE, blocked |-> FALSE, work |-> <<>>]
Answer == {Blocked(work) : work \in Batches} \cup {Finished, Failed}

-----------------------------------------------------------------------------
(* session.initial: qianji has started the instance, or resumed it from a   *)
(* checkpoint, and may have written variables before the first boundary.    *)
(* They are not merged into the context.                                    *)
Report ==
  /\ loop = "report"
  /\ \E a \in Answer : latest' = a
  /\ engine' \in {Start, FromEngine(0)}
  /\ loop' = "boundary"
  /\ UNCHANGED <<guard, activity, batches, sent, context, started, seen, shown, signal>>

(* The while condition fails: the result is returned, good or bad. *)
Return ==
  /\ loop = "boundary"
  /\ ~latest.ok \/ ~latest.blocked
  /\ loop' = "returned"
  /\ UNCHANGED <<latest, guard, activity, batches, sent, context, engine, started, seen, shown, signal>>

PromptsOf(work) == {work[n] : n \in DOMAIN work} \cap Prompts

(* Mutant: the fingerprints of the batch before are forgotten. *)
Inspected_LastBatchOnly == PromptsOf(latest.work)

(* WorkflowStallGuard: what it has seen after this batch. *)
Inspected == seen \cup PromptsOf(latest.work)

Stalled == PromptsOf(latest.work) \cap seen # {}

Exhausted == guard = MaxBoundaries

(* The loop gives up at a boundary: interrupted, too many boundaries, a     *)
(* prompt that was shown before, or no host work.                           *)
BoundaryThrows ==
  /\ loop = "boundary" /\ latest.ok /\ latest.blocked
  /\ signal \/ Exhausted \/ Stalled \/ latest.work = <<>>
  /\ loop' = IF signal THEN "interrupted" ELSE "threw"
  /\ UNCHANGED <<latest, guard, activity, batches, sent, context, engine, started, seen, shown, signal>>

(* A callback that is told of the host work throws, or the form of a prompt *)
(* does not resolve when the stall guard looks at it.                       *)
CallbackThrows ==
  /\ loop = "boundary" /\ latest.ok /\ latest.blocked
  /\ ~signal /\ ~Exhausted /\ ~Stalled
  /\ loop' = "threw"
  /\ UNCHANGED <<latest, guard, activity, batches, sent, context, engine, started, seen, shown, signal>>

(* { ...options.variables, ...work.variables }: what an activity starts     *)
(* from is the work item's own value, as qianji had it, if the item lists   *)
(* the variable.                                                            *)
TokenVariables(listed) ==
  [own |-> listed, value |-> IF listed THEN engine ELSE context]

(* runPendingHostWork starts every activity of the batch in one go. *)
StartBatch ==
  /\ loop = "boundary" /\ latest.ok /\ latest.blocked
  /\ ~signal /\ ~Exhausted /\ ~Stalled /\ latest.work # <<>>
  /\ guard' = guard + 1
  /\ seen' = Inspected
  /\ batches' = Append(batches, latest.work)
  /\ activity' = [t \in Activities |->
       IF t[1] = guard' /\ t[2] <= Len(latest.work) THEN "running" ELSE activity[t]]
  /\ shown' = [p \in Prompts |->
       IF p \in PromptsOf(latest.work) THEN shown[p] \cup {guard'} ELSE shown[p]]
  /\ \E listed \in [DOMAIN latest.work -> BOOLEAN] :
       started' = [j \in DOMAIN latest.work |-> TokenVariables(listed[j])]
  /\ loop' = "batch"
  /\ UNCHANGED <<latest, sent, context, engine, signal>>

(* An activity produces valid outputs; after an interrupt they are refused. *)
ActivityDone(t) ==
  /\ activity[t] = "running"
  /\ ~signal
  /\ activity' = [activity EXCEPT ![t] = "done"]
  /\ UNCHANGED <<loop, latest, guard, batches, sent, context, engine, started, seen, shown, signal>>

(* Mutant: the failure of an activity does not reject the batch. *)
ActivityFails_BatchWaits(t) ==
  /\ activity[t] = "running"
  /\ activity' = [activity EXCEPT ![t] = "failed"]
  /\ UNCHANGED <<loop, latest, guard, batches, sent, context, engine, started, seen, shown, signal>>

(* An activity throws, or ends after the interrupt.  The first one rejects  *)
(* Promise.all and with it the loop; the others of its batch go on running. *)
ActivityFails(t) ==
  /\ activity[t] = "running"
  /\ activity' = [activity EXCEPT ![t] = "failed"]
  /\ IF loop = "batch"
       THEN \/ loop' = "threw"
            \/ signal /\ loop' = "interrupted"
       ELSE UNCHANGED loop
  /\ UNCHANGED <<latest, guard, batches, sent, context, engine, started, seen, shown, signal>>

Item(j) == <<guard, j>>
Batch == batches[guard]

(* Mutant: one finished activity is enough. *)
BatchDone_Any == \E j \in DOMAIN Batch : activity[Item(j)] = "done"

BatchDone == \A j \in DOMAIN Batch : activity[Item(j)] = "done"

(* Mutant: a completion is posted after the interrupt too. *)
Post_Uninterrupted(j) ==
  IF Batch[j] = "business_rule"
    THEN loop' = "threw" /\ UNCHANGED sent
    ELSE loop' = "completing" /\ sent' = Append(sent, Item(j))

(* Build the completion request of item j and hand it to the session, which *)
(* throws after an interrupt, or if it is closed.                           *)
Post(j) ==
  \/ /\ Batch[j] = "business_rule"
     /\ loop' = "threw"
     /\ UNCHANGED sent
  \/ /\ Batch[j] # "business_rule" /\ signal
     /\ loop' = "interrupted"
     /\ UNCHANGED sent
  \/ /\ Batch[j] # "business_rule" /\ ~signal
     /\ \/ loop' = "threw" /\ UNCHANGED sent
        \/ loop' = "completing" /\ sent' = Append(sent, Item(j))

(* Every activity of the batch is done: the outputs are merged in batch     *)
(* order, so the last one wins, and the first completion is posted.  The    *)
(* copies the activities had are gone.                                      *)
PostFirst ==
  /\ loop = "batch" /\ BatchDone
  /\ context' = Item(Len(Batch))
  /\ started' = <<>>
  /\ Post(1)
  /\ UNCHANGED <<latest, guard, activity, batches, engine, seen, shown, signal>>

Posted == sent[Len(sent)]

(* Post the rest of the batch, unless qianji exited with an error. *)
AfterAnswer(a) == IF a.ok /\ Posted[2] < Len(Batch) THEN "posting" ELSE "boundary"

(* Mutant: the variables of the answer are not merged. *)
Merge_Nothing == UNCHANGED context

(* Object.assign(options.context, resultVariables(latest)) *)
Merge == context' = engine'

(* The answer to a completion.  qianji has taken the output, and after the  *)
(* last of a batch, when it goes on to the next boundary by itself, it may  *)
(* have written more.  The work listed in an earlier answer is not read.    *)
Answered ==
  /\ loop = "completing"
  /\ \E a \in Answer :
       /\ latest' = a
       /\ loop' = AfterAnswer(a)
  /\ engine' \in {Posted} \cup (IF Posted[2] = Len(Batch) THEN {FromEngine(guard)} ELSE {})
  /\ Merge
  /\ UNCHANGED <<guard, activity, batches, sent, started, seen, shown, signal>>

(* Mutant: the completions of a batch are posted without awaiting answers. *)
PostNext_NotAwaited ==
  /\ loop \in {"posting", "completing"}
  /\ Posted[2] < Len(Batch)
  /\ Post(Posted[2] + 1)
  /\ UNCHANGED <<latest, guard, activity, batches, context, engine, started, seen, shown, signal>>

PostNext ==
  /\ loop = "posting"
  /\ Post(Posted[2] + 1)
  /\ UNCHANGED <<latest, guard, activity, batches, context, engine, started, seen, shown, signal>>

(* The answer came, but its block of variables cannot be read. *)
AnswerUnreadable ==
  /\ loop = "completing"
  /\ loop' = "threw"
  /\ engine' = Posted
  /\ UNCHANGED <<latest, guard, activity, batches, sent, context, started, seen, shown, signal>>

(* The session rejects: the process died, a trace handler threw, or the     *)
(* interrupt killed the process (then the error is the interrupt).  qianji  *)
(* may have taken the completion all the same.                              *)
SessionFails ==
  /\ loop \in {"report", "completing"}
  /\ loop' = "session failed"
  /\ engine' \in {engine} \cup (IF loop = "completing" THEN {Posted} ELSE {})
  /\ UNCHANGED <<latest, guard, activity, batches, sent, context, started, seen, shown, signal>>

Interrupt ==
  /\ ~signal
  /\ signal' = TRUE
  /\ UNCHANGED <<loop, latest, guard, activity, batches, sent, context, engine, started, seen, shown>>

LoopStep == Return \/ BoundaryThrows \/ StartBatch \/ PostFirst \/ PostNext

Next ==
  \/ Report \/ Answered \/ AnswerUnreadable \/ SessionFails
  \/ CallbackThrows \/ Interrupt
  \/ LoopStep
  \/ \E t \in Activities : ActivityDone(t) \/ ActivityFails(t)

(* The loop's own code runs; nothing is assumed of anyone else. *)
Fairness == WF_vars(LoopStep)

Spec == Init /\ [][Next]_vars /\ Fairness

-----------------------------------------------------------------------------
Before(s, t) == s[1] < t[1] \/ (s[1] = t[1] /\ s[2] < t[2])

(* A part of the next property: no completion is posted twice or out of     *)
(* order, and no boundary is met before the whole batch of the one before   *)
(* was posted.                                                              *)
CompletionsInOrder ==
  /\ \A m, n \in DOMAIN sent : m < n => Before(sent[m], sent[n])
  /\ \A b \in 1..guard - 1 : \A j \in DOMAIN batches[b] : \E n \in DOMAIN sent : sent[n] = <<b, j>>

(* Nothing of a batch reaches qianji unless all of its activities           *)
(* succeeded; then all of it does, once and in order.                       *)
BatchesPostedInOrder ==
  /\ CompletionsInOrder
  /\ \A n \in DOMAIN sent :
       \A j \in DOMAIN batches[sent[n][1]] : activity[<<sent[n][1], j>>] = "done"

(* A part of the next property: between an answer and the end of the next   *)
(* batch the context is qianji's, and before any answer to a completion it  *)
(* is what the loop was given.                                              *)
ContextIsLast ==
  loop \in {"boundary", "batch"} => context = IF sent = <<>> THEN Start ELSE engine

(* Activities start from the variables qianji has: neither outputs that it  *)
(* did not take, nor values that it has replaced since, nor the outputs of  *)
(* activities of the same batch.  The one exception is the first batch,     *)
(* where what the work item does not list is as the loop was given it: what *)
(* qianji wrote before the first boundary is not merged.                    *)
ContextMatchesEngine ==
  /\ ContextIsLast
  /\ loop = "batch" =>
       \A j \in DOMAIN started :
         \/ started[j].value = engine
         \/ guard = 1 /\ ~started[j].own /\ started[j].value = Start

(* The same question with the same inputs is shown at one boundary at most  *)
(* (docs/start-at-node.md).                                                 *)
PromptShownOnce == \A p \in Prompts : Cardinality(shown[p]) <= 1

(* After the soft interrupt no activity starts and no completion is posted. *)
NothingBegunAfterInterrupt ==
  [][signal => sent' = sent
       /\ \A t \in Activities : activity[t] = "absent" => activity'[t] = "absent"]_vars

(* If every activity ends and the session settles every request, so does    *)
(* the loop, whatever qianji answers.                                       *)
EnvironmentAnswers ==
  /\ \A t \in Activities : []<>(activity[t] # "running")
  /\ []<>(loop \notin {"report", "completing"})

LoopEnds == EnvironmentAnswers => <>(loop \in Ended)

(* The loop never has two requests open, and sends none after a failed one. *)
Requests == 1..(1 + MaxBoundaries * Width)
Conversation == INSTANCE RequestReply WITH
  state <- [k \in Requests |->
              CASE k <= Len(sent) -> "replied"
                [] k > Len(sent) + 1 -> "unsent"
                [] OTHER -> IF loop \in {"report", "completing"} THEN "pending"
                            ELSE IF loop = "session failed" THEN "failed" ELSE "replied"]
UsesConversation == Conversation!Spec
=============================================================================
