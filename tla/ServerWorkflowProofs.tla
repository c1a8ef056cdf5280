------------------------ MODULE ServerWorkflowProofs ------------------------
(***************************************************************************)
(* Proofs about ServerWorkflow, for every number of runs, boundaries, late  *)
(* requests and nodes: its type invariant, and the three properties of its  *)
(* run: ToldIsTrue, TakenWorkNotRepeated and CheckpointNotOverwritten.      *)
(*                                                                         *)
(* The inductive invariant says what a run may conclude from an answer: the *)
(* answer belongs to the request its place in the program asks, the server  *)
(* did what the answer says, and, as long as no request is served late,     *)
(* nothing has moved the instance on since.                                 *)
(***************************************************************************)
EXTENDS ServerWorkflow, FiniteSetTheorems, TLAPS

Starts == {r \in wire : r.op = "start"}

(* A run asks for one start at most, and the server serves it once: no more *)
(* lives than runs.                                                         *)
LivesInv ==
  /\ IsFiniteSet(wire)
  /\ Cardinality(Starts) + life <= run
  /\ pc \in {"checking", "resuming"} => Cardinality(Starts) + life < run
  /\ pc # "idle" => run # 0

(* What a run waits for depends on where it is.                             *)
AskingInv ==
  /\ asking # None =>
       /\ asking.run = run
       /\ \/ pc = "resuming" /\ asking.op = "resume"
          \/ pc = "starting" /\ asking.op = "start"
          \/ pc = "completing" /\ asking.op = "complete" /\ asking.visits = latest
          \/ pc = "reporting" /\ asking.op = "fail"
          \/ pc = "recovering" /\ asking.op = "apply"
  /\ reply # None => asking # None /\ asking \notin wire

(* The server counts the boundaries of a life up, and what it took lies     *)
(* before the one it is at.                                                 *)
ServerInv ==
  /\ instance # "open" => pending = {}
  /\ instance = "open" => life # 0 /\ at # 0
  /\ \A v \in applied :
       v[1] <= life /\ (v[1] = life /\ instance = "open" => v[2] < at)

(* What an answer says the server did, it did.                              *)
AnswerInv ==
  reply # None =>
    /\ pc = "completing" /\ reply.outcome # "refused" => latest \subseteq applied
    /\ reply.outcome \in {"completed", "failed"} => reply.visits = {}
    /\ reply.outcome = "applied" => run \in recovered

(* Nobody but the run itself moves the instance on, unless a request is     *)
(* served late.                                                             *)
OnlyOwnRequests ==
  ~late =>
    /\ reply # None => reply.visits \cap applied = {}
    /\ reply # None /\ reply.outcome = "missing" => instance = "none"
    /\ pc = "boundary" => latest \cap applied = {}
    /\ pc = "starting" /\ reply = None /\ asking # None /\ run \notin fresh => instance = "none"

(* The graph: what it shows as running is in the batch, and no batch is     *)
(* left when the run is over.                                               *)
ShownInv ==
  /\ pc \in {"checking", "resuming", "starting"} => latest = {}
  /\ pc = "boundary" /\ outcome # "blocked" => latest = {}
  /\ \A n \in Nodes : shown[n] = "active" => n \in NodesOf(latest)
  /\ pc \in {"returned", "host failed"} => \A n \in Nodes : shown[n] # "active"

BrokenVisit(v) == \E w \in broken : w.life = v[1] /\ w.at = v[2]
BrokenRun(k) == \E w \in broken : w.run = k

(* Evidence is posted only of visits whose batch failed.                    *)
EvidenceInv ==
  /\ \A v \in evidence : BrokenVisit(v)
  /\ \A v \in toReport : BrokenVisit(v)
  /\ \A r \in wire : r.op = "fail" => \A v \in r.visits : BrokenVisit(v)

(* Recovery is asked for only by a run that opted in and whose host work    *)
(* failed.                                                                  *)
RecoveryInv ==
  /\ pc = "batch" => \A n \in Nodes : activity[n] = "running" => n \in NodesOf(latest)
  /\ pc \in {"reporting", "recovering"} => BrokenRun(run)
  /\ \A r \in wire : r.op = "apply" => r.run \in optedIn /\ BrokenRun(r.run)
  /\ \A k \in recovered : k \in optedIn /\ BrokenRun(k)
  /\ \A k \in optedIn : k <= run

(* Such a run says how it went.                                             *)
EarlyOn == {"checking", "resuming", "starting", "boundary", "batch", "completing", "reporting"}

ToldInv ==
  /\ pc \in EarlyOn => run \notin optedIn
  /\ "attempted" \in told => run \in recovered
  /\ pc = "diagnosing" /\ run \in optedIn => "apply failed" \in told
  /\ pc = "host failed" /\ run \in optedIn => told \cap {"attempted", "apply failed"} # {}

IInv ==
  /\ TypeOK
  /\ LivesInv /\ AskingInv /\ ServerInv
  /\ AnswerInv /\ OnlyOwnRequests
  /\ ShownInv /\ EvidenceInv /\ RecoveryInv /\ ToldInv
  /\ closed \subseteq applied
  /\ TakenWorkNotRepeated /\ CheckpointNotOverwritten

-----------------------------------------------------------------------------
(* Lemmas about the operators the actions are built from.                   *)
LEMMA RequestsAndAnswers ==
  /\ \A r \in Requests : r # None /\ r.run \in Runs /\ r.visits \in Batches
  /\ \A a \in Answers : a # None /\ a.visits \in Batches
BY DEF Requests, Answers, None

(* One more request on the wire, and it is the one waited for.              *)
LEMMA SendAsks ==
  ASSUME TypeOK, run \in Runs, NEW visits \in Batches,
         NEW op \in {"resume", "start", "complete", "fail", "apply"}, Send(op, visits)
  PROVE  /\ asking' = Request(op, visits) /\ asking' \in Requests
         /\ asking'.op = op /\ asking'.run = run /\ asking'.visits = visits
         /\ wire' = wire \cup {asking'} /\ wire' \in SUBSET Requests
         /\ reply' = None
<1>1. Request(op, visits) \in Requests
  BY DEF Request, Requests
<1> QED BY <1>1 DEF Send, Request, TypeOK

(* An answer, or the lack of one, ends the waiting and sends nothing.       *)
LEMMA AskingEnds ==
  ASSUME Answered \/ Unanswered \/ (Abandoned /\ asking' = None /\ reply' = None)
  PROVE  asking' = None /\ reply' = None /\ wire' \subseteq wire
BY DEF Answered, Unanswered, Abandoned

(* The visits of a batch, and what the server reports of them.              *)
LEMMA CurrentType ==
  ASSUME life \in 0..MaxRuns, at \in 0..MaxBoundaries, pending \in SUBSET Nodes,
         pending # {} => life # 0 /\ at # 0
  PROVE  Current \in Batches
<1> SUFFICES ASSUME NEW n \in pending PROVE <<life, at, n>> \in Visits
  BY DEF Current, Batches
<1>1. life \in 1..MaxRuns /\ at \in 1..MaxBoundaries
  BY BoundsAssumption
<1> QED BY <1>1 DEF Visits

LEMMA ReportType ==
  ASSUME TypeOK, ServerInv
  PROVE  Current \in Batches /\ Report \in Answers /\ Report.visits = Current
<1>1. Current \in Batches
  BY CurrentType DEF TypeOK, ServerInv
<1> QED BY <1>1 DEF Report, Answers, Outcomes

LEMMA RefusalType == Refusal \in Answers /\ Applied \in Answers
BY DEF Refusal, Applied, Answers, Outcomes, Batches

LEMMA StopAtType ==
  ASSUME NEW l \in 1..MaxRuns, NEW b \in Nat \ {0}, StopAt(l, b)
  PROVE  /\ life' = l /\ at' \in 0..MaxBoundaries /\ pending' \in SUBSET Nodes
         /\ instance' \in {"none", "open", "failed"}
         /\ instance' # "open" => pending' = {}
         /\ instance' = "open" => at' = b
         /\ NewReport \in Answers /\ NewReport.visits = Current'
         /\ NewReport.outcome # "missing"
         /\ NewReport.outcome \in {"completed", "failed"} => instance' # "open"
<1>1. /\ life' = l /\ at' \in 0..MaxBoundaries /\ pending' \in SUBSET Nodes
      /\ instance' \in {"none", "open", "failed"}
      /\ instance' # "open" => pending' = {}
      /\ instance' = "open" => at' = b
  BY BoundsAssumption DEF StopAt
<1>2. Current' \in Batches
  <2> SUFFICES ASSUME NEW n \in pending' PROVE <<life', at', n>> \in Visits
    BY DEF Current, Batches
  <2>1. at' = b /\ at' \in 1..MaxBoundaries
    BY <1>1, BoundsAssumption
  <2> QED BY <1>1, <2>1 DEF Visits
<1>3. NewReport \in Answers /\ NewReport.visits = Current'
  BY <1>2 DEF NewReport, Answers, Outcomes
<1>4. NewReport.outcome = (CASE instance' = "open" -> "blocked" [] instance' = "none" -> "completed"
                             [] OTHER -> "failed")
  BY DEF NewReport
<1> QED BY <1>1, <1>3, <1>4

-----------------------------------------------------------------------------
(* The starts on the wire, counted.                                         *)
LEMMA StartsShrink ==
  ASSUME IsFiniteSet(wire), wire' \subseteq wire
  PROVE  /\ IsFiniteSet(wire') /\ Cardinality(Starts) \in Nat /\ Cardinality(Starts)' \in Nat
         /\ Cardinality(Starts)' <= Cardinality(Starts)
<1>1. IsFiniteSet(Starts) /\ Starts \subseteq wire
  BY FS_Subset DEF Starts
<1>2. Starts' \subseteq Starts
  BY DEF Starts
<1> QED BY <1>1, <1>2, FS_Subset, FS_CardinalityType

LEMMA StartsGrow ==
  ASSUME IsFiniteSet(wire), NEW r, wire' = wire \cup {r}
  PROVE  /\ IsFiniteSet(wire') /\ Cardinality(Starts) \in Nat /\ Cardinality(Starts)' \in Nat
         /\ Cardinality(Starts)' <= Cardinality(Starts) + 1
         /\ r.op # "start" => Cardinality(Starts)' = Cardinality(Starts)
<1>1. IsFiniteSet(Starts) /\ IsFiniteSet(wire')
  BY FS_Subset, FS_AddElement DEF Starts
<1>2. Cardinality(Starts) \in Nat
  BY <1>1, FS_CardinalityType
<1>3. CASE r.op = "start"
  <2>1. Starts' = Starts \cup {r}
    BY <1>3 DEF Starts
  <2>2. Cardinality(Starts)' = Cardinality(Starts \cup {r})
    BY <2>1
  <2>3. Cardinality(Starts \cup {r}) = Cardinality(Starts) \/
          Cardinality(Starts \cup {r}) = Cardinality(Starts) + 1
    BY <1>1, FS_AddElement
  <2> QED BY <1>1, <1>2, <1>3, <2>2, <2>3
<1>4. CASE r.op # "start"
  <2>1. Starts' = Starts
    BY <1>4 DEF Starts
  <2> QED BY <1>1, <1>2, <1>4, <2>1
<1> QED BY <1>3, <1>4

LEMMA StartServed ==
  ASSUME IsFiniteSet(wire), NEW r \in wire, r.op = "start", wire' = wire \ {r}
  PROVE  /\ IsFiniteSet(wire') /\ Cardinality(Starts) \in Nat /\ Cardinality(Starts)' \in Nat
         /\ Cardinality(Starts)' = Cardinality(Starts) - 1
         /\ Cardinality(Starts) > 0
<1>1. IsFiniteSet(Starts) /\ IsFiniteSet(wire')
  BY FS_Subset, FS_RemoveElement DEF Starts
<1>2. r \in Starts /\ Starts' = Starts \ {r}
  BY DEF Starts
<1>3. Cardinality(Starts)' = Cardinality(Starts) - 1
  BY <1>1, <1>2, FS_RemoveElement
<1>4. Cardinality(Starts) \in Nat /\ Cardinality(Starts)' \in Nat
  BY <1>1, <1>2, FS_RemoveElement, FS_CardinalityType
<1> QED BY <1>1, <1>3, <1>4

-----------------------------------------------------------------------------
(* The steps of a run and of the server, apart from each other.             *)
Opens == OpenInstance \/ CheckFails \/ Opened \/ FallBackToStart \/ OpeningFails
Crosses ==
  \/ Return \/ BoundaryThrows \/ StartBatch
  \/ \E n \in Nodes : ActivityDone(n) \/ ActivityFails(n)
  \/ BatchInterrupted \/ PostBatch \/ PostInterrupted \/ BatchAnswered \/ CompletionFails
Fails ==
  \/ \E v \in toReport : ReportNext(v)
  \/ ReportSettles
  \/ ApplyRecovery \/ RecoveryApplied \/ RecoveryFails \/ NoRecovery \/ Diagnose
Serves(r) ==
  ServeResume(r) \/ ServeStart(r) \/ ServeComplete(r) \/ ServeFail(r) \/ ServeApply(r) \/ Refuse(r)

LEMMA NextSteps ==
  Next <=> \/ StartRun \/ Opens \/ Crosses \/ Fails \/ Interrupt \/ Crash \/ Cancel
           \/ \E r \in wire : Serves(r)
BY DEF Next, Opens, Crosses, Fails, Serves

(* A step of a run leaves the server alone.                                 *)
LEMMA RunSteps ==
  ASSUME StartRun \/ Opens \/ Crosses \/ Fails \/ Interrupt \/ Crash
  PROVE  /\ instance' = instance /\ life' = life /\ at' = at /\ pending' = pending
         /\ applied' = applied /\ evidence' = evidence /\ recovered' = recovered
         /\ overwrote' = overwrote /\ late' = late
<1>1. CASE StartRun \/ Interrupt \/ Crash
  BY <1>1 DEF StartRun, Interrupt, Crash, server
<1>2. CASE Opens
  BY <1>2 DEF Opens, OpenInstance, CheckFails, Opened, FallBackToStart, OpeningFails, server
<1>3. CASE Crosses
  BY <1>3 DEF Crosses, Return, BoundaryThrows, StartBatch, ActivityDone, ActivityFails,
       BatchInterrupted, PostBatch, PostInterrupted, BatchAnswered, CompletionFails, server
<1>4. CASE Fails
  BY <1>4 DEF Fails, ReportNext, ReportSettles, ApplyRecovery, RecoveryApplied,
       RecoveryFails, NoRecovery, Diagnose, server
<1> QED BY <1>1, <1>2, <1>3, <1>4

(* Serving a request leaves its run alone, but for the answer.              *)
LEMMA ServerSteps ==
  ASSUME NEW r \in wire, Serves(r)
  PROVE  /\ run' = run /\ pc' = pc /\ fresh' = fresh /\ optedIn' = optedIn
         /\ signal' = signal /\ latest' = latest /\ outcome' = outcome
         /\ activity' = activity /\ toReport' = toReport /\ asking' = asking
         /\ shown' = shown /\ told' = told /\ closed' = closed /\ broken' = broken
         /\ repeated' = repeated /\ wire' = wire \ {r}
         /\ r # asking => late' /\ reply' = reply
         /\ late => late'
BY DEF Serves, ServeResume, ServeStart, ServeComplete, ServeFail, ServeApply, Refuse,
     Serve, client, choices

LEMMA CancelStep ==
  ASSUME Cancel
  PROVE  /\ instance' = "none" /\ at' = 0 /\ pending' = {} /\ UNCHANGED <<client, reply, wire>>
         /\ run' = run /\ pc' = pc /\ fresh' = fresh /\ optedIn' = optedIn
         /\ signal' = signal /\ latest' = latest /\ outcome' = outcome
         /\ activity' = activity /\ toReport' = toReport /\ asking' = asking
         /\ shown' = shown /\ told' = told /\ reply' = reply /\ wire' = wire
         /\ life' = life /\ applied' = applied /\ evidence' = evidence
         /\ recovered' = recovered /\ overwrote' = overwrote /\ late' = late
         /\ closed' = closed /\ broken' = broken /\ repeated' = repeated
BY DEF Cancel, client, choices

-----------------------------------------------------------------------------
(* The types, in four parts.                                                *)
RunType ==
  /\ run \in 0..MaxRuns
  /\ pc \in {"checking", "resuming", "starting", "boundary", "batch", "completing",
              "reporting", "recovering", "diagnosing"} \cup Ended
  /\ fresh \subseteq Runs /\ optedIn \subseteq Runs
  /\ signal \in BOOLEAN /\ latest \in Batches
  /\ outcome \in {"blocked", "completed", "failed"}
  /\ activity \in [Nodes -> {"absent", "running", "done"}]
  /\ toReport \in Batches
  /\ shown \in [Nodes -> {"idle", "active", "completed", "failed"}]
  /\ told \subseteq Lines
AskType ==
  /\ asking \in Requests \cup {None} /\ reply \in Answers \cup {None}
  /\ wire \in SUBSET Requests
ServerType ==
  /\ instance \in {"none", "open", "failed"}
  /\ life \in 0..MaxRuns /\ at \in 0..MaxBoundaries /\ pending \in SUBSET Nodes
  /\ applied \in Batches /\ evidence \in Batches
  /\ recovered \subseteq Runs
  /\ overwrote \in BOOLEAN /\ late \in BOOLEAN
HistoryType ==
  /\ closed \in Batches
  /\ broken \subseteq [run : Runs, life : 1..MaxRuns, at : 1..MaxBoundaries]
  /\ repeated \in BOOLEAN

LEMMA TypeParts == TypeOK <=> RunType /\ AskType /\ ServerType /\ HistoryType
BY DEF TypeOK, RunType, AskType, ServerType, HistoryType

LEMMA TypePartsNext == RunType' /\ AskType' /\ ServerType' /\ HistoryType' => TypeOK'
BY DEF TypeOK, RunType, AskType, ServerType, HistoryType

LEMMA RunningType ==
  ASSUME TypeOK, LivesInv, pc # "idle"
  PROVE  run \in Runs
BY DEF LivesInv, TypeOK, Runs

LEMMA RunStepType ==
  ASSUME TypeOK, LivesInv, StartRun \/ Opens \/ Crosses \/ Fails \/ Interrupt \/ Crash
  PROVE  RunType'
<1>0. RunType /\ AskType
  BY TypeParts
<1> USE DEF Show
<1>1. CASE StartRun
  <2>1. run' \in 0..MaxRuns
    BY <1>0, <1>1, BoundsAssumption DEF StartRun, RunType
  <2>2. activity' \in [Nodes -> {"absent", "running", "done"}]
        /\ shown' \in [Nodes -> {"idle", "active", "completed", "failed"}]
    BY <1>0, <1>1 DEF StartRun, RunType
  <2>3. latest' = {} /\ toReport' = {} /\ told' = {} /\ signal' = FALSE /\ outcome' = "blocked"
        /\ pc' = "checking" /\ fresh' = fresh /\ optedIn' = optedIn
    BY <1>1 DEF StartRun, choices
  <2> QED BY <1>0, <2>1, <2>2, <2>3 DEF RunType, Batches
<1>2. CASE Opens
  <2>1. ASSUME OpenInstance PROVE RunType'
    BY <1>0, <2>1, RunningType DEF OpenInstance, RunType, Ended
  <2>2. ASSUME CheckFails \/ FallBackToStart \/ OpeningFails PROVE RunType'
    BY <1>0, <2>2 DEF CheckFails, FallBackToStart, OpeningFails, RunType, choices, Ended
  <2>3. ASSUME Opened PROVE RunType'
    <3>1. reply.visits \in Batches
      BY <1>0, <2>3, RequestsAndAnswers DEF Opened, Answered, AskType
    <3> QED BY <1>0, <2>3, <3>1 DEF Opened, RunType, choices
  <2> QED BY <1>2, <2>1, <2>2, <2>3 DEF Opens
<1>3. CASE Crosses
  <2>1. ASSUME Return \/ BoundaryThrows \/ BatchInterrupted \/ PostBatch PROVE RunType'
    BY <1>0, <2>1 DEF Return, BoundaryThrows, BatchInterrupted, PostBatch, RunType, choices, Ended
  <2>2. ASSUME StartBatch PROVE RunType'
    BY <1>0, <2>2 DEF StartBatch, RunType, choices
  <2>3. ASSUME NEW n \in Nodes, ActivityDone(n) \/ ActivityFails(n) PROVE RunType'
    BY <1>0, <2>3 DEF ActivityDone, ActivityFails, RunType, choices
  <2>4. ASSUME PostInterrupted \/ CompletionFails PROVE RunType'
    BY <1>0, <2>4 DEF PostInterrupted, CompletionFails, RunType, choices, Ended
  <2>5. ASSUME BatchAnswered PROVE RunType'
    <3>1. reply.visits \in Batches
      BY <1>0, <2>5, RequestsAndAnswers DEF BatchAnswered, Answered, AskType
    <3>2. shown' \in [Nodes -> {"idle", "active", "completed", "failed"}]
      BY <1>0, <2>5 DEF BatchAnswered, CloseNodes, RunType
    <3> QED BY <1>0, <2>5, <3>1, <3>2 DEF BatchAnswered, RunType, choices
  <2> QED BY <1>3, <2>1, <2>2, <2>3, <2>4, <2>5 DEF Crosses
<1>4. CASE Fails
  <2>1. ASSUME NEW v \in toReport, ReportNext(v) PROVE RunType'
    BY <1>0, <2>1 DEF ReportNext, RunType, choices, Batches
  <2>2. ASSUME ReportSettles \/ NoRecovery PROVE RunType'
    BY <1>0, <2>2 DEF ReportSettles, NoRecovery, RunType, choices
  <2>3. ASSUME ApplyRecovery \/ RecoveryFails PROVE RunType'
    BY <1>0, <2>3, RunningType DEF ApplyRecovery, RecoveryFails, Reported, Tell, RunType, Lines
  <2>4. ASSUME RecoveryApplied \/ Diagnose PROVE RunType'
    BY <1>0, <2>4 DEF RecoveryApplied, Diagnose, EndHostFailed, Tell, RunType, choices, Lines, Ended
  <2> QED BY <1>4, <2>1, <2>2, <2>3, <2>4 DEF Fails
<1>5. CASE Interrupt \/ Crash
  BY <1>0, <1>5 DEF Interrupt, Crash, RunType, choices, Ended
<1> QED BY <1>1, <1>2, <1>3, <1>4, <1>5

-----------------------------------------------------------------------------
(* What a step of a run does to the waiting: it ends it, leaves it as it    *)
(* is, or begins it with one request.                                       *)
StopsAsking ==
  asking' = None /\ reply' = None /\ wire' \subseteq wire /\ pc' \notin {"checking", "resuming"}

KeepsAsking ==
  /\ asking' = asking /\ reply' = reply /\ wire' = wire /\ latest' = latest
  /\ asking # None => pc' = pc
  /\ pc' \in {"checking", "resuming"} => pc' = pc

Asks(op, visits) ==
  /\ Send(op, visits) /\ visits \in Batches /\ latest' = latest
  /\ \/ op = "resume" /\ pc = "checking" /\ pc' = "resuming"
     \/ op = "start" /\ pc \in {"checking", "resuming"} /\ pc' = "starting"
     \/ op = "complete" /\ visits = latest /\ pc = "batch" /\ pc' = "completing"
     \/ op = "fail" /\ visits \subseteq toReport /\ pc = "reporting" /\ pc' = "reporting"
     \/ op = "apply" /\ pc = "reporting" /\ pc' = "recovering"

Operations == {"resume", "start", "complete", "fail", "apply"}

LEMMA RunAsks ==
  ASSUME TypeOK, LivesInv, AskingInv, Opens \/ Crosses \/ Fails \/ Interrupt \/ Crash
  PROVE  /\ run' = run /\ run \in Runs /\ pc' # "idle"
         /\ StopsAsking \/ KeepsAsking \/ \E op \in Operations, visits \in Batches : Asks(op, visits)
<1>0. {} \in Batches /\ latest \in Batches /\ \A v \in toReport : {v} \in Batches
  BY DEF TypeOK, Batches
<1>1. CASE Opens
  <2>1. pc # "idle" /\ run' = run /\ pc' # "idle"
    BY <1>1 DEF Opens, OpenInstance, CheckFails, Opened, FallBackToStart, OpeningFails, Opening
  <2>2. ASSUME OpenInstance PROVE Asks("resume", {}) \/ Asks("start", {})
    BY <1>0, <2>2 DEF OpenInstance, Asks
  <2>3. ASSUME FallBackToStart PROVE Asks("start", {})
    BY <1>0, <2>3 DEF FallBackToStart, Asks
  <2>4. ASSUME CheckFails PROVE KeepsAsking
    BY <2>4 DEF CheckFails, KeepsAsking, AskingInv
  <2>5. ASSUME Opened \/ OpeningFails PROVE StopsAsking
    BY <2>5, AskingEnds DEF Opened, OpeningFails, StopsAsking
  <2> QED BY <1>0, <1>1, <2>1, <2>2, <2>3, <2>4, <2>5, RunningType DEF Opens, Operations
<1>2. CASE Crosses
  <2>1. pc # "idle" /\ run' = run /\ pc' # "idle"
    BY <1>2 DEF Crosses, Return, BoundaryThrows, StartBatch, ActivityDone, ActivityFails,
         BatchInterrupted, PostBatch, PostInterrupted, BatchAnswered, CompletionFails
  <2>2. ASSUME PostBatch PROVE Asks("complete", latest)
    BY <1>0, <2>2 DEF PostBatch, Asks
  <2>3. ASSUME BatchAnswered \/ CompletionFails PROVE StopsAsking
    BY <2>3, AskingEnds DEF BatchAnswered, CompletionFails, StopsAsking
  <2>4. ASSUME \/ Return \/ BoundaryThrows \/ StartBatch \/ BatchInterrupted \/ PostInterrupted
               \/ \E n \in Nodes : ActivityDone(n) \/ ActivityFails(n)
        PROVE  KeepsAsking
    BY <2>4 DEF Return, BoundaryThrows, StartBatch, BatchInterrupted, PostInterrupted,
         ActivityDone, ActivityFails, KeepsAsking, AskingInv
  <2> QED BY <1>0, <1>2, <2>1, <2>2, <2>3, <2>4, RunningType DEF Crosses, Operations
<1>3. CASE Fails
  <2>1. pc # "idle" /\ run' = run /\ pc' # "idle"
    BY <1>3 DEF Fails, ReportNext, ReportSettles, ApplyRecovery, RecoveryApplied,
         RecoveryFails, NoRecovery, Diagnose, Reported, EndHostFailed
  <2>2. ASSUME NEW v \in toReport, ReportNext(v) PROVE KeepsAsking \/ Asks("fail", {v})
    BY <1>0, <2>2 DEF ReportNext, KeepsAsking, Asks
  <2>3. ASSUME ApplyRecovery PROVE Asks("apply", {})
    BY <1>0, <2>3 DEF ApplyRecovery, Reported, Asks
  <2>4. ASSUME NoRecovery \/ Diagnose PROVE KeepsAsking
    BY <2>4 DEF NoRecovery, Diagnose, Reported, EndHostFailed, KeepsAsking, AskingInv
  <2>5. ASSUME ReportSettles \/ RecoveryApplied PROVE StopsAsking
    BY <2>5, AskingEnds DEF ReportSettles, RecoveryApplied, EndHostFailed, StopsAsking
  <2>6. ASSUME RecoveryFails PROVE KeepsAsking \/ StopsAsking
    BY <2>6, AskingEnds DEF RecoveryFails, Reported, KeepsAsking, StopsAsking
  <2> QED BY <1>0, <1>3, <2>1, <2>2, <2>3, <2>4, <2>5, <2>6, RunningType DEF Fails, Operations
<1>4. CASE Interrupt \/ Crash
  <2>1. ASSUME Interrupt PROVE KeepsAsking /\ run' = run /\ pc # "idle" /\ pc' # "idle"
    BY <2>1 DEF Interrupt, KeepsAsking, Ended
  <2>2. ASSUME Crash PROVE StopsAsking /\ run' = run /\ pc # "idle" /\ pc' # "idle"
    BY <2>2, AskingEnds DEF Crash, StopsAsking, Ended
  <2> QED BY <1>4, <2>1, <2>2, RunningType
<1> QED BY <1>1, <1>2, <1>3, <1>4

LEMMA AskTypeKept ==
  ASSUME TypeOK, LivesInv, AskingInv, StartRun \/ Opens \/ Crosses \/ Fails \/ Interrupt \/ Crash
  PROVE  AskType'
<1>0. AskType
  BY TypeParts
<1>1. CASE StartRun
  BY <1>0, <1>1 DEF StartRun, AskType
<1>2. CASE StopsAsking \/ KeepsAsking
  BY <1>0, <1>2 DEF StopsAsking, KeepsAsking, AskType
<1>3. ASSUME run \in Runs, NEW op \in Operations, NEW visits \in Batches, Asks(op, visits)
      PROVE  AskType'
  BY <1>3, SendAsks DEF Asks, AskType, Operations
<1> QED BY <1>1, <1>2, <1>3, RunAsks

LEMMA HistoryTypeKept ==
  ASSUME TypeOK, StartRun \/ Opens \/ Crosses \/ Fails \/ Interrupt \/ Crash, run \in Runs \/ StartRun
  PROVE  HistoryType'
<1>0. HistoryType /\ AskType /\ latest \in Batches
  BY TypeParts DEF TypeOK
<1>1. CASE StartRun \/ Interrupt \/ Crash
  BY <1>0, <1>1 DEF StartRun, Interrupt, Crash, HistoryType
<1>2. CASE Opens
  BY <1>0, <1>2 DEF Opens, OpenInstance, CheckFails, Opened, FallBackToStart, OpeningFails, HistoryType
<1>3. CASE Fails
  BY <1>0, <1>3 DEF Fails, ReportNext, ReportSettles, ApplyRecovery, RecoveryApplied,
       RecoveryFails, NoRecovery, Diagnose, HistoryType
<1>4. CASE Crosses
  <2>1. ASSUME \/ Return \/ BoundaryThrows \/ BatchInterrupted \/ PostBatch
               \/ PostInterrupted \/ CompletionFails \/ \E n \in Nodes : ActivityDone(n)
        PROVE  HistoryType'
    BY <1>0, <2>1 DEF Return, BoundaryThrows, BatchInterrupted, PostBatch, PostInterrupted,
         CompletionFails, ActivityDone, HistoryType
  <2>2. ASSUME StartBatch PROVE HistoryType'
    BY <1>0, <2>2 DEF StartBatch, HistoryType
  <2>3. ASSUME NEW n \in Nodes, ActivityFails(n) PROVE HistoryType'
    <3>1. ~StartRun
      BY <2>3 DEF StartRun, ActivityFails, Ended
    <3>2. ASSUME NEW v \in latest
          PROVE  [run |-> run, life |-> v[1], at |-> v[2]] \in
                   [run : Runs, life : 1..MaxRuns, at : 1..MaxBoundaries]
      BY <1>0, <3>1 DEF Batches, Visits
    <3> QED BY <1>0, <2>3, <3>2 DEF ActivityFails, HistoryType
  <2>4. ASSUME BatchAnswered PROVE HistoryType'
    <3>1. closed' \subseteq closed \cup latest /\ broken' = broken /\ repeated' = repeated
      BY <2>4 DEF BatchAnswered, CloseNodes
    <3> QED BY <1>0, <3>1 DEF HistoryType, Batches
  <2> QED BY <1>4, <2>1, <2>2, <2>3, <2>4 DEF Crosses
<1> QED BY <1>1, <1>2, <1>3, <1>4

-----------------------------------------------------------------------------
(* The server's own steps.                                                  *)
LEMMA ServeStartStep ==
  ASSUME TypeOK, LivesInv, ServerInv, NEW r \in wire, ServeStart(r)
  PROVE  /\ life + 1 \in 1..MaxRuns /\ StopAt(life + 1, 1) /\ life' = life + 1
         /\ applied' = applied /\ evidence' = evidence /\ recovered' = recovered
         /\ reply' = IF r = asking THEN NewReport ELSE reply
         /\ r \in Starts
<1>1. r.op = "start" /\ wire' = wire \ {r}
  BY DEF ServeStart, Serve
<1>2. Cardinality(Starts) \in Nat /\ Cardinality(Starts) > 0
  BY <1>1, StartServed DEF LivesInv
<1>3. life + 1 \in 1..MaxRuns
  BY <1>2, BoundsAssumption DEF LivesInv, TypeOK
<1> QED BY <1>1, <1>3, StopAtType DEF ServeStart, Serve, Starts

LEMMA ServeCompleteStep ==
  ASSUME TypeOK, ServerInv, NEW r \in wire, ServeComplete(r)
  PROVE  /\ life \in 1..MaxRuns /\ at + 1 \in Nat \ {0} /\ StopAt(life, at + 1) /\ life' = life
         /\ r.visits = Current /\ instance = "open" /\ r.op = "complete"
         /\ applied' = applied \cup Current /\ evidence' = evidence /\ recovered' = recovered
         /\ reply' = IF r = asking THEN NewReport ELSE reply
<1>1. life \in 1..MaxRuns /\ at + 1 \in Nat \ {0}
  BY BoundsAssumption DEF ServeComplete, ServerInv, TypeOK
<1> QED BY <1>1, StopAtType DEF ServeComplete, Serve

LEMMA ServesType ==
  ASSUME TypeOK, LivesInv, ServerInv, NEW r \in wire, Serves(r)
  PROVE  ServerType' /\ AskType'
<1>0. ServerType /\ AskType /\ r \in Requests
  BY TypeParts DEF AskType
<1>1. late' \in BOOLEAN /\ overwrote' \in BOOLEAN
  BY <1>0 DEF Serves, ServeResume, ServeStart, ServeComplete, ServeFail, ServeApply, Refuse,
       Serve, ServerType
<1>2. asking' = asking /\ wire' \in SUBSET Requests
  BY <1>0, ServerSteps DEF AskType
<1>3. CASE ServeStart(r)
  <2>1. ServerType'
    BY <1>0, <1>1, <1>3, ServeStartStep, StopAtType DEF ServerType
  <2>2. reply' \in Answers \cup {None}
    BY <1>0, <1>3, ServeStartStep, StopAtType DEF AskType
  <2> QED BY <1>0, <1>2, <2>1, <2>2 DEF AskType
<1>4. CASE ServeComplete(r)
  <2>1. applied' \in Batches
    BY <1>0, <1>4, ServeCompleteStep, ReportType DEF ServerType, Batches
  <2>2. ServerType'
    BY <1>0, <1>1, <1>4, <2>1, ServeCompleteStep, StopAtType DEF ServerType
  <2>3. reply' \in Answers \cup {None}
    BY <1>0, <1>4, ServeCompleteStep, StopAtType DEF AskType
  <2> QED BY <1>0, <1>2, <2>2, <2>3 DEF AskType
<1>5. CASE ServeResume(r) \/ ServeFail(r) \/ ServeApply(r) \/ Refuse(r)
  <2>1. reply' \in Answers \cup {None}
    BY <1>0, <1>5, ReportType, RefusalType
       DEF ServeResume, ServeFail, ServeApply, Refuse, Serve, AskType
  <2>2. instance' = instance /\ life' = life /\ at' = at /\ pending' = pending /\ applied' = applied
    BY <1>5 DEF ServeResume, ServeFail, ServeApply, Refuse
  <2>3. evidence' \in Batches /\ recovered' \subseteq Runs
    BY <1>0, <1>5, RequestsAndAnswers
       DEF ServeResume, ServeFail, ServeApply, Refuse, ServerType, Batches
  <2> QED BY <1>0, <1>1, <1>2, <2>1, <2>2, <2>3 DEF ServerType, AskType
<1> QED BY <1>3, <1>4, <1>5 DEF Serves

LEMMA NextType ==
  ASSUME TypeOK, LivesInv, AskingInv, ServerInv, [Next]_vars
  PROVE  TypeOK'
<1>0. RunType /\ AskType /\ ServerType /\ HistoryType
  BY TypeParts
<1>1. CASE StartRun \/ Opens \/ Crosses \/ Fails \/ Interrupt \/ Crash
  <2>1. ServerType'
    BY <1>0, <1>1, RunSteps DEF ServerType
  <2>2. run \in Runs \/ StartRun
    BY <1>1, RunAsks
  <2> QED BY <1>1, <2>1, <2>2, RunStepType, AskTypeKept, HistoryTypeKept, TypePartsNext
<1>2. CASE Cancel
  <2>1. ServerType' /\ AskType'
    BY <1>0, <1>2, CancelStep, BoundsAssumption DEF ServerType, AskType
  <2>2. RunType' /\ HistoryType'
    BY <1>0, <1>2, CancelStep DEF RunType, HistoryType
  <2> QED BY <2>1, <2>2, TypePartsNext
<1>3. ASSUME NEW r \in wire, Serves(r) PROVE TypeOK'
  <2>1. RunType' /\ HistoryType'
    BY <1>0, <1>3, ServerSteps DEF RunType, HistoryType
  <2> QED BY <1>3, <2>1, ServesType, TypePartsNext
<1>4. CASE UNCHANGED vars
  BY <1>4 DEF vars, client, choices, server, TypeOK, Current
<1> QED BY <1>1, <1>2, <1>3, <1>4, NextSteps

LEMMA NextLives ==
  ASSUME TypeOK, LivesInv, AskingInv, ServerInv, [Next]_vars
  PROVE  LivesInv'
<1>0. /\ IsFiniteSet(wire) /\ Cardinality(Starts) \in Nat /\ life \in Nat /\ run \in Nat
      /\ Cardinality(Starts) + life <= run
  BY FS_Subset, FS_CardinalityType DEF LivesInv, Starts, TypeOK
<1>1. CASE StartRun
  <2>1. run' = run + 1 /\ wire' = wire /\ life' = life /\ pc' = "checking"
    BY <1>1, RunSteps DEF StartRun
  <2>2. Starts' = Starts
    BY <2>1 DEF Starts
  <2> QED BY <1>0, <2>1, <2>2 DEF LivesInv
<1>2. CASE Opens \/ Crosses \/ Fails \/ Interrupt \/ Crash
  <2>1. run' = run /\ run \in Runs /\ pc' # "idle" /\ life' = life
    BY <1>2, RunAsks, RunSteps
  <2>2. CASE StopsAsking
    BY <1>0, <2>1, <2>2, StartsShrink DEF StopsAsking, LivesInv, Runs
  <2>3. CASE KeepsAsking
    <3>1. Starts' = Starts
      BY <2>3 DEF KeepsAsking, Starts
    <3> QED BY <1>0, <2>1, <2>3, <3>1 DEF KeepsAsking, LivesInv, Runs
  <2>4. ASSUME NEW op \in Operations, NEW visits \in Batches, Asks(op, visits) PROVE LivesInv'
    <3>1. wire' = wire \cup {asking'} /\ asking'.op = op
      BY <2>1, <2>4, SendAsks DEF Asks, Operations
    <3>2. /\ IsFiniteSet(wire') /\ Cardinality(Starts)' \in Nat
          /\ Cardinality(Starts)' <= Cardinality(Starts) + 1
          /\ op # "start" => Cardinality(Starts)' = Cardinality(Starts)
      BY <1>0, <3>1, StartsGrow
    <3>3. CASE op = "start"
      <4>1. Cardinality(Starts) + life < run /\ pc' = "starting"
        BY <2>4, <3>3 DEF Asks, LivesInv
      <4> QED BY <1>0, <2>1, <3>2, <4>1 DEF LivesInv, Runs
    <3>4. CASE op # "start"
      <4>1. pc' \in {"checking", "resuming"} => pc = "checking"
        BY <2>4, <3>4 DEF Asks
      <4> QED BY <1>0, <2>1, <3>2, <3>4, <4>1 DEF LivesInv, Runs
    <3> QED BY <3>3, <3>4
  <2> QED BY <1>2, <2>2, <2>3, <2>4, RunAsks
<1>3. CASE Cancel \/ UNCHANGED vars
  <2>1. run' = run /\ pc' = pc /\ wire' = wire /\ life' = life
    BY <1>3, CancelStep DEF vars, client, server
  <2>2. Starts' = Starts
    BY <2>1 DEF Starts
  <2> QED BY <2>1, <2>2 DEF LivesInv
<1>4. ASSUME NEW r \in wire, Serves(r) PROVE LivesInv'
  <2>1. run' = run /\ pc' = pc /\ wire' = wire \ {r}
    BY <1>4, ServerSteps
  <2>2. CASE ServeStart(r)
    <3>1. r.op = "start" /\ life' = life + 1
      BY <2>2, ServeStartStep DEF Starts
    <3> QED BY <1>0, <2>1, <3>1, StartServed DEF LivesInv
  <2>3. CASE ~ServeStart(r)
    <3>1. life' = life
      BY <1>4, <2>3, ServeCompleteStep
         DEF Serves, ServeResume, ServeFail, ServeApply, Refuse
    <3> QED BY <1>0, <2>1, <3>1, StartsShrink DEF LivesInv
  <2> QED BY <2>2, <2>3
<1> QED BY <1>1, <1>2, <1>3, <1>4, NextSteps

LEMMA NextAsking ==
  ASSUME TypeOK, LivesInv, AskingInv, [Next]_vars
  PROVE  AskingInv'
<1>1. CASE StartRun
  BY <1>1 DEF StartRun, AskingInv
<1>2. CASE Opens \/ Crosses \/ Fails \/ Interrupt \/ Crash
  <2>1. run' = run /\ run \in Runs
    BY <1>2, RunAsks
  <2>2. CASE StopsAsking
    BY <2>2 DEF StopsAsking, AskingInv
  <2>3. CASE KeepsAsking
    BY <2>1, <2>3 DEF KeepsAsking, AskingInv
  <2>4. ASSUME NEW op \in Operations, NEW visits \in Batches, Asks(op, visits) PROVE AskingInv'
    <3>1. asking'.op = op /\ asking'.run = run /\ asking'.visits = visits /\ reply' = None
      BY <2>1, <2>4, SendAsks DEF Asks, Operations
    <3> QED BY <2>1, <2>4, <3>1 DEF Asks, AskingInv
  <2> QED BY <1>2, <2>2, <2>3, <2>4, RunAsks
<1>3. CASE Cancel \/ UNCHANGED vars
  BY <1>3, CancelStep DEF vars, client, AskingInv
<1>4. ASSUME NEW r \in wire, Serves(r) PROVE AskingInv'
  <2>1. r # None
    BY RequestsAndAnswers DEF TypeOK
  <2>2. run' = run /\ pc' = pc /\ wire' = wire \ {r} /\ asking' = asking /\ latest' = latest
        /\ (r # asking => reply' = reply)
    BY <1>4, ServerSteps
  <2> QED BY <2>1, <2>2 DEF AskingInv
<1> QED BY <1>1, <1>2, <1>3, <1>4, NextSteps

LEMMA NextServer ==
  ASSUME TypeOK, LivesInv, ServerInv, [Next]_vars
  PROVE  ServerInv'
<1>0. life \in Nat /\ at \in Nat /\ \A v \in applied : v[1] \in Nat /\ v[2] \in Nat
  BY DEF TypeOK, Batches, Visits
<1>1. CASE StartRun \/ Opens \/ Crosses \/ Fails \/ Interrupt \/ Crash \/ UNCHANGED vars
  BY <1>1, RunSteps DEF vars, server, ServerInv
<1>2. CASE Cancel
  BY <1>2, CancelStep DEF ServerInv
<1>3. ASSUME NEW r \in wire, ServeStart(r) PROVE ServerInv'
  <2>1. /\ StopAt(life + 1, 1) /\ life + 1 \in 1..MaxRuns /\ life' = life + 1 /\ applied' = applied
    BY <1>3, ServeStartStep
  <2>2. instance' # "open" => pending' = {}
    BY <2>1, StopAtType
  <2>3. instance' = "open" => at' = 1
    BY <2>1, StopAtType
  <2> QED BY <1>0, <2>1, <2>2, <2>3 DEF ServerInv
<1>4. ASSUME NEW r \in wire, ServeComplete(r) PROVE ServerInv'
  <2>1. /\ StopAt(life, at + 1) /\ life \in 1..MaxRuns /\ at + 1 \in Nat \ {0}
        /\ life' = life /\ applied' = applied \cup Current /\ instance = "open"
    BY <1>4, ServeCompleteStep
  <2>2. (instance' # "open" => pending' = {}) /\ (instance' = "open" => at' = at + 1)
    BY <2>1, StopAtType
  <2>3. \A v \in Current : v[1] = life /\ v[2] = at
    BY DEF Current
  <2> QED BY <1>0, <2>1, <2>2, <2>3 DEF ServerInv
<1>5. ASSUME NEW r \in wire, ServeResume(r) \/ ServeFail(r) \/ ServeApply(r) \/ Refuse(r)
      PROVE  ServerInv'
  BY <1>5 DEF ServeResume, ServeFail, ServeApply, Refuse, ServerInv
<1> QED BY <1>1, <1>2, <1>3, <1>4, <1>5, NextSteps DEF Serves

-----------------------------------------------------------------------------
(* What the answers say.                                                    *)
LEMMA ReportSays ==
  /\ Report.outcome \in {"blocked", "missing", "failed"} /\ Report.visits = Current
  /\ Report.outcome = "missing" => instance = "none"
  /\ Report.outcome = "failed" => instance # "open"
BY DEF Report

LEMMA RefusalSays ==
  /\ Refusal.outcome = "refused" /\ Refusal.visits = {}
  /\ Applied.outcome = "applied" /\ Applied.visits = {}
BY DEF Refusal, Applied

LEMMA NewReportSays ==
  /\ NewReport.outcome \in {"blocked", "completed", "failed"} /\ NewReport.visits = Current'
  /\ NewReport.outcome \in {"completed", "failed"} => instance' # "open"
BY DEF NewReport

LEMMA NoCurrent ==
  /\ pending = {} => Current = {}
  /\ pending' = {} => Current' = {}
BY DEF Current

LEMMA NextAnswer ==
  ASSUME TypeOK, LivesInv, AskingInv, ServerInv, AnswerInv, [Next]_vars
  PROVE  AnswerInv'
<1>1. CASE StartRun
  BY <1>1 DEF StartRun, AnswerInv
<1>2. CASE Opens \/ Crosses \/ Fails \/ Interrupt \/ Crash
  <2>1. run' = run /\ run \in Runs /\ applied' = applied /\ recovered' = recovered
    BY <1>2, RunAsks, RunSteps
  <2>2. CASE StopsAsking
    BY <2>2 DEF StopsAsking, AnswerInv
  <2>3. CASE KeepsAsking
    BY <2>1, <2>3 DEF KeepsAsking, AnswerInv, AskingInv
  <2>4. ASSUME NEW op \in Operations, NEW visits \in Batches, Asks(op, visits) PROVE AnswerInv'
    BY <2>4 DEF Asks, Send, AnswerInv
  <2> QED BY <1>2, <2>2, <2>3, <2>4, RunAsks
<1>3. CASE Cancel \/ UNCHANGED vars
  BY <1>3, CancelStep DEF vars, client, server, AnswerInv
<1>4. ASSUME NEW r \in wire, Serves(r) PROVE AnswerInv'
  <2>1. run' = run /\ pc' = pc /\ latest' = latest /\ (r # asking => reply' = reply)
    BY <1>4, ServerSteps
  <2>2. r # None
    BY RequestsAndAnswers DEF TypeOK
  <2>3. CASE ServeStart(r)
    <3>1. StopAt(life + 1, 1) /\ life + 1 \in 1..MaxRuns /\ applied' = applied /\ recovered' = recovered
          /\ (r = asking => reply' = NewReport) /\ r.op = "start"
      BY <2>3, ServeStartStep DEF Starts
    <3>2. instance' # "open" => pending' = {}
      BY <3>1, StopAtType
    <3> QED BY <2>1, <2>2, <3>1, <3>2, NewReportSays, NoCurrent DEF AnswerInv, AskingInv
  <2>4. CASE ServeComplete(r)
    <3>1. StopAt(life, at + 1) /\ life \in 1..MaxRuns /\ at + 1 \in Nat \ {0}
          /\ applied' = applied \cup Current /\ recovered' = recovered
          /\ (r = asking => reply' = NewReport) /\ r.op = "complete" /\ r.visits = Current
      BY <2>4, ServeCompleteStep
    <3>2. instance' # "open" => pending' = {}
      BY <3>1, StopAtType
    <3> QED BY <2>1, <2>2, <3>1, <3>2, NewReportSays, NoCurrent DEF AnswerInv, AskingInv
  <2>5. CASE ServeResume(r) \/ ServeFail(r)
    <3>1. applied' = applied /\ recovered' = recovered /\ (r = asking => reply' = Report)
          /\ r.op \in {"resume", "fail"}
      BY <2>5 DEF ServeResume, ServeFail, Serve
    <3> QED BY <2>1, <2>2, <3>1, ReportSays, NoCurrent DEF AnswerInv, AskingInv, ServerInv
  <2>6. CASE ServeApply(r)
    <3>1. applied' = applied /\ recovered' = recovered \cup {r.run}
          /\ (r = asking => reply' = Applied) /\ r.op = "apply"
      BY <2>6 DEF ServeApply, Serve
    <3> QED BY <2>1, <2>2, <3>1, RefusalSays DEF AnswerInv, AskingInv
  <2>7. CASE Refuse(r)
    <3>1. applied' = applied /\ recovered' = recovered /\ (r = asking => reply' = Refusal)
      BY <2>7 DEF Refuse, Serve
    <3> QED BY <2>1, <2>2, <3>1, RefusalSays DEF AnswerInv, AskingInv
  <2> QED BY <1>4, <2>3, <2>4, <2>5, <2>6, <2>7 DEF Serves
<1> QED BY <1>1, <1>2, <1>3, <1>4, NextSteps

-----------------------------------------------------------------------------
(* A run reaches a boundary with an answer, and asks for a start either     *)
(* because it was told to or because there is no checkpoint.                *)
LEMMA RunMoves ==
  ASSUME AskingInv, Opens \/ Crosses \/ Fails \/ Interrupt \/ Crash
  PROVE  /\ pc' = "boundary" =>
              \/ pc = "boundary" /\ latest' = latest
              \/ reply # None /\ latest' = reply.visits
         /\ pc' = "starting" /\ asking' # None =>
              \/ run \in fresh'
              \/ pc = "starting" /\ asking' = asking /\ reply' = reply /\ fresh' = fresh
              \/ reply # None /\ reply.outcome = "missing"
<1>1. CASE Opens
  BY <1>1 DEF Opens, OpenInstance, CheckFails, Opened, FallBackToStart, OpeningFails, Opening,
     Answered, Unanswered, CheckpointMissing
<1>2. CASE Crosses
  BY <1>2 DEF Crosses, Return, BoundaryThrows, StartBatch, ActivityDone, ActivityFails,
     BatchInterrupted, PostBatch, PostInterrupted, BatchAnswered, CompletionFails, Answered
<1>3. CASE Fails
  BY <1>3 DEF Fails, ReportNext, ReportSettles, ApplyRecovery, RecoveryApplied,
     RecoveryFails, NoRecovery, Diagnose, Reported, EndHostFailed
<1>4. CASE Interrupt \/ Crash
  BY <1>4 DEF Interrupt, Crash, choices
<1> QED BY <1>1, <1>2, <1>3, <1>4

LEMMA NextOwn ==
  ASSUME TypeOK, LivesInv, AskingInv, ServerInv, OnlyOwnRequests, [Next]_vars
  PROVE  OnlyOwnRequests'
<1>0. Current \cap applied = {}
  BY DEF ServerInv, Current, TypeOK
<1>1. CASE StartRun
  BY <1>1 DEF StartRun, OnlyOwnRequests
<1>2. CASE Opens \/ Crosses \/ Fails \/ Interrupt \/ Crash
  <2>1. run' = run /\ run \in Runs /\ applied' = applied /\ instance' = instance /\ late' = late
    BY <1>2, RunAsks, RunSteps
  <2>2. reply' = None \/ reply' = reply
    BY <1>2, RunAsks DEF StopsAsking, KeepsAsking, Asks, Send
  <2> QED BY <1>2, <2>1, <2>2, RunMoves DEF OnlyOwnRequests
<1>3. CASE Cancel \/ UNCHANGED vars
  BY <1>3, CancelStep DEF vars, client, choices, server, OnlyOwnRequests
<1>4. ASSUME NEW r \in wire, Serves(r) PROVE OnlyOwnRequests'
  <2>1. run' = run /\ pc' = pc /\ latest' = latest /\ fresh' = fresh /\ asking' = asking
        /\ (r # asking => late') /\ (late => late')
    BY <1>4, ServerSteps
  <2>2. r # None /\ (r = asking => reply = None)
    BY RequestsAndAnswers DEF TypeOK, AskingInv
  <2>3. CASE r # asking
    BY <2>1, <2>3 DEF OnlyOwnRequests
  <2>4. CASE r = asking
    <3>1. pc # "boundary" /\ reply' # None
      BY <1>4, <2>2, <2>4, ReportType, RefusalType, ServeStartStep, ServeCompleteStep, StopAtType,
         RequestsAndAnswers
         DEF AskingInv, Serves, ServeResume, ServeFail, ServeApply, Refuse, Serve
    <3>2. CASE ServeStart(r) \/ ServeComplete(r)
      <4>1. reply' = NewReport /\ NewReport.outcome # "missing"
        BY <2>4, <3>2, ServeStartStep, ServeCompleteStep, NewReportSays
      <4>2. ServerInv'
        BY <3>2, NextServer DEF Next
      <4>3. Current' \cap applied' = {}
        BY <3>2, <4>2, ServeStartStep, ServeCompleteStep, StopAtType DEF ServerInv, Current, TypeOK
      <4> QED BY <2>1, <3>1, <4>1, <4>3, NewReportSays DEF OnlyOwnRequests
    <3>3. CASE ServeResume(r) \/ ServeFail(r) \/ ServeApply(r) \/ Refuse(r)
      <4>1. reply' \in {Report, Applied, Refusal} /\ instance' = instance /\ applied' = applied
        BY <2>4, <3>3 DEF ServeResume, ServeFail, ServeApply, Refuse, Serve
      <4> QED BY <1>0, <2>1, <3>1, <4>1, ReportSays, RefusalSays DEF OnlyOwnRequests
    <3> QED BY <1>4, <3>2, <3>3 DEF Serves
  <2> QED BY <2>3, <2>4
<1> QED BY <1>1, <1>2, <1>3, <1>4, NextSteps

-----------------------------------------------------------------------------
(* The graph and the histories.                                             *)
LEMMA NextShown ==
  ASSUME TypeOK, AnswerInv, ShownInv, [Next]_vars
  PROVE  ShownInv'
<1>0. NodesOf({}) = {}
  BY DEF NodesOf
<1> USE DEF Show
<1>1. CASE StartRun
  <2>1. pc' = "checking" /\ latest' = {} /\ \A n \in Nodes : shown'[n] = "idle"
    BY <1>1 DEF StartRun
  <2> QED BY <2>1 DEF ShownInv
<1>2. CASE Opens
  <2>1. shown' = shown
    BY <1>2 DEF Opens, OpenInstance, CheckFails, Opened, FallBackToStart, OpeningFails
  <2>2. CASE Opened
    <3>1. pc \in {"resuming", "starting"} /\ pc' = "boundary" /\ latest' = reply.visits
          /\ reply # None /\ outcome' = reply.outcome
          /\ reply.outcome \in {"blocked", "completed", "failed"}
      BY <2>2 DEF Opened, Opening, Answered
    <3>2. \A n \in Nodes : shown[n] # "active"
      BY <1>0, <3>1 DEF ShownInv
    <3> QED BY <2>1, <3>1, <3>2 DEF AnswerInv, ShownInv
  <2>3. CASE OpenInstance \/ CheckFails \/ FallBackToStart \/ OpeningFails
    <3>1. pc \in {"checking", "resuming", "starting"} /\ latest' = latest
          /\ pc' \in {"resuming", "starting", "threw", "interrupted"}
      BY <2>3 DEF OpenInstance, CheckFails, FallBackToStart, OpeningFails, Opening
    <3> QED BY <2>1, <3>1 DEF ShownInv, NodesOf
  <2> QED BY <1>2, <2>2, <2>3 DEF Opens
<1>3. CASE Crosses
  <2>1. CASE Return
    BY <1>0, <2>1 DEF Return, ShownInv
  <2>2. CASE \/ BoundaryThrows \/ BatchInterrupted \/ PostBatch
             \/ \E n \in Nodes : ActivityDone(n) \/ ActivityFails(n)
    <3>1. shown' = shown /\ latest' = latest
          /\ pc' \in {"interrupted", "threw", "completing", "batch", "reporting"}
      BY <2>2 DEF BoundaryThrows, BatchInterrupted, PostBatch, ActivityDone, ActivityFails
    <3> QED BY <3>1 DEF ShownInv, NodesOf
  <2>3. CASE StartBatch
    <3>1. pc' = "batch" /\ latest' = latest
          /\ \A n \in Nodes : shown'[n] = (IF n \in NodesOf(latest) THEN "active" ELSE shown[n])
      BY <2>3 DEF StartBatch
    <3> QED BY <3>1 DEF ShownInv, NodesOf
  <2>4. CASE PostInterrupted \/ CompletionFails
    <3>1. pc' = "threw" /\ latest' = latest
          /\ \A n \in Nodes : shown'[n] = (IF n \in NodesOf(latest) THEN "failed" ELSE shown[n])
      BY <2>4 DEF PostInterrupted, CompletionFails
    <3> QED BY <3>1 DEF ShownInv, NodesOf
  <2>5. CASE BatchAnswered
    <3>1. pc' = "boundary" /\ reply # None /\ latest' = reply.visits /\ outcome' = reply.outcome
          /\ reply.outcome \in {"blocked", "completed", "failed"}
      BY <2>5 DEF BatchAnswered, Answered
    <3>2. \A n \in Nodes : shown'[n] = "active" => n \in NodesOf(reply.visits)
      BY <2>5 DEF BatchAnswered, CloseNodes, Cleared, ShownInv
    <3> QED BY <3>1, <3>2 DEF AnswerInv, ShownInv
  <2> QED BY <1>3, <2>1, <2>2, <2>3, <2>4, <2>5 DEF Crosses
<1>4. CASE Fails
  <2>1. CASE RecoveryApplied \/ Diagnose
    <3>1. pc' = "host failed" /\ latest' = latest
          /\ \A n \in Nodes : shown'[n] = (IF n \in NodesOf(latest) THEN "failed" ELSE shown[n])
      BY <2>1 DEF RecoveryApplied, Diagnose, EndHostFailed
    <3> QED BY <3>1 DEF ShownInv, NodesOf
  <2>2. CASE \/ \E v \in toReport : ReportNext(v)
             \/ ReportSettles \/ ApplyRecovery \/ RecoveryFails \/ NoRecovery
    <3>1. shown' = shown /\ latest' = latest /\ pc' \in {"reporting", "recovering", "diagnosing"}
      BY <2>2 DEF ReportNext, ReportSettles, ApplyRecovery, RecoveryFails, NoRecovery
    <3> QED BY <3>1 DEF ShownInv, NodesOf
  <2> QED BY <1>4, <2>1, <2>2 DEF Fails
<1>5. CASE Interrupt \/ Crash
  BY <1>5 DEF Interrupt, Crash, ShownInv, NodesOf, Ended
<1>6. CASE Cancel \/ UNCHANGED vars
  BY <1>6, CancelStep DEF vars, client, ShownInv, NodesOf
<1>7. ASSUME NEW r \in wire, Serves(r) PROVE ShownInv'
  BY <1>7, ServerSteps DEF ShownInv, NodesOf
<1> QED BY <1>1, <1>2, <1>3, <1>4, <1>5, <1>6, <1>7, NextSteps

LEMMA NextHistories ==
  ASSUME TypeOK, LivesInv, AskingInv, ServerInv, AnswerInv, OnlyOwnRequests,
         closed \subseteq applied, TakenWorkNotRepeated, CheckpointNotOverwritten, [Next]_vars
  PROVE  closed' \subseteq applied' /\ TakenWorkNotRepeated' /\ CheckpointNotOverwritten'
<1>1. CASE StartRun \/ Opens \/ Crosses \/ Fails \/ Interrupt \/ Crash
  <2>1. applied' = applied /\ overwrote' = overwrote /\ late' = late
    BY <1>1, RunSteps
  <2>2. CASE StartBatch
    BY <2>1, <2>2 DEF StartBatch, OnlyOwnRequests, TakenWorkNotRepeated, CheckpointNotOverwritten
  <2>3. CASE BatchAnswered
    <3>1. latest \subseteq applied /\ repeated' = repeated /\ closed' \subseteq closed \cup latest
      BY <2>3 DEF BatchAnswered, Answered, AnswerInv, CloseNodes
    <3> QED BY <2>1, <3>1 DEF TakenWorkNotRepeated, CheckpointNotOverwritten
  <2>4. CASE ~StartBatch /\ ~BatchAnswered
    <3>1. closed' = closed /\ repeated' = repeated
      BY <1>1, <2>4 DEF StartRun, Opens, Crosses, Fails, Interrupt, Crash,
         OpenInstance, CheckFails, Opened, FallBackToStart, OpeningFails,
         Return, BoundaryThrows, ActivityDone, ActivityFails,
         BatchInterrupted, PostBatch, PostInterrupted, CompletionFails,
         ReportNext, ReportSettles, ApplyRecovery, RecoveryApplied,
         RecoveryFails, NoRecovery, Diagnose
    <3> QED BY <2>1, <3>1 DEF TakenWorkNotRepeated, CheckpointNotOverwritten
  <2> QED BY <2>2, <2>3, <2>4
<1>2. CASE Cancel \/ UNCHANGED vars
  BY <1>2, CancelStep DEF vars, server, TakenWorkNotRepeated, CheckpointNotOverwritten
<1>3. ASSUME NEW r \in wire, Serves(r)
      PROVE  closed' \subseteq applied' /\ TakenWorkNotRepeated' /\ CheckpointNotOverwritten'
  <2>1. closed' = closed /\ repeated' = repeated /\ (late => late') /\ (r # asking => late')
    BY <1>3, ServerSteps
  <2>2. applied \subseteq applied'
    BY <1>3 DEF Serves, ServeResume, ServeStart, ServeComplete, ServeFail, ServeApply, Refuse
  <2>3. overwrote' => overwrote \/ late'
    <3>1. CASE ServeStart(r)
      <4>1. ASSUME r = asking, ~late, instance # "none" PROVE r.run \in fresh
        BY <3>1, <4>1, RequestsAndAnswers DEF ServeStart, AskingInv, OnlyOwnRequests, TypeOK
      <4> QED BY <2>1, <3>1, <4>1 DEF ServeStart
    <3>2. CASE ~ServeStart(r)
      BY <1>3, <3>2 DEF Serves, ServeResume, ServeComplete, ServeFail, ServeApply, Refuse
    <3> QED BY <3>1, <3>2
  <2> QED BY <2>1, <2>2, <2>3 DEF TakenWorkNotRepeated, CheckpointNotOverwritten
<1> QED BY <1>1, <1>2, <1>3, NextSteps

-----------------------------------------------------------------------------
(* Failure evidence and recovery.                                           *)
LEMMA BrokenGrows ==
  ASSUME [Next]_vars
  PROVE  /\ \A v : BrokenVisit(v) => BrokenVisit(v)'
         /\ \A k : BrokenRun(k) => BrokenRun(k)'
<1>1. broken \subseteq broken'
  <2>1. CASE StartRun \/ Opens \/ Interrupt \/ Crash \/ UNCHANGED vars
    BY <2>1 DEF StartRun, Opens, OpenInstance, CheckFails, Opened, FallBackToStart, OpeningFails,
       Interrupt, Crash, vars
  <2>2. CASE Crosses
    BY <2>2 DEF Crosses, Return, BoundaryThrows, StartBatch, ActivityDone, ActivityFails,
       BatchInterrupted, PostBatch, PostInterrupted, BatchAnswered, CompletionFails
  <2>3. CASE Fails
    BY <2>3 DEF Fails, ReportNext, ReportSettles, ApplyRecovery, RecoveryApplied,
       RecoveryFails, NoRecovery, Diagnose
  <2>4. CASE Cancel \/ \E r \in wire : Serves(r)
    BY <2>4, CancelStep, ServerSteps
  <2> QED BY <2>1, <2>2, <2>3, <2>4, NextSteps
<1> QED BY <1>1 DEF BrokenVisit, BrokenRun

LEMMA NextEvidence ==
  ASSUME TypeOK, LivesInv, AskingInv, EvidenceInv, [Next]_vars
  PROVE  EvidenceInv'
<1>0. \A v : BrokenVisit(v) => BrokenVisit(v)'
  BY BrokenGrows
<1>1. CASE StartRun \/ Opens \/ Crosses \/ Fails \/ Interrupt \/ Crash
  <2>1. evidence' = evidence
    BY <1>1, RunSteps
  <2>2. \A v \in toReport' : BrokenVisit(v)'
    <3>1. ASSUME NEW n \in Nodes, ActivityFails(n), NEW v \in latest PROVE BrokenVisit(v)'
      <4>1. [run |-> run, life |-> v[1], at |-> v[2]] \in broken'
        BY <3>1 DEF ActivityFails
      <4> QED BY <4>1 DEF BrokenVisit
    <3>2. toReport' \subseteq toReport \/ (toReport' = latest /\ \E n \in Nodes : ActivityFails(n))
      BY <1>1 DEF StartRun, Opens, Crosses, Fails, Interrupt, Crash,
         OpenInstance, CheckFails, Opened, FallBackToStart, OpeningFails,
         Return, BoundaryThrows, StartBatch, BatchAnswered, ActivityDone, ActivityFails,
         BatchInterrupted, PostBatch, PostInterrupted, CompletionFails,
         ReportNext, ReportSettles, ApplyRecovery, RecoveryApplied,
         RecoveryFails, NoRecovery, Diagnose
    <3> QED BY <1>0, <3>1, <3>2 DEF EvidenceInv
  <2>3. \A r \in wire' : r \in wire \/ (r.op = "fail" => r.visits \subseteq toReport)
    <3>1. CASE StartRun
      BY <3>1 DEF StartRun
    <3>2. CASE StopsAsking \/ KeepsAsking
      BY <3>2 DEF StopsAsking, KeepsAsking
    <3>3. ASSUME run \in Runs, NEW op \in Operations, NEW visits \in Batches, Asks(op, visits)
          PROVE  \A r \in wire' : r \in wire \/ (r.op = "fail" => r.visits \subseteq toReport)
      BY <3>3, SendAsks DEF Asks, Operations
    <3> QED BY <1>1, <3>1, <3>2, <3>3, RunAsks
  <2> QED BY <1>0, <2>1, <2>2, <2>3 DEF EvidenceInv
<1>2. CASE Cancel \/ UNCHANGED vars
  <2>1. evidence' = evidence /\ toReport' = toReport /\ wire' = wire
    BY <1>2, CancelStep DEF vars, client, server
  <2> QED BY <1>0, <2>1 DEF EvidenceInv
<1>3. ASSUME NEW r \in wire, Serves(r) PROVE EvidenceInv'
  <2>1. toReport' = toReport /\ wire' = wire \ {r}
    BY <1>3, ServerSteps
  <2>2. evidence' = evidence \/ (r.op = "fail" /\ evidence' = evidence \cup r.visits)
    BY <1>3 DEF Serves, ServeResume, ServeStart, ServeComplete, ServeFail, ServeApply, Refuse
  <2> QED BY <1>0, <2>1, <2>2 DEF EvidenceInv
<1> QED BY <1>1, <1>2, <1>3, NextSteps

LEMMA OptingIn ==
  ASSUME Opens \/ Crosses \/ Fails \/ Interrupt \/ Crash
  PROVE  /\ optedIn \subseteq optedIn'
         /\ optedIn' # optedIn => optedIn' = optedIn \cup {run} /\ (ApplyRecovery \/ RecoveryFails)
         /\ ApplyRecovery \/ RecoveryFails => run \in optedIn'
BY DEF Opens, Crosses, Fails, Interrupt, Crash, choices,
   OpenInstance, CheckFails, Opened, FallBackToStart, OpeningFails,
   Return, BoundaryThrows, StartBatch, BatchAnswered, ActivityDone, ActivityFails,
   BatchInterrupted, PostBatch, PostInterrupted, CompletionFails,
   ReportNext, ReportSettles, ApplyRecovery, RecoveryApplied,
   RecoveryFails, NoRecovery, Diagnose

(* Where host work is running, a failed batch names its run.                *)
LEMMA NextBatch ==
  ASSUME TypeOK, LivesInv, AskingInv, RecoveryInv, [Next]_vars
  PROVE  /\ pc' = "batch" => \A n \in Nodes : activity'[n] = "running" => n \in NodesOf(latest)'
         /\ pc' \in {"reporting", "recovering"} => BrokenRun(run)'
<1>0. \A k : BrokenRun(k) => BrokenRun(k)'
  BY BrokenGrows
<1>1. CASE StartRun \/ Opens
  BY <1>1 DEF StartRun, Opens, OpenInstance, CheckFails, Opened, FallBackToStart, OpeningFails
<1>2. CASE Crosses
  <2>1. CASE StartBatch
    BY <2>1 DEF StartBatch, NodesOf
  <2>2. ASSUME NEW n \in Nodes, ActivityDone(n)
        PROVE  pc' = "batch" /\ \A m \in Nodes : activity'[m] = "running" => m \in NodesOf(latest)'
    <3>1. pc' = "batch" /\ latest' = latest
          /\ \A m \in Nodes : activity'[m] = "running" => activity[m] = "running"
      BY <2>2 DEF ActivityDone, TypeOK
    <3>2. pc = "batch"
      BY <2>2 DEF ActivityDone
    <3> QED BY <3>1, <3>2 DEF RecoveryInv, NodesOf
  <2>3. ASSUME NEW n \in Nodes, ActivityFails(n) PROVE pc' = "reporting" /\ BrokenRun(run)'
    <3>1. n \in NodesOf(latest) /\ run' = run /\ pc' = "reporting"
      BY <2>3 DEF ActivityFails, RecoveryInv
    <3>2. PICK v \in latest : v[3] = n
      BY <3>1 DEF NodesOf
    <3>3. [run |-> run, life |-> v[1], at |-> v[2]] \in broken'
      BY <2>3 DEF ActivityFails
    <3> QED BY <3>1, <3>3 DEF BrokenRun
  <2>4. CASE \/ Return \/ BoundaryThrows \/ BatchInterrupted \/ PostBatch \/ PostInterrupted
             \/ BatchAnswered \/ CompletionFails
    BY <2>4 DEF Return, BoundaryThrows, BatchInterrupted, PostBatch, PostInterrupted,
       BatchAnswered, CompletionFails
  <2> QED BY <1>2, <2>1, <2>2, <2>3, <2>4 DEF Crosses
<1>3. CASE Fails
  <2>1. pc \in {"reporting", "recovering"} \/ pc' \notin {"reporting", "recovering"}
    BY <1>3 DEF Fails, ReportNext, ReportSettles, ApplyRecovery, RecoveryApplied,
       RecoveryFails, NoRecovery, Diagnose, Reported, EndHostFailed
  <2>2. run' = run /\ pc' # "batch"
    BY <1>3 DEF Fails, ReportNext, ReportSettles, ApplyRecovery, RecoveryApplied,
       RecoveryFails, NoRecovery, Diagnose, Reported, EndHostFailed
  <2> QED BY <1>0, <2>1, <2>2 DEF RecoveryInv
<1>4. CASE Interrupt \/ Crash \/ Cancel \/ UNCHANGED vars
  <2>1. run' = run /\ (pc' = pc \/ pc' = "crashed") /\ latest' = latest /\ activity' = activity
    BY <1>4, CancelStep DEF Interrupt, Crash, vars, client
  <2> QED BY <1>0, <2>1 DEF RecoveryInv, NodesOf
<1>5. ASSUME NEW r \in wire, Serves(r)
      PROVE  /\ pc' = "batch" => \A n \in Nodes : activity'[n] = "running" => n \in NodesOf(latest)'
             /\ pc' \in {"reporting", "recovering"} => BrokenRun(run)'
  BY <1>0, <1>5, ServerSteps DEF RecoveryInv, NodesOf
<1> QED BY <1>1, <1>2, <1>3, <1>4, <1>5, NextSteps

(* The runs that opted in are not ahead of the current one.                 *)
LEMMA OptedRuns ==
  ASSUME TypeOK, RecoveryInv
  PROVE  run \in Nat /\ \A k \in optedIn : k \in Nat /\ k <= run /\ k # run + 1
<1>1. MaxRuns \in Nat
  BY BoundsAssumption
<1>2. run \in Nat /\ \A k \in optedIn : k \in Nat
  BY <1>1 DEF TypeOK, Runs
<1>3. \A k \in optedIn : k <= run
  BY DEF RecoveryInv
<1> QED BY <1>2, <1>3

(* Recovery is asked for by a run that opted in.                            *)
LEMMA NextRecoveryAsked ==
  ASSUME TypeOK, LivesInv, AskingInv, RecoveryInv, [Next]_vars
  PROVE  /\ \A r \in wire' : r.op = "apply" => r.run \in optedIn' /\ BrokenRun(r.run)'
         /\ \A k \in recovered' : k \in optedIn' /\ BrokenRun(k)'
         /\ \A k \in optedIn' : k <= run'
<1>1. \A k : BrokenRun(k) => BrokenRun(k)'
  BY BrokenGrows
<1>2. /\ \A r \in wire : r.op = "apply" => r.run \in optedIn /\ BrokenRun(r.run)'
      /\ \A k \in recovered : k \in optedIn /\ BrokenRun(k)'
  BY <1>1 DEF RecoveryInv
<1>3. CASE StartRun
  <2>1. run' = run + 1 /\ optedIn' = optedIn /\ wire' = wire /\ recovered' = recovered
    BY <1>3, RunSteps DEF StartRun, choices
  <2>2. \A k \in optedIn' : k <= run'
    BY OptedRuns, <2>1
  <2>3. \A r \in wire' : r.op = "apply" => r.run \in optedIn' /\ BrokenRun(r.run)'
    BY <1>2, <2>1
  <2>4. \A k \in recovered' : k \in optedIn' /\ BrokenRun(k)'
    BY <1>2, <2>1
  <2> QED BY <2>2, <2>3, <2>4
<1>4. CASE Opens \/ Crosses \/ Fails \/ Interrupt \/ Crash
  <2>1. recovered' = recovered /\ run' = run /\ run \in Runs
    BY <1>4, RunSteps, RunAsks
  <2>2. optedIn \subseteq optedIn' /\ optedIn' \subseteq optedIn \cup {run}
    BY <1>4, OptingIn
  <2>3. ASSUME StopsAsking \/ KeepsAsking
        PROVE  \A r \in wire' : r.op = "apply" => r.run \in optedIn' /\ BrokenRun(r.run)'
    <3>1. wire' \subseteq wire
      BY <2>3 DEF StopsAsking, KeepsAsking
    <3> QED BY <1>2, <2>2, <3>1
  <2>4. ASSUME NEW op \in Operations, NEW visits \in Batches, Asks(op, visits)
        PROVE  \A r \in wire' : r.op = "apply" => r.run \in optedIn' /\ BrokenRun(r.run)'
    <3>1. wire' = wire \cup {asking'} /\ asking'.op = op /\ asking'.run = run
      BY <2>1, <2>4, SendAsks DEF Asks, Operations
    <3>2. ASSUME op = "apply" PROVE run \in optedIn' /\ BrokenRun(run)
      <4>1. pc = "reporting" /\ pc' = "recovering"
        BY <2>4, <3>2 DEF Asks
      <4>2. ApplyRecovery
        BY <1>4, <4>1 DEF Opens, Crosses, Fails, Interrupt, Crash,
           OpenInstance, CheckFails, Opened, FallBackToStart, OpeningFails,
           Return, BoundaryThrows, StartBatch, BatchAnswered, ActivityDone, ActivityFails,
           BatchInterrupted, PostBatch, PostInterrupted, CompletionFails,
           ReportNext, ReportSettles, RecoveryApplied,
           RecoveryFails, NoRecovery, Diagnose, EndHostFailed
      <4> QED BY <1>4, <4>1, <4>2, OptingIn DEF RecoveryInv
    <3> QED BY <1>1, <2>2, <3>1, <3>2 DEF RecoveryInv
  <2>5. \A k \in recovered' : k \in optedIn' /\ BrokenRun(k)'
    BY <1>2, <2>1, <2>2
  <2>6. \A k \in optedIn' : k <= run'
    BY OptedRuns, <2>1, <2>2
  <2> QED BY <1>4, <2>3, <2>4, <2>5, <2>6, RunAsks
<1>5. CASE Cancel \/ UNCHANGED vars
  <2>1. wire' = wire /\ optedIn' = optedIn /\ recovered' = recovered /\ run' = run
    BY <1>5, CancelStep DEF vars, client, choices, server
  <2> QED BY <1>1, <2>1 DEF RecoveryInv
<1>6. ASSUME NEW r \in wire, Serves(r)
      PROVE  /\ \A q \in wire' : q.op = "apply" => q.run \in optedIn' /\ BrokenRun(q.run)'
             /\ \A k \in recovered' : k \in optedIn' /\ BrokenRun(k)'
             /\ \A k \in optedIn' : k <= run'
  <2>1. wire' = wire \ {r} /\ optedIn' = optedIn /\ run' = run
    BY <1>6, ServerSteps
  <2>2. recovered' = recovered \/ (r.op = "apply" /\ recovered' = recovered \cup {r.run})
    BY <1>6 DEF Serves, ServeResume, ServeStart, ServeComplete, ServeFail, ServeApply, Refuse
  <2> QED BY <1>1, <2>1, <2>2 DEF RecoveryInv
<1> QED BY <1>3, <1>4, <1>5, <1>6, NextSteps

(* What the run says of recovery.                                           *)
LEMMA NextTold ==
  ASSUME TypeOK, LivesInv, AskingInv, AnswerInv, RecoveryInv, ToldInv, [Next]_vars
  PROVE  ToldInv'
<1> USE DEF ToldInv
<1>1. CASE StartRun
  <2>1. run' = run + 1 /\ optedIn' = optedIn /\ told' = {} /\ pc' = "checking"
    BY <1>1 DEF StartRun, choices
  <2>2. run + 1 \notin optedIn
    BY OptedRuns
  <2> QED BY <2>1, <2>2 DEF EarlyOn
<1>2. CASE Opens \/ Crosses \/ Fails \/ Interrupt \/ Crash
  <2>1. run' = run /\ recovered' = recovered
    BY <1>2, RunAsks, RunSteps
  <2>2. CASE Opens \/ Crosses \/ Interrupt \/ Crash
    <3>1. optedIn' = optedIn /\ told' = told /\ pc' \notin {"diagnosing", "host failed"} \cup {pc} =>
            pc \in EarlyOn \/ pc' \notin EarlyOn
      BY <2>2 DEF Opens, Crosses, Interrupt, Crash, EarlyOn,
         OpenInstance, CheckFails, Opened, FallBackToStart, OpeningFails, Opening,
         Return, BoundaryThrows, StartBatch, BatchAnswered, ActivityDone, ActivityFails,
         BatchInterrupted, PostBatch, PostInterrupted, CompletionFails
    <3>2. optedIn' = optedIn /\ told' = told
      BY <2>2 DEF Opens, Crosses, Interrupt, Crash, choices,
         OpenInstance, CheckFails, Opened, FallBackToStart, OpeningFails,
         Return, BoundaryThrows, StartBatch, BatchAnswered, ActivityDone, ActivityFails,
         BatchInterrupted, PostBatch, PostInterrupted, CompletionFails
    <3>3. pc' = pc \/ pc' \notin {"diagnosing", "host failed"}
      BY <2>2 DEF Opens, Crosses, Interrupt, Crash,
         OpenInstance, CheckFails, Opened, FallBackToStart, OpeningFails,
         Return, BoundaryThrows, StartBatch, BatchAnswered, ActivityDone, ActivityFails,
         BatchInterrupted, PostBatch, PostInterrupted, CompletionFails
    <3> QED BY <2>1, <3>1, <3>2, <3>3
  <2>3. CASE \/ \E v \in toReport : ReportNext(v)
             \/ ReportSettles
    BY <2>1, <2>3 DEF ReportNext, ReportSettles, choices, EarlyOn
  <2>4. CASE ApplyRecovery
    BY <2>1, <2>4 DEF ApplyRecovery, EarlyOn
  <2>5. CASE RecoveryApplied
    <3>1. run \in recovered
      BY <2>5 DEF RecoveryApplied, Answered, AnswerInv
    <3>2. told' = told \cup {"attempted"} /\ pc' = "host failed"
      BY <2>5 DEF RecoveryApplied, Tell, EndHostFailed
    <3> QED BY <2>1, <3>1, <3>2 DEF EarlyOn
  <2>6. CASE RecoveryFails
    <3>1. told' = told \cup {"apply failed"} /\ pc' = "diagnosing"
      BY <2>6 DEF RecoveryFails, Tell
    <3> QED BY <2>1, <3>1 DEF EarlyOn
  <2>7. CASE NoRecovery
    <3>1. pc = "reporting" /\ pc' = "diagnosing" /\ optedIn' = optedIn /\ told' = told
      BY <2>7 DEF NoRecovery, Reported, choices
    <3> QED BY <2>1, <3>1 DEF EarlyOn
  <2>8. CASE Diagnose
    <3>1. pc = "diagnosing" /\ pc' = "host failed" /\ optedIn' = optedIn /\ told \subseteq told'
          /\ ("attempted" \in told' => "attempted" \in told)
      BY <2>8 DEF Diagnose, EndHostFailed, Tell, choices
    <3> QED BY <2>1, <3>1 DEF EarlyOn
  <2> QED BY <1>2, <2>2, <2>3, <2>4, <2>5, <2>6, <2>7, <2>8 DEF Fails
<1>3. CASE Cancel \/ UNCHANGED vars
  <2>1. run' = run /\ pc' = pc /\ told' = told /\ optedIn' = optedIn /\ recovered' = recovered
    BY <1>3, CancelStep DEF vars, client, choices, server
  <2> QED BY <2>1
<1>4. ASSUME NEW r \in wire, Serves(r) PROVE ToldInv'
  <2>1. /\ run' = run /\ pc' = pc /\ told' = told /\ optedIn' = optedIn
        /\ recovered \subseteq recovered'
    BY <1>4, ServerSteps
       DEF Serves, ServeResume, ServeStart, ServeComplete, ServeFail, ServeApply, Refuse
  <2> QED BY <2>1
<1> QED BY <1>1, <1>2, <1>3, <1>4, NextSteps

LEMMA NextRecovery ==
  ASSUME TypeOK, LivesInv, AskingInv, RecoveryInv, [Next]_vars
  PROVE  RecoveryInv'
BY NextBatch, NextRecoveryAsked DEF RecoveryInv

-----------------------------------------------------------------------------
LEMMA InitInv == Init => IInv
<1> SUFFICES ASSUME Init PROVE IInv
  OBVIOUS
<1>1. TypeOK
  <2>1. MaxRuns \in Nat /\ MaxBoundaries \in Nat
    BY BoundsAssumption
  <2>2. RunType
    <3>1. run \in 0..MaxRuns /\ pc \in Ended
      BY <2>1 DEF Init, Ended
    <3>2. activity \in [Nodes -> {"absent", "running", "done"}]
          /\ shown \in [Nodes -> {"idle", "active", "completed", "failed"}]
      BY DEF Init
    <3>3. latest \in Batches /\ toReport \in Batches /\ signal \in BOOLEAN
      BY DEF Init, Batches
    <3> QED BY <3>1, <3>2, <3>3 DEF Init, RunType
  <2>3. AskType /\ HistoryType
    BY DEF Init, AskType, HistoryType, Batches
  <2>4. ServerType
    <3>1. life \in 0..MaxRuns /\ at \in 0..MaxBoundaries
      BY <2>1 DEF Init
    <3> QED BY <3>1 DEF Init, ServerType, Batches
  <2> QED BY <2>2, <2>3, <2>4, TypeParts
<1>2. LivesInv
  <2>1. Starts = {}
    BY DEF Init, Starts
  <2> QED BY <2>1, FS_EmptySet DEF Init, LivesInv
<1>3. AskingInv /\ ServerInv /\ AnswerInv /\ OnlyOwnRequests /\ ShownInv /\ EvidenceInv /\ RecoveryInv /\ ToldInv
  BY DEF Init, AskingInv, ServerInv, AnswerInv, OnlyOwnRequests, ShownInv, EvidenceInv, RecoveryInv,
     ToldInv, EarlyOn
<1>4. closed \subseteq applied /\ TakenWorkNotRepeated /\ CheckpointNotOverwritten
  BY DEF Init, TakenWorkNotRepeated, CheckpointNotOverwritten
<1> QED BY <1>1, <1>2, <1>3, <1>4 DEF IInv

(* The run and the server always satisfy the invariant.                     *)
THEOREM InvariantHolds == Spec => []IInv
<1>1. ASSUME IInv, [Next]_vars PROVE IInv'
  BY <1>1, NextType, NextLives, NextAsking, NextServer, NextAnswer, NextOwn, NextShown,
     NextEvidence, NextRecovery, NextTold, NextHistories DEF IInv
<1> QED BY <1>1, InitInv, PTL DEF Spec

(* Nodes shown as completed, failure evidence and recoveries: a run of the  *)
(* server workflow tells nothing that did not happen.                       *)
THEOREM RunTellsTruth == Spec => []ToldIsTrue
<1>1. IInv => ToldIsTrue
  BY DEF IInv, ToldIsTrue, ShownInv, EvidenceInv, RecoveryInv, ToldInv, BrokenVisit, BrokenRun
<1> QED BY <1>1, InvariantHolds, PTL

(* Only a request served after its run gave it up makes a run begin work    *)
(* the server has a completion of.                                          *)
THEOREM WorkIsNotRepeated == Spec => []TakenWorkNotRepeated
<1>1. IInv => TakenWorkNotRepeated
  BY DEF IInv
<1> QED BY <1>1, InvariantHolds, PTL

(* Only such a request, or a run that asked for a new start, replaces a     *)
(* checkpoint.                                                              *)
THEOREM CheckpointIsKept == Spec => []CheckpointNotOverwritten
<1>1. IInv => CheckpointNotOverwritten
  BY DEF IInv
<1> QED BY <1>1, InvariantHolds, PTL
=============================================================================
