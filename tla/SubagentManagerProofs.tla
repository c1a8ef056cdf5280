----------------------- MODULE SubagentManagerProofs -----------------------
(***************************************************************************)
(* Proofs about SubagentManager, for every set of agents and callers: its   *)
(* type invariant, NoAbandonedRecord, what waiting and steering callers are *)
(* told, and that the agents nobody resumes implement AgentLifecycle.       *)
(*                                                                         *)
(* The inductive invariant ties the record to the run behind it: a record   *)
(* that reads "running" has a run or a resume to change it, and the record  *)
(* of an agent nobody resumes says exactly where its one run is.            *)
(***************************************************************************)
EXTENDS SubagentManager, TLAPS

(* A record exists from its spawn on, and its session from the setup on.    *)
RecordInv ==
  \A a \in Agents :
    /\ status[a] = "absent" <=> run[a] = "none"
    /\ session[a] => run[a] \in {"prompting", "returned", "threw", "settled"}

(* Only the agents named in "resume" parameters are resumed, by sending to  *)
(* their session, and the record of any other agent follows its run.        *)
ResumesInv ==
  \A c \in Callers :
    call[c].op = "resume" => call[c].agent \in Resumable /\ session[call[c].agent]

OneShotInv ==
  \A a \in OneShot :
    /\ run[a] \in {"setup", "prompting", "returned", "threw"} => status[a] = "running"
    /\ run[a] = "settled" => status[a] \in Verdicts

IInv == TypeOK /\ NoAbandonedRecord /\ RecordInv /\ ResumesInv /\ OneShotInv

-----------------------------------------------------------------------------
(* What a caller waits for is a record of one of the four kinds of calls.   *)
LEMMA WaitsForAgent ==
  ASSUME TypeOK, NEW c \in Callers, call[c].op \in Ops
  PROVE  call[c].agent \in Agents /\ call[c] = Waiting(call[c].op, call[c].agent)
<1>1. call[c] # Idle
  BY DEF Idle, Ops
<1>2. call[c] \in [op : Ops, agent : Agents]
  BY <1>1 DEF TypeOK
<1> QED BY <1>2 DEF Waiting

LEMMA InitInv == Init => IInv
<1> SUFFICES ASSUME Init PROVE IInv
  OBVIOUS
<1>1. TypeOK
  BY DEF Init, TypeOK, Said, Statuses, Runs
<1>2. RecordInv /\ ResumesInv /\ OneShotInv /\ NoAbandonedRecord
  BY DEF Init, RecordInv, ResumesInv, OneShotInv, NoAbandonedRecord, OneShot, Idle
<1> QED BY <1>1, <1>2 DEF IInv

LEMMA NextType == TypeOK /\ [Next]_vars => TypeOK'
<1> SUFFICES ASSUME TypeOK, [Next]_vars PROVE TypeOK'
  OBVIOUS
<1> USE DEF Render, Block, Release
<1>0. \A op, s : s \in Statuses \cup {"background", "refused", "interrupted", "steered", "rejected"} =>
        Said(op, s) \in [waited : BOOLEAN, said : Statuses \cup
                    {"nothing", "background", "refused", "interrupted", "steered", "rejected"}]
  BY DEF Said
<1>1. \A op \in Ops, a \in Agents : Waiting(op, a) \in [op : Ops, agent : Agents]
  BY DEF Waiting
<1>2. ASSUME NEW c \in Callers, NEW a \in Agents, Spawn(c, a) PROVE TypeOK'
  BY <1>0, <1>1, <1>2 DEF Spawn, TypeOK, Statuses, Ops, Runs
<1>3. ASSUME NEW c \in Callers, NEW a \in Agents, GetResult(c, a) PROVE TypeOK'
  BY <1>0, <1>1, <1>3 DEF GetResult, TypeOK, Ops
<1>4. ASSUME NEW c \in Callers, NEW a \in Agents, Steer(c, a) PROVE TypeOK'
  BY <1>0, <1>1, <1>4 DEF Steer, TypeOK, Ops
<1>5. ASSUME NEW c \in Callers, NEW a \in Agents, Resume(c, a) PROVE TypeOK'
  BY <1>0, <1>1, <1>5 DEF Resume, TypeOK, Statuses, Ops
<1>6. ASSUME NEW c \in Callers, SpawnReturns(c) \/ WaitReturns(c) PROVE TypeOK'
  BY <1>0, <1>6, WaitsForAgent DEF SpawnReturns, WaitReturns, TypeOK, Ops
<1>7. ASSUME NEW c \in Callers, WaitInterrupted(c) \/ SteerReturns(c) \/ SteerInterrupted(c)
      PROVE  TypeOK'
  BY <1>0, <1>7 DEF WaitInterrupted, SteerReturns, SteerInterrupted, TypeOK
<1>8. ASSUME NEW c \in Callers, ResumeSettles(c) PROVE TypeOK'
  BY <1>0, <1>8 DEF ResumeSettles, ResumeCompletes, ResumeFails, TypeOK, Statuses
<1>9. ASSUME NEW a \in Agents, SessionCreated(a) \/ PromptEnds(a) \/ RunSettles(a) PROVE TypeOK'
  <2>1. CASE SessionCreated(a)
    BY <2>1 DEF SessionCreated, TypeOK, Runs
  <2>2. CASE PromptEnds(a)
    BY <2>2 DEF PromptEnds, TypeOK, Runs
  <2>3. CASE RunSettles(a)
    BY <2>3 DEF RunSettles, RunCompletes, RunFails, TypeOK, Statuses, Runs
  <2> QED BY <1>9, <2>1, <2>2, <2>3
<1>10. CASE Abort \/ UNCHANGED vars
  BY <1>10 DEF Abort, vars, TypeOK
<1> QED BY <1>2, <1>3, <1>4, <1>5, <1>6, <1>7, <1>8, <1>9, <1>10 DEF Next

-----------------------------------------------------------------------------
(* A call that ends takes no resume with it but its own.                    *)
LEMMA InFlightKept ==
  ASSUME TypeOK, NEW a \in Agents, InFlight(a), UNCHANGED run,
         \A c \in Callers : call[c] = Waiting("resume", a) => call'[c] = call[c]
  PROVE  InFlight(a)'
BY DEF InFlight, Resumed

LEMMA NextInv == IInv /\ [Next]_vars => NoAbandonedRecord' /\ RecordInv' /\ ResumesInv' /\ OneShotInv'
<1> SUFFICES ASSUME IInv, [Next]_vars
             PROVE  NoAbandonedRecord' /\ RecordInv' /\ ResumesInv' /\ OneShotInv'
  OBVIOUS
<1> USE DEF IInv, Render, Block, Release
<1>1. ASSUME NEW c \in Callers, NEW a \in Agents, Spawn(c, a)
      PROVE  NoAbandonedRecord' /\ RecordInv' /\ ResumesInv' /\ OneShotInv'
  <2>1. /\ status' = [status EXCEPT ![a] = "running"] /\ run' = [run EXCEPT ![a] = "setup"]
        /\ status[a] = "absent" /\ call[c] = Idle /\ session' = session
        /\ call' = call \/ call' = [call EXCEPT ![c] = Waiting("spawn", a)]
    BY <1>1 DEF Spawn
  <2>2. \A b \in Agents : Idle # Waiting("resume", b)
    BY DEF Idle, Waiting
  <2>3. NoAbandonedRecord'
    <3> SUFFICES ASSUME NEW b \in Agents, status'[b] = "running" PROVE InFlight(b)'
      BY DEF NoAbandonedRecord
    <3>1. CASE b = a
      BY <2>1, <3>1 DEF InFlight, Resumed, TypeOK
    <3>2. CASE b # a
      <4>1. InFlight(b) /\ run'[b] = run[b]
        BY <2>1, <3>2 DEF NoAbandonedRecord, TypeOK
      <4>2. \A d \in Callers : call[d] = Waiting("resume", b) => call'[d] = call[d]
        BY <2>1, <2>2 DEF TypeOK
      <4> QED BY <4>1, <4>2 DEF InFlight, Resumed
    <3> QED BY <3>1, <3>2
  <2>4. RecordInv'
    BY <2>1 DEF RecordInv, TypeOK
  <2>5. ResumesInv'
    BY <2>1 DEF ResumesInv, TypeOK, Waiting
  <2>6. OneShotInv'
    BY <2>1 DEF OneShotInv, OneShot, TypeOK
  <2> QED BY <2>3, <2>4, <2>5, <2>6
<1>2. ASSUME UNCHANGED <<status, run, session>>,
             \A c \in Callers : call'[c] = call[c]
               \/ (call[c].op # "resume" /\ call'[c].op # "resume")
      PROVE  NoAbandonedRecord' /\ RecordInv' /\ ResumesInv' /\ OneShotInv'
  <2>1. NoAbandonedRecord'
    <3> SUFFICES ASSUME NEW a \in Agents, status[a] = "running" PROVE InFlight(a)'
      BY <1>2 DEF NoAbandonedRecord
    <3>1. \A c \in Callers : call[c] = Waiting("resume", a) => call'[c] = call[c]
      BY <1>2 DEF Waiting
    <3> QED BY <1>2, <3>1, InFlightKept DEF NoAbandonedRecord
  <2> QED BY <1>2, <2>1 DEF RecordInv, ResumesInv, OneShotInv
<1>3. ASSUME NEW c \in Callers, NEW a \in Agents, GetResult(c, a) \/ Steer(c, a)
      PROVE  NoAbandonedRecord' /\ RecordInv' /\ ResumesInv' /\ OneShotInv'
  <2>1. UNCHANGED <<status, run, session>>
    BY <1>3 DEF GetResult, Steer
  <2>2. \/ call' = call
        \/ call[c] = Idle /\ call' = [call EXCEPT ![c] = Waiting("wait", a)]
        \/ call[c] = Idle /\ call' = [call EXCEPT ![c] = Waiting("steer", a)]
    BY <1>3 DEF GetResult, Steer
  <2>3. Idle.op # "resume" /\ Waiting("wait", a).op # "resume" /\ Waiting("steer", a).op # "resume"
    BY DEF Idle, Waiting
  <2> QED BY <1>2, <2>1, <2>2, <2>3 DEF TypeOK
<1>4. ASSUME NEW c \in Callers,
             \/ SpawnReturns(c) \/ WaitReturns(c) \/ WaitInterrupted(c)
             \/ SteerReturns(c) \/ SteerInterrupted(c)
      PROVE  NoAbandonedRecord' /\ RecordInv' /\ ResumesInv' /\ OneShotInv'
  <2>1. UNCHANGED <<status, run, session>>
    BY <1>4 DEF SpawnReturns, WaitReturns, WaitInterrupted, SteerReturns, SteerInterrupted
  <2>2. call[c].op # "resume" /\ call' = [call EXCEPT ![c] = Idle]
    BY <1>4 DEF SpawnReturns, WaitReturns, WaitInterrupted, SteerReturns, SteerInterrupted
  <2>3. Idle.op # "resume"
    BY DEF Idle
  <2> QED BY <1>2, <2>1, <2>2, <2>3 DEF TypeOK
<1>5. ASSUME NEW c \in Callers, NEW a \in Agents, Resume(c, a)
      PROVE  NoAbandonedRecord' /\ RecordInv' /\ ResumesInv' /\ OneShotInv'
  <2>1. CASE session[a]
    <3>1. /\ status' = [status EXCEPT ![a] = "running"] /\ call[c] = Idle
          /\ call' = [call EXCEPT ![c] = Waiting("resume", a)]
          /\ run' = run /\ session' = session /\ a \in Resumable
      BY <1>5, <2>1 DEF Resume
    <3>2. NoAbandonedRecord'
      <4> SUFFICES ASSUME NEW b \in Agents, status'[b] = "running" PROVE InFlight(b)'
        BY DEF NoAbandonedRecord
      <4>1. CASE b = a
        BY <3>1, <4>1 DEF InFlight, Resumed, TypeOK
      <4>2. CASE b # a
        <5>1. \A d \in Callers : call[d] = Waiting("resume", b) => call'[d] = call[d]
          BY <3>1 DEF TypeOK, Idle, Waiting
        <5> QED BY <3>1, <4>2, <5>1, InFlightKept DEF NoAbandonedRecord, TypeOK
      <4> QED BY <4>1, <4>2
    <3>3. RecordInv'
      BY <2>1, <3>1 DEF RecordInv, TypeOK
    <3>4. ResumesInv' /\ OneShotInv'
      BY <2>1, <3>1 DEF ResumesInv, OneShotInv, OneShot, TypeOK, Waiting
    <3> QED BY <3>2, <3>3, <3>4
  <2>2. CASE ~session[a]
    BY <1>2, <1>5, <2>2 DEF Resume
  <2> QED BY <2>1, <2>2
<1>6. ASSUME NEW c \in Callers, ResumeSettles(c)
      PROVE  NoAbandonedRecord' /\ RecordInv' /\ ResumesInv' /\ OneShotInv'
  <2> DEFINE a == call[c].agent
  <2>1. /\ a \in Resumable /\ a \in Agents /\ session[a] /\ call[c] = Waiting("resume", a)
        /\ call' = [call EXCEPT ![c] = Idle]
        /\ run' = run /\ session' = session
    BY <1>6, WaitsForAgent DEF ResumeSettles, ResumeCompletes, ResumeFails, ResumesInv, Ops
  <2>2. PICK v \in Verdicts : status' = [status EXCEPT ![a] = v]
    BY <1>6 DEF ResumeSettles, ResumeCompletes, ResumeFails, Verdicts
  <2>3. v # "absent" /\ v # "running"
    BY DEF Verdicts
  <2> HIDE DEF a
  <2>4. NoAbandonedRecord'
    <3> SUFFICES ASSUME NEW b \in Agents, status'[b] = "running" PROVE InFlight(b)'
      BY DEF NoAbandonedRecord
    <3>1. b # a /\ status[b] = "running"
      BY <2>1, <2>2, <2>3 DEF TypeOK
    <3>2. \A d \in Callers : call[d] = Waiting("resume", b) => call'[d] = call[d]
      BY <2>1, <3>1 DEF TypeOK, Waiting
    <3> QED BY <2>1, <3>1, <3>2, InFlightKept DEF NoAbandonedRecord
  <2>5. RecordInv'
    BY <2>1, <2>2, <2>3 DEF RecordInv, TypeOK
  <2>6. ResumesInv'
    BY <2>1 DEF ResumesInv, TypeOK, Idle
  <2>7. OneShotInv'
    BY <2>1, <2>2 DEF OneShotInv, OneShot, TypeOK
  <2> QED BY <2>4, <2>5, <2>6, <2>7
<1>7. ASSUME NEW a \in Agents, SessionCreated(a)
      PROVE  NoAbandonedRecord' /\ RecordInv' /\ ResumesInv' /\ OneShotInv'
  <2>1. /\ run[a] = "setup" /\ run' = [run EXCEPT ![a] = "prompting"]
        /\ session' = [session EXCEPT ![a] = TRUE] /\ UNCHANGED <<status, call>>
    BY <1>7 DEF SessionCreated
  <2>2. NoAbandonedRecord'
    BY <2>1 DEF NoAbandonedRecord, InFlight, Resumed, TypeOK
  <2>3. RecordInv' /\ ResumesInv' /\ OneShotInv'
    BY <2>1 DEF RecordInv, ResumesInv, OneShotInv, OneShot, TypeOK
  <2> QED BY <2>2, <2>3
<1>8. ASSUME NEW a \in Agents, RunSettles(a)
      PROVE  NoAbandonedRecord' /\ RecordInv' /\ ResumesInv' /\ OneShotInv'
  <2>1. /\ run[a] \in {"returned", "threw"} /\ run' = [run EXCEPT ![a] = "settled"]
        /\ UNCHANGED <<session, call>>
    BY <1>8 DEF RunSettles, RunCompletes, RunFails
  <2>2. PICK v \in Verdicts : status' = [status EXCEPT ![a] = v]
    BY <1>8 DEF RunSettles, RunCompletes, RunFails, Verdicts
  <2>3. v # "absent" /\ v # "running"
    BY DEF Verdicts
  <2>4. NoAbandonedRecord'
    BY <2>1, <2>2, <2>3 DEF NoAbandonedRecord, InFlight, Resumed, TypeOK
  <2>5. RecordInv' /\ ResumesInv'
    BY <2>1, <2>2, <2>3 DEF RecordInv, ResumesInv, TypeOK
  <2>6. OneShotInv'
    BY <2>1, <2>2 DEF OneShotInv, OneShot, TypeOK
  <2> QED BY <2>4, <2>5, <2>6
<1>9. ASSUME NEW a \in Agents, PromptEnds(a)
      PROVE  NoAbandonedRecord' /\ RecordInv' /\ ResumesInv' /\ OneShotInv'
  <2>1. PICK e \in {"returned", "threw"} : run' = [run EXCEPT ![a] = e]
    BY <1>9 DEF PromptEnds
  <2>2. /\ run[a] \in {"setup", "prompting"} /\ UNCHANGED <<status, session, call>>
    BY <1>9 DEF PromptEnds
  <2>3. NoAbandonedRecord'
    BY <2>1, <2>2 DEF NoAbandonedRecord, InFlight, Resumed, TypeOK
  <2>4. RecordInv' /\ ResumesInv' /\ OneShotInv'
    BY <2>1, <2>2 DEF RecordInv, ResumesInv, OneShotInv, OneShot, TypeOK
  <2> QED BY <2>3, <2>4
<1>10. CASE Abort \/ UNCHANGED vars
  BY <1>2, <1>10 DEF Abort, vars
<1> QED BY <1>1, <1>3, <1>4, <1>5, <1>6, <1>7, <1>8, <1>9, <1>10 DEF Next

-----------------------------------------------------------------------------
(* The records, runs and calls always satisfy the invariant. *)
THEOREM InvariantHolds == Spec => []IInv
<1>1. IInv /\ [Next]_vars => IInv'
  BY NextType, NextInv DEF IInv
<1> QED BY <1>1, InitInv, PTL DEF Spec

(* runRecord and resume leave no record behind that reads "running" with    *)
(* nothing in flight to change it.                                          *)
THEOREM NoneAbandoned == Spec => []NoAbandonedRecord
<1>1. IInv => NoAbandonedRecord
  BY DEF IInv
<1> QED BY <1>1, InvariantHolds, PTL

(* get_subagent_result with wait: for an agent nobody resumes, the wait     *)
(* ends with the verdict of its run, or is interrupted.                     *)
THEOREM WaitEndsWithVerdict == Spec => OneShotWaitEndsWithVerdict
<1>1. ASSUME IInv, [Next]_vars, NEW c \in Callers,
             call[c].op = "wait", call[c].agent \notin Resumable, call'[c] = Idle
      PROVE  answer'.said \in Verdicts \cup {"interrupted"}
  <2> USE DEF IInv, Render, Block, Release
  <2>1. call[c].agent \in OneShot /\ call[c] # Idle
    BY <1>1, WaitsForAgent DEF OneShot, Idle, Ops
  <2>2. ASSUME NEW d \in Callers, WaitReturns(d) \/ WaitInterrupted(d)
        PROVE  d = c
    BY <1>1, <2>1, <2>2 DEF WaitReturns, WaitInterrupted, TypeOK
  <2>3. CASE WaitReturns(c)
    <3>1. status[call[c].agent] \in Verdicts
      BY <1>1, <2>1, <2>3 DEF WaitReturns, OneShotInv
    <3> QED BY <1>1, <2>3, <3>1 DEF WaitReturns, Said, TypeOK
  <2>4. CASE WaitInterrupted(c)
    BY <1>1, <2>4 DEF WaitInterrupted, Said, TypeOK
  <2>5. ASSUME NEW d \in Callers, NEW a \in Agents,
               Spawn(d, a) \/ GetResult(d, a) \/ Steer(d, a) \/ Resume(d, a)
        PROVE  FALSE
    BY <1>1, <2>1, <2>5 DEF Spawn, GetResult, Steer, Resume, TypeOK
  <2>6. ASSUME NEW d \in Callers,
               SpawnReturns(d) \/ SteerReturns(d) \/ SteerInterrupted(d) \/ ResumeSettles(d)
        PROVE  FALSE
    BY <1>1, <2>1, <2>6
       DEF SpawnReturns, SteerReturns, SteerInterrupted, ResumeSettles, ResumeCompletes, ResumeFails,
           TypeOK
  <2>7. ~UNCHANGED call
    BY <1>1, <2>1
  <2> QED BY <1>1, <2>2, <2>3, <2>4, <2>5, <2>6, <2>7
          DEF Next, Abort, SessionCreated, PromptEnds, RunSettles, RunCompletes, RunFails, vars
<1>2. IInv /\ [Next]_vars =>
        \A c \in Callers :
          call[c].op = "wait" /\ call[c].agent \notin Resumable /\ call'[c] = Idle =>
            answer'.said \in Verdicts \cup {"interrupted"}
  BY <1>1
<1> QED BY <1>2, InvariantHolds, PTL DEF Spec, OneShotWaitEndsWithVerdict

(* steer_subagent hands a message only to a session whose prompt, or a      *)
(* resume of it, has not settled: a record reads "running" from its spawn   *)
(* on, so it is the session that shows the prompt was sent, and no failure  *)
(* leaves the record running after the verdict.                             *)
THEOREM SteeringIsPrompted == Spec => SteeredSessionIsPrompted
<1>1. ASSUME IInv, [Next]_vars, NEW c \in Callers, NEW a \in Agents,
             call[c] # Waiting("steer", a), call'[c] = Waiting("steer", a)
      PROVE  PromptUnsettled(a)
  <2> USE DEF IInv, Block, Release
  <2>1. \A op, op2 \in Ops, b \in Agents :
          Waiting(op, b) = Waiting(op2, a) => op = op2 /\ b = a
    BY DEF Waiting
  <2>2. Idle # Waiting("steer", a)
    BY DEF Idle, Waiting
  <2>3. ASSUME NEW d \in Callers, NEW b \in Agents, Steer(d, b) PROVE PromptUnsettled(a)
    <3>1. call' = call \/ (call' = [call EXCEPT ![d] = Waiting("steer", b)]
                             /\ session[b] /\ status[b] = "running")
      BY <2>3 DEF Steer
    <3>2. b = a /\ session[a] /\ status[a] = "running"
      BY <1>1, <2>1, <3>1 DEF TypeOK, Ops
    <3>3. run[a] # "setup" /\ InFlight(a)
      BY <1>1, <3>2 DEF RecordInv, NoAbandonedRecord
    <3> QED BY <3>3 DEF InFlight, PromptUnsettled
  <2>4. ASSUME NEW d \in Callers, NEW b \in Agents, Spawn(d, b) \/ GetResult(d, b) \/ Resume(d, b)
        PROVE  FALSE
    <3>1. PICK op \in {"spawn", "wait", "resume"} :
            call' = call \/ call' = [call EXCEPT ![d] = Waiting(op, b)]
      BY <2>4 DEF Spawn, GetResult, Resume
    <3> QED BY <1>1, <2>1, <3>1 DEF TypeOK, Ops
  <2>5. ASSUME NEW d \in Callers, call' = [call EXCEPT ![d] = Idle] PROVE FALSE
    BY <1>1, <2>2, <2>5 DEF TypeOK
  <2>6. CASE UNCHANGED call
    BY <1>1, <2>6
  <2> QED BY <1>1, <2>3, <2>4, <2>5, <2>6
          DEF Next, vars, SpawnReturns, WaitReturns, WaitInterrupted, SteerReturns, SteerInterrupted,
              ResumeSettles, ResumeCompletes, ResumeFails, SessionCreated, PromptEnds, RunSettles,
              RunCompletes, RunFails, Abort
<1>2. IInv /\ [Next]_vars =>
        \A c \in Callers, a \in Agents :
          call[c] # Waiting("steer", a) /\ call'[c] = Waiting("steer", a) => PromptUnsettled(a)
  BY <1>1
<1> QED BY <1>2, InvariantHolds, PTL DEF Spec, SteeredSessionIsPrompted

-----------------------------------------------------------------------------
(* The refinement. *)
Pool == [a \in OneShot |-> status[a]]

LEMMA StepRefines ==
  ASSUME IInv, [Next]_vars
  PROVE  UNCHANGED Pool \/ Lifecycle!Next
<1> USE DEF IInv, Render, Block, Release
<1>1. ASSUME NEW c \in Callers, NEW a \in Agents, Spawn(c, a) PROVE UNCHANGED Pool \/ Lifecycle!Next
  <2>1. status[a] = "absent" /\ status' = [status EXCEPT ![a] = "running"]
    BY <1>1 DEF Spawn
  <2>2. CASE a \in OneShot
    <3>1. Pool[a] = "absent" /\ Pool' = [Pool EXCEPT ![a] = "running"]
      BY <2>1, <2>2 DEF Pool, TypeOK, OneShot
    <3> QED BY <2>2, <3>1 DEF Lifecycle!Next, Lifecycle!Start, Pool
  <2>3. CASE a \notin OneShot
    BY <2>1, <2>3 DEF Pool, TypeOK, OneShot
  <2> QED BY <2>2, <2>3
<1>2. ASSUME NEW a \in Agents, RunSettles(a) PROVE UNCHANGED Pool \/ Lifecycle!Next
  <2>1. PICK v \in Verdicts : status' = [status EXCEPT ![a] = v]
    BY <1>2 DEF RunSettles, RunCompletes, RunFails, Verdicts
  <2>2. CASE a \in OneShot
    <3>1. status[a] = "running"
      BY <1>2, <2>2 DEF RunSettles, RunCompletes, RunFails, OneShotInv
    <3>2. Pool[a] = "running" /\ Pool' = [Pool EXCEPT ![a] = v]
      BY <2>1, <2>2, <3>1 DEF Pool, TypeOK, OneShot
    <3> QED BY <2>2, <3>2 DEF Lifecycle!Next, Lifecycle!Settle, Lifecycle!Settled, Pool, Verdicts
  <2>3. CASE a \notin OneShot
    BY <2>1, <2>3 DEF Pool, TypeOK, OneShot
  <2> QED BY <2>2, <2>3
<1>3. ASSUME NEW c \in Callers, NEW a \in Agents, Resume(c, a) PROVE UNCHANGED Pool
  BY <1>3 DEF Resume, Pool, TypeOK, OneShot
<1>4. ASSUME NEW c \in Callers, ResumeSettles(c) PROVE UNCHANGED Pool
  <2>1. call[c].agent \notin OneShot
    BY <1>4 DEF ResumeSettles, ResumeCompletes, ResumeFails, ResumesInv, OneShot
  <2> QED BY <1>4, <2>1 DEF ResumeSettles, ResumeCompletes, ResumeFails, Pool, TypeOK, OneShot
<1>5. CASE UNCHANGED status
  BY <1>5 DEF Pool
<1> QED BY <1>1, <1>2, <1>3, <1>4, <1>5
    DEF Next, vars, GetResult, Steer, SpawnReturns, WaitReturns, WaitInterrupted, SteerReturns,
        SteerInterrupted, SessionCreated, PromptEnds, Abort

(* The agents nobody resumes are a pool of one-shot agents: each id runs    *)
(* once, settles once and keeps its verdict.                                *)
THEOREM PoolOfOneShots == Spec => ImplementsLifecycle
<1>1. Init => Lifecycle!Init
  BY DEF Init, Lifecycle!Init, OneShot
<1>2. IInv /\ [Next]_vars => [Lifecycle!Next]_Pool
  BY StepRefines
<1>3. ImplementsLifecycle <=> Lifecycle!Init /\ [][Lifecycle!Next]_Pool
  BY DEF ImplementsLifecycle, Lifecycle!Spec, Pool
<1> QED BY <1>1, <1>2, <1>3, InvariantHolds, PTL DEF Spec
=============================================================================
