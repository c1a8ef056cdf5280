--------------------------- MODULE RunStoreProofs ---------------------------
(***************************************************************************)
(* Proofs about RunStore, for every set of keys and number of calls, errors *)
(* and crashes: its type invariant, and that it implements AtomicStore.     *)
(*                                                                         *)
(* A call that replaces the file first read it; what makes the two one      *)
(* atomic step is that only the first call of the queue is past "queued",   *)
(* so that the file is still what that call read.  The queue keeps the      *)
(* order of the calls, so every earlier call has settled by then.           *)
(***************************************************************************)
EXTENDS RunStore, TLAPS

Live == {"queued", "read", "writing", "written", "renamed"}

(* The queue holds the calls not yet settled, in the order of the calls,    *)
(* and only the first of them has begun.                                    *)
QueueOrdered == \A m, n \in DOMAIN queue : m < n => queue[m] < queue[n]
QueueHoldsLive == \A c \in Calls : pc[c] \in Live <=> \E n \in DOMAIN queue : queue[n] = c
OnlyFirstBegun == \A n \in DOMAIN queue : n # 1 => pc[queue[n]] = "queued"
IdleAreLast == \A c, d \in Calls : d < c /\ pc[d] = "idle" => pc[c] = "idle"

QueueInv == QueueOrdered /\ QueueHoldsLive /\ OnlyFirstBegun /\ IdleAreLast

(* What a call that has begun holds, compared with the file.                *)
ChangedFile(c) ==
  [Contents(file) EXCEPT ![request[c].key] = IF request[c].kind = "put" THEN c ELSE NoRecord]

HeldInv ==
  \A c \in Calls :
    /\ pc[c] \in {"read", "writing", "written"} => request[c].kind # "read"
    /\ pc[c] \in {"read", "writing"} => held[c] = Contents(file)
    /\ pc[c] = "written" => held[c] = ChangedFile(c)

IInv == TypeOK /\ QueueInv /\ HeldInv
-----------------------------------------------------------------------------
(* The queue. *)

(* The call whose turn it is has not settled, and is the oldest such call.  *)
LEMMA TurnIsFirst ==
  ASSUME TypeOK, QueueInv, NEW c \in Calls, Turn(c)
  PROVE  /\ pc[c] \in Live /\ 1 \in DOMAIN queue /\ queue[1] = c
         /\ \A d \in Calls : d < c => pc[d] \in {"done", "failed", "lost"}
<1> USE DEF QueueInv
<1>1. 1 \in DOMAIN queue /\ queue[1] = c
  BY DEF Turn, TypeOK
<1>2. pc[c] \in Live
  BY <1>1 DEF QueueHoldsLive
<1>3. ASSUME NEW d \in Calls, d < c PROVE pc[d] \in {"done", "failed", "lost"}
  <2>1. pc[d] # "idle"
    BY <1>2, <1>3 DEF IdleAreLast, Live
  <2>2. pc[d] \notin Live
    <3> SUFFICES ASSUME NEW n \in DOMAIN queue, queue[n] = d PROVE FALSE
      BY DEF QueueHoldsLive
    <3> QED BY <1>1, <1>3 DEF QueueOrdered, TypeOK, Calls
  <2> QED BY <2>1, <2>2 DEF TypeOK, Live
<1> QED BY <1>1, <1>2, <1>3

(* Only the call whose turn it is has begun. *)
LEMMA BegunHasTurn ==
  ASSUME TypeOK, QueueInv, NEW c \in Calls, pc[c] \in Live \ {"queued"}
  PROVE  Turn(c)
<1>1. PICK n \in DOMAIN queue : queue[n] = c
  BY DEF QueueInv, QueueHoldsLive
<1>2. n = 1
  BY <1>1 DEF QueueInv, OnlyFirstBegun
<1> QED BY <1>1, <1>2 DEF Turn, TypeOK

LEMMA FirstIsLeast ==
  ASSUME TypeOK, QueueInv, NEW c \in Calls, Turn(c), NEW n \in DOMAIN queue, n # 1
  PROVE  queue[n] # c /\ queue[n] \in Calls
<1>1. queue[1] = c /\ 1 \in DOMAIN queue
  BY TurnIsFirst
<1>2. n \in Nat /\ 1 < n /\ queue[n] \in Calls
  BY DEF TypeOK
<1>3. queue[1] < queue[n]
  BY <1>1, <1>2 DEF QueueInv, QueueOrdered
<1> QED BY <1>1, <1>2, <1>3 DEF Calls

LEMMA CallQueues == ASSUME TypeOK, QueueInv, NEW c \in Calls, Call(c) PROVE QueueInv'
<1> DEFINE last == Len(queue) + 1
<1>1. /\ pc[c] = "idle" /\ pc' = [pc EXCEPT ![c] = "queued"] /\ pc'[c] = "queued"
      /\ \A d \in Calls : d < c => pc[d] # "idle"
      /\ \A d \in Calls : d # c => pc'[d] = pc[d]
  BY DEF Call, Move, TypeOK
<1>2. /\ DOMAIN queue' = DOMAIN queue \cup {last} /\ queue'[last] = c
      /\ \A n \in DOMAIN queue : queue'[n] = queue[n] /\ n \in Nat /\ n < last /\ queue[n] \in Calls
      /\ last \in Nat
  BY DEF Call, TypeOK
<1>3. \A n \in DOMAIN queue : queue[n] < c /\ queue[n] # c
  <2> SUFFICES ASSUME NEW n \in DOMAIN queue PROVE queue[n] < c /\ queue[n] # c
    OBVIOUS
  <2>1. queue[n] \in Calls /\ pc[queue[n]] # "idle"
    BY <1>2 DEF QueueInv, QueueHoldsLive, Live
  <2> QED BY <1>1, <2>1 DEF QueueInv, IdleAreLast, Calls
<1> HIDE DEF last
<1>4. QueueOrdered'
  BY <1>2, <1>3 DEF QueueInv, QueueOrdered
<1>5. QueueHoldsLive'
  BY <1>1, <1>2, <1>3 DEF QueueInv, QueueHoldsLive, Live
<1>6. OnlyFirstBegun'
  BY <1>1, <1>2, <1>3 DEF QueueInv, OnlyFirstBegun
<1>7. IdleAreLast'
  BY <1>1 DEF QueueInv, IdleAreLast, Calls
<1> QED BY <1>4, <1>5, <1>6, <1>7 DEF QueueInv

LEMMA AdvanceQueues ==
  ASSUME TypeOK, QueueInv, NEW c \in Calls, Turn(c), NEW s \in Live,
         pc' = [pc EXCEPT ![c] = s], queue' = queue
  PROVE  QueueInv'
<1>1. pc[c] \in Live /\ queue[1] = c /\ 1 \in DOMAIN queue
  BY TurnIsFirst
<1>2. pc'[c] = s /\ \A d \in Calls : d # c => pc'[d] = pc[d]
  BY DEF TypeOK
<1>3. QueueOrdered' /\ QueueHoldsLive' /\ IdleAreLast'
  BY <1>1, <1>2 DEF QueueInv, QueueOrdered, QueueHoldsLive, IdleAreLast, Live
<1>4. OnlyFirstBegun'
  <2> SUFFICES ASSUME NEW n \in DOMAIN queue, n # 1 PROVE pc'[queue[n]] = "queued"
    BY DEF OnlyFirstBegun
  <2>1. queue[n] # c /\ queue[n] \in Calls
    BY FirstIsLeast
  <2> QED BY <1>2, <2>1 DEF QueueInv, OnlyFirstBegun
<1> QED BY <1>3, <1>4 DEF QueueInv

LEMMA SettleQueues ==
  ASSUME TypeOK, QueueInv, NEW c \in Calls, Turn(c), NEW s \in {"done", "failed"},
         pc' = [pc EXCEPT ![c] = s], Settled
  PROVE  QueueInv'
<1>1. pc[c] \in Live /\ queue[1] = c /\ 1 \in DOMAIN queue /\ queue # <<>>
  BY TurnIsFirst DEF Turn
<1>2. pc'[c] = s /\ \A d \in Calls : d # c => pc'[d] = pc[d]
  BY DEF TypeOK
<1>3. /\ \A n \in DOMAIN queue' : n \in Nat \ {0} /\ n + 1 \in DOMAIN queue /\ queue'[n] = queue[n + 1]
      /\ \A n \in DOMAIN queue : n # 1 => n - 1 \in DOMAIN queue' /\ queue'[n - 1] = queue[n]
  BY <1>1 DEF Settled, TypeOK
<1>4. \A n \in DOMAIN queue : n # 1 => queue[n] # c /\ queue[n] \in Calls
  BY FirstIsLeast
<1>5. QueueOrdered'
  BY <1>3 DEF QueueInv, QueueOrdered
<1>6. QueueHoldsLive'
  <2> SUFFICES ASSUME NEW d \in Calls
               PROVE  pc'[d] \in Live <=> \E n \in DOMAIN queue' : queue'[n] = d
    BY DEF QueueHoldsLive
  <2>1. CASE d = c
    <3>1. ASSUME NEW n \in DOMAIN queue' PROVE queue'[n] # c
      <4>1. n + 1 \in DOMAIN queue /\ n + 1 # 1 /\ queue'[n] = queue[n + 1]
        BY <1>3
      <4> QED BY <1>4, <4>1
    <3> QED BY <1>2, <2>1, <3>1 DEF Live
  <2>2. CASE d # c
    <3>1. (\E n \in DOMAIN queue' : queue'[n] = d) <=> \E n \in DOMAIN queue : queue[n] = d
      BY <1>1, <1>3, <2>2
    <3> QED BY <1>2, <2>2, <3>1 DEF QueueInv, QueueHoldsLive
  <2> QED BY <2>1, <2>2
<1>7. OnlyFirstBegun'
  <2> SUFFICES ASSUME NEW n \in DOMAIN queue' PROVE pc'[queue'[n]] = "queued"
    BY DEF OnlyFirstBegun
  <2>1. n + 1 \in DOMAIN queue /\ n + 1 # 1 /\ queue'[n] = queue[n + 1]
    BY <1>3
  <2> QED BY <1>2, <1>4, <2>1 DEF QueueInv, OnlyFirstBegun
<1>8. IdleAreLast'
  BY <1>1, <1>2 DEF QueueInv, IdleAreLast, Live
<1> QED BY <1>5, <1>6, <1>7, <1>8 DEF QueueInv

LEMMA CrashQueues == ASSUME TypeOK, QueueInv, Crash PROVE QueueInv'
<1>1. \A c \in Calls : pc'[c] = IF pc[c] \in Live THEN "lost" ELSE pc[c]
  BY DEF Crash, Turn_Unlocked, QueueInv, QueueHoldsLive
<1>2. queue' = <<>>
  BY DEF Crash
<1>3. IdleAreLast'
  BY <1>1 DEF QueueInv, IdleAreLast, Live
<1>4. QueueHoldsLive'
  BY <1>1, <1>2 DEF QueueHoldsLive, Live, TypeOK
<1> QED BY <1>2, <1>3, <1>4 DEF QueueInv, QueueOrdered, OnlyFirstBegun
-----------------------------------------------------------------------------
(* Which call a step is about, and what it does to the queue. *)

LEMMA FailTurn ==
  ASSUME TypeOK, QueueInv, NEW c \in Calls, FileOperationFails(c) \/ ReadBrokenFile(c)
  PROVE  Turn(c) /\ Fail(c) /\ pc[c] \in {"queued", "read", "writing", "written"}
BY BegunHasTurn DEF FileOperationFails, ReadBrokenFile, Live

LEMMA BegunTurn ==
  ASSUME TypeOK, QueueInv, NEW c \in Calls, OpenTemp(c) \/ WriteTemp(c) \/ Rename(c) \/ Resolve(c)
  PROVE  Turn(c)
BY BegunHasTurn DEF OpenTemp, WriteTemp, Rename, Resolve, Move, Live

LEMMA NextQueue == TypeOK /\ QueueInv /\ [Next]_vars => QueueInv'
<1> SUFFICES ASSUME TypeOK, QueueInv, [Next]_vars PROVE QueueInv'
  OBVIOUS
<1>1. ASSUME NEW c \in Calls, Call(c) PROVE QueueInv'
  BY <1>1, CallQueues
<1>2. ASSUME NEW c \in Calls, ReadFile(c) PROVE QueueInv'
  <2>1. CASE request[c].kind = "read"
    BY <1>2, <2>1, SettleQueues DEF ReadFile, Move
  <2>2. CASE request[c].kind # "read"
    BY <1>2, <2>2, AdvanceQueues DEF ReadFile, Move, Live
  <2> QED BY <2>1, <2>2
<1>3. ASSUME NEW c \in Calls, OpenTemp(c) \/ WriteTemp(c) \/ Rename(c) PROVE QueueInv'
  <2>1. Turn(c)
    BY <1>3, BegunTurn
  <2> QED BY <1>3, <2>1, AdvanceQueues DEF OpenTemp, WriteTemp, Rename, Move, Live
<1>4. ASSUME NEW c \in Calls, Resolve(c) PROVE QueueInv'
  <2>1. Turn(c)
    BY <1>4, BegunTurn
  <2> QED BY <1>4, <2>1, SettleQueues DEF Resolve, Move
<1>5. ASSUME NEW c \in Calls, FileOperationFails(c) \/ ReadBrokenFile(c) PROVE QueueInv'
  <2>1. Turn(c) /\ Fail(c)
    BY <1>5, FailTurn
  <2> QED BY <2>1, SettleQueues DEF Fail
<1>6. CASE Crash
  BY <1>6, CrashQueues
<1>7. CASE UNCHANGED vars
  BY <1>7 DEF vars, QueueInv, QueueOrdered, QueueHoldsLive, OnlyFirstBegun, IdleAreLast
<1> QED BY <1>1, <1>2, <1>3, <1>4, <1>5, <1>6, <1>7 DEF Next, Step

-----------------------------------------------------------------------------
(* Type correctness. *)

LEMMA InitInv == Init => IInv
<1> SUFFICES ASSUME Init PROVE IInv
  OBVIOUS
<1>1. Empty \in Records
  BY DEF Empty, Records
<1>2. TypeOK
  <2>1. file \in [kind : FileKinds, records : Records]
    BY <1>1 DEF Init, FileKinds
  <2>2. request \in [Calls -> Requests]
    BY DEF Init, Requests
  <2>3. queue \in Seq(Calls)
    BY DEF Init
  <2> QED BY <1>1, <2>1, <2>2, <2>3, BoundsAssumption DEF Init, TypeOK
<1>3. QueueInv
  BY DEF Init, QueueInv, QueueOrdered, QueueHoldsLive, OnlyFirstBegun, IdleAreLast, Live
<1>4. HeldInv
  BY DEF Init, HeldInv
<1> QED BY <1>2, <1>3, <1>4 DEF IInv

(* What a put or delete writes is a set of records. *)
LEMMA ChangedIsRecords ==
  ASSUME TypeOK, NEW c \in Calls
  PROVE  Changed(c) \in Records /\ Contents(file) \in Records
<1>1. held[c] \in Records
  BY DEF TypeOK
<1> QED BY <1>1 DEF TypeOK, Changed, Contents, Records, Empty

LEMMA NextType == TypeOK /\ QueueInv /\ [Next]_vars => TypeOK'
<1> SUFFICES ASSUME TypeOK, QueueInv, [Next]_vars PROVE TypeOK'
  OBVIOUS
<1>1. ASSUME NEW c \in Calls, Turn(c) PROVE Tail(queue) \in Seq(Calls)
  BY <1>1 DEF Turn, TypeOK
<1>2. ASSUME NEW c \in Calls, Call(c) PROVE TypeOK'
  BY <1>2 DEF Call, Move, TypeOK
<1>3. ASSUME NEW c \in Calls, ReadFile(c) PROVE TypeOK'
  <2>1. Turn(c) /\ Contents(file) \in Records
    BY <1>3, ChangedIsRecords DEF ReadFile
  <2>2. queue' \in Seq(Calls) /\ held' \in [Calls -> Records] /\ got' \in [Calls -> Records]
    BY <1>1, <1>3, <2>1 DEF ReadFile, Settled, TypeOK
  <2> QED BY <1>3, <2>2 DEF ReadFile, Move, TypeOK
<1>4. ASSUME NEW c \in Calls, OpenTemp(c) \/ WriteTemp(c) PROVE TypeOK'
  <2>1. Changed(c) \in Records
    BY ChangedIsRecords
  <2> QED BY <1>4, <2>1 DEF OpenTemp, WriteTemp, Move, TypeOK
<1>5. ASSUME NEW c \in Calls, Rename(c) PROVE TypeOK'
  BY <1>5 DEF Rename, Move, TypeOK, FileKinds
<1>6. ASSUME NEW c \in Calls, Resolve(c) PROVE TypeOK'
  <2>1. Turn(c)
    BY <1>6, BegunTurn
  <2> QED BY <1>1, <1>6, <2>1 DEF Resolve, Settled, Move, TypeOK
<1>7. ASSUME NEW c \in Calls, FileOperationFails(c) \/ ReadBrokenFile(c) PROVE TypeOK'
  <2>1. Turn(c) /\ Fail(c)
    BY <1>7, FailTurn
  <2> QED BY <1>1, <2>1 DEF Fail, Settled, TypeOK
<1>8. CASE Crash
  BY <1>8, BoundsAssumption DEF Crash, TypeOK
<1>9. CASE UNCHANGED vars
  BY <1>9 DEF vars, TypeOK
<1> QED BY <1>2, <1>3, <1>4, <1>5, <1>6, <1>7, <1>8, <1>9 DEF Next, Step

-----------------------------------------------------------------------------
(* What a call that has begun holds. *)

LEMMA NextHeld == IInv /\ [Next]_vars => HeldInv'
<1> SUFFICES ASSUME IInv, [Next]_vars PROVE HeldInv'
  OBVIOUS
<1> USE DEF IInv
<1> DEFINE Begun == {"read", "writing", "written"}
           Kept(d) ==
             pc'[d] \in Begun =>
               pc'[d] = pc[d] /\ held'[d] = held[d] /\ request'[d] = request[d]
           Holds(d) ==
             /\ pc[d] \in Begun => request[d].kind # "read"
             /\ pc[d] \in {"read", "writing"} => held[d] = Contents(file)
             /\ pc[d] = "written" => held[d] = ChangedFile(d)
<1>0. ASSUME NEW d \in Calls, Kept(d), file' = file PROVE Holds(d)'
  BY <1>0 DEF HeldInv, ChangedFile, Contents
<1>1. ASSUME NEW c \in Calls, Call(c) PROVE HeldInv'
  BY <1>0, <1>1 DEF Call, Move, TypeOK, HeldInv
<1>2. ASSUME NEW c \in Calls, ReadFile(c) PROVE HeldInv'
  <2>1. \A d \in Calls : d # c => Kept(d)
    BY <1>2 DEF ReadFile, Move, TypeOK
  <2>2. file' = file /\ held'[c] = Contents(file) /\ request' = request
    BY <1>2 DEF ReadFile, TypeOK
  <2>3. pc'[c] \in Begun => pc'[c] = "read" /\ request[c].kind # "read"
    BY <1>2 DEF ReadFile, Move, TypeOK
  <2>4. Holds(c)'
    BY <2>2, <2>3 DEF Contents
  <2> QED BY <1>0, <2>1, <2>2, <2>4 DEF HeldInv
<1>3. ASSUME NEW c \in Calls, OpenTemp(c) PROVE HeldInv'
  <2>1. \A d \in Calls : d # c => Kept(d)
    BY <1>3 DEF OpenTemp, Move, TypeOK
  <2>2. Holds(c)'
    BY <1>3 DEF OpenTemp, Move, TypeOK, HeldInv, Contents
  <2>3. file' = file
    BY <1>3 DEF OpenTemp
  <2> QED BY <1>0, <2>1, <2>2, <2>3 DEF HeldInv
<1>4. ASSUME NEW c \in Calls, WriteTemp(c) PROVE HeldInv'
  <2>1. \A d \in Calls : d # c => Kept(d)
    BY <1>4 DEF WriteTemp, Move, TypeOK
  <2>2. file' = file /\ request' = request /\ pc'[c] = "written" /\ held'[c] = Changed(c)
    BY <1>4 DEF WriteTemp, Move, TypeOK
  <2>3. held[c] = Contents(file) /\ request[c].kind # "read"
    BY <1>4 DEF WriteTemp, Move, HeldInv
  <2>4. Changed(c) = ChangedFile(c)
    BY <2>3 DEF Changed, ChangedFile
  <2>5. ChangedFile(c)' = ChangedFile(c)
    BY <2>2 DEF ChangedFile, Contents
  <2>6. Holds(c)'
    BY <2>2, <2>3, <2>4, <2>5
  <2> QED BY <1>0, <2>1, <2>2, <2>6 DEF HeldInv
<1>5. ASSUME NEW c \in Calls, Rename(c) PROVE HeldInv'
  <2> SUFFICES ASSUME NEW d \in Calls PROVE pc'[d] \notin Begun
    BY DEF HeldInv
  <2>1. CASE d = c
    BY <1>5, <2>1 DEF Rename, Move, TypeOK
  <2>2. CASE d # c
    <3>1. Turn(c) /\ ~Turn(d)
      BY <1>5, <2>2, BegunTurn DEF Turn
    <3>2. pc[d] \notin Begun
      BY <3>1, BegunHasTurn DEF Live
    <3> QED BY <1>5, <2>2, <3>2 DEF Rename, Move, TypeOK
  <2> QED BY <2>1, <2>2
<1>6. ASSUME NEW c \in Calls, Resolve(c) PROVE HeldInv'
  BY <1>0, <1>6 DEF Resolve, Move, TypeOK, HeldInv
<1>7. ASSUME NEW c \in Calls, FileOperationFails(c) \/ ReadBrokenFile(c) PROVE HeldInv'
  <2>1. Fail(c)
    BY <1>7, FailTurn
  <2> QED BY <1>0, <2>1 DEF Fail, TypeOK, HeldInv
<1>8. CASE Crash
  BY <1>0, <1>8 DEF Crash, TypeOK, HeldInv
<1>9. CASE UNCHANGED vars
  BY <1>0, <1>9 DEF vars, HeldInv
<1> QED BY <1>1, <1>2, <1>3, <1>4, <1>5, <1>6, <1>7, <1>8, <1>9 DEF Next, Step

(* The store, its queue and its calls always satisfy the invariant. *)
THEOREM InvariantHolds == Spec => []IInv
<1>1. IInv /\ [Next]_vars => IInv'
  BY NextType, NextQueue, NextHeld DEF IInv
<1> QED BY <1>1, InitInv, PTL DEF Spec

-----------------------------------------------------------------------------
(* The refinement.  Phases is what AtomicStore sees of the calls.           *)

PhaseOf(p) ==
  IF p \in {"queued", "read", "writing", "written"} THEN "open"
  ELSE IF p = "renamed" THEN "written" ELSE p

Phases == [c \in Calls |-> PhaseOf(pc[c])]

(* A step of one call moves its phase and no other.                         *)
LEMMA PhaseMoves ==
  ASSUME TypeOK, NEW c \in Calls, NEW s, pc' = [pc EXCEPT ![c] = s]
  PROVE  /\ Phases[c] = PhaseOf(pc[c])
         /\ Phases' = [Phases EXCEPT ![c] = PhaseOf(s)]
         /\ PhaseOf(s) = PhaseOf(pc[c]) => Phases' = Phases
BY DEF TypeOK, Phases

LEMMA ReadInTurn ==
  ASSUME TypeOK, QueueInv, NEW c \in Calls, Turn(c)
  PROVE  \A d \in Calls : d < c => Phases[d] \in {"done", "failed", "lost"}
BY TurnIsFirst DEF Phases, PhaseOf

(* Every step of the store is a step of AtomicStore or changes nothing that *)
(* its callers see: a call takes effect when it reads, or when it renames.  *)
LEMMA StepRefines ==
  ASSUME IInv, [Next]_vars
  PROVE  UNCHANGED <<Contents(file), Phases, got>> \/ Promise!Next
<1> USE DEF IInv
<1>1. ASSUME NEW c \in Calls, Call(c) PROVE Promise!Open(c)
  <2>1. pc[c] = "idle" /\ pc' = [pc EXCEPT ![c] = "queued"] /\ UNCHANGED <<file, got>>
    BY <1>1 DEF Call, Move
  <2>2. Phases[c] = "idle" /\ Phases' = [Phases EXCEPT ![c] = "open"]
    BY <2>1, PhaseMoves DEF PhaseOf
  <2> QED BY <2>1, <2>2 DEF Promise!Open, Promise!Move, Phases, PhaseOf, Contents
<1>2. ASSUME NEW c \in Calls, ReadFile(c), request[c].kind = "read" PROVE Promise!Read(c)
  <2>1. /\ Turn(c) /\ pc[c] = "queued" /\ pc' = [pc EXCEPT ![c] = "done"] /\ UNCHANGED file
        /\ got' = [got EXCEPT ![c] = Contents(file)]
    BY <1>2 DEF ReadFile, Move
  <2>2. Phases[c] = "open" /\ Phases' = [Phases EXCEPT ![c] = "done"]
    BY <2>1, PhaseMoves DEF PhaseOf
  <2>3. \A d \in Calls : d < c => Phases[d] \in {"done", "failed", "lost"}
    BY <2>1, ReadInTurn
  <2> QED BY <2>1, <2>2, <2>3
       DEF Promise!Read, Promise!InTurn, Promise!Move, Phases, PhaseOf, Contents
<1>3. ASSUME NEW c \in Calls, ReadFile(c), request[c].kind # "read"
      PROVE  UNCHANGED <<Contents(file), Phases, got>>
  <2>1. pc[c] = "queued" /\ pc' = [pc EXCEPT ![c] = "read"] /\ UNCHANGED <<file, got>>
    BY <1>3 DEF ReadFile, Move
  <2> QED BY <2>1, PhaseMoves DEF PhaseOf, Contents
<1>4. ASSUME NEW c \in Calls, OpenTemp(c) \/ WriteTemp(c)
      PROVE  UNCHANGED <<Contents(file), Phases, got>>
  <2>1. /\ UNCHANGED <<file, got>>
        /\ \E s \in {"writing", "written"} :
             pc[c] \in {"read", "writing"} /\ pc' = [pc EXCEPT ![c] = s]
    BY <1>4 DEF OpenTemp, WriteTemp, Move
  <2> QED BY <2>1, PhaseMoves DEF PhaseOf, Contents
<1>5. ASSUME NEW c \in Calls, Rename(c)
      PROVE  \E k \in Keys, r \in {NoRecord} \cup Calls : r \in {NoRecord, c} /\ Promise!Write(c, k, r)
  <2> DEFINE k == request[c].key
             r == IF request[c].kind = "put" THEN c ELSE NoRecord
  <2>1. /\ pc[c] = "written" /\ pc' = [pc EXCEPT ![c] = "renamed"] /\ UNCHANGED got
        /\ file' = [kind |-> "store", records |-> held[c]]
    BY <1>5 DEF Rename, Move
  <2>2. Phases[c] = "open" /\ Phases' = [Phases EXCEPT ![c] = "written"]
    BY <2>1, PhaseMoves DEF PhaseOf
  <2>3. Contents(file)' = [Contents(file) EXCEPT ![k] = r]
    BY <2>1 DEF HeldInv, ChangedFile, Contents
  <2>4. k \in Keys /\ r \in {NoRecord, c}
    BY <2>1 DEF HeldInv, TypeOK, Requests
  <2>5. \A d \in Calls : d < c => Phases[d] \in {"done", "failed", "lost"}
    BY <1>5, BegunTurn, ReadInTurn
  <2>6. Promise!Write(c, k, r)
    BY <2>1, <2>2, <2>3, <2>5
       DEF Promise!Write, Promise!InTurn, Promise!Move, Phases, PhaseOf, Contents
  <2> HIDE DEF k, r
  <2> QED BY <2>4, <2>6
<1>6. ASSUME NEW c \in Calls, Resolve(c) PROVE Promise!Return(c)
  <2>1. pc[c] = "renamed" /\ pc' = [pc EXCEPT ![c] = "done"] /\ UNCHANGED <<file, got>>
    BY <1>6 DEF Resolve, Move
  <2>2. Phases[c] = "written" /\ Phases' = [Phases EXCEPT ![c] = "done"]
    BY <2>1, PhaseMoves DEF PhaseOf
  <2> QED BY <2>1, <2>2 DEF Promise!Return, Promise!Move, Phases, PhaseOf, Contents
<1>7. ASSUME NEW c \in Calls, FileOperationFails(c) \/ ReadBrokenFile(c) PROVE Promise!Reject(c)
  <2>1. /\ pc[c] \in {"queued", "read", "writing", "written"}
        /\ pc' = [pc EXCEPT ![c] = "failed"] /\ UNCHANGED <<file, got>>
    BY <1>7, FailTurn DEF Fail
  <2>2. Phases[c] = "open" /\ Phases' = [Phases EXCEPT ![c] = "failed"]
    BY <2>1, PhaseMoves DEF PhaseOf
  <2> QED BY <2>1, <2>2 DEF Promise!Reject, Promise!Move, Phases, PhaseOf, Contents
<1>8. CASE Crash
  <2>1. \A c \in Calls : pc'[c] = IF pc[c] \in Live THEN "lost" ELSE pc[c]
    BY <1>8 DEF Crash, Turn_Unlocked, QueueInv, QueueHoldsLive
  <2>2. Phases' = [c \in Calls |-> IF Phases[c] \in {"open", "written"} THEN "lost" ELSE Phases[c]]
    BY <2>1 DEF Phases, PhaseOf, Live, TypeOK
  <2>3. UNCHANGED <<file, got>>
    BY <1>8 DEF Crash
  <2>4. Promise!Crash
    BY <2>2, <2>3 DEF Promise!Crash, Phases, PhaseOf, Contents
  <2> QED BY <2>4 DEF Promise!Next
<1>9. CASE UNCHANGED vars
  BY <1>9 DEF vars, Phases, Contents
<1> QED BY <1>1, <1>2, <1>3, <1>4, <1>5, <1>6, <1>7, <1>8, <1>9 
       DEF Next, Step, Promise!Next, NoRecord, Promise!NoRecord

(* What callers of the record store see is an atomic map, changed and read  *)
(* in the order of their calls: whatever fails or crashes in between, a     *)
(* call takes effect wholly or not at all (withLock, readStore, writeStore).*)
THEOREM StoreIsAtomic == Spec => ImplementsAtomicStore
<1>1. Init => Promise!Init
  <2> SUFFICES ASSUME Init PROVE Promise!Init
    OBVIOUS
  <2>1. Contents(file) = Promise!Empty /\ got = [c \in Calls |-> Promise!Empty]
    BY DEF Init, Contents, Empty, NoRecord, Promise!Empty, Promise!NoRecord
  <2>2. Phases = [c \in Calls |-> "idle"]
    BY DEF Init, Phases, PhaseOf
  <2> QED BY <2>1, <2>2 DEF Promise!Init, Phases, PhaseOf
<1>2. IInv /\ [Next]_vars => [Promise!Next]_<<Contents(file), Phases, got>>
  BY StepRefines
<1>3. ImplementsAtomicStore <=>
        Promise!Init /\ [][Promise!Next]_<<Contents(file), Phases, got>>
  BY DEF ImplementsAtomicStore, Promise!Spec, Phases, PhaseOf
<1> QED BY <1>1, <1>2, <1>3, InvariantHolds, PTL DEF Spec

=============================================================================
