------------------------------ MODULE RunStore ------------------------------
(***************************************************************************)
(* The JSON-file record stores: createJsonFilePiSubagentsRunStore           *)
(* (src/executor/pi-subagents-run-store.ts) and the store of the same shape *)
(* in src/executor/intercom-record-store.ts, which adds list and delete.    *)
(*                                                                         *)
(* One instance of the store.  Its calls run one at a time through a promise*)
(* queue; each reads the whole file, and a put or delete writes the changed *)
(* records to a temporary file and renames it over the store.  Any file     *)
(* operation may fail, and the process may crash between two of them; a new *)
(* process then goes on with the same file.                                 *)
(*                                                                         *)
(* A call is a number, given out in the order of the calls, and names the   *)
(* record it puts.  A get and a list differ only in how much of what they   *)
(* read they return: both are a "read".                                     *)
(***************************************************************************)
EXTENDS Naturals, Sequences

CONSTANTS
  Keys,
  MaxCalls,      \* bound: calls in all
  MaxErrors,     \* bound: file operations that fail
  MaxCrashes     \* bound: crashes of the process

ASSUME BoundsAssumption == {MaxCalls, MaxErrors, MaxCrashes} \subseteq Nat

Calls == 1..MaxCalls
NoRecord == 0
Records == [Keys -> {NoRecord} \cup Calls]
Empty == [k \in Keys |-> NoRecord]
Requests == [kind : {"read"}] \cup [kind : {"put", "delete"}, key : Keys]

VARIABLES
  file,      \* the store's file: what it is, and its records if it is a store
  pc,        \* where each call is
  request,   \* what each call asks for
  queue,     \* the calls not yet settled, in the order they were made
  held,      \* the records each call read, then those it wrote to its temporary file
  got,       \* what each read returned
  errors, crashes

vars == <<file, pc, request, queue, held, got, errors, crashes>>

\* A file that is no version-1 store, and a missing file, read as no records;
\* a file that is not JSON cannot be read.
FileKinds == {"missing", "store", "foreign", "broken"}
Contents(f) == IF f.kind = "store" THEN f.records ELSE Empty

TypeOK ==
  /\ file \in [kind : FileKinds, records : Records]
  /\ pc \in [Calls -> {"idle", "queued", "read", "writing", "written", "renamed",
                       "done", "failed", "lost"}]
  /\ request \in [Calls -> Requests]
  /\ queue \in Seq(Calls)
  /\ held \in [Calls -> Records]
  /\ got \in [Calls -> Records]
  /\ errors \in Nat /\ crashes \in 0..MaxCrashes

Init ==
  /\ file \in [kind : {"missing", "foreign", "broken"}, records : {Empty}]
  /\ pc = [c \in Calls |-> "idle"]
  /\ request = [c \in Calls |-> [kind |-> "read"]]
  /\ queue = <<>>
  /\ held = [c \in Calls |-> Empty] /\ got = held
  /\ errors = 0 /\ crashes = 0

Move(c, from, to) == pc[c] = from /\ pc' = [pc EXCEPT ![c] = to]

----------------------------------------------------------------------------
(* The queue. *)

Call(c) ==
  /\ \A d \in Calls : d < c => pc[d] # "idle"
  /\ Move(c, "idle", "queued")
  /\ \E r \in Requests : request' = [request EXCEPT ![c] = r]
  /\ queue' = Append(queue, c)
  /\ UNCHANGED <<file, held, got, errors, crashes>>

\* A call starts when the one before it has settled.
Turn_Unlocked(c) == \E i \in DOMAIN queue : queue[i] = c
Turn(c) == queue # <<>> /\ c = Head(queue)

\* The call that settles is the first; the next runs whether it succeeded or failed.
Settled == queue' = Tail(queue)

Fail_KeepsQueue(c) ==
  /\ pc' = [pc EXCEPT ![c] = "failed"]
  /\ errors' = errors + 1
  /\ UNCHANGED <<file, request, queue, held, got, crashes>>
Fail(c) ==
  /\ pc' = [pc EXCEPT ![c] = "failed"]
  /\ errors' = errors + 1
  /\ Settled
  /\ UNCHANGED <<file, request, held, got, crashes>>

----------------------------------------------------------------------------
(* One call: read the file, write the temporary file, rename it. *)

ReadFile(c) ==
  /\ Turn(c) /\ file.kind # "broken"
  /\ held' = [held EXCEPT ![c] = Contents(file)]
  /\ IF request[c].kind = "read"
     THEN /\ Move(c, "queued", "done")
          /\ got' = [got EXCEPT ![c] = Contents(file)]
          /\ Settled
     ELSE /\ Move(c, "queued", "read")
          /\ UNCHANGED <<got, queue>>
  /\ UNCHANGED <<file, request, errors, crashes>>

ReadBrokenFile(c) == Turn(c) /\ pc[c] = "queued" /\ file.kind = "broken" /\ Fail(c)

Changed(c) ==
  [held[c] EXCEPT ![request[c].key] = IF request[c].kind = "put" THEN c ELSE NoRecord]

OpenTemp(c) ==
  /\ Move(c, "read", "writing")
  /\ UNCHANGED <<file, request, queue, held, got, errors, crashes>>

WriteTemp(c) ==
  /\ Move(c, "writing", "written")
  /\ held' = [held EXCEPT ![c] = Changed(c)]
  /\ UNCHANGED <<file, request, queue, got, errors, crashes>>

Rename(c) ==
  /\ Move(c, "written", "renamed")
  /\ file' = [kind |-> "store", records |-> held[c]]
  /\ UNCHANGED <<request, queue, held, got, errors, crashes>>

Resolve(c) ==
  /\ Move(c, "renamed", "done")
  /\ Settled
  /\ UNCHANGED <<file, request, held, got, errors, crashes>>

FileOperationFails(c) ==
  /\ errors < MaxErrors
  /\ \/ pc[c] = "queued" /\ Turn(c)
     \/ pc[c] \in {"read", "writing", "written"}
  /\ Fail(c)

\* The queue is the process's memory; temporary files are left where they are.
Crash ==
  /\ crashes < MaxCrashes
  /\ crashes' = crashes + 1
  /\ pc' = [c \in Calls |-> IF Turn_Unlocked(c) THEN "lost" ELSE pc[c]]
  /\ queue' = <<>>
  /\ UNCHANGED <<file, request, held, got, errors>>

Step(c) == ReadFile(c) \/ ReadBrokenFile(c) \/ OpenTemp(c) \/ WriteTemp(c)
           \/ Rename(c) \/ Resolve(c)

Next == \/ \E c \in Calls : Call(c) \/ Step(c) \/ FileOperationFails(c)
        \/ Crash

\* Each file operation the process waits for completes.
Fairness == \A c \in Calls : WF_vars(Step(c))
Spec == Init /\ [][Next]_vars /\ Fairness

----------------------------------------------------------------------------
(* Properties. *)

\* Every call settles, unless a crash takes it: a failed call does not keep
\* the queue.
EveryCallSettles ==
  \A c \in Calls : (pc[c] = "queued") ~> (pc[c] \in {"done", "failed", "lost"})

\* Callers see an atomic map, changed and read in the order of their calls: what
\* a crash or an error interrupts changed the store wholly or not at all, no
\* resolved put is undone by another call, a read returns what the calls before
\* it left, and an error rejects the one call it belongs to.
Promise == INSTANCE AtomicStore WITH
  store <- Contents(file),
  phase <- [c \in Calls |->
             IF pc[c] \in {"queued", "read", "writing", "written"} THEN "open"
             ELSE IF pc[c] = "renamed" THEN "written" ELSE pc[c]]
ImplementsAtomicStore == Promise!Spec
=============================================================================
