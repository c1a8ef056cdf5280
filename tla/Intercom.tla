------------------------------- MODULE Intercom -------------------------------
(***************************************************************************)
(* One session's intercom: PiWendaoIntercomCorrelationState                 *)
(* (src/executor/intercom-correlation.ts) as the pi-intercom client         *)
(* (src/executor/pi-intercom-runtime.ts) uses it.  Asks of other sessions   *)
(* come in, replies and own asks go out through the registered tool, and    *)
(* each message leaves a record in the store.  The tracker of pending asks  *)
(* is memory and starts empty in every process; the records stay.           *)
(*                                                                         *)
(* The store's operations run in the order they are issued (module          *)
(* RunStore), so each takes effect here when it is issued and its call goes *)
(* on later.  A crash loses the operations at the end of the queue, which   *)
(* is the same as a crash just before they were issued.                     *)
(*                                                                         *)
(* Covered: receiveAsk, reply, pending, ask, send, failures of the store,   *)
(* asks delivered twice, restarts.  Not covered: the texts, attachments and *)
(* the actions list and status, which leave no record.                      *)
(***************************************************************************)
EXTENDS ReplyTracker, FiniteSets

CONSTANTS
  Calls,          \* reply, pending, ask and send calls, each made at most once
  Redeliveries,   \* bound: asks delivered once more
  StoreErrors,    \* bound: store operations that fail
  Restarts,       \* bound: restarts of the process
  MaxTime         \* bound: the clock

\* Every message has an id of its own.
IntercomAssumption ==
  {Redeliveries, StoreErrors, Restarts, MaxTime} \subseteq Nat /\ Asks \cap Calls = {}

VARIABLES
  tracker, now,
  record,      \* the record of each ask received and of each call's own message
  call,        \* the calls: where each is and what it works on
  delivered,   \* how often each ask was delivered
  answered,    \* how often each ask was resolved as the target of a reply
  forgotten,   \* asks pruned by a reply or by a listing, or lost with the process
  errors, restarts

vars == <<tracker, now, record, call, delivered, answered, forgotten, errors, restarts>>

Status == {"none", "waiting", "replied", "expired", "failed", "sent"}
Idle == [at |-> "idle", ask |-> NoAsk, todo |-> {}]

TypeOK ==
  /\ tracker \in Trackers /\ now \in 0..MaxTime
  /\ record \in [Asks \cup Calls -> Status]
  /\ call \in [Calls -> [at : {"idle", "replying", "sending", "expiring", "marking",
                               "asking", "answering", "refusing", "done", "threw"},
                         ask : Asks \cup {NoAsk}, todo : SUBSET Asks]]
  /\ delivered \in [Asks -> Nat] /\ answered \in [Asks -> Nat]
  /\ forgotten \subseteq Asks /\ errors \in 0..StoreErrors /\ restarts \in 0..Restarts

Init ==
  /\ tracker = NewTracker /\ now = 0
  /\ record = [m \in Asks \cup Calls |-> "none"]
  /\ call = [c \in Calls |-> Idle]
  /\ delivered = [a \in Asks |-> 0] /\ answered = delivered
  /\ forgotten = {} /\ errors = 0 /\ restarts = 0

Redelivered(a) == delivered[a] > 1

Goto(c, at) == call' = [call EXCEPT ![c].at = at]
Put(m, status) == record' = [record EXCEPT ![m] = status]

Tick == /\ now < MaxTime /\ now' = now + 1
        /\ UNCHANGED <<tracker, record, call, delivered, answered, forgotten, errors, restarts>>

----------------------------------------------------------------------------
(* The calls.  A failing store operation rejects the call it belongs to. *)

\* The ask is tracked before its record is put; a failing put leaves it tracked.
ReceiveAsk(a) ==
  /\ delivered[a] > 0 => \A b \in Asks : ~Redelivered(b) /\ Redeliveries > 0
  /\ delivered' = [delivered EXCEPT ![a] = @ + 1]
  /\ tracker' = RecordAsk(tracker, a, now)
  /\ \/ Put(a, "waiting") /\ UNCHANGED errors
     \/ errors < StoreErrors /\ errors' = errors + 1 /\ UNCHANGED record
  /\ UNCHANGED <<now, call, answered, forgotten, restarts>>

\* client.reply, once the tool has delivered it.  The ask leaves the tracker
\* before the record is read; a refusal is swallowed.
Reply_KeepsPending(c) ==
  /\ call[c].at = "idle"
  /\ \E replyTo \in Asks \cup {NoAsk}, to \in Sessions \cup {Anyone} :
       LET a == Target(tracker, replyTo, to, now)
       IN /\ a # NoAsk
          /\ tracker' = Prune(tracker, now)
          /\ call' = [call EXCEPT ![c].at = "replying", ![c].ask = a]
          /\ answered' = [answered EXCEPT ![a] = @ + 1]
  /\ forgotten' = forgotten \cup Expired(tracker, now)
  /\ UNCHANGED <<now, record, delivered, errors, restarts>>
Reply(c) ==
  /\ call[c].at = "idle"
  /\ \E replyTo \in Asks \cup {NoAsk}, to \in Sessions \cup {Anyone} :
       LET a == Target(tracker, replyTo, to, now)
       IN IF a = NoAsk
          THEN /\ tracker' = Prune(tracker, now)
               /\ Goto(c, "done")
               /\ UNCHANGED answered
          ELSE /\ tracker' = MarkReplied(Prune(tracker, now), a)
               /\ call' = [call EXCEPT ![c].at = "replying", ![c].ask = a]
               /\ answered' = [answered EXCEPT ![a] = @ + 1]
  /\ forgotten' = forgotten \cup Expired(tracker, now)
  /\ UNCHANGED <<now, record, delivered, errors, restarts>>

\* The put writes a record even where the read found none.
PutReplied(c) ==
  /\ call[c].at = "replying"
  /\ Put(call[c].ask, "replied") /\ Goto(c, "sending")
  /\ UNCHANGED <<tracker, now, delivered, answered, forgotten, errors, restarts>>

\* writeRecord of the reply, and of client.send.
PutSent(c) ==
  /\ call[c].at \in {"idle", "sending"}
  /\ Put(c, "sent") /\ Goto(c, "done")
  /\ UNCHANGED <<tracker, now, delivered, answered, forgotten, errors, restarts>>

\* pending: what it prunes is marked expired, one record after the other; the
\* listing it ends with prunes again and marks nothing.
Pending(c) ==
  /\ call[c].at = "idle"
  /\ call' = [call EXCEPT ![c].at = "expiring", ![c].todo = Expired(tracker, now)]
  /\ tracker' = Prune(tracker, now)
  /\ UNCHANGED <<now, record, delivered, answered, forgotten, errors, restarts>>

ReadExpired_StopsAtMissing(c) ==
  /\ call[c].at = "expiring"
  /\ \E a \in call[c].todo :
       IF record[a] = "none" THEN Goto(c, "done")
       ELSE call' = [call EXCEPT ![c].at = "marking", ![c].ask = a, ![c].todo = @ \ {a}]
  /\ UNCHANGED <<tracker, now, record, delivered, answered, forgotten, errors, restarts>>
ReadExpired(c) ==
  /\ call[c].at = "expiring"
  /\ \E a \in call[c].todo :
       call' = [call EXCEPT ![c].at = IF record[a] = "none" THEN "expiring" ELSE "marking",
                            ![c].ask = a, ![c].todo = @ \ {a}]
  /\ UNCHANGED <<tracker, now, record, delivered, answered, forgotten, errors, restarts>>

PutExpired(c) ==
  /\ call[c].at = "marking"
  /\ Put(call[c].ask, "expired") /\ Goto(c, "expiring")
  /\ UNCHANGED <<tracker, now, delivered, answered, forgotten, errors, restarts>>

ListPending(c) ==
  /\ call[c].at = "expiring" /\ call[c].todo = {}
  /\ tracker' = Prune(tracker, now)
  /\ forgotten' = forgotten \cup Expired(tracker, now)
  /\ Goto(c, "done")
  /\ UNCHANGED <<now, record, delivered, answered, errors, restarts>>

\* client.ask: the record is put before the tool is called, and no failure of
\* the tool other than an error result touches it again.
Ask(c) ==
  /\ call[c].at = "idle"
  /\ Put(c, "waiting") /\ Goto(c, "asking")
  /\ UNCHANGED <<tracker, now, delivered, answered, forgotten, errors, restarts>>

ToolAnswers(c) ==
  /\ call[c].at = "asking"
  /\ \E at \in {"answering", "refusing", "threw"} : Goto(c, at)
  /\ UNCHANGED <<tracker, now, record, delivered, answered, forgotten, errors, restarts>>

MarkRecord(c) ==
  /\ call[c].at \in {"answering", "refusing"}
  /\ Put(c, IF call[c].at = "answering" THEN "replied" ELSE "failed")
  /\ Goto(c, "done")
  /\ UNCHANGED <<tracker, now, delivered, answered, forgotten, errors, restarts>>

StoreFails(c) ==
  /\ errors < StoreErrors /\ errors' = errors + 1
  /\ call[c].at \in {"replying", "sending", "expiring", "marking", "answering", "refusing"}
  /\ call[c].at = "expiring" => call[c].todo # {}
  /\ Goto(c, "threw")
  /\ UNCHANGED <<tracker, now, record, delivered, answered, forgotten, restarts>>

\* A new process: the records are there, the tracker is new.
Restart ==
  /\ restarts < Restarts /\ restarts' = restarts + 1
  /\ forgotten' = forgotten \cup tracker.pending
  /\ tracker' = NewTracker
  /\ call' = [c \in Calls |->
               IF call[c].at \in {"idle", "done"} THEN call[c] ELSE [call[c] EXCEPT !.at = "threw"]]
  /\ UNCHANGED <<now, record, delivered, answered, errors>>

Next ==
  \/ Tick \/ Restart
  \/ \E a \in Asks : ReceiveAsk(a)
  \/ \E c \in Calls :
       \/ Reply(c) \/ PutReplied(c) \/ PutSent(c)
       \/ Pending(c) \/ ReadExpired(c) \/ PutExpired(c) \/ ListPending(c)
       \/ Ask(c) \/ ToolAnswers(c) \/ MarkRecord(c) \/ StoreFails(c)

Spec == Init /\ [][Next]_vars

----------------------------------------------------------------------------
(* Properties. *)

Working(a) ==
  \E c \in Calls :
    \/ call[c].at \in {"replying", "marking", "threw"} /\ call[c].ask = a
    \/ call[c].at \in {"expiring", "marking", "threw"} /\ a \in call[c].todo

\* A record that says waiting is one somebody will answer for: its ask is
\* tracked, or a call is about to settle it or threw on the way; or the ask was
\* dropped by one of the three paths that settle no record (a reply's prune, a
\* listing's, a restart), or the process that was asking ended.
WaitingIsTracked ==
  /\ \A a \in Asks :
       record[a] = "waiting" => a \in tracker.pending \cup forgotten \/ Working(a)
  /\ \A c \in Calls :
       record[c] = "waiting" => call[c].at \in {"asking", "answering", "refusing", "threw"}

\* A recorded answer stays: no expiry, failure or second ask of another call
\* that was under way when the answer was recorded overwrites it, unless the
\* same ask is delivered again.
AnswerNotLost ==
  [][\A m \in Asks \cup Calls :
       record[m] = "replied" /\ record'[m] # "replied" => m \in Asks /\ delivered'[m] > 1]_vars

\* However replies, expiries and redeliveries mix, no ask is the target of more
\* replies than it was delivered.
AskAnsweredOnce == \A a \in Asks : answered[a] <= delivered[a]
=============================================================================
