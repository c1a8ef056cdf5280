---------------------------- MODULE RequestReply ----------------------------
(***************************************************************************)
(* The conversation between the executor and qianji, as both sides of it    *)
(* see it: request 1 (the report of where the workflow stands) is open from *)
(* the start, a later request is sent only after the one before it was      *)
(* answered, a request settles once, and nothing follows a failed one.      *)
(*                                                                         *)
(* HostSession keeps this promise to its caller; HostLoop is shown to use   *)
(* the session in no other way.                                             *)
(***************************************************************************)
EXTENDS Naturals

CONSTANT Requests     \* 1..n

VARIABLE state        \* of each request

Init == state = [k \in Requests |-> IF k = 1 THEN "pending" ELSE "unsent"]

Send(k) ==
  /\ state[k] = "unsent"
  /\ k - 1 \in Requests /\ state[k - 1] = "replied"
  /\ state' = [state EXCEPT ![k] = "pending"]

Settle(k) ==
  /\ state[k] = "pending"
  /\ \E s \in {"replied", "failed"} : state' = [state EXCEPT ![k] = s]

Next == \E k \in Requests : Send(k) \/ Settle(k)

Spec == Init /\ [][Next]_state
=============================================================================
