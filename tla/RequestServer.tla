---------------------------- MODULE RequestServer ----------------------------
(***************************************************************************)
(* What a client of the NDJSON runtime may rely on, without threads, locks *)
(* or queue: a request that was read is answered once, turns run one at a  *)
(* time, and a turn speaks only while it runs.                             *)
(***************************************************************************)
CONSTANTS
  Requests,   \* identifiers of the requests
  Turns       \* those that are turns

VARIABLES
  status,     \* where each request is
  speaking    \* the request the last event of generated text belongs to

vars == <<status, speaking>>

Status == {"unsent", "pending", "running", "answered"}
Nobody == "nobody"

Init ==
  /\ status = [r \in Requests |-> "unsent"]
  /\ speaking = Nobody

Running == {r \in Requests : status[r] = "running"}
Waiting == {r \in Requests : status[r] = "pending"}

Accept(r) ==
  /\ status[r] = "unsent"
  /\ status' = [status EXCEPT ![r] = "pending"]
  /\ speaking' = Nobody

Start(r) ==
  /\ r \in Turns
  /\ status[r] = "pending"
  /\ Running = {}
  /\ status' = [status EXCEPT ![r] = "running"]
  /\ speaking' = Nobody

Speak(r) ==
  /\ status[r] = "running"
  /\ speaking' = r
  /\ UNCHANGED status

(* A turn may be rejected before it runs.  Several requests can be answered *)
(* together: the cancellations of a turn leave with its terminal event.     *)
Answer(R) ==
  /\ R # {}
  /\ status' = [r \in Requests |-> IF r \in R THEN "answered" ELSE status[r]]
  /\ speaking' = Nobody

Silence ==
  /\ speaking' = Nobody
  /\ UNCHANGED status

Next ==
  \/ \E r \in Requests : Accept(r) \/ Start(r) \/ Speak(r)
  \/ \E R \in SUBSET (Waiting \cup Running) : Answer(R)
  \/ Silence

Spec == Init /\ [][Next]_vars
=============================================================================
