--------------------------- MODULE RequestService ---------------------------
(***************************************************************************)
(* What the request pipeline promises to its callers, whatever the         *)
(* buckets, threads and queues behind it do: a submitted request is sent,  *)
(* is sent again at most RetryLimit times, is answered once, and its       *)
(* object serves a new submission only after that answer was delivered.    *)
(***************************************************************************)
EXTENDS Integers

CONSTANTS Requests, RetryLimit

VARIABLES
  phase,   \* idle, queued, sent or answered
  retries  \* how often the request was sent again

vars == <<phase, retries>>

Init ==
  /\ phase = [r \in Requests |-> "idle"]
  /\ retries = [r \in Requests |-> 0]

Move(r, from, to) ==
  /\ phase[r] = from
  /\ phase' = [phase EXCEPT ![r] = to]

Submit(r) == Move(r, "idle", "queued") /\ UNCHANGED retries

\* Several buckets may send in the same step.
Send(S) ==
  /\ \A r \in S : phase[r] = "queued"
  /\ phase' = [r \in Requests |-> IF r \in S THEN "sent" ELSE phase[r]]
  /\ UNCHANGED retries

Retry(r) ==
  /\ Move(r, "sent", "queued")
  /\ retries[r] < RetryLimit
  /\ retries' = [retries EXCEPT ![r] = @ + 1]

Answer(r) == Move(r, "sent", "answered") /\ UNCHANGED retries

Deliver(r) ==
  /\ Move(r, "answered", "idle")
  /\ retries' = [retries EXCEPT ![r] = 0]

Next ==
  \/ \E r \in Requests : Submit(r) \/ Retry(r) \/ Answer(r) \/ Deliver(r)
  \/ \E S \in SUBSET Requests : Send(S)

Spec == Init /\ [][Next]_vars
=============================================================================
