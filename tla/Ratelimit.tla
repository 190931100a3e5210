------------------------------ MODULE Ratelimit ------------------------------
(***************************************************************************)
(* The ratelimiter of winecord-rest_ratelimit.c: one bucket per discovered *)
(* route key and the two singletons `null` and `miss`.  Its functions are  *)
(* only called from the REST thread, so each is written here as the part   *)
(* of a REST-thread action that changes the ratelimiter's state; module    *)
(* RestRequest composes them.                                              *)
(*                                                                         *)
(* Timestamps are kept as the time that is left until them: reset[b] is    *)
(* reset_tstamp - now cut at 0, and Tick lets one unit of time pass.       *)
(* `remaining` is only ever compared with 0, so it is 0 or 1.              *)
(***************************************************************************)
EXTENDS Integers, SequencesExt

CONSTANTS
  Requests,  \* request objects
  Keys,      \* route keys made by winecord_ratelimiter_build_key
  NullB,     \* rl->null
  MissB,     \* rl->miss
  NoBucket,  \* a NULL bucket pointer
  NoReq,     \* a NULL request pointer
  Timeout,   \* WINECORD_BUCKET_TIMEOUT
  MaxWait,   \* bound: longest wait the server asks for, in ticks
  Grouped    \* does the server send limits only along with x-ratelimit-bucket

Bucket == Keys \cup {NullB, MissB}

ASSUME BucketAssumption ==
  /\ NullB # MissB
  /\ NullB \notin Keys
  /\ MissB \notin Keys
  /\ NoBucket \notin Bucket
  /\ NoReq \notin Requests
  /\ Timeout \notin Requests
  /\ Timeout # NoReq

ASSUME ServerAssumption == MaxWait \in Nat /\ Grouped \in BOOLEAN

VARIABLES
  known,      \* keys with a bucket of their own in the hashtable
  queue,      \* b->queues.next
  listed,     \* buckets whose entry is in rl->queues.pending
  busy,       \* b->busy_req
  remaining,  \* b->remaining
  reset,      \* b->reset_tstamp, as time left
  global,     \* *rl->global_wait_tstamp, as time left
  alarms,     \* timers armed on a bucket in rest->timers, as time left
  bof         \* req->b

bucketVars == <<known, queue, listed, busy, remaining, reset, global, alarms, bof>>

Waits == 0..MaxWait

RatelimiterInit ==
  /\ known = {}
  /\ queue = [b \in Bucket |-> <<>>]
  /\ listed = {}
  /\ busy = [b \in Bucket |-> NoReq]
  /\ remaining = [b \in Bucket |-> 1]
  /\ reset = [b \in Bucket |-> 0]
  /\ global = 0
  /\ alarms = [b \in Bucket |-> <<>>]
  /\ bof = [r \in Requests |-> NoBucket]

(* winecord_bucket_get: the bucket known under the key, `null` otherwise.  *)
BucketGet(k) == IF k \in known THEN k ELSE NullB

\* Mutant: the bucket is not put back on the pending list.
InsertUnlisted(b, r, high) ==
  /\ queue' = [queue EXCEPT ![b] = IF high THEN <<r>> \o @ ELSE Append(@, r)]
  /\ bof' = [bof EXCEPT ![r] = b]
  /\ UNCHANGED listed

(* winecord_bucket_insert; the caller takes r out of the queue it was in.  *)
BucketInsert(b, r, high) ==
  /\ queue' = [queue EXCEPT ![b] = IF high THEN <<r>> \o @ ELSE Append(@, r)]
  /\ listed' = listed \cup {b}
  /\ bof' = [bof EXCEPT ![r] = b]

(* winecord_bucket_set_timeout, and set_global_timeout when g.             *)
SetTimeout(b, w, g) ==
  /\ global' = IF g THEN w ELSE global
  /\ remaining' = [remaining EXCEPT ![b] = 0]
  /\ reset' = [reset EXCEPT ![b] = w]
  /\ busy' = [busy EXCEPT ![b] = NoReq]

(* _winecord_bucket_populate from the x-ratelimit headers: remaining is 1  *)
(* without its header; the time to reset goes to the global timestamp with *)
(* x-ratelimit-global, to the bucket's otherwise, or is not given.         *)
Populate(b) ==
  /\ \E left \in {0, 1} :
       /\ left = 0 => ~(Grouped /\ b = MissB)
       /\ remaining' = [remaining EXCEPT ![b] = left]
  /\ \/ UNCHANGED <<reset, global>>
     \/ \E w \in Waits : reset' = [reset EXCEPT ![b] = w] /\ UNCHANGED global
     \/ \E w \in Waits : global' = w /\ UNCHANGED reset

\* Mutant: the busy mark is not looked at.
IdleUnchecked(b) == b \in listed

(* winecord_bucket_request_selector: one pass over the pending buckets.    *)
Idle(b) == b \in listed /\ busy[b] = NoReq

\* Mutant: a bucket with a request on the wire is selected from.
ReadyUnchecked(b) == b \in listed /\ remaining[b] # 0

Ready(b) == Idle(b) /\ remaining[b] # 0

Exhausted(b) == Idle(b) /\ remaining[b] = 0

(* _winecord_bucket_try_timeout: the later of the two timestamps.          *)
WaitOf(b) == IF global > reset[b] THEN global ELSE reset[b]

Selected == {Head(queue[b]) : b \in {x \in Bucket : Ready(x)}}

RequestSelector ==
  /\ busy' = [b \in Bucket |-> IF Ready(b) THEN Head(queue[b])
                               ELSE IF Exhausted(b) THEN Timeout ELSE busy[b]]
  /\ queue' = [b \in Bucket |-> IF Ready(b) THEN Tail(queue[b]) ELSE queue[b]]
  /\ listed' = {b \in listed : Ready(b) => Tail(queue[b]) # <<>>}
  /\ alarms' = [b \in Bucket |-> IF Exhausted(b) THEN Append(alarms[b], WaitOf(b))
                                 ELSE alarms[b]]

\* Mutant: the busy mark stays, as if the assignment were forgotten.
UnselectKeepsMark(b, r) ==
  /\ listed' = IF queue[b] = <<>> THEN listed \ {b} ELSE listed
  /\ bof' = [bof EXCEPT ![r] = NoBucket]
  /\ UNCHANGED busy

(* winecord_bucket_request_unselect, once its assertion has held.          *)
RequestUnselect(b, r) ==
  /\ listed' = IF queue[b] = <<>> THEN listed \ {b} ELSE listed
  /\ busy' = [busy EXCEPT ![b] = NoReq]
  /\ bof' = [bof EXCEPT ![r] = NoBucket]

(* The timers of winecord_timers_run that are due, each running            *)
(* _winecord_bucket_wake_cb on its bucket and deleted after it.            *)
Due(b) == alarms[b] # <<>> /\ Head(alarms[b]) = 0

BucketWake ==
  /\ \E b \in Bucket : Due(b)
  /\ alarms' = [b \in Bucket |-> IF Due(b) THEN Tail(alarms[b]) ELSE alarms[b]]
  /\ busy' = [b \in Bucket |-> IF Due(b) THEN NoReq ELSE busy[b]]
  /\ remaining' = [b \in Bucket |-> IF Due(b) THEN 1 ELSE remaining[b]]

(* One unit of time passes.                                                *)
Less(w) == IF w > 0 THEN w - 1 ELSE 0

TimePasses ==
  /\ \/ global > 0
     \/ \E b \in Bucket : reset[b] > 0 \/ \E i \in DOMAIN alarms[b] : alarms[b][i] > 0
  /\ global' = Less(global)
  /\ reset' = [b \in Bucket |-> Less(reset[b])]
  /\ alarms' = [b \in Bucket |-> [i \in DOMAIN alarms[b] |-> Less(alarms[b][i])]]

-----------------------------------------------------------------------------
RatelimiterTypeOK ==
  /\ known \subseteq Keys
  /\ queue \in [Bucket -> Seq(Requests)]
  /\ listed \subseteq Bucket
  /\ busy \in [Bucket -> Requests \cup {NoReq, Timeout}]
  /\ remaining \in [Bucket -> {0, 1}]
  /\ reset \in [Bucket -> Waits]
  /\ global \in Waits
  /\ alarms \in [Bucket -> Seq(Waits)]
  /\ bof \in [Requests -> Bucket \cup {NoBucket}]

(* A bucket in timeout has exactly one timer that will wake it, and no     *)
(* timer is left that could clear the mark of a request on the wire        *)
(* (_winecord_bucket_try_timeout against _winecord_bucket_wake_cb).        *)
OneAlarmPerTimeout ==
  \A b \in Bucket : Len(alarms[b]) = IF busy[b] = Timeout THEN 1 ELSE 0
=============================================================================
