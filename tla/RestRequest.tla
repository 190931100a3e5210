----------------------------- MODULE RestRequest -----------------------------
(***************************************************************************)
(* The request pipeline of winecord-rest_request.c over the ratelimiter:   *)
(* callers (the main thread among them) begin requests and, when a request *)
(* is synchronous, block on its condition variable; the REST thread of     *)
(* winecord-rest.c moves pending requests to their buckets, puts at most   *)
(* one per bucket on the wire, reads what curl reports and retries or      *)
(* finishes; the main thread runs the callbacks of finished requests.      *)
(*                                                                         *)
(* Each queue has a mutex of its own; a critical section and the private   *)
(* work up to the next one is one action.                                  *)
(***************************************************************************)
EXTENDS Ratelimit

CONSTANTS
  Callers,       \* threads that call winecord_request_begin
  Main,          \* the main thread, one of Callers
  NoKey,         \* an empty req->key
  RetryLimit,    \* rqtor->retry_limit
  Outcomes,      \* what the transfers may end in, a subset of AllOutcomes
  MaxThrottles,  \* bound: how often in a row the server answers 429 to a request
  SyncModes,     \* subset of BOOLEAN: is dispatch.sync set
  Priorities     \* subset of BOOLEAN: dispatch.high_priority

AllOutcomes ==
  {"answered", "throttled", "server_error", "read_error", "curl_error"}

ASSUME RequestAssumption ==
  /\ Main \in Callers
  /\ NoKey \notin Keys
  /\ RetryLimit \in Nat
  /\ Outcomes \subseteq AllOutcomes
  /\ MaxThrottles \in Nat
  /\ SyncModes \subseteq BOOLEAN
  /\ Priorities \subseteq BOOLEAN

VARIABLES
  unused,      \* request objects not allocated yet
  recycling, pending, finished,  \* rqtor->queues, each behind its mutex
  key, sync, high, attempt,      \* req->key, dispatch.sync, high_priority, retry_attempt
  waiting,     \* the request a caller waits for in pthread_cond_wait
  signalled,   \* requests whose condition variable was signalled
  dispatching, \* local queue of winecord_requestor_dispatch_responses
  wire,        \* state of the transfer in the multi handle
  rest,        \* where the REST thread is
  moved,       \* local queue of winecord_requestor_start_pending
  cur, out,    \* the request and the outcome info_read is working on
  target,      \* the bucket winecord_ratelimiter_build populates
  filter,      \* local queue of _winecord_ratelimiter_null_filter
  filterTo     \* its variable b

queueVars == <<unused, recycling, pending, finished>>
attrVars == <<key, sync, high, attempt>>
waitVars == <<waiting, signalled>>
readVars == <<cur, out, target, filter, filterTo>>
vars == <<bucketVars, queueVars, attrVars, waitVars, dispatching, wire, rest,
          moved, readVars>>

Init ==
  /\ RatelimiterInit
  /\ unused = Requests
  /\ recycling = <<>> /\ pending = <<>> /\ finished = <<>>
  /\ key = [r \in Requests |-> NoKey]
  /\ sync = [r \in Requests |-> FALSE]
  /\ high = [r \in Requests |-> FALSE]
  /\ attempt = [r \in Requests |-> 0]
  /\ waiting = [t \in Callers |-> NoReq]
  /\ signalled = {}
  /\ dispatching = <<>>
  /\ wire = [r \in Requests |-> "none"]
  /\ rest = "poll"
  /\ moved = <<>>
  /\ cur = NoReq /\ out = "none" /\ target = NoBucket
  /\ filter = <<>> /\ filterTo = NoBucket

-----------------------------------------------------------------------------
(* The callers.                                                            *)

(* _winecord_request_get: the oldest recycled object, or a new one.        *)
RequestGet(r) ==
  \/ /\ recycling # <<>>
     /\ r = Head(recycling)
     /\ recycling' = Tail(recycling)
     /\ UNCHANGED unused
  \/ /\ recycling = <<>>
     /\ r \in unused
     /\ unused' = unused \ {r}
     /\ UNCHANGED recycling

(* winecord_request_begin.  The push and the start of pthread_cond_wait    *)
(* are under one hold of the pending lock.                                 *)
RequestBegin(t) ==
  /\ waiting[t] = NoReq
  /\ \E r \in Requests, k \in Keys, s \in SyncModes, h \in Priorities :
       /\ RequestGet(r)
       /\ key' = [key EXCEPT ![r] = k]
       /\ sync' = [sync EXCEPT ![r] = s]
       /\ high' = [high EXCEPT ![r] = h]
       /\ pending' = Append(pending, r)
       /\ waiting' = IF s THEN [waiting EXCEPT ![t] = r] ELSE waiting
  /\ UNCHANGED <<bucketVars, finished, attempt, signalled, dispatching, wire, rest,
                 moved, readVars>>

\* Mutant: retry_attempt survives the recycling.
CancelKeepsAttempts(r) ==
  /\ key' = [key EXCEPT ![r] = NoKey]
  /\ sync' = [sync EXCEPT ![r] = FALSE]
  /\ high' = [high EXCEPT ![r] = FALSE]
  /\ recycling' = Append(recycling, r)
  /\ UNCHANGED attempt

\* Mutant: the sync flag survives the recycling.
CancelKeepsSync(r) ==
  /\ key' = [key EXCEPT ![r] = NoKey]
  /\ high' = [high EXCEPT ![r] = FALSE]
  /\ attempt' = [attempt EXCEPT ![r] = 0]
  /\ recycling' = Append(recycling, r)
  /\ UNCHANGED sync

(* winecord_request_cancel: the object is wiped and recycled.              *)
RequestCancel(r) ==
  /\ key' = [key EXCEPT ![r] = NoKey]
  /\ sync' = [sync EXCEPT ![r] = FALSE]
  /\ high' = [high EXCEPT ![r] = FALSE]
  /\ attempt' = [attempt EXCEPT ![r] = 0]
  /\ recycling' = Append(recycling, r)

(* A synchronous caller wakes up and dispatches its own response.          *)
SyncReturn(t) ==
  /\ waiting[t] \in signalled
  /\ signalled' = signalled \ {waiting[t]}
  /\ waiting' = [waiting EXCEPT ![t] = NoReq]
  /\ RequestCancel(waiting[t])
  /\ UNCHANGED <<bucketVars, unused, pending, finished, dispatching, wire, rest, moved,
                 readVars>>

(* winecord_requestor_dispatch_responses takes the whole finished queue... *)
DispatchResponses ==
  /\ waiting[Main] = NoReq
  /\ dispatching = <<>>
  /\ finished # <<>>
  /\ dispatching' = finished
  /\ finished' = <<>>
  /\ UNCHANGED <<bucketVars, unused, recycling, pending, attrVars, waitVars, wire, rest,
                 moved, readVars>>

(* ...and runs the callbacks one by one; a callback may begin requests.    *)
DispatchResponse ==
  /\ waiting[Main] = NoReq
  /\ dispatching # <<>>
  /\ dispatching' = Tail(dispatching)
  /\ RequestCancel(Head(dispatching))
  /\ UNCHANGED <<bucketVars, unused, pending, finished, waitVars, wire, rest, moved,
                 readVars>>

-----------------------------------------------------------------------------
(* The network and the clock.                                              *)

TransferEnds(r) ==
  /\ wire[r] = "sent"
  /\ \E o \in Outcomes :
       /\ o = "throttled" => attempt[r] < MaxThrottles
       /\ wire' = [wire EXCEPT ![r] = o]
  /\ UNCHANGED <<bucketVars, queueVars, attrVars, waitVars, dispatching, rest, moved,
                 readVars>>

Tick ==
  /\ TimePasses
  /\ UNCHANGED <<known, queue, listed, busy, remaining, bof, queueVars, attrVars,
                 waitVars, dispatching, wire, rest, moved, readVars>>

-----------------------------------------------------------------------------
(* The REST thread: _winecord_rest_manager runs timers and, one or more    *)
(* times, _winecord_rest_perform = info_read, then start_pending.          *)

TimersRun ==
  /\ rest = "poll"
  /\ BucketWake
  /\ UNCHANGED <<known, queue, listed, reset, global, bof, queueVars, attrVars, waitVars,
                 dispatching, wire, rest, moved, readVars>>

RestPerform ==
  /\ rest = "poll"
  /\ rest' = "info"
  /\ UNCHANGED <<bucketVars, queueVars, attrVars, waitVars, dispatching, wire, moved,
                 readVars>>

(* _winecord_ratelimiter_get_match; a fresh bucket needs the header        *)
(* x-ratelimit-bucket.  _winecord_ratelimiter_null_filter then empties the *)
(* null bucket's queue into a local one.                                   *)
GetMatch(k) ==
  /\ \E b \in IF k \in known THEN {k} ELSE {k, MissB} :
       /\ known' = IF b = MissB THEN known ELSE known \cup {k}
       /\ target' = b
       /\ filterTo' = b
  /\ filter' = queue[NullB]
  /\ queue' = [queue EXCEPT ![NullB] = <<>>]

CurlErrors == {"read_error", "curl_error"}

(* _winecord_request_info_extract, the part that changes the ratelimiter.  *)
InfoExtract(r) ==
  \/ /\ wire[r] = "throttled"
     /\ \E w \in Waits, g \in BOOLEAN : SetTimeout(bof[r], w, g)
  \/ /\ wire[r] # "throttled"
     /\ UNCHANGED <<global, remaining, reset, busy>>

(* One message of winecord_requestor_info_read, up to the point where      *)
(* winecord_ratelimiter_build knows the bucket.                            *)
InfoRead(r) ==
  /\ rest = "info"
  /\ wire[r] \in Outcomes
  /\ wire' = [wire EXCEPT ![r] = "none"]
  /\ cur' = r
  /\ out' = wire[r]
  /\ InfoExtract(r)
  /\ \/ /\ wire[r] \notin CurlErrors
        /\ bof[r] = NullB
        /\ GetMatch(key[r])
     \/ /\ wire[r] \notin CurlErrors
        /\ bof[r] # NullB
        /\ target' = bof[r]
        /\ UNCHANGED <<known, queue, filter, filterTo>>
     \/ /\ wire[r] \in CurlErrors
        /\ target' = NoBucket
        /\ UNCHANGED <<known, queue, filter, filterTo>>
  /\ rest' = "build"
  /\ UNCHANGED <<listed, alarms, bof, queueVars, attrVars, waitVars, dispatching, moved>>

\* Mutant: the keys are not compared.
FilteredAnyway(r) == filterTo

(* The bucket null_filter moves r to.                                      *)
Filtered(r) == IF key[r] = key[cur] THEN filterTo ELSE NullB

(* One turn of the loop of null_filter: b stays `null` from the first      *)
(* request on whose key differs.                                           *)
NullFilter ==
  /\ rest = "build"
  /\ filter # <<>>
  /\ LET r == Head(filter)
         b == Filtered(r)
     IN /\ filterTo' = b
        /\ BucketInsert(b, r, FALSE)
  /\ filter' = Tail(filter)
  /\ UNCHANGED <<known, busy, remaining, reset, global, alarms, queueVars, attrVars,
                 waitVars, dispatching, wire, rest, moved, cur, out, target>>

(* The end of winecord_ratelimiter_build.                                  *)
Build ==
  /\ rest = "build"
  /\ filter = <<>>
  /\ \/ target # NoBucket /\ Populate(target)
     \/ target = NoBucket /\ UNCHANGED <<remaining, reset, global>>
  /\ UNCHANGED <<known, alarms, unused, recycling, pending, key, sync, high, waiting,
                 dispatching, wire, moved, filter>>

MessageDone ==
  /\ rest' = "info"
  /\ cur' = NoReq /\ out' = "none" /\ target' = NoBucket /\ filterTo' = NoBucket

Retryable(o) == o \in {"throttled", "server_error", "read_error"}

\* Mutant: one retry too many.
WillRetryOnceMore == Retryable(out) /\ attempt[cur] =< RetryLimit

(* The count a refused retry leaves behind is reset unread by cancel.      *)
WillRetry == Retryable(out) /\ attempt[cur] < RetryLimit

(* _winecord_request_retry.                                                *)
Retry ==
  /\ Build
  /\ WillRetry
  /\ attempt' = [attempt EXCEPT ![cur] = @ + 1]
  /\ BucketInsert(bof[cur], cur, TRUE)
  /\ MessageDone
  /\ UNCHANGED <<busy, finished, signalled>>

\* Mutant: the caller is not signalled.
HandOverUnsignalled(r) ==
  /\ finished' = IF sync[r] THEN finished ELSE Append(finished, r)
  /\ UNCHANGED signalled

\* Mutant: the `else` is missing, so a synchronous request is queued too.
HandOverTwice(r) ==
  /\ signalled' = IF sync[r] THEN signalled \cup {r} ELSE signalled
  /\ finished' = Append(finished, r)

(* The last lines of info_read; a signal is sent under the pending lock.   *)
HandOver(r) ==
  \/ sync[r] /\ signalled' = signalled \cup {r} /\ UNCHANGED finished
  \/ ~sync[r] /\ finished' = Append(finished, r) /\ UNCHANGED signalled

Finish ==
  /\ Build
  /\ ~WillRetry
  /\ busy[bof[cur]] = cur
  /\ RequestUnselect(bof[cur], cur)
  /\ HandOver(cur)
  /\ MessageDone
  /\ UNCHANGED <<queue, attempt>>

(* ASSERT_S of winecord_bucket_request_unselect fails: the program ends.   *)
Abort ==
  /\ Build
  /\ ~WillRetry
  /\ busy[bof[cur]] # cur
  /\ rest' = "aborted"
  /\ UNCHANGED <<queue, listed, busy, bof, attempt, finished, signalled, cur, out, target,
                 filterTo>>

(* winecord_requestor_start_pending, once curl has no message left.        *)
StartPending ==
  /\ rest = "info"
  /\ \A r \in Requests : wire[r] \in {"none", "sent"}
  /\ moved' = pending
  /\ pending' = <<>>
  /\ rest' = "route"
  /\ UNCHANGED <<bucketVars, unused, recycling, finished, attrVars, waitVars, dispatching,
                 wire, readVars>>

RoutePending ==
  /\ rest = "route"
  /\ moved # <<>>
  /\ LET r == Head(moved) IN BucketInsert(BucketGet(key[r]), r, high[r])
  /\ moved' = Tail(moved)
  /\ UNCHANGED <<known, busy, remaining, reset, global, alarms, queueVars, attrVars,
                 waitVars, dispatching, wire, rest, readVars>>

(* The selector, with _winecord_request_send for what it selects.          *)
SelectAndSend ==
  /\ rest = "route"
  /\ moved = <<>>
  /\ RequestSelector
  /\ wire' = [r \in Requests |-> IF r \in Selected THEN "sent" ELSE wire[r]]
  /\ rest' = "poll"
  /\ UNCHANGED <<known, remaining, reset, global, bof, queueVars, attrVars, waitVars,
                 dispatching, moved, readVars>>

RestThread ==
  \/ RestPerform
  \/ \E r \in Requests : InfoRead(r)
  \/ NullFilter \/ Retry \/ Finish \/ Abort
  \/ StartPending \/ RoutePending \/ SelectAndSend

Next ==
  /\ rest # "aborted"
  /\ \/ \E t \in Callers : RequestBegin(t) \/ SyncReturn(t)
     \/ DispatchResponses \/ DispatchResponse
     \/ \E r \in Requests : TransferEnds(r)
     \/ Tick
     \/ TimersRun
     \/ RestThread

Spec == Init /\ [][Next]_vars

(* Fairness: the REST manager adds itself to its thread pool again and     *)
(* again and runs the timers each time; curl reports every transfer;       *)
(* winecord_run's loop dispatches responses, even if callbacks block in    *)
(* synchronous requests now and then; a signalled thread runs.             *)
FairSpec ==
  /\ Spec
  /\ WF_vars(RestThread)
  /\ SF_vars(TimersRun)
  /\ WF_vars(Tick)
  /\ \A r \in Requests : WF_vars(TransferEnds(r))
  /\ SF_vars(DispatchResponses) /\ SF_vars(DispatchResponse)
  /\ \A t \in Callers : WF_vars(SyncReturn(t))

-----------------------------------------------------------------------------
TypeOK ==
  /\ RatelimiterTypeOK
  /\ unused \subseteq Requests
  /\ recycling \in Seq(Requests) /\ pending \in Seq(Requests)
  /\ finished \in Seq(Requests)
  /\ key \in [Requests -> Keys \cup {NoKey}]
  /\ sync \in [Requests -> BOOLEAN]
  /\ high \in [Requests -> BOOLEAN]
  /\ attempt \in [Requests -> 0..RetryLimit]
  /\ waiting \in [Callers -> Requests \cup {NoReq}]
  /\ signalled \subseteq Requests
  /\ dispatching \in Seq(Requests)
  /\ wire \in [Requests -> {"none", "sent"} \cup Outcomes]
  /\ rest \in {"poll", "info", "build", "route", "aborted"}
  /\ moved \in Seq(Requests)
  /\ cur \in Requests \cup {NoReq}
  /\ out \in {"none"} \cup Outcomes
  /\ target \in Bucket \cup {NoBucket}
  /\ filter \in Seq(Requests)
  /\ filterTo \in Bucket \cup {NoBucket}

(* A transfer on the wire is the busy request of its bucket, so a bucket   *)
(* never has two of them and neither a timer nor another request's answer  *)
(* frees the bucket under it (winecord_bucket_request_selector, set_       *)
(* timeout, unselect and _winecord_bucket_wake_cb).                        *)
InFlightIsBusy ==
  \A r \in Requests :
    wire[r] # "none" => bof[r] # NoBucket /\ busy[bof[r]] = r

(* rl->queues.pending lists a bucket exactly while requests wait in it:    *)
(* the selector never takes the head of an empty queue, and no waiting     *)
(* request is out of its sight.  null_filter may empty the null bucket     *)
(* under its entry until the message is dealt with.                        *)
ListedIffQueued ==
  \A b \in Bucket :
    \/ b \in listed <=> queue[b] # <<>>
    \/ b = NullB /\ rest \in {"build", "aborted"} /\ b \in listed

(* A bucket serves one route: a request is in the bucket of its own key or *)
(* in one of the two that serve them all.  null_filter moves requests into *)
(* a bucket it has just discovered, build finds the answered request's     *)
(* bucket again without looking at the key, and objects are begun again    *)
(* with other keys.                                                        *)
InBucketOfItsRoute ==
  \A r \in Requests : bof[r] \in Keys => key[r] = bof[r]

(* The places a request object can be in; "read" is what cur names.         *)
Places == {"unused", "recycling", "pending", "moved", "filter", "bucket", "wire",
           "read", "finished", "dispatching", "signalled"}

At(r, p) ==
  /\ r \in unused <=> p = "unused"
  /\ r \in ToSet(recycling) <=> p = "recycling"
  /\ r \in ToSet(pending) <=> p = "pending"
  /\ r \in ToSet(moved) <=> p = "moved"
  /\ r \in ToSet(filter) <=> p = "filter"
  /\ \A b \in Bucket : r \in ToSet(queue[b]) <=> p = "bucket" /\ bof[r] = b
  /\ p = "bucket" => bof[r] \in Bucket
  /\ wire[r] # "none" <=> p = "wire"
  /\ r = cur <=> p = "read"
  /\ r \in ToSet(finished) <=> p = "finished"
  /\ r \in ToSet(dispatching) <=> p = "dispatching"
  /\ r \in signalled <=> p = "signalled"

(* Every request object is in exactly one place, once, and when that is a  *)
(* bucket's queue it is the one req->b names: none is lost, none is in two *)
(* intrusive lists at once, none is recycled while it is on the wire.      *)
OnePlace ==
  /\ \A r \in Requests : \E p \in Places : At(r, p)
  /\ \A s \in {recycling, pending, moved, filter, finished, dispatching} : IsInjective(s)
  /\ \A b \in Bucket : IsInjective(queue[b])

Queued(r) ==
  \/ r \in ToSet(pending) \cup ToSet(moved) \cup ToSet(filter)
  \/ \E b \in Bucket : r \in ToSet(queue[b])

Answered(r) == r \in ToSet(finished) \cup ToSet(dispatching) \cup signalled

Phase(r) ==
  IF Queued(r) THEN "queued"
  ELSE IF Answered(r) THEN "answered"
  ELSE IF wire[r] # "none" \/ cur = r THEN "sent"
  ELSE "idle"

(* A synchronous request belongs to the one caller that waits for it until *)
(* that caller has dispatched and recycled it: the main thread never gets  *)
(* its response, no two callers wait for one object, no object goes back   *)
(* to the pool with somebody waiting for it or with the sync flag it had   *)
(* (winecord_request_begin against _winecord_request_dispatch_response).   *)
OneCallerPerSync ==
  /\ \A r \in Requests : sync[r] => \E t \in Callers : waiting[t] = r
  /\ \A t \in Callers, r \in Requests : waiting[t] = r =>
       /\ sync[r] /\ Phase(r) # "idle"
       /\ \A u \in Callers : waiting[u] = r => u = t
  /\ \A r \in signalled : sync[r]
  /\ \A r \in ToSet(finished) \cup ToSet(dispatching) : ~sync[r]

Service == INSTANCE RequestService
  WITH phase <- [r \in Requests |-> Phase(r)], retries <- attempt

(* The pipeline implements the service it promises: winecord_request_begin *)
(* to winecord_request_cancel is one submission, at most retry_limit more  *)
(* transfers, one answer and one delivery.                                 *)
ServiceSpec == Service!Spec

(* Every begun request is answered and its object recycled, whatever other *)
(* requests, retries and timeouts go on (the loop of winecord_requestor_   *)
(* info_read and winecord_requestor_start_pending).                        *)
EveryRequestAnswered ==
  \A r \in Requests : Phase(r) = "queued" ~> Phase(r) = "idle"

(* No synchronous caller of winecord_request_begin waits forever: its      *)
(* signal is never lost.                                                   *)
EveryCallerReturns ==
  \A t \in Callers : waiting[t] # NoReq ~> waiting[t] = NoReq

(* A request that failed with a server error is sent again ("retry if      *)
(* Server Error", winecord-rest_request.c:247).                            *)
ServerErrorRetried ==
  \A r \in Requests :
    (rest = "build" /\ cur = r /\ out = "server_error" /\ attempt[r] < RetryLimit)
      ~> wire[r] = "sent"

(* ASSERT_S(req == b->busy_req, "Attempt to unlock a bucket with a         *)
(* non-busy request"), winecord-rest_ratelimit.c:447, holds when reached.  *)
UnselectsBusyRequest == rest # "aborted"
=============================================================================
