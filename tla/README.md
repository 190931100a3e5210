# Verification of winecord

TLA+ models of the winecord C library (`src/source/wineberry/discord`,
`src/include/wineberry/discord`), TLC configurations that check them on small
instances, and TLAPS proofs for every value of their constants.

## The system

The library connects one client to Discord. Its threads are the *main thread*
(`winecord_run`: gateway websocket, timers, event callbacks, callbacks of
finished requests), the *REST thread* (the single thread of `rest->tpool`:
ratelimiter, curl transfers, its own timers), the *worker pool* (event
callbacks the user's scheduler sends there), one thread per *voice connection*,
and any thread of the user's that calls the API. Websockets, curl, the io
poller, the thread pool, the hash tables and the intrusive queues are external.

| Component | State | Operations | Hard behaviour | What makes it correct |
|---|---|---|---|---|
| Refcounter `winecord-refcount.c` | table address -> visits, claims; one lock | add, incr, decr, claim, unclaim | holders on several threads, in any order; overflow of `int` | a held resource is never cleaned up, an unheld one always is, no holder is refused - short of an address added over its live entry |
| Ratelimiter `winecord-rest_ratelimit.c` | buckets by route key, `null` and `miss`, list of pending buckets, busy marks, timestamps | get, insert, selector, unselect, set_timeout, build, wake-up timer | answers, timers and new requests in any order; bucket discovered while requests wait | one request per bucket on the wire, no waiting request out of sight, one timer per timeout |
| Requestor `winecord-rest_request.c` | queues recycling, pending, finished, each with a lock; request objects | begin, start_pending, send, info_read, retry, dispatch, cancel | objects recycled across threads, synchronous callers, retries | no request lost or in two queues, retries bounded, every request answered, every caller woken |
| REST manager `winecord-rest.c` | thread pool, poller, timers | perform, manager loop, cleanup | shutdown with callers waiting | nobody waits for ever |
| Timers `winecord-timer.c` | priority queue, active timer, skip flag | ctl, run, start, stop, cancel, delete | callbacks run without the lock and change the timer that runs | an update is never overwritten, a deleted timer never ticks |
| Gateway `winecord-gateway*.c` | session status, retry, heartbeat, sequence | start, end, on_* handlers, send_*, shutdown, reconnect | reconnects, missing acknowledgements, user calls from other threads | resume only what can be resumed, reconnect until told otherwise |
| Main loop `winecord-loop.c` | none of its own | run | order of timers, poll, status check, dispatch | leaves on shutdown, restarts otherwise |
| Worker pool `winecord-worker.c` | job counter, lock, condition | add, join | join against jobs not started yet | no job runs on a client that is gone |
| Global init `winecord-once.c` | counter, shutdown pipe | init, cleanup, shutdown_async | several clients, failure half way | last one out cleans up |
| Cache `winecord-cache.c` | per shard: valid flag, guild and message maps | event handlers, garbage collection, getters | disconnects, references handed out | a getter returns only live, valid, claimed objects |
| Client `winecord-client.c` | all of the above | init, clone, cleanup, claim, unclaim | order of teardown | every thread is gone before its data is |
| Message commands `winecord-messagecommands.c` | prefix, command map | set_on_command, try_perform | parsing, references around callbacks | the command run is the one the message names |
| Voice `winecord-voice.c` | table of slots, flags per connection | join, state and server update, thread, shutdown, reconnect | unlocked slot table, redirect against thread end | one thread per slot, no slot used twice |
| Endpoints (`channel.c`, `guild.c`, ...) | none | one REST call each: check, format the URL, build the bucket's key | two walks over the same variadic arguments; empty strings in a URL | requests share a bucket exactly when the server rates them together; no argument makes another call of one, which holds but for an empty emoji in a deletion |
| Event setters `winecord-events.c` | callbacks, intents | winecord_set_on_*, shutdown, reconnect | a shutdown that meets a reconnect | a shutdown is not lost |
| Helpers, headers, Makefile | none over time | - | - | - |

A request goes: `begin` (any thread) -> *pending* -> bucket queue -> wire ->
answer -> retry into the bucket, or *finished* / signal -> callback ->
`cancel` -> *recycling*. The references on its `data`, `keep` and response go
through the refcounter, as do dispatched events and cache entries.

## Modules

REST:

- **Refcount** - the resource table. `present`, `visits`, `claims` are the hash
  table's entries. Each public function holds `g_lock` throughout; `IncrNoLock`,
  `DecrNoLock`, `RefvalueInit`, `RefvalueDelete` are the static helpers. The
  actions are these functions as the library's clients call them.
  `winecord_request_begin` increments and, if that was refused, adds, in two
  critical sections: `BeginIncr` and `BeginAdd`, with `adding` between them; the
  dispatch of an event does the same. `AddAllocated` adds memory just allocated
  (a response, a cached guild), `Keep` and `Store` are the increments of a
  request's keep and of the cache's maps, `Decr`, `Claim` and `Unclaim` what
  they say. An add is unconditional, as `chash_assign` is: over a live entry it
  resets its counts. `ToInt` wraps an `int`. A refused keep, claim or unclaim
  sets `aborted`: the assertions of the callers. `refs` and `owned` are history
  variables, what the clients hold, and so is `exposed`: the addresses whose
  entry is going to be added over while it is live or while another thread is
  about to add it, and those stored by the cache when they were full.
- **Ratelimit** - buckets, as operators the REST thread's actions are made of.
  Timestamps are kept as the time left; `remaining` is 0 or 1 because the code
  only compares it with 0.
- **RestRequest** (extends Ratelimit) - callers, REST thread, main thread,
  network and clock. One action per critical section. `Begin`'s push and the
  start of `pthread_cond_wait` are one action because the lock is held from one
  to the other. One answer takes `InfoRead` (extract, match), `NullFilter` per
  request moved, then `Retry`, `Finish` or `Abort`. `rest` is where the REST
  thread is; `filter`, `moved`, `dispatching` are the local queues of the
  functions that drain a shared one.
- **RequestService** - what the pipeline promises: submit, send, retry at most
  RetryLimit times, answer once, deliver, reuse. `ServiceSpec` in RestRequest is
  that specification under the mapping `phase <- Phase(r)`, `retries <- attempt`.
- **EndpointTable**, **Endpoints** - the table of all 162 REST calls (methods,
  sections of the format string, what is checked) and what every one does with
  its arguments: `Refuse` (WINEBERRY_EXPECT), `Malformed` (the body does not
  fit), `Begin` with the URL of `Endpoint` and the key of `BuildKey`. The two
  walk over the same variadic arguments, each with a cursor of its own:
  `Formatted` is where `vsnprintf` is at each section, `Walked` where the key's
  loop of `va_arg`s is, and `Turns` the sections that loop gets to. `sent` is
  what is in flight, `code` what the last call returned.

Gateway and main loop:

- **Timers** - one group of timers, the loop that runs it, other threads. The
  lock is free except while the run looks for the next due timer, so a caller's
  critical section is one action and `winecord_timers_run` is cut around each
  callback: `RunPick`, then `ReturnSkips`, `ReturnRestarts`, `ReturnDeletes`,
  `ReturnUpdates` or `ReturnGone`. `copy` is the run's local timer, `seen` (a
  history variable) the entry it was taken from, `wake` the poller's wake-up.
- **Gateway** - the session, every handler of an opcode, and `winecord_run`
  around them. `pc` is where the loop is, `ws` what `ws_get_status` says. The
  server is `phase`, `next`, `valid`, `owed` and `mute`; it may refuse, close
  with any class of code, invalidate, fall silent or break the connection. The
  user shuts down or reconnects from a callback (`UserShutdown`,
  `UserReconnect`) or from another thread, where the two unlocked writes are
  two actions (`ForeignShutdown`, `ForeignStatus`). `got` and `wanted` are
  history variables.
- **Voice** - the slots `client->vcs`, the main loop's calls and handlers, a
  thread per connection, the voice server. There is no lock on a slot, so a call
  of the main loop is cut between what it reads and what it writes (`Join` then
  `Recycle`, `Shutdown` or `Reconnect` then `Close`, `ServerUpdate` then
  `Redirect` or `Start`).

Client:

- **EventTable**, **Dispatch** - the intents of every event's setter, and a
  client from `winecord_init` to `winecord_cleanup`: global initialisation,
  the bot's setup as a sequence of calls (`script`), events handed to the main
  thread or the worker pool, commands, the cache's callbacks and the user's,
  references in the refcounter (`heap`), join and teardown. `parts` are the
  process-wide parts: `init_counter`, libcurl, the pool with its flag, the pipe.
  `Made` makes them one after the other and, where a step fails, goes through
  the undo steps of its label (`FailCurl`, `FailWorker`, `FailPipe`), down to
  the pool that was destroyed and the end of the pipe that is closed. `holds`
  is a history variable: whether the last initialisation of the client and of
  the rest of the program succeeded; `winecord_init` does not look at its own.
  `owned` counts the claims on an object, any number of them by any callbacks;
  `owned` and `lost` are history variables. `wild` says that the client or the
  pool was used after it was freed; nothing is said of what follows.

Instances for TLC: **MCRefcount**, **MCRest**, **MCTimers**, **MCGateway**,
**MCVoice**, **MCDispatch**, **MCEndpoints**. Proofs: **RefcountProofs**,
**RestProofs** (which begins with the lemmas about queues without duplicates)
and **ServiceProofs** on top of it, **EndpointsProofs**, **TimersProofs**,
**GatewayProofs**, **VoiceProofs**, **DispatchProofs**.

How they fit: Gateway receives an event and leaves what becomes of it to
Dispatch, whose connection is a short form of Gateway's; Dispatch uses the
refcounter's operations, over events and cached objects, that Refcount has for
any client of the table; Endpoints says which key a request has and leaves what
happens to it to RestRequest, whose buckets wake up by one-shot timers of the
kind Timers models. Gateway's heartbeat is such a timer too: it comes due again
and again, and no more is assumed of it.

## Runs

| Run | Instance | Shows |
|---|---|---|
| `refcount` | 2 resources, 2 threads, `int` up to 3, up to 5 held | nothing held is freed and no holder refused, off the exposed addresses; nothing unheld is leaked, on any |
| `rest_safety` | 2 requests, 2 keys, 2 callers, both priorities and modes, all outcomes, retry limit 1 | busy marks, timers, pending list and queues agree; no request lost or doubled; a request is only in its own route's bucket; a synchronous request is its caller's alone |
| `rest_liveness` | 2 requests, 1 key, main thread, waits of up to 1 tick | every request answered, every caller returns, the abstract service implemented |
| `rest_server_error` | 1 request, the code's retry limit of 3 | violated: a 5xx is never retried |
| `rest_throttle_limit` | 1 request, retry limit 3 | violated: the fourth 429 ends the program |
| `timers` | 2 identifiers, 1 other thread, a one-shot and a stopped interval timer, 3 calls, time up to 2 | no lost update, no poll past the earliest trigger, calls return, canceled and deleted timers are served |
| `gateway` | 2 faults, 1 call of the user, 2 runs, events up to 2 | no event skipped over closes and resumes, heartbeat and recovery, silence noticed, shutdown ends the run |
| `gateway_zombie` | 1 fault, no call | violated: a healthy connection is closed as a zombie |
| `gateway_shutdown` | 1 fault, 1 call from the loop | violated: a shutdown during a reconnect is ignored |
| `voice` | 2 slots, guilds, channels, threads, 4 calls, 1 fault, threshold 2 | released slots are idle, attempts end, shutdown and redirection take effect |
| `dispatch` | 3 bots, 2 workers, queue of 1, 3 events, 2 claims, 1 disconnect | references are exact, global parts exist together whatever step fails, cleanup ends |
| `endpoints` | all 162 calls, identifiers 1 and 2, pairs of requests | buckets are shared exactly where they should be; a call becomes another exactly when a reaction is deleted with an empty emoji name |

Bounds.
*Refcount.* The clients may hold more (5) than the `int` counts (3), so that
increments, claims and adds meet a full entry; two threads race for one address
and leave the other alone.
*REST.* Two keys and the two singleton buckets are enough for a request to be
discovered, matched and mismatched; two objects for one to be on the wire while
the other waits, is moved or is recycled. Retry limit 1 with up to two 429s
reaches the limit and passes it. `rest_safety` lets timers be due at once
(`MaxWait = 0`), `rest_liveness` makes time pass. Both let `Grouped` hold to
keep the instance small; the proofs of the same invariants do without it.
*Timers.* Two entries make the order of the queue matter and let one be changed
while the other runs; three calls are a timer, a second one, and a change; the
clock goes past the first trigger, an interval and the longest poll.
*Gateway.* Two faults give a connection that breaks during the recovery from
another, such as an invalid session answering a resume after a lost heartbeat;
the proofs hold for any number. `RetryLimit` is -1, no limit, as the code sets it.
*Voice.* Two slots and guilds make a slot change hands; four calls are join,
server update, and two more to meet the thread between connections; `Threshold`
2 lets an attempt fail and another be the last.
*Dispatch.* Three events fill queue and both workers; the objects suffice for a
copy of each; two claims can be of one object, by two callbacks.
*Endpoints.* Its properties are about pairs of requests, and two identifiers
let each argument of a pair agree or differ, so that the bounds lose nothing.

Deadlock is not checked in `refcount` and `rest_safety` because the program can
end itself by an assertion, nor in `timers`, `gateway*`, `voice` and `dispatch`,
where the system stops after its cleanup, when `winecord_run` has returned, or
when the server and the user have used up their bounds. It is checked elsewhere.

Findings. `_winecord_request_retry` requeues a request after a 5xx although
`busy_req` still names it, so its bucket stalls. After the last 429
`busy_req` is already NULL and the assertion of
`winecord_bucket_request_unselect` stops the program. `hbeat_acknowledged`
survives a connection that died with a heartbeat unanswered, and the next
connection's first heartbeat is taken for a zombie's. `winecord_shutdown`
takes the status a reconnect leaves for a shutdown under way and does nothing.

Four more defects are in the models, stated as what the properties of passing
runs except or admit, and nothing beyond it:
- `winecord_request_begin` (`winecord-rest_request.c:610-617`) takes any refused
  increment for an unknown address and adds. Two threads with the same new data
  both add it, and an increment refused at `INT_MAX` adds over the full entry;
  the counts of the holders are reset, and a later decrement frees under them or
  is refused. The cache ignores a refused increment and decrements all the same.
  These addresses are `exposed`; `HeldIsPresent` and `RightfulReleaseSucceeds`
  hold of all others. `UnheldIsCleaned` holds of the exposed ones as well.
- `winecord_refcounter_claim` raises `claims` before it knows whether `visits`
  can follow (`winecord-refcount.c:187`): owners can drive it past `INT_MAX`,
  in the step that ends the program, or on an exposed address (`TypeOK`).
- No function of `channel.c:279-510` looks at `emoji_name`. With an empty one
  and no identifier, `delete_all_reactions_for_emoji` sends the request of
  `delete_all_reactions`, and the deletions of one's own and of a user's reaction
  send that of `delete_all_reactions_for_emoji`, with what follows in the
  emoji's place
  (`AnotherCallOnlyWithoutEmoji`, which says that no other argument does this).
- `winecord_init` ignores the result of the global initialisation
  (`winecord-client.c:67`). Its cleanup may then take the count another
  initialisation holds, and the pool under the other holder
  (`GlobalsTogether`, last conjunct), and its workers' jobs find no pool or a
  freed one (`Schedule`, `wild`).

Fairness (`FairSpec`).
*RestRequest.* The REST manager puts itself back into its thread pool
every round, so an enabled step of the REST thread happens, and it runs the
timers every round (strong, because they run only between two performs). Curl
reports every transfer, time passes, a signalled thread gets to run.
`winecord_run` dispatches responses in every round of its loop: strong, since
callbacks may block in synchronous requests in between but return.
`rest_liveness` assumes three things the code does not enforce: no server
errors (they stall, see above), no high priority requests (a stream of them
starves a bucket's queue), and `Grouped`: the server sends
`x-ratelimit-remaining` only along with `x-ratelimit-bucket`. Without the last
one, answers for other routes can empty the shared `miss` bucket each time
between its wake-up and the next selection.
*Timers.* The loop goes round and callbacks return (weak). A run that comes back
to its scan for ever ends (strong: the code limits it to 10 ms or 100000 timers)
and picks a due timer (strong); a woken thread gets the mutex (strong), since the
run lets it go around every callback.
*Gateway.* The loop and a thread inside a call go on (weak). The heartbeat timer
comes due again and again, and a server that is asked often enough answers
(strong), unless the fault bound pays for its silence.
*Voice.* Calls return, threads run (weak), and the server answers what it was
asked or ends the connection.
*Dispatch.* Some pool thread runs as long as one can, callbacks return, the user
who ended the run goes on with the cleanup (weak). Refcount and Endpoints have no liveness.

## Proofs

`RefcountProofs` proves, for every set of resources and threads and every
positive `INT_MAX`, the type invariant and the three properties of the run.
None of them is inductive: nothing in them says what the counters count.
The inductive invariant `IInv` says it in two strengths. Off the exposed
addresses the table is `Exact`, `visits = refs + owned` and `claims = owned`,
unless a claim refused at `INT_MAX` ended the program (`Stranded`), and at most
one thread is about to add an address, which then has no entry (`OneAdder`).
On every address it is `Covered`: it never counts more than is held, however
often its counts were reset and its claims wrapped (`Lap`), which is why nothing
leaks even there. `IncrEffect` and `DecrEffect` say what the helpers do, and
`NextIInv` has one step per action; the theorems follow from `Counting`
(`Spec => []IInv`). The assumptions are `IntMaxAssumption` and
`NoDataAssumption` (the mark of a thread that adds nothing is no address).

`RestProofs` proves the invariants of `rest_safety` but the last, which
`ServiceProofs` adds, for every set of requests, keys and callers, every retry
limit and every answer, and without the restriction `Grouped`: `TypeOK`,
`OnePlace`, `InFlightIsBusy`, `OneAlarmPerTimeout`, `ListedIffQueued` and
`InBucketOfItsRoute`. None of the first five is inductive alone. That a
timer only wakes a bucket in timeout keeps the busy mark of a transfer; the busy
mark keeps two transfers off a bucket; that a queued request is in one queue,
the one of the bucket it names, keeps `req->b` right when it is sent; that a
listed bucket has a queue gives the selector a head to take; that a request in
use has a key lets `get_match` file it. So `IInv` is their conjunction with
`Locals` (the REST thread's local queues are empty where they mean nothing),
`Keyed` and `PendingList`, which says when `null` may be listed with nothing in
it: while a request that came from it is dealt with, which will put itself back
or take `null` off the list. There is one lemma per action (`InitIInv`,
`RequestBeginStep`, ...), with one step per conjunct; `InsertEffect` and
`BuildEffect` are what several actions share, and the lemmas at the beginning
have the facts about appending, prepending and taking the head of a queue
without duplicates.

Two more invariants are inductive once `IInv` is known. `RouteInv` adds to
`InBucketOfItsRoute` that spare objects are in no bucket, since `begin` and
`cancel` file an object under a new route without looking at the old bucket, and
that `null_filter` compares with the route of the request just answered, so that
a request it moves arrives where it belongs. `UnselectInv` is about the assertion
the run `rest_throttle_limit` violates: where the server does not throttle a
request more often than the retry limit, the request a bucket is unselected from
is the busy one (`OnlyThrottlingEndsIt`), so the last 429 is the only way to that
end of the program.

The assumptions are `BucketAssumption`, `ServerAssumption` and
`RequestAssumption`: pointers and marks are different values, bounds are
natural numbers.

`ServiceProofs` proves that RestRequest implements RequestService, for the same
constants and with no further assumption: `PipelineServes` is
`Spec => ServiceSpec`. The argument is about places. `OnePlace` says that a
request is in exactly one of the places of the pipeline (idle, in a bucket's
queue, on the wire, being read, in a local queue, signalled, ...), each of which
belongs to one phase of the service (`PhaseOfPlace`). Every action's lemma in
RestProofs says, besides keeping the invariant, what it does to the places: all
requests stay in their phase (`AllStay`), one advances while the others stay
(`Advances(r, from, to)`), or the selected ones are sent. `AdvancesMove` turns
the one into the service's step, `StayStutters` the other into a stutter; what
remains are the counters: a retry raises `attempt` below the limit, nothing else
but the reuse of the object changes it. To speak of the bucket a request is
queued in, `OnePlace` also says that a queued request names a bucket.

`ServiceProofs` also proves `OneCallerPerSync`, in terms of the same phases. It is
inductive once `IInv` is known (`SInv`): an object in the pool is not
synchronous, or its caller would wait for an idle object, so a request never
begins with one somebody else waits for; `CancelOneCaller` covers the two ways
back to the pool, by the caller and by the main thread.

`EndpointsProofs` proves `OneBucketPerRoute` and `AnotherCallOnlyWithoutEmoji`,
for any identifiers and any number of requests in flight. What is inductive is `Formed`
(`RequestsFormed`): every request in flight was built by `Request` from a call of
the table, with one of its methods, and its arguments are filled in where the
wrapper checks them. It stands for a type invariant too. The table of the calls
enters in one place, `TheTable`, which goes through it group by group for the
three things the rest needs of a call (`InTable`): no word, only an identifier or
a literal section, follows "channels" or "guilds" (`Regular`), where unchecked
texts may stand (`TextPlaces`), and what the calls on reactions look like
(`Reactions`). After that
- *Buckets.* `WalksInStep` says that both cursors are at the same argument at
  every section, which makes the identifier in the key the one in the URL.
  `KeysTell` and `RoutesDecide` then compare two requests section by section:
  equal keys have equal routes and majors, and the other way round. Where the
  walk ends is the least place of "reactions" (`Least`, from the well-foundedness
  of the naturals), so no induction on the format string is needed.
- *Calls.* Both directions of an equivalence. With every section filled, what a
  server sees is the whole route without its query (`SeenWhole`), and a route
  that this addresses has the same shape (`OwnShape`); with the emoji missing it
  is that route less one section (`SeenWithoutEmoji`). `OnlyWithoutEmoji` follows
  from these by the calls that may have an empty section at all, with
  `ReactionsAddressed` for the ones on reactions that are no deletion;
  `WithoutEmojiIsAnother` names the call the shortened deletion is taken for.
  `KeptInOrder`, `KeptFirst` and `KeptButOne` say what `Kept` selects, by
  counting.

`TimersProofs` proves `TypeOK`, `NoLostUpdate` and `NoOversleep` for any
timers, threads, calls and times. The three together (`IInv`) are inductive;
only its type part needs the values of the constants (`TimersAssumption`). The
argument about updates is in `Guarded`: whatever a caller does between lock and
unlock, the entry the run picked is either as it was or the skip flag is set.
`StoreGuarded` and `PushSafe` say so of what the functions are built from,
`PerformSafe` of each function, and `RunPickIInv`, `ReturnIInv` and `NextIInv`
carry it through the run. About the poll: during a sleep only a caller changes a
trigger, and a caller is left in `notify`, or wakes the poller itself.
`NobodyWaitsForNothing` is the part of `EveryCallReturns` that is a safety
property: a thread is on the condition variable only during a run, whose end
broadcasts it.

`GatewayProofs` proves `TypeOK`, `NoEventSkipped` and `ReadyIsBeating` for any
retry limit, concurrency and number of faults and calls, with no assumption on
the constants. `NoEventSkipped` speaks of attached and resumed sessions
only and is not inductive: a session that waits for its next connection has to
remember the right number already. `Sequenced` adds `seq = got` for it, and
`NotReadyYet` says that no session is ready before its connection is made, so
that whatever is ready on a connected socket got so by READY or RESUMED, whose
heartbeat makes the timer or marks the session as ending. There is one lemma per
conjunct of the invariant, with one step per action. `ReadyZombiesAreReal`
narrows the finding of `gateway_zombie`: once a session is ready, its connection
is only closed as a zombie over a heartbeat that was sent on it, so READY and
RESUMED are where a stale `hbeat_acknowledged` does its harm.

`VoiceProofs` proves `PoolSlotIsIdle` and `TypeOK` for any slots, guilds,
threads, threshold and calls, from `VoiceAssumption` (the threshold is an
`unsigned char`, and not 0). `Private` strengthens it for the slots outside
`stray`: one thread serves a slot at a time (`Alone`), its connection is off
whenever that thread is between two (`Between`) and when there is none
(`Unserved`). `QuietStep` covers the steps of the main loop that only write flags
or close, `ServerStep` the frames of the server; `Start`, which adds to `stray`
what it would break, and the thread's own steps are dealt with on their own.
`TypeOK` is not inductive: a call that was cut in two writes what it carries, so
`Carried` types that. No bound on `attempt` follows from the threshold, because
two threads may count in one slot (one of them in `stray`); that it is an
`unsigned char`, which wraps, is what keeps it in its range.

`DispatchProofs` proves `GlobalsTogether`, `CountsAreHolders` and `TypeOK`, the
safety properties of the run, for any bots, workers, traffic and bounds.
- *Globals.* `IInv` is `PartsOK`, the parts as they are between two calls, and
  `HoldsOK`, whose initialisations the count is made of. `MakeEffect` says what
  the steps up make, `UndoEffect` and `FailPipeEffect` what the labels undo of
  what was made so far, and `MadeOrUndone` that every way through an
  initialisation ends with all or nothing; `CleanedUp` is the same for the last
  cleanup. `OthersKeep` shows that every other step leaves the parts alone.
- *References.* `CountsAreHolders` counts holders and is not inductive: it
  would allow one object twice in a map, whose second removal would take a
  reference too many. `Sound` adds that no map and no two threads have an
  object twice (`Apart`; only claims may be several on one object), and that an
  object not yet allocated has no holder and no entry (`Fresh`). Then a
  cardinality is 0 or 1 (of a map or the threads), and `Accounts` says which references an
  object has, holder by holder.
  `ReleaseEffect` to `UnclaimedEffect` say what each operation does to the
  table; the lemmas of the actions add what happens to the holders. An object
  that is in a map has, besides a claim's, the reference of the map
  (`MappedCounted`), so taking it out never frees what somebody owns. `Sound`
  holds until a job runs on a client that was freed (`wild`): `Free` drops every
  entry while every thread is idle, or else makes the step to `wild`.
- *Types.* `count` is a natural number because it is the number of workers
  between the start and the end of a job (`Counting`), and the maps stay within
  `0..MaxObjects` because of the two objects every waiting event has left
  (`Budget`), which is what the assumption `MaxObjects >= 2 * MaxEvents` is for.
  After `wild` nothing more happens to the cache (`WildRange`).

The assumptions (`DispatchAssumption`) are that there are finitely many workers,
that the main thread is not one of them, that bots consist of calls that exist,
and the bounds.

Only model-checked: the liveness properties, which rest on fairness and are out
of the prover's reach. Every invariant and action property of a passing run is
proved, and so is the refinement of RequestService.

## Not modelled

- Which request the references on `data`, `keep` and the response belong to:
  Refcount has the increments, adds and decrements of begin, answer, cancel and
  dispatch as those of any client of the table, RestRequest leaves them out. A
  response added for a request without a callback, whose reference nobody gives
  back, is not a client of that kind.
- The end of the REST side: `rest_cleanup`, `requestor_cleanup`,
  `cancel_all`; and `winecord_gateway_cleanup` and
  `winecord_voice_connections_cleanup`, which free what no thread uses any more.
- Sends that leave no state (request guild members, voice state, presence),
  the setters of the loop's idle, cycle and wake-up callbacks,
  `_on_shard_reconnected`, which the gateway never calls.
- Voice data: UDP, codecs, speaking, the session id.
- `create_stage_instance` and `modify_stage_instance`, which call themselves and
  send nothing.
- Bodies, headers, multipart data, JSON, logging, texts (`winecord-misc.c`),
  declarations (headers), the Makefile.

Taken for granted: the voice slots start zeroed although they come from
`malloc` (`winecord-voice.c:869`); the refcounter's table does not outgrow its
first allocation while clones of the client exist, because a clone keeps a table
it makes grow to itself; a session that became silent before its first heartbeat
is not noticed by anything in the code, which `Recovers` says.
