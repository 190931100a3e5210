------------------------------ MODULE Dispatch ------------------------------
(***************************************************************************)
(* A client's life and what becomes of an event: the Gateway hands it to   *)
(* the user's scheduler, which ignores it, runs it in the main thread or   *)
(* gives a clone of the client to the worker pool; whoever runs it calls a *)
(* message command, or the cache's callback (cbs[0]) and the user's        *)
(* (cbs[1]), and then gives its reference back to the reference counter.   *)
(* The cache keeps message events and copies of guilds; a callback may     *)
(* claim what it finds there, any number of times and together with other  *)
(* callbacks, and keep it for later.  winecord_cleanup waits for the       *)
(* workers, then frees the client while the process-wide pool lives on.    *)
(*                                                                         *)
(* That pool, libcurl and the shutdown pipe are made by the first of the   *)
(* initialisations that the client and the rest of the program, the user,  *)
(* ask for, and destroyed with the last; winecord_init does not look       *)
(* whether its own succeeded.                                              *)
(*                                                                         *)
(* The clones share the refcounter's table and lock; it is assumed not to  *)
(* outgrow its first allocation, because a clone that makes it grow keeps  *)
(* the new table to itself.                                                *)
(***************************************************************************)
EXTENDS Integers, Sequences, FiniteSets, EventTable

CONSTANTS
  Workers,     \* the threads of the pool
  Ids,         \* ids of messages and of guilds
  Scripts,     \* the configurations: sequences of calls <<name, argument>>
  Traffic,     \* bound: the events the server sends
  QueueSize,   \* jobs the pool's queue holds
  MaxObjects,  \* bound: events and guild copies allocated
  MaxEvents,   \* bound: events received
  MaxClaims,   \* bound: claims not yet given back
  MaxDrops     \* bound: connections lost

Main == "main"
None == 0     \* NULL
Objects == 1..MaxObjects
Threads == Workers \cup {Main}

(* The calls that configure a client.                                      *)
Call ==
  {"on"} \X Events \cup {"prefix"} \X STRING \cup {"command"} \X {"", "help"}
  \cup {"cache"} \X SUBSET {"GUILDS", "MESSAGES"}

ASSUME DispatchAssumption ==
  /\ IsFiniteSet(Workers) /\ Main \notin Workers
  /\ Traffic \subseteq Events
  /\ Scripts \subseteq Seq(Call)
  /\ {QueueSize, MaxObjects, MaxEvents, MaxClaims, MaxDrops} \subseteq Nat
  /\ MaxObjects >= 2 * MaxEvents     \* an event and its copy: never short

(* A message's content: it lacks the prefix, or goes on after it with the  *)
(* command "help", with a command nobody registered, or with a blank or    *)
(* nothing at all.                                                         *)
Contents == {"plain", "help", "other", "blank"}

VARIABLES
  phase,     \* the client: none, setup, running, ended, joined, freed, gone
  parts,     \* the process-wide parts, see Made below
  holds,     \* history: whose initialisation succeeded and is not cleaned up
  script,    \* calls left that configure the client
  cbs,       \* gw.cbs[1]: events with a callback of the user
  options,   \* options of the enabled cache, {} when there is none
  named,     \* keys of the table of message commands
  prefix,    \* a prefix is set
  fallback,  \* a fallback command is set
  intents,   \* gw.id.intents
  link,      \* the connection: down, hello (identifying), up
  asked,     \* the intents sent in the last IDENTIFY
  valid,     \* the shard cache's valid
  msgs,      \* msg_map: event object of a message id, or None
  guilds,    \* guild_map: copy of a guild id, or None
  heap,      \* of an object its reference counts; visits = 0: no entry
  lost,      \* history: guild copies the map refused
  owned,     \* history: claims on an object not yet given back
  queue,     \* jobs in the pool's queue
  thread,    \* what each thread runs
  count,     \* workers->count
  wild,      \* freed memory, the client or the pool, was used: undefined
  steps      \* counters of the bounds

config == <<script, cbs, options, named, prefix, fallback, intents>>
globals == <<parts, holds>>
cache == <<valid, msgs, guilds, heap, lost, owned>>
conn == <<link, asked>>
workers == <<queue, count>>
vars == <<phase, globals, config, conn, cache, workers, thread, wild, steps>>

(* Before the first initialisation: init_counter, libcurl, once and g_tpool *)
(* of winecord-worker.c, and the ends of the shutdown pipe that are open.  *)
(* g_tpool is never reset, so the pool it points to may have been freed.   *)
Nothing ==
  [inits |-> 0, curl |-> FALSE, once |-> FALSE, pool |-> "null", fds |-> {}]

Parties == {"user", "client"}

Idle == [pc |-> "idle", event |-> "NONE", id |-> None, obj |-> None]
NoEntry == [visits |-> 0, claims |-> 0]

(* A thread of the pool has the job to leave, the main thread is free.     *)
After(t) == IF t = Main THEN Idle ELSE [thread[t] EXCEPT !.pc = "done", !.obj = None]

Init ==
  /\ phase = "none" /\ parts = Nothing
  /\ holds = [p \in Parties |-> "none"]
  /\ script \in Scripts
  /\ cbs = {} /\ options = {} /\ named = {} /\ prefix = FALSE /\ fallback = FALSE
  /\ intents = {} /\ link = "down" /\ asked = {} /\ valid = FALSE
  /\ msgs = [i \in Ids |-> None] /\ guilds = [i \in Ids |-> None]
  /\ heap = [o \in Objects |-> NoEntry]
  /\ owned = [o \in Objects |-> 0] /\ lost = {}
  /\ queue = <<>> /\ count = 0
  /\ thread = [t \in Threads |-> Idle]
  /\ wild = FALSE
  /\ steps = [objects |-> 0, events |-> 0, drops |-> 0, claims |-> 0]

Bump(field, n) == steps' = [steps EXCEPT ![field] = @ + n]

-----------------------------------------------------------------------------
(* The process: wineberry_global_init and wineberry_global_cleanup, each   *)
(* under the lock of winecord-once.c for its whole body.                   *)

(* winecord_worker_global_cleanup; whatever g_tpool is, it is destroyed.   *)
WorkerCleanup(p) ==
  [p EXCEPT !.once = FALSE,
            !.pool = CASE @ = "live" -> "freed"
                       [] @ = "null" -> "null"
                       [] OTHER -> "twice"]

ClosePipe(p) == [p EXCEPT !.fds = {}]
CurlCleanup(p) == [p EXCEPT !.curl = FALSE]

(* The three labels of wineberry_global_init fall through to the end.      *)
FailCurl(p) == [CurlCleanup(p) EXCEPT !.inits = 0]
FailWorker(p) == FailCurl(WorkerCleanup(p))

\* Mutant: a pipe that fails leaves the pool that was made before it.
FailPipeKeepsPool(p) == FailCurl(ClosePipe(p))

FailPipe(p) == FailWorker(ClosePipe(p))

(* The steps of the first initialisation; each may fail where the code     *)
(* looks: curl_global_init, pipe, or an ioctl when both ends are open.     *)
(* threadpool_create fails unnoticed and gives NULL.                       *)
Outcomes == {"curl", "pipe", "ioctl", "no pool", "complete"}

CurlUp(p) == [p EXCEPT !.curl = TRUE]
PoolUp(p, out) ==
  [p EXCEPT !.once = TRUE, !.pool = IF out = "no pool" THEN "null" ELSE "live"]
PipeUp(p) == [p EXCEPT !.fds = {0, 1}]

Made(p, out) ==
  IF out = "curl" THEN FailCurl(p)
  ELSE IF p.once THEN FailWorker(CurlUp(p))    \* a duplicate initialisation
  ELSE LET half == PoolUp(CurlUp(p), out) IN
       IF out = "pipe" THEN FailPipe(half)
       ELSE IF out = "ioctl" THEN FailPipe(PipeUp(half))
       ELSE PipeUp(half)

GlobalInit(out) ==
  LET counted == [parts EXCEPT !.inits = @ + 1] IN
  parts' = IF parts.inits = 0 THEN Made(counted, out) ELSE counted

Succeeded == parts'.inits > parts.inits

PoolDrained == queue = <<>> /\ \A w \in Workers : thread[w] = Idle

\* A last cleanup waits: threadpool_graceful joins the threads.
GlobalCleanup ==
  \/ parts.inits = 0 /\ UNCHANGED parts
  \/ parts.inits > 1 /\ parts' = [parts EXCEPT !.inits = @ - 1]
  \/ parts.inits = 1 /\ PoolDrained
     /\ parts' = ClosePipe(WorkerCleanup(CurlCleanup([parts EXCEPT !.inits = 0])))

(* The user looks at the result, and cleans up once for each success.      *)
UserGlobalInit(out) ==
  /\ phase \in {"none", "setup"} /\ holds["user"] = "none"
  /\ GlobalInit(out)
  /\ holds' = IF Succeeded THEN [holds EXCEPT !["user"] = "held"] ELSE holds
  /\ UNCHANGED <<phase, config, conn, cache, workers, thread, wild, steps>>

UserGlobalCleanup ==
  /\ phase \in {"none", "setup", "gone"} /\ holds["user"] = "held"
  /\ GlobalCleanup
  /\ holds' = [holds EXCEPT !["user"] = "none"]
  /\ UNCHANGED <<phase, config, conn, cache, workers, thread, wild, steps>>

(* winecord_init goes on whatever the result.                              *)
ClientInit(out) ==
  /\ phase = "none"
  /\ GlobalInit(out)
  /\ phase' = "setup"
  /\ holds' = [holds EXCEPT !["client"] = IF Succeeded THEN "held" ELSE "failed"]
  /\ UNCHANGED <<config, conn, cache, workers, thread, wild, steps>>

-----------------------------------------------------------------------------
(* Configuration, before the client runs.                                  *)

(* The program's next call that configures the client.                     *)
Calls(name) ==
  /\ phase = "setup" /\ script # <<>> /\ Head(script)[1] = name
  /\ script' = Tail(script)
  /\ UNCHANGED <<phase, globals, conn, cache, workers, thread, wild, steps>>

Arg == Head(script)[2]

AddIntents(set) == intents' = intents \cup set    \* not WS_CONNECTED

\* winecord_set_on_<event>
SetOn ==
  /\ Calls("on")
  /\ cbs' = cbs \cup {Arg}
  /\ AddIntents(IntentsOf[Arg])
  /\ UNCHANGED <<options, named, prefix, fallback>>

SetPrefix ==
  /\ Calls("prefix")
  /\ prefix' = TRUE
  /\ UNCHANGED <<cbs, options, named, fallback, intents>>

(* "" is the fallback once there is a prefix, and an entry like any other  *)
(* before.                                                                 *)
SetOnCommand ==
  /\ Calls("command")
  /\ \/ prefix /\ Arg = "" /\ fallback' = TRUE /\ UNCHANGED named
     \/ ~(prefix /\ Arg = "") /\ named' = named \cup {Arg} /\ UNCHANGED fallback
  /\ AddIntents({"GUILD_MESSAGES", "DIRECT_MESSAGES", "MESSAGE_CONTENT"})
  /\ UNCHANGED <<cbs, options, prefix>>

CacheEnable ==
  /\ Calls("cache")
  /\ options' = options \cup Arg
  /\ AddIntents(IF "GUILDS" \in Arg THEN {"GUILDS"} ELSE {})
  /\ UNCHANGED <<cbs, named, prefix, fallback>>

Setup == SetOn \/ SetPrefix \/ SetOnCommand \/ CacheEnable

-----------------------------------------------------------------------------
(* The reference counter, as operators on its table.                       *)

Add(h, o) == [h EXCEPT ![o] = [visits |-> 1, claims |-> 0]]

Incr(h, o) == [h EXCEPT ![o].visits = IF @ = 0 THEN 0 ELSE @ + 1]

Decr(h, o) ==
  LET v == h[o] IN
  [h EXCEPT ![o] =
     IF v.visits = 0 \/ v.visits < v.claims THEN v
     ELSE IF v.visits > 1 THEN [v EXCEPT !.visits = @ - 1]
     ELSE IF v.claims # 0 THEN v
     ELSE NoEntry]

Claimed(h, o) ==
  IF h[o].visits = 0 THEN h
  ELSE [h EXCEPT ![o] = [visits |-> @.visits + 1, claims |-> @.claims + 1]]

Unclaimed(h, o) ==
  IF h[o].claims = 0 THEN h ELSE Decr([h EXCEPT ![o].claims = @ - 1], o)

(* A set of objects leaves a map: one on_item_changed each.                *)
Release(h, gone) ==
  [o \in Objects |-> IF o \in gone THEN Decr(h, o)[o] ELSE h[o]]

Mapped(map) == {map[i] : i \in Ids} \ {None}

-----------------------------------------------------------------------------
(* The cache's callbacks; each holds the shard's lock for its whole body.  *)
(* ev is the event object, already counted once for the dispatcher.        *)

\* Mutant: the message map takes no reference of its own.
MapChangedBorrows(h, prev, now) == IF prev = None THEN h ELSE Decr(h, prev)

(* _on_map_changed                                                         *)
MapChanged(h, prev, now) ==
  LET dropped == IF prev = None THEN h ELSE Decr(h, prev)
  IN IF now = None THEN dropped ELSE Incr(dropped, now)

(* Without a callback of the user the dispatcher gives its reference back  *)
(* right after the cache's: the same step here, as nobody looks in between. *)
Left(e, ev, h) == IF e \in cbs THEN h ELSE Decr(h, ev)

(* anomap_insert keeps what is there, upsert replaces it, delete empties.  *)
MapValue(e, prev, new) ==
  CASE e \in {"MESSAGE_DELETE", "GUILD_DELETE"} -> None
    [] e \in {"MESSAGE_CREATE", "GUILD_CREATE"} /\ prev # None -> prev
    [] OTHER -> new

CacheMessage(e, i, ev, h) ==
  LET now == MapValue(e, msgs[i], ev) IN
  /\ msgs' = [msgs EXCEPT ![i] = now]
  /\ heap' = Left(e, ev, IF now = msgs[i] THEN h
                       ELSE MapChanged(h, msgs[i], now))
  /\ UNCHANGED <<valid, guilds, lost>>

(* GUILD_BEGIN copies the guild into an object of its own, counted once    *)
(* for the map; a copy the map refuses stays counted (_on_guild_map_changed *)
(* only gives back what leaves the map).                                   *)
CacheGuild(e, i, ev, h) ==
  LET copy == ev + 1
      now == MapValue(e, guilds[i], copy)
      added == IF e = "GUILD_DELETE" THEN h ELSE Add(h, copy)
  IN
  /\ guilds' = [guilds EXCEPT ![i] = now]
  /\ heap' = Left(e, ev, IF now = guilds[i] THEN added
                       ELSE Release(added, {guilds[i]}))
  /\ lost' = IF e = "GUILD_CREATE" /\ now # copy THEN lost \cup {copy} ELSE lost
  /\ UNCHANGED <<valid, msgs>>

MessageEvents == {"MESSAGE_CREATE", "MESSAGE_UPDATE", "MESSAGE_DELETE"}
GuildEvents == {"GUILD_CREATE", "GUILD_UPDATE", "GUILD_DELETE"}

(* Events with a callback in gw.cbs[0].                                    *)
CacheHears ==
  (IF options = {} THEN {} ELSE {"READY"})
  \cup (IF "GUILDS" \in options THEN GuildEvents ELSE {})
  \cup (IF "MESSAGES" \in options THEN MessageEvents ELSE {})

(* Objects the cache allocates for an event.                               *)
Copies(e) ==
  IF e \in CacheHears \cap {"GUILD_CREATE", "GUILD_UPDATE"} THEN 1 ELSE 0

CacheCallback(e, i, ev, h) ==
  \/ /\ e \notin CacheHears
     /\ heap' = Left(e, ev, h) /\ UNCHANGED <<valid, msgs, guilds, lost>>
  \/ /\ e \in CacheHears /\ e = "READY"
     /\ valid' = TRUE /\ heap' = Left(e, ev, h) /\ UNCHANGED <<msgs, guilds, lost>>
  \/ e \in CacheHears \cap MessageEvents /\ CacheMessage(e, i, ev, h)
  \/ e \in CacheHears \cap GuildEvents /\ CacheGuild(e, i, ev, h)

(* _winecord_shard_cache_cleanup: anomap_clear reports every item.         *)
Emptied(h) == Release(Release(h, Mapped(msgs)), Mapped(guilds))

EmptyMaps ==
  /\ msgs' = [i \in Ids |-> None]
  /\ guilds' = [i \in Ids |-> None]

-----------------------------------------------------------------------------
(* winecord_message_commands_try_perform on a message's content.           *)

(* The bytes up to the first blank after the prefix.                       *)
Word(c) ==
  CASE c = "help" -> "help"
    [] c = "blank" -> ""
    [] OTHER -> "unknown"

Commanded(c) ==
  /\ named # {}
  /\ prefix => c # "plain"
  /\ Word(c) \in named \/ (prefix /\ fallback)

(* winecord_gateway_dispatch in thread t up to the call of the callback of *)
(* the user or of the command.  The object is the thread's own until a map *)
(* holds it, so its allocation is one step with the cache's callback.      *)
PerformCommand(t, c) ==
  /\ thread[t].event = "MESSAGE_CREATE" /\ Commanded(c)
  /\ Bump("objects", 1)
  /\ LET ev == steps.objects + 1 IN
     /\ thread' = [thread EXCEPT ![t].pc = "user", ![t].obj = ev]
     /\ heap' = Add(heap, ev)
  /\ UNCHANGED <<valid, msgs, guilds, lost>>

PerformEvent(t, c) ==
  LET e == thread[t].event
      ev == steps.objects + 1
  IN
  /\ ~(e = "MESSAGE_CREATE" /\ Commanded(c))
  /\ \/ /\ e \notin CacheHears \cup cbs
        /\ thread' = [thread EXCEPT ![t] = After(t)]
        /\ UNCHANGED <<heap, valid, msgs, guilds, lost, steps>>
     \/ /\ e \in CacheHears \cup cbs
        /\ thread' = [thread EXCEPT ![t] =
                        IF e \in cbs THEN [@ EXCEPT !.pc = "user", !.obj = ev]
                        ELSE After(t)]
        /\ Bump("objects", 1 + Copies(e))
        /\ CacheCallback(e, thread[t].id, ev, Add(heap, ev))

Perform(t, c) ==
  /\ ~wild /\ thread[t].pc = "ready"
  /\ c = "plain" \/ thread[t].event = "MESSAGE_CREATE"
  /\ PerformCommand(t, c) \/ PerformEvent(t, c)
  /\ UNCHANGED <<phase, globals, config, conn, owned, workers, wild>>

(* One more owner of an object, within the bound.                          *)
Own(o) ==
  /\ steps.claims < MaxClaims
  /\ heap' = Claimed(heap, o)
  /\ owned' = [owned EXCEPT ![o] = @ + 1]
  /\ Bump("claims", 1)
  /\ UNCHANGED <<phase, globals, config, conn, valid, msgs, guilds, lost,
                 workers, thread, wild>>

(* In a callback: winecord_cache_get_channel_message, _get_guild.          *)
Get(map, i) ==
  /\ ~wild /\ \E t \in Threads : thread[t].pc = "user"
  /\ map[i] # None /\ valid
  /\ Own(map[i])

(* winecord_claim on a callback's own parameter, or by an owner again.     *)
Claim(o) ==
  /\ ~wild /\ phase \in {"running", "ended"}
  /\ owned[o] > 0 \/ \E t \in Threads : thread[t].pc = "user" /\ thread[t].obj = o
  /\ Own(o)

(* winecord_unclaim, from any thread, as long as the client is there.      *)
Unclaim(o) ==
  /\ ~wild /\ phase \in {"running", "ended"} /\ owned[o] > 0
  /\ heap' = Unclaimed(heap, o)
  /\ owned' = [owned EXCEPT ![o] = @ - 1]
  /\ Bump("claims", -1)
  /\ UNCHANGED <<phase, globals, config, conn, valid, msgs, guilds, lost,
                 workers, thread, wild>>

(* The callback returned.                                                  *)
Return(t) ==
  /\ ~wild /\ thread[t].pc = "user"
  /\ heap' = Decr(heap, thread[t].obj)
  /\ thread' = [thread EXCEPT ![t] = After(t)]
  /\ UNCHANGED <<phase, globals, config, conn, valid, msgs, guilds, lost, owned,
                 workers, wild, steps>>

-----------------------------------------------------------------------------
(* The worker pool (winecord-worker.c).                                    *)

(* A thread of the pool takes the next job; the client it was given may    *)
(* have been freed by now.                                                 *)
TakeJob(w) ==
  /\ ~wild /\ thread[w] = Idle /\ queue # <<>>
  /\ queue' = Tail(queue)
  /\ IF phase \in {"freed", "gone"}
     THEN wild' = TRUE /\ UNCHANGED thread
     ELSE /\ thread' = [thread EXCEPT ![w] =
                          [Head(queue) EXCEPT !.pc = "taken"]]
          /\ UNCHANGED wild
  /\ UNCHANGED <<phase, globals, config, conn, cache, count, steps>>

\* Mutant: the job starts without raising the count.
StartJobUncounted(w) ==
  /\ ~wild /\ thread[w].pc = "taken"
  /\ thread' = [thread EXCEPT ![w].pc = "ready"]
  /\ UNCHANGED <<phase, globals, config, conn, cache, workers, wild, steps>>

StartJob(w) ==
  /\ ~wild /\ thread[w].pc = "taken"
  /\ count' = count + 1
  /\ thread' = [thread EXCEPT ![w].pc = "ready"]
  /\ UNCHANGED <<phase, globals, config, conn, cache, queue, wild, steps>>

\* Mutant: the job leaves without lowering the count.
EndJobCounted(w) ==
  /\ ~wild /\ thread[w].pc = "done"
  /\ thread' = [thread EXCEPT ![w] = Idle]
  /\ UNCHANGED <<phase, globals, config, conn, cache, workers, wild, steps>>

EndJob(w) ==
  /\ ~wild /\ thread[w].pc = "done"
  /\ count' = count - 1
  /\ thread' = [thread EXCEPT ![w] = Idle]
  /\ UNCHANGED <<phase, globals, config, conn, cache, queue, wild, steps>>

-----------------------------------------------------------------------------
(* The Gateway, in the main thread (Gateway.tla has its details).          *)

MainFree == ~wild /\ phase = "running" /\ thread[Main] = Idle

Run ==
  /\ phase = "setup" /\ script = <<>>
  /\ phase' = "running"
  /\ UNCHANGED <<globals, config, conn, cache, workers, thread, wild, steps>>

Connect ==
  /\ MainFree /\ link = "down"
  /\ link' = "hello" /\ asked' = intents
  /\ UNCHANGED <<phase, globals, config, cache, workers, thread, wild, steps>>

(* External: what the server sends.  An event without intents, or one of   *)
(* whose intents was asked for.                                            *)
Sent(e) == IntentsOf[e] = {} \/ IntentsOf[e] \cap asked # {}

Job(e, i) == [pc |-> "ready", event |-> e, id |-> i, obj |-> None]

(* The end of _winecord_on_dispatch: what the user's scheduler returned.   *)
(* winecord_worker_add to a pool that is NULL is refused like one that is  *)
(* full; a pool that was freed is not to be touched.                       *)
Schedule(e, i, mode) ==
  \/ /\ mode = "IGNORE"
     /\ UNCHANGED <<thread, queue, wild>>
  \/ /\ mode = "MAIN_THREAD"
     /\ thread' = [thread EXCEPT ![Main] = Job(e, i)]
     /\ UNCHANGED <<queue, wild>>
  \/ /\ mode = "WORKER_THREAD" /\ parts.pool = "live" /\ Len(queue) < QueueSize
     /\ queue' = Append(queue, Job(e, i))
     /\ UNCHANGED <<thread, wild>>
  \/ /\ mode = "WORKER_THREAD"                                \* FULL_WORKER
     /\ parts.pool = "null" \/ (parts.pool = "live" /\ Len(queue) = QueueSize)
     /\ UNCHANGED <<thread, queue, wild>>
  \/ /\ mode = "WORKER_THREAD" /\ parts.pool \notin {"live", "null"}
     /\ wild' = TRUE
     /\ UNCHANGED <<thread, queue>>

Modes == {"IGNORE", "MAIN_THREAD", "WORKER_THREAD"}

Receive(e, i, mode) ==
  /\ MainFree /\ steps.events < MaxEvents
  /\ \/ link = "hello" /\ e = "READY" /\ link' = "up"
     \/ link = "up" /\ e # "READY" /\ Sent(e) /\ UNCHANGED link
  /\ Schedule(e, i, mode)
  /\ Bump("events", IF mode = "IGNORE" THEN 0 ELSE 1)
  /\ UNCHANGED <<phase, globals, config, asked, cache, count>>

(* RESUMED calls the cache before the scheduler; nothing else hears it.    *)
Resumed ==
  /\ MainFree /\ link = "hello" /\ steps.drops > 0
  /\ link' = "up"
  /\ valid' = (valid \/ options # {})
  /\ UNCHANGED <<phase, globals, config, asked, msgs, guilds, heap, lost, owned,
                 workers, thread, wild, steps>>

(* The connection closes with a close frame: on_shard_disconnected empties *)
(* the maps of a session that is not resumed and lets the lock go ...      *)
Disconnect(resumable) ==
  /\ MainFree /\ link # "down" /\ steps.drops < MaxDrops
  /\ link' = "down"
  /\ \/ options # {} /\ ~resumable /\ heap' = Emptied(heap) /\ EmptyMaps
     \/ ~(options # {} /\ ~resumable) /\ UNCHANGED <<heap, msgs, guilds>>
  /\ thread' = IF options = {} THEN thread
               ELSE [thread EXCEPT ![Main].pc = "disconnected"]
  /\ Bump("drops", 1)
  /\ UNCHANGED <<phase, globals, config, asked, valid, lost, owned, workers,
                 wild>>

(* ... before it takes it again for the flag.                              *)
Invalidate ==
  /\ ~wild /\ thread[Main].pc = "disconnected"
  /\ valid' = FALSE
  /\ thread' = [thread EXCEPT ![Main] = Idle]
  /\ UNCHANGED <<phase, globals, config, conn, msgs, guilds, heap, lost, owned,
                 workers, wild, steps>>

(* It is lost without one: the cache is not told.                          *)
Lose ==
  /\ MainFree /\ link # "down" /\ steps.drops < MaxDrops
  /\ link' = "down"
  /\ Bump("drops", 1)
  /\ UNCHANGED <<phase, globals, config, asked, cache, workers, thread, wild>>

(* _on_garbage_collection, from the main thread's timers: the messages of  *)
(* the lowest ids go.                                                      *)
Collect(old) ==
  /\ MainFree /\ options # {} /\ \E i \in old : msgs[i] # None
  /\ heap' = Release(heap, {msgs[i] : i \in old})
  /\ msgs' = [i \in Ids |-> IF i \in old THEN None ELSE msgs[i]]
  /\ UNCHANGED <<phase, globals, config, conn, valid, guilds, lost, owned,
                 workers, thread, wild, steps>>

(* winecord_run returns.                                                   *)
RunEnds ==
  /\ MainFree
  /\ phase' = "ended" /\ link' = "down"
  /\ steps' = [steps EXCEPT !.events = 0, !.drops = 0]  \* of no use any more
  /\ UNCHANGED <<globals, config, asked, cache, workers, thread, wild>>

-----------------------------------------------------------------------------
(* winecord_cleanup: winecord_worker_join waits for count = 0.             *)
Join ==
  /\ ~wild /\ phase = "ended" /\ count = 0
  /\ phase' = "joined"
  /\ UNCHANGED <<globals, config, conn, cache, workers, thread, wild, steps>>

(* The rest of it.  A job taken from the queue since is still using what   *)
(* is freed here.                                                          *)
Free ==
  /\ ~wild /\ phase = "joined"
  /\ phase' = "freed"
  /\ heap' = [o \in Objects |-> NoEntry] \* refcounter_cleanup frees all
  /\ EmptyMaps
  /\ owned' = [o \in Objects |-> 0] /\ lost' = {} /\ valid' = FALSE
  /\ cbs' = {} /\ options' = {} /\ named' = {} /\ prefix' = FALSE
  /\ fallback' = FALSE /\ intents' = {} /\ asked' = {}
  /\ UNCHANGED script
  /\ wild' = (\E w \in Workers : thread[w] # Idle)
  /\ steps' = [f \in DOMAIN steps |-> 0]
  /\ UNCHANGED <<globals, link, workers, thread>>

(* The last line of it, whether or not winecord_init's own initialisation  *)
(* had succeeded: if not, it may take the parts from the user.             *)
ClientGlobalCleanup ==
  /\ ~wild /\ phase = "freed"
  /\ GlobalCleanup
  /\ phase' = "gone"
  /\ holds' = IF holds["client"] = "held" THEN [holds EXCEPT !["client"] = "none"]
              ELSE holds
  /\ UNCHANGED <<config, conn, cache, workers, thread, wild, steps>>

-----------------------------------------------------------------------------
User ==
  \/ \E i \in Ids : Get(msgs, i) \/ Get(guilds, i)
  \/ \E o \in Objects : Claim(o) \/ Unclaim(o)

Worker(w) ==
  \/ TakeJob(w)
  \/ StartJob(w)
  \/ \E c \in Contents : Perform(w, c)
  \/ Return(w)
  \/ EndJob(w)

MainThread ==
  \/ \E c \in Contents : Perform(Main, c)
  \/ Return(Main)
  \/ Invalidate

Cleanup == Join \/ Free \/ ClientGlobalCleanup

Network ==
  \/ Connect
  \/ \E e \in Traffic, i \in Ids, m \in Modes : Receive(e, i, m)
  \/ Resumed
  \/ \E r \in BOOLEAN : Disconnect(r)
  \/ Lose

Next ==
  \/ \E out \in Outcomes : UserGlobalInit(out) \/ ClientInit(out)
  \/ UserGlobalCleanup
  \/ Setup \/ Run \/ RunEnds
  \/ Network
  \/ \E n \in Ids : Collect({i \in Ids : i =< n})
  \/ User
  \/ MainThread
  \/ \E w \in Workers : Worker(w)
  \/ Cleanup

Spec == Init /\ [][Next]_vars

(* Some thread of the pool runs as long as one can, callbacks returning,   *)
(* and the user who ended the run goes on to clean the client up.          *)
FairSpec ==
  /\ Spec
  /\ WF_vars(\E w \in Workers : Worker(w))
  /\ WF_vars(Cleanup)

-----------------------------------------------------------------------------
TypeOK ==
  /\ phase \in {"none", "setup", "running", "ended", "joined", "freed", "gone"}
  /\ parts.inits \in 0..2 /\ parts.pool \in {"null", "live", "freed"}
  /\ holds \in [Parties -> {"none", "held", "failed"}]
  /\ {parts.curl, parts.once, prefix, fallback, valid, wild} \subseteq BOOLEAN
  /\ cbs \subseteq Events /\ options \subseteq {"GUILDS", "MESSAGES"}
  /\ named \subseteq {"", "help"}
  /\ link \in {"down", "hello", "up"}
  /\ msgs \in [Ids -> 0..MaxObjects] /\ guilds \in [Ids -> 0..MaxObjects]
  /\ \A o \in Objects : heap[o].visits \in Nat /\ heap[o].claims \in Nat
  /\ owned \in [Objects -> Nat]
  /\ Len(queue) =< QueueSize
  /\ count \in Nat

(* Whichever step of the global initialisation failed, and whoever cleaned *)
(* up: libcurl, the pool's flag and the pipe exist together, and only      *)
(* while they are counted; no pool is destroyed twice, none is left behind *)
(* and none is overwritten, so the next wineberry_global_init always finds *)
(* nothing or a complete set.  The count is that of the initialisations    *)
(* that succeeded, unless a client whose own failed was kept.              *)
GlobalsTogether ==
  /\ parts.curl <=> parts.inits > 0
  /\ parts.once <=> parts.inits > 0
  /\ parts.fds = IF parts.inits > 0 THEN {0, 1} ELSE {}
  /\ parts.pool = "live" => parts.inits > 0
  /\ parts.pool \in {"freed", "twice"} => parts.inits = 0
  /\ holds["client"] # "failed" =>
       parts.inits = Cardinality({p \in Parties : holds[p] = "held"})

Running(o) == Cardinality({t \in Threads : thread[t].obj = o})

Cached(map, o) == Cardinality({i \in Ids : map[i] = o})

Holders(o) ==
  Running(o) + Cached(msgs, o) + Cached(guilds, o) + owned[o]

(* What the events dispatched, cached and claimed on several threads add   *)
(* up to in the reference counter: every object somebody holds has exactly *)
(* one reference for each holder, so none is freed under a callback, under *)
(* the cache or under one of its owners; and an event nobody holds any more*)
(* is gone.  Only the copy of a guild that the map refused keeps a         *)
(* reference of nobody.                                                    *)
CountsAreHolders ==
  ~wild => \A o \in Objects :
    /\ heap[o].visits = Holders(o) + (IF o \in lost THEN 1 ELSE 0)
    /\ heap[o].claims = owned[o]

(* Once the run has ended the client's cleanup comes to its end: the join  *)
(* does not wait for ever for a worker, whatever the workers were doing.   *)
CleanupEnds == phase = "ended" ~> (phase = "gone" \/ wild)
=============================================================================
