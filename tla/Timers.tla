------------------------------- MODULE Timers -------------------------------
(***************************************************************************)
(* A group of timers of winecord-timer.c, the thread that runs it (the     *)
(* main loop of winecord-loop.c, or the REST manager of winecord-rest.c)   *)
(* and other threads that call the timer functions.                        *)
(*                                                                         *)
(* The lock is free except while the run looks for the next due timer, so  *)
(* a caller's critical section is one action and the run is cut where it   *)
(* unlocks: around every callback.  One unit of time stands for any number *)
(* of microseconds; a callback that is NULL is one that does nothing.      *)
(***************************************************************************)
EXTENDS Integers

CONSTANTS
  Ids,       \* identifiers the priority queue can hand out
  NoId,      \* timer.id = 0
  NoEntry,   \* an identifier that is not in the queue
  NoCall,    \* a thread that is in no timer function
  Threads,   \* threads other than the one that runs the timers
  Shapes,    \* the struct winecord_timer values callers pass
  Repeats,   \* values a callback may store in timer->repeat
  MaxSleep,  \* the 60 s a poll lasts at most
  MaxTime,   \* bound: last instant of the clock
  MaxCalls   \* bound: calls of timer functions

Timer == [delay : Int, interval : Int, repeat : Int, fixed : BOOLEAN,
          auto : BOOLEAN, canceled : BOOLEAN, delete : BOOLEAN]

Entry == [trigger : Int, timer : Timer, named : BOOLEAN]

Calls ==
  [op : {"create"}, shape : Shapes] \cup
  [op : {"modify"}, id : Ids, shape : Shapes] \cup
  [op : {"start", "stop", "cancel", "delete", "cancel_and_delete"}, id : Ids]

ASSUME TimersAssumption ==
  /\ NoId \notin Ids
  /\ NoEntry \notin Entry
  /\ NoCall \notin Calls
  /\ Shapes \subseteq Timer /\ Shapes # {}
  /\ Repeats \subseteq Int
  /\ MaxSleep \in Nat
  /\ MaxTime \in Nat
  /\ MaxCalls \in Nat

VARIABLES
  queue,     \* timers->q; named: the stored timer.id is the identifier
  clock,     \* winecord_timestamp_us
  pc,        \* where the running thread is
  deadline,  \* when the poll times out
  wake,      \* io_poller_wakeup has been called since the last poll
  now,       \* winecord_timers_run's now
  cur,       \* timer.id of the run
  copy,      \* the run's local timer
  due,       \* the run's trigger
  wasCanceled, \* prev_flags & CANCELED
  skip,      \* active.skip_update_phase
  pending,   \* the call a thread waits to make
  thread,    \* where the other threads are
  calls,     \* calls made so far
  seen       \* history: the entry the run picked

runVars == <<now, cur, copy, due, wasCanceled, seen>>
vars == <<queue, clock, pc, deadline, wake, runVars, skip, pending, thread, calls>>

Queued == {i \in Ids : queue[i] # NoEntry}

\* active.is_active
Active == pc \in {"scan", "main", "gone"}

Init ==
  /\ queue = [i \in Ids |-> NoEntry]
  /\ clock = 1
  /\ pc = "plan"
  /\ deadline = 0
  /\ wake = FALSE
  /\ now = 0
  /\ cur = NoId
  /\ copy = CHOOSE shape \in Shapes : TRUE
  /\ due = 0
  /\ wasCanceled = FALSE
  /\ seen = NoEntry
  /\ skip = FALSE
  /\ pending = [t \in Threads |-> NoCall]
  /\ thread = [t \in Threads |-> "idle"]
  /\ calls = 0

-----------------------------------------------------------------------------
(* The functions callers use, between LOCK_TIMERS and UNLOCK_TIMERS.       *)

TriggerOf(timer) ==
  IF timer.canceled \/ timer.delete THEN 0
  ELSE IF timer.delay >= 0 THEN clock + timer.delay
  ELSE -1

Store(i, timer, named) ==
  queue' = [queue EXCEPT ![i] =
              [trigger |-> TriggerOf(timer), timer |-> timer, named |-> named]]

\* Mutant: a timer changed by its own callback is not protected.
DisableUpdateNever(i) == skip' = skip

DisableUpdateIfActive(i) == skip' = (skip \/ (Active /\ i = cur))

\* priority_queue_push stores timer.id as the caller left it, 0, and fails
\* when no identifier is left.
Push(timer) ==
  \/ \E i \in Ids \ Queued : Store(i, timer, FALSE)
  \/ Ids = Queued /\ UNCHANGED queue

TimerCtl(i, timer) ==
  IF i \in Queued
    THEN Store(i, timer, TRUE) /\ DisableUpdateIfActive(i)
    ELSE UNCHANGED <<queue, skip>>

Undelayed(timer) == IF timer.delay < 0 THEN [timer EXCEPT !.delay = 0] ELSE timer

(* The timer read from the queue carries the id that was stored with it:   *)
(* one that was pushed and has not run since is pushed again.              *)
TimerStart(i) ==
  /\ DisableUpdateIfActive(i)
  /\ IF i \in Queued
       THEN IF queue[i].named
              THEN Store(i, Undelayed(queue[i].timer), TRUE)
              ELSE Push(Undelayed(queue[i].timer))
       ELSE UNCHANGED queue

Stopped(entry) == [entry EXCEPT !.trigger = -1]

TimerStop(i) ==
  /\ DisableUpdateIfActive(i)
  /\ queue' = IF i \in Queued THEN [queue EXCEPT ![i] = Stopped(queue[i])] ELSE queue

\* trigger 0: run now.
Flagged(entry, canceled, delete) ==
  LET timer == entry.timer
  IN [entry EXCEPT !.trigger = 0,
                   !.timer = [timer EXCEPT !.canceled = timer.canceled \/ canceled,
                                           !.delete = timer.delete \/ delete]]

TimerAddFlags(i, canceled, delete) ==
  /\ DisableUpdateIfActive(i)
  /\ queue' = IF i \in Queued
                THEN [queue EXCEPT ![i] = Flagged(queue[i], canceled, delete)]
                ELSE queue

Perform(c) ==
  \/ c.op = "create" /\ Push(c.shape) /\ UNCHANGED skip
  \/ c.op = "modify" /\ TimerCtl(c.id, c.shape)
  \/ c.op = "start" /\ TimerStart(c.id)
  \/ c.op = "stop" /\ TimerStop(c.id)
  \/ c.op = "cancel" /\ TimerAddFlags(c.id, TRUE, FALSE)
  \/ c.op = "delete" /\ TimerAddFlags(c.id, FALSE, TRUE)
  \/ c.op = "cancel_and_delete" /\ TimerAddFlags(c.id, TRUE, TRUE)

\* A call may start: the lock is free and the bound not reached.
MayCall == pc \notin {"scan", "down"} /\ calls < MaxCalls

(* Another thread, while no run is active.                                 *)
CallAtOnce(t, c) ==
  /\ MayCall /\ ~Active
  /\ thread[t] = "idle"
  /\ Perform(c)
  /\ calls' = calls + 1
  /\ thread' = [thread EXCEPT ![t] = "notify"]
  /\ UNCHANGED <<clock, pc, deadline, wake, runVars, pending>>

(* LOCK_TIMERS during a callback: pthread_cond_wait, once.                 *)
CallWaits(t, c) ==
  /\ MayCall /\ Active
  /\ thread[t] = "idle"
  /\ pending' = [pending EXCEPT ![t] = c]
  /\ calls' = calls + 1
  /\ thread' = [thread EXCEPT ![t] = "waiting"]
  /\ UNCHANGED <<queue, clock, pc, deadline, wake, runVars, skip>>

(* The waiter has the lock again; a new run may have become active.        *)
CallProceeds(t) ==
  /\ pc \notin {"scan", "down"}
  /\ thread[t] = "woken"
  /\ Perform(pending[t])
  /\ pending' = [pending EXCEPT ![t] = NoCall]
  /\ thread' = [thread EXCEPT ![t] = IF Active THEN "idle" ELSE "notify"]
  /\ UNCHANGED <<clock, pc, deadline, wake, runVars, calls>>

(* UNLOCK_TIMERS wakes the poller after the lock is free.                  *)
Notify(t) ==
  /\ thread[t] = "notify"
  /\ wake' = TRUE
  /\ thread' = [thread EXCEPT ![t] = "idle"]
  /\ UNCHANGED <<queue, clock, pc, deadline, runVars, skip, pending, calls>>

(* The running thread itself calls, from a timer's callback or from one of *)
(* the loop's other callbacks.                                             *)
CallFromLoop(c) ==
  /\ MayCall /\ pc \in {"plan", "main", "gone"}
  /\ Perform(c)
  /\ calls' = calls + 1
  /\ wake' = (wake \/ ~Active)
  /\ UNCHANGED <<clock, pc, deadline, runVars, pending, thread>>

-----------------------------------------------------------------------------
(* The loop around the run.                                                *)

LastInstant(i) ==
  IF queue[i].trigger > clock THEN queue[i].trigger ELSE clock

\* Mutant: timers that are due already are left out.
EarliestTriggerLate(d) ==
  LET set == {i \in Queued : queue[i].trigger > clock}
      limits == {clock + MaxSleep} \cup {LastInstant(i) : i \in set}
  IN d \in limits /\ \A l \in limits : d =< l

\* A poll that lasts until `d`: the 60 s, or the earliest trigger.
EarliestTrigger(d) ==
  LET set == {i \in Queued : queue[i].trigger >= 0}
      limits == {clock + MaxSleep} \cup {LastInstant(i) : i \in set}
  IN d \in limits /\ \A l \in limits : d =< l

(* If another thread holds the lock just then the poll does not block.     *)
GetNextTrigger(d) == d = clock \/ EarliestTrigger(d)

Plan ==
  /\ pc = "plan"
  /\ \E d \in {clock, clock + MaxSleep} \cup {LastInstant(i) : i \in Queued} :
       /\ GetNextTrigger(d)
       /\ deadline' = d
  /\ pc' = "sleep"
  /\ UNCHANGED <<queue, clock, wake, runVars, skip, pending, thread, calls>>

Poll ==
  /\ pc = "sleep"
  /\ wake \/ deadline =< clock
  /\ wake' = FALSE
  /\ pc' = "polled"
  /\ UNCHANGED <<queue, clock, deadline, runVars, skip, pending, thread, calls>>

(* A socket makes the poll return earlier.                                 *)
SocketReady ==
  /\ pc = "sleep"
  /\ wake' = FALSE
  /\ pc' = "polled"
  /\ UNCHANGED <<queue, clock, deadline, runVars, skip, pending, thread, calls>>

RunBegin ==
  /\ pc = "polled"
  /\ now' = clock
  /\ skip' = FALSE
  /\ pc' = "scan"
  /\ UNCHANGED <<queue, clock, deadline, wake, cur, copy, due, wasCanceled, seen,
                 pending, thread, calls>>

-----------------------------------------------------------------------------
(* winecord_timers_run.                                                    *)

\* Mutant: a plain comparison puts the stopped timers first.
FirstSigned(i) == i \in Queued /\ \A j \in Queued : queue[i].trigger =< queue[j].trigger

(* cmp_timers: negative triggers come last.                                *)
First(i) ==
  /\ i \in Queued
  /\ \A j \in Queued :
       queue[j].trigger >= 0 => queue[i].trigger \in 0..queue[j].trigger

\* TIMER_TRY_DELETE: priority_queue_del, then on_status_changed unlocked.
TryDelete(i, timer) ==
  /\ queue' = [queue EXCEPT ![i] = NoEntry]
  /\ copy' = timer
  /\ pc' = "gone"

(* The next due timer: its pending status change, or a tick.               *)
RunPick ==
  /\ pc = "scan"
  /\ now' \in {now, clock}          \* refreshed every 32 iterations
  /\ \E i \in Ids :
       /\ First(i) /\ queue[i].trigger \in 0..now'
       /\ cur' = i
       /\ due' = queue[i].trigger
       /\ seen' = queue[i]
       /\ LET timer == queue[i].timer
          IN \/ timer.delete /\ TryDelete(i, timer) /\ UNCHANGED wasCanceled
             \/ /\ ~timer.delete
                /\ copy' = [timer EXCEPT !.repeat =
                              IF ~timer.canceled /\ @ > 0 THEN @ - 1 ELSE @]
                /\ wasCanceled' = timer.canceled
                /\ pc' = "main"
                /\ UNCHANGED queue
  /\ UNCHANGED <<clock, deadline, wake, skip, pending, thread, calls>>

(* A callback changes the timer it was given.                              *)
CallbackEdits ==
  /\ pc = "main"
  /\ \E c, d \in BOOLEAN, r \in Repeats \cup {copy.repeat} :
       copy' = [copy EXCEPT !.canceled = @ \/ c, !.delete = @ \/ d, !.repeat = r]
  /\ copy' # copy
  /\ UNCHANGED <<queue, clock, pc, deadline, wake, now, cur, due, wasCanceled, seen,
                 skip, pending, thread, calls>>

Restarted == ~wasCanceled /\ copy.canceled

\* Time has expired: deleted if WINECORD_TIMER_DELETE_AUTO is set.
Expired == copy.delete \/ ((copy.canceled \/ copy.repeat = 0) /\ copy.auto)

NextTrigger ==
  IF copy.delay # -1 /\ copy.interval >= 0 /\ copy.repeat # 0 /\ ~copy.canceled
    THEN (IF copy.fixed THEN due ELSE now) + copy.interval
    ELSE -1

\* The callback returns and the timer was changed in the queue meanwhile.
ReturnSkips ==
  /\ pc = "main" /\ skip
  /\ skip' = FALSE
  /\ pc' = "scan"
  /\ UNCHANGED <<queue, clock, deadline, wake, runVars, pending, thread, calls>>

\* It returns having set CANCELED: goto restart.
ReturnRestarts ==
  /\ pc = "main" /\ ~skip /\ Restarted
  /\ \/ copy.delete /\ TryDelete(cur, copy) /\ UNCHANGED wasCanceled
     \/ ~copy.delete /\ wasCanceled' = TRUE /\ UNCHANGED <<queue, copy, pc>>
  /\ UNCHANGED <<clock, deadline, wake, now, cur, due, seen, skip, pending, thread, calls>>

\* It returns and the timer goes; after a cancel only DELETE is reported.
ReturnDeletes ==
  /\ pc = "main" /\ ~skip /\ ~Restarted /\ Expired
  /\ TryDelete(cur, [copy EXCEPT !.delete = TRUE,
                                 !.canceled = @ /\ ~wasCanceled])
  /\ UNCHANGED <<clock, deadline, wake, now, cur, due, wasCanceled, seen, skip,
                 pending, thread, calls>>

\* It returns and the timer waits for its next trigger, if any.
ReturnUpdates ==
  /\ pc = "main" /\ ~skip /\ ~Restarted /\ ~Expired
  /\ queue' = [queue EXCEPT ![cur] =
                 [trigger |-> NextTrigger, timer |-> [copy EXCEPT !.canceled = FALSE],
                  named |-> TRUE]]
  /\ pc' = "scan"
  /\ UNCHANGED <<clock, deadline, wake, runVars, skip, pending, thread, calls>>

\* on_status_changed of a deleted timer returns.
ReturnGone ==
  /\ pc = "gone"
  /\ skip' = FALSE
  /\ pc' = "scan"
  /\ UNCHANGED <<queue, clock, deadline, wake, runVars, pending, thread, calls>>

\* Mutant: pthread_cond_signal instead of broadcast, to nobody.
WakeNone == UNCHANGED thread

\* Mutant: the waiter gives up its call.
BroadcastDrops ==
  thread' = [t \in Threads |-> IF thread[t] = "waiting" THEN "idle" ELSE thread[t]]

Broadcast ==
  thread' = [t \in Threads |-> IF thread[t] = "waiting" THEN "woken" ELSE thread[t]]

(* Nothing is due, or the run has taken too long (10 ms or 100000 timers). *)
RunEnd ==
  /\ pc = "scan"
  /\ Broadcast
  /\ pc' = "plan"
  /\ UNCHANGED <<queue, clock, deadline, wake, runVars, skip, pending, calls>>

(* winecord_timers_cleanup, when no thread is in a timer function.         *)
Cleanup ==
  /\ pc = "plan"
  /\ \A t \in Threads : thread[t] = "idle"
  /\ queue' = [i \in Ids |-> NoEntry]
  /\ pc' = "down"
  /\ UNCHANGED <<clock, deadline, wake, runVars, skip, pending, thread, calls>>

Tick ==
  /\ clock < MaxTime
  /\ clock' = clock + 1
  /\ UNCHANGED <<queue, pc, deadline, wake, runVars, skip, pending, thread, calls>>

Return == ReturnSkips \/ ReturnRestarts \/ ReturnDeletes \/ ReturnUpdates \/ ReturnGone

Caller(t) ==
  \/ \E c \in Calls : CallAtOnce(t, c) \/ CallWaits(t, c)
  \/ CallProceeds(t)
  \/ Notify(t)

Next ==
  \/ \E t \in Threads : Caller(t)
  \/ \E c \in Calls : CallFromLoop(c)
  \/ Plan \/ Poll \/ SocketReady \/ RunBegin
  \/ RunPick \/ CallbackEdits \/ Return \/ RunEnd
  \/ Cleanup \/ Tick

(* The loop goes round, callbacks return, a run ends (it is limited to     *)
(* 10 ms), and the mutex is granted to a thread that keeps asking.         *)
Fairness ==
  /\ WF_vars(Plan) /\ WF_vars(Poll) /\ WF_vars(RunBegin) /\ WF_vars(Return)
  /\ WF_vars(RunPick \/ RunEnd) /\ SF_vars(RunEnd)
  /\ SF_vars(RunPick)
  /\ \A t \in Threads : SF_vars(CallProceeds(t)) /\ WF_vars(Notify(t))

Spec == Init /\ [][Next]_vars
FairSpec == Spec /\ Fairness

-----------------------------------------------------------------------------
TypeOK ==
  /\ queue \in [Ids -> Entry \cup {NoEntry}]
  /\ clock \in Nat
  /\ pc \in {"plan", "sleep", "polled", "scan", "main", "gone", "down"}
  /\ deadline \in Int
  /\ wake \in BOOLEAN
  /\ now \in Int
  /\ cur \in Ids \cup {NoId}
  /\ copy \in Timer
  /\ due \in Int
  /\ wasCanceled \in BOOLEAN
  /\ seen \in Entry \cup {NoEntry}
  /\ skip \in BOOLEAN
  /\ pending \in [Threads -> Calls \cup {NoCall}]
  /\ thread \in [Threads -> {"idle", "waiting", "woken", "notify"}]
  /\ \A t \in Threads : thread[t] \in {"waiting", "woken"} <=> pending[t] # NoCall
  /\ calls \in 0..MaxCalls

(* No lost update: when the run is about to write its copy of a timer back *)
(* (or to delete it), nobody has changed that timer in the queue since the *)
(* run picked it; whoever did, its callback or another thread, has set     *)
(* skip_update_phase.                                                      *)
NoLostUpdate ==
  pc = "main" /\ ~skip => cur \in Queued /\ queue[cur] = seen

(* No lost wake-up: while the loop sleeps in the poll, it sleeps no longer *)
(* than until the earliest trigger, or a wake-up is on its way.            *)
NoOversleep ==
  pc = "sleep" =>
    \/ wake \/ deadline =< clock
    \/ \E t \in Threads : thread[t] = "notify"
    \/ \A i \in Queued : queue[i].trigger >= 0 => deadline =< queue[i].trigger

(* Every thread that calls a timer function returns from it.               *)
EveryCallReturns ==
  \A t \in Threads : thread[t] # "idle" ~> thread[t] = "idle"

(* A timer whose trigger is 0, as cancel and delete leave it, is picked by *)
(* a run, unless its owner changes it first.                               *)
FlaggedIsRun ==
  \A i \in Ids :
    i \in Queued /\ queue[i].trigger = 0
      ~> \/ i \notin Queued \/ queue[i].trigger # 0
         \/ pc \in {"main", "gone"} /\ cur = i
=============================================================================
