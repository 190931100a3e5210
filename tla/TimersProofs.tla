---------------------------- MODULE TimersProofs ----------------------------
(***************************************************************************)
(* For any number of timers, threads and calls: a run never writes over a  *)
(* change made to the timer it runs, and the loop never sleeps past the    *)
(* earliest trigger.                                                       *)
(***************************************************************************)
EXTENDS Timers, TLAPS

IInv == TypeOK /\ NoLostUpdate /\ NoOversleep

-----------------------------------------------------------------------------
(* What a caller's critical section preserves, whoever makes it.           *)

\* The conditions under which Perform runs: the lock is free.
CallState == pc \notin {"scan", "down"}

LEMMA TriggerType ==
  ASSUME TypeOK, NEW timer \in Timer
  PROVE  TriggerOf(timer) \in Int
BY DEF TypeOK, TriggerOf, Timer

LEMMA StoreType ==
  ASSUME TypeOK, NEW i \in Ids, NEW timer \in Timer, NEW named \in BOOLEAN,
         Store(i, timer, named)
  PROVE  queue' \in [Ids -> Entry \cup {NoEntry}]
<1>1. [trigger |-> TriggerOf(timer), timer |-> timer, named |-> named] \in Entry
  BY TriggerType DEF Entry
<1> QED BY <1>1 DEF Store, TypeOK

LEMMA QueuedEntry ==
  ASSUME TypeOK, NEW i \in Queued
  PROVE  i \in Ids /\ queue[i] \in Entry
BY DEF TypeOK, Queued

LEMMA FlaggedType ==
  ASSUME NEW e \in Entry, NEW x \in BOOLEAN, NEW y \in BOOLEAN
  PROVE  Flagged(e, x, y) \in Entry
<1> DEFINE c == e.timer.canceled \/ x
           d == e.timer.delete \/ y
           timer == [e.timer EXCEPT !.canceled = c, !.delete = d]
<1>1. c \in BOOLEAN /\ d \in BOOLEAN
  BY Zenon
<1>2. Flagged(e, x, y) = [e EXCEPT !.trigger = 0, !.timer = timer]
  BY Zenon DEF Flagged
<1> HIDE DEF c, d
<1>3. timer \in Timer
  BY <1>1 DEF Entry, Timer
<1> HIDE DEF timer
<1>4. [e EXCEPT !.trigger = 0] \in Entry
  BY DEF Entry
<1>5. \A f \in Entry : [f EXCEPT !.timer = timer] \in Entry
  BY <1>3 DEF Entry
<1>6. [e EXCEPT !.trigger = 0, !.timer = timer] \in Entry
  BY <1>4, <1>5
<1> QED BY <1>2, <1>6, Zenon

(* An entry the run has picked is only changed along with the skip flag.   *)
Guarded == Active /\ cur \in Queued /\ ~skip'
             => cur \in Queued' /\ queue'[cur] = queue[cur]

LEMMA StoreGuarded ==
  ASSUME TypeOK, NEW i \in Ids, NEW timer, NEW named,
         Store(i, timer, named), i # cur \/ ~Active \/ skip'
  PROVE  Guarded
BY DEF TypeOK, Store, Guarded, Queued

LEMMA PushSafe ==
  ASSUME TypeOK, NEW timer \in Timer, Push(timer)
  PROVE  queue' \in [Ids -> Entry \cup {NoEntry}] /\ Guarded
<1>1. CASE Ids = Queued /\ UNCHANGED queue
  BY <1>1 DEF TypeOK, Guarded, Queued
<1>2. CASE \E i \in Ids \ Queued : Store(i, timer, FALSE)
  <2>1. PICK i \in Ids \ Queued : Store(i, timer, FALSE)
    BY <1>2
  <2>2. queue' \in [Ids -> Entry \cup {NoEntry}]
    BY <2>1, StoreType
  <2>3. Guarded
    BY <2>1 DEF TypeOK, Store, Guarded, Queued
  <2> QED BY <2>2, <2>3
<1> QED BY <1>1, <1>2 DEF Push

LEMMA PerformSafe ==
  ASSUME TypeOK, NEW c \in Calls, Perform(c)
  PROVE  /\ queue' \in [Ids -> Entry \cup {NoEntry}]
         /\ skip' \in BOOLEAN
         /\ Guarded
<1> USE TimersAssumption DEF TimersAssumption
<1>0. skip \in BOOLEAN
  BY DEF TypeOK
<1>1. CASE c.op = "create" /\ Push(c.shape) /\ UNCHANGED skip
  <2>1. c.shape \in Timer
    BY <1>1 DEF Calls
  <2> QED BY <1>0, <1>1, <2>1, PushSafe
<1>2. CASE c.op = "modify" /\ TimerCtl(c.id, c.shape)
  <2>1. c.shape \in Timer /\ c.id \in Ids
    BY <1>2 DEF Calls
  <2>2. CASE c.id \in Queued
    <3>1. Store(c.id, c.shape, TRUE) /\ DisableUpdateIfActive(c.id)
      BY <1>2, <2>2 DEF TimerCtl
    <3>2. skip' \in BOOLEAN /\ (c.id # cur \/ ~Active \/ skip')
      BY <1>0, <3>1, Zenon DEF DisableUpdateIfActive
    <3> QED BY <2>1, <3>1, <3>2, StoreType, StoreGuarded
  <2>3. CASE c.id \notin Queued
    BY <1>0, <1>2, <2>3 DEF TimerCtl, TypeOK, Guarded, Queued
  <2> QED BY <2>2, <2>3
<1>3. CASE c.op = "start" /\ TimerStart(c.id)
  <2>1. c.id \in Ids
    BY <1>3 DEF Calls
  <2>2. DisableUpdateIfActive(c.id)
    BY <1>3 DEF TimerStart
  <2>3. skip' \in BOOLEAN /\ (c.id # cur \/ ~Active \/ skip')
    BY <1>0, <2>2, Zenon DEF DisableUpdateIfActive
  <2>4. CASE c.id \in Queued
    <3> DEFINE ready == Undelayed(queue[c.id].timer)
    <3>1. ready \in Timer
      <4>1. queue[c.id].timer \in Timer
        BY <2>4, QueuedEntry DEF Entry
      <4> QED BY <4>1 DEF Undelayed, Timer
    <3>2. Store(c.id, ready, TRUE) \/ Push(ready)
      BY <1>3, <2>4 DEF TimerStart
    <3> HIDE DEF ready
    <3> QED BY <2>1, <2>3, <3>1, <3>2, PushSafe, StoreType, StoreGuarded
  <2>5. CASE c.id \notin Queued
    BY <1>3, <2>3, <2>5 DEF TimerStart, TypeOK, Guarded, Queued
  <2> QED BY <2>4, <2>5
<1>4. CASE c.op = "stop" /\ TimerStop(c.id)
  <2>1. c.id \in Ids
    BY <1>4 DEF Calls
  <2>2. skip' \in BOOLEAN /\ (c.id # cur \/ ~Active \/ skip')
    BY <1>0, <1>4, Zenon DEF TimerStop, DisableUpdateIfActive
  <2>3. queue' = IF c.id \in Queued THEN [queue EXCEPT ![c.id] = Stopped(queue[c.id])]
                                     ELSE queue
    BY <1>4 DEF TimerStop
  <2>4. c.id \in Queued => Stopped(queue[c.id]) \in Entry
    BY QueuedEntry DEF Entry, Stopped
  <2> QED BY <2>1, <2>2, <2>3, <2>4 DEF TypeOK, Guarded, Queued
<1>5. ASSUME NEW x \in BOOLEAN, NEW y \in BOOLEAN, c.id \in Ids,
             TimerAddFlags(c.id, x, y)
      PROVE  /\ queue' \in [Ids -> Entry \cup {NoEntry}]
             /\ skip' \in BOOLEAN
             /\ Guarded
  <2>2. skip' \in BOOLEAN /\ (c.id # cur \/ ~Active \/ skip')
    BY <1>0, <1>5, Zenon DEF TimerAddFlags, DisableUpdateIfActive
  <2> DEFINE flagged == Flagged(queue[c.id], x, y)
  <2>3. queue' = IF c.id \in Queued THEN [queue EXCEPT ![c.id] = flagged] ELSE queue
    BY <1>5 DEF TimerAddFlags
  <2>4. c.id \in Queued => flagged \in Entry
    BY QueuedEntry, FlaggedType
  <2> HIDE DEF flagged
  <2> QED BY <1>5, <2>2, <2>3, <2>4 DEF TypeOK, Guarded, Queued
<1>6. CASE c.op = "cancel" /\ TimerAddFlags(c.id, TRUE, FALSE)
  BY <1>5, <1>6 DEF Calls
<1>7. CASE c.op = "delete" /\ TimerAddFlags(c.id, FALSE, TRUE)
  BY <1>5, <1>7 DEF Calls
<1>8. CASE c.op = "cancel_and_delete" /\ TimerAddFlags(c.id, TRUE, TRUE)
  BY <1>5, <1>8 DEF Calls
<1> QED BY <1>1, <1>2, <1>3, <1>4, <1>6, <1>7, <1>8 DEF Perform

-----------------------------------------------------------------------------
LEMMA InitIInv == Init => IInv
<1> SUFFICES ASSUME Init PROVE IInv
  OBVIOUS
<1> USE TimersAssumption DEF TimersAssumption
<1>1. copy \in Timer
  BY DEF Init
<1>2. wake \in BOOLEAN /\ wasCanceled \in BOOLEAN /\ skip \in BOOLEAN
  BY Zenon DEF Init
<1>3. pending \in [Threads -> Calls \cup {NoCall}]
  BY DEF Init
<1>4. \A t \in Threads : thread[t] \in {"waiting", "woken"} <=> pending[t] # NoCall
  BY DEF Init
<1>5. TypeOK
  BY <1>1, <1>2, <1>3, <1>4 DEF Init, TypeOK
<1>6. NoLostUpdate /\ NoOversleep
  BY DEF Init, NoLostUpdate, NoOversleep
<1> QED BY <1>5, <1>6 DEF IInv

LEMMA SkipStays ==
  ASSUME NEW c \in Calls, Perform(c)
  PROVE  skip => skip'
BY Zenon DEF Perform, TimerCtl, TimerStart, TimerStop, TimerAddFlags, DisableUpdateIfActive

LEMMA EditType == TypeOK /\ CallbackEdits => copy' \in Timer
<1> SUFFICES ASSUME TypeOK, CallbackEdits PROVE copy' \in Timer
  OBVIOUS
<1>1. PICK c \in BOOLEAN, d \in BOOLEAN, r \in Repeats \cup {copy.repeat} :
         copy' = [copy EXCEPT !.canceled = copy.canceled \/ c,
                              !.delete = copy.delete \/ d, !.repeat = r]
  BY DEF CallbackEdits
<1> DEFINE x == copy.canceled \/ c
           y == copy.delete \/ d
<1>2. x \in BOOLEAN /\ y \in BOOLEAN
  BY Zenon
<1>3. copy' = [copy EXCEPT !.canceled = x, !.delete = y, !.repeat = r]
  BY <1>1
<1> HIDE DEF x, y
<1>4. copy \in Timer
  BY DEF TypeOK
<1>5. r \in Int
  BY <1>4, TimersAssumption DEF TimersAssumption, Timer
<1> QED BY <1>2, <1>3, <1>4, <1>5 DEF Timer

LEMMA RunPickIInv == IInv /\ RunPick => IInv'
<1> SUFFICES ASSUME IInv, RunPick PROVE IInv'
  OBVIOUS
<1>0. TypeOK /\ pc' \in {"main", "gone"}
  BY DEF IInv, RunPick, TryDelete
<1>1. PICK i \in Ids :
         /\ First(i)
         /\ cur' = i
         /\ due' = queue[i].trigger
         /\ seen' = queue[i]
         /\ \/ /\ TryDelete(i, queue[i].timer)
               /\ UNCHANGED wasCanceled
            \/ /\ copy' = [queue[i].timer EXCEPT !.repeat =
                      IF ~queue[i].timer.canceled /\ queue[i].timer.repeat > 0
                        THEN queue[i].timer.repeat - 1 ELSE queue[i].timer.repeat]
               /\ wasCanceled' = queue[i].timer.canceled
               /\ pc' = "main"
               /\ UNCHANGED queue
  BY DEF RunPick
<1>2. i \in Queued /\ queue[i] \in Entry /\ queue[i].timer \in Timer
  BY <1>0, <1>1, QueuedEntry DEF First, Entry
<1>3. now' \in Int
  BY <1>0 DEF RunPick, TypeOK
<1>4. copy' \in Timer /\ wasCanceled' \in BOOLEAN
  BY <1>0, <1>1, <1>2 DEF Timer, TryDelete, TypeOK
<1>5. queue' \in [Ids -> Entry \cup {NoEntry}]
  BY <1>0, <1>1 DEF TryDelete, TypeOK
<1>6. due' \in Int /\ seen' \in Entry
  BY <1>1, <1>2 DEF Entry
<1>7. TypeOK'
  BY <1>0, <1>1, <1>3, <1>4, <1>5, <1>6 DEF TypeOK, RunPick
<1>8. NoLostUpdate' /\ NoOversleep'
  BY <1>0, <1>1, <1>2 DEF NoLostUpdate, NoOversleep, TryDelete, Queued
<1> QED BY <1>7, <1>8 DEF IInv

LEMMA ReturnIInv == IInv /\ Return => IInv'
<1> SUFFICES ASSUME IInv, Return PROVE IInv'
  OBVIOUS
<1>0. TypeOK /\ NoLostUpdate
  BY DEF IInv
<1>1. CASE ReturnSkips \/ ReturnGone
  <2>1. TypeOK'
    BY <1>0, <1>1 DEF TypeOK, ReturnSkips, ReturnGone, runVars
  <2>2. NoLostUpdate' /\ NoOversleep'
    BY <1>1 DEF NoLostUpdate, NoOversleep, ReturnSkips, ReturnGone
  <2> QED BY <2>1, <2>2 DEF IInv
<1>2. CASE ReturnRestarts
  <2>1. TypeOK'
    BY <1>0, <1>2 DEF TypeOK, ReturnRestarts, TryDelete
  <2>2. NoLostUpdate' /\ NoOversleep'
    BY <1>0, <1>2 DEF NoLostUpdate, NoOversleep, ReturnRestarts, TryDelete, Queued
  <2> QED BY <2>1, <2>2 DEF IInv
<1>3. CASE ReturnDeletes
  <2> DEFINE x == copy.canceled /\ ~wasCanceled
             last == [copy EXCEPT !.delete = TRUE, !.canceled = x]
  <2>1. x \in BOOLEAN
    BY Zenon
  <2>2. TryDelete(cur, last)
    BY <1>3 DEF ReturnDeletes
  <2> HIDE DEF x
  <2>3. last \in Timer
    BY <1>0, <2>1 DEF TypeOK, Timer
  <2> HIDE DEF last
  <2>4. TypeOK'
    BY <1>0, <1>3, <2>2, <2>3 DEF TypeOK, ReturnDeletes, TryDelete
  <2>5. NoLostUpdate' /\ NoOversleep'
    BY <2>2 DEF NoLostUpdate, NoOversleep, TryDelete
  <2> QED BY <2>4, <2>5 DEF IInv
<1>4. CASE ReturnUpdates
  <2>1. NextTrigger \in Int
    BY <1>0 DEF TypeOK, Timer, NextTrigger
  <2>2. [copy EXCEPT !.canceled = FALSE] \in Timer
    BY <1>0 DEF TypeOK, Timer
  <2>3. [trigger |-> NextTrigger, timer |-> [copy EXCEPT !.canceled = FALSE],
         named |-> TRUE] \in Entry
    BY <2>1, <2>2 DEF Entry
  <2>4. queue' \in [Ids -> Entry \cup {NoEntry}]
    BY <1>0, <1>4, <2>3 DEF TypeOK, ReturnUpdates
  <2>5. TypeOK'
    BY <1>0, <1>4, <2>4 DEF TypeOK, ReturnUpdates, runVars
  <2>6. NoLostUpdate' /\ NoOversleep'
    BY <1>4 DEF NoLostUpdate, NoOversleep, ReturnUpdates
  <2> QED BY <2>5, <2>6 DEF IInv
<1> QED BY <1>1, <1>2, <1>3, <1>4 DEF Return

LEMMA NextIInv == IInv /\ [Next]_vars => IInv'
<1> SUFFICES ASSUME IInv, [Next]_vars PROVE IInv'
  OBVIOUS
<1> USE TimersAssumption DEF TimersAssumption
<1>0. TypeOK /\ NoLostUpdate /\ NoOversleep
  BY DEF IInv
<1>1. ASSUME NEW t \in Threads, NEW c \in Calls, CallAtOnce(t, c) PROVE IInv'
  <2>1. /\ queue' \in [Ids -> Entry \cup {NoEntry}]
        /\ skip' \in BOOLEAN
    BY <1>0, <1>1, PerformSafe DEF CallAtOnce
  <2>2. pc' = pc /\ ~Active /\ thread'[t] = "notify" /\ calls' \in 0..MaxCalls
    BY <1>0, <1>1 DEF CallAtOnce, MayCall, TypeOK
  <2>3. TypeOK'
    BY <1>0, <1>1, <2>1, <2>2 DEF TypeOK, CallAtOnce, runVars
  <2>4. NoLostUpdate' /\ NoOversleep'
    BY <2>2 DEF NoLostUpdate, NoOversleep, Active
  <2> QED BY <2>3, <2>4 DEF IInv
<1>2. ASSUME NEW t \in Threads, NEW c \in Calls, CallWaits(t, c) PROVE IInv'
  <2>1. pc # "sleep" /\ calls' \in 0..MaxCalls
    BY <1>0, <1>2 DEF CallWaits, MayCall, TypeOK, Active
  <2>2. TypeOK'
    BY <1>0, <1>2, <2>1 DEF TypeOK, CallWaits, runVars
  <2>3. NoLostUpdate' /\ NoOversleep'
    BY <1>0, <1>2, <2>1 DEF CallWaits, NoLostUpdate, NoOversleep, runVars, Queued
  <2> QED BY <2>2, <2>3 DEF IInv
<1>3. ASSUME NEW t \in Threads, CallProceeds(t) PROVE IInv'
  <2>1. pending[t] \in Calls /\ Perform(pending[t])
    BY <1>0, <1>3 DEF CallProceeds, TypeOK
  <2>2. /\ queue' \in [Ids -> Entry \cup {NoEntry}]
        /\ skip' \in BOOLEAN
        /\ Guarded
    BY <1>0, <2>1, PerformSafe
  <2>7. /\ thread' \in [Threads -> {"idle", "waiting", "woken", "notify"}]
        /\ pending' \in [Threads -> Calls \cup {NoCall}]
        /\ \A u \in Threads : thread'[u] \in {"waiting", "woken"} <=> pending'[u] # NoCall
    BY <1>0, <1>3 DEF TypeOK, CallProceeds
  <2>3. TypeOK'
    BY <1>0, <1>3, <2>2, <2>7 DEF TypeOK, CallProceeds, runVars
  <2>4. skip => skip'
    BY <2>1, SkipStays
  <2>5. NoLostUpdate'
    BY <1>0, <1>3, <2>2, <2>4 DEF NoLostUpdate, CallProceeds, runVars, Guarded, Active
  <2>6. NoOversleep'
    BY <1>0, <1>3 DEF NoOversleep, CallProceeds, Active, TypeOK
  <2> QED BY <2>3, <2>5, <2>6 DEF IInv
<1>4. ASSUME NEW t \in Threads, Notify(t) PROVE IInv'
  <2>1. TypeOK'
    BY <1>0, <1>4 DEF TypeOK, Notify, runVars
  <2>2. NoLostUpdate' /\ NoOversleep'
    BY <1>0, <1>4 DEF NoLostUpdate, NoOversleep, Notify, runVars, Queued
  <2> QED BY <2>1, <2>2 DEF IInv
<1>5. ASSUME NEW c \in Calls, CallFromLoop(c) PROVE IInv'
  <2>1. /\ queue' \in [Ids -> Entry \cup {NoEntry}]
        /\ skip' \in BOOLEAN
        /\ Guarded
    BY <1>0, <1>5, PerformSafe DEF CallFromLoop
  <2>2. wake' \in BOOLEAN
    BY <1>5, Zenon DEF CallFromLoop
  <2>3. TypeOK'
    BY <1>0, <1>5, <2>1, <2>2 DEF TypeOK, CallFromLoop, MayCall, runVars
  <2>4. skip => skip'
    BY <1>0, <1>5, SkipStays DEF CallFromLoop
  <2>5. NoLostUpdate'
    BY <1>0, <1>5, <2>1, <2>4 DEF NoLostUpdate, CallFromLoop, runVars, Guarded, Active
  <2>6. NoOversleep'
    BY <1>5 DEF NoOversleep, CallFromLoop
  <2> QED BY <2>3, <2>5, <2>6 DEF IInv
<1>6. CASE Plan
  <2>1. PICK d \in {clock, clock + MaxSleep} \cup {LastInstant(i) : i \in Queued} :
               GetNextTrigger(d) /\ deadline' = d
    BY <1>6 DEF Plan
  <2>2. \A i \in Queued : queue[i].trigger \in Int
    BY <1>0, QueuedEntry DEF Entry
  <2>3. d \in Int
    BY <1>0, <2>1, <2>2 DEF TypeOK, LastInstant
  <2>4. d =< clock \/ \A i \in Queued : queue[i].trigger >= 0 => d =< queue[i].trigger
    <3>1. CASE d = clock
      BY <1>0, <3>1 DEF TypeOK
    <3>2. CASE EarliestTrigger(d) /\ ~(d =< clock)
      <4>1. ASSUME NEW i \in Queued, queue[i].trigger >= 0
            PROVE  d =< queue[i].trigger
        <5>1. d =< LastInstant(i)
          BY <3>2, <4>1 DEF EarliestTrigger
        <5> QED BY <1>0, <2>2, <2>3, <3>2, <5>1 DEF LastInstant, TypeOK
      <4> QED BY <4>1
    <3> QED BY <2>1, <3>1, <3>2 DEF GetNextTrigger
  <2>5. TypeOK'
    BY <1>0, <1>6, <2>1, <2>3 DEF TypeOK, Plan, runVars
  <2>6. NoLostUpdate' /\ NoOversleep'
    BY <1>0, <1>6, <2>1, <2>4 DEF NoLostUpdate, NoOversleep, Plan, Queued
  <2> QED BY <2>5, <2>6 DEF IInv
<1>7. CASE Poll \/ SocketReady
  <2>1. TypeOK'
    BY <1>0, <1>7 DEF TypeOK, Poll, SocketReady, runVars
  <2>2. NoLostUpdate' /\ NoOversleep'
    BY <1>7 DEF NoLostUpdate, NoOversleep, Poll, SocketReady
  <2> QED BY <2>1, <2>2 DEF IInv
<1>8. CASE RunBegin
  <2>3. skip' \in BOOLEAN
    BY <1>8, Zenon DEF RunBegin
  <2>4. /\ now' \in Int /\ pc' = "scan"
        /\ \A t \in Threads : thread'[t] \in {"waiting", "woken"} <=> pending'[t] # NoCall
    BY <1>0, <1>8 DEF TypeOK, RunBegin
  <2>1. TypeOK'
    BY <1>0, <1>8, <2>3, <2>4 DEF TypeOK, RunBegin
  <2>2. NoLostUpdate' /\ NoOversleep'
    BY <1>8 DEF NoLostUpdate, NoOversleep, RunBegin
  <2> QED BY <2>1, <2>2 DEF IInv
<1>9. CASE RunPick
  BY <1>0, <1>9, RunPickIInv
<1>10. CASE CallbackEdits
  <2>1. copy' \in Timer
    BY <1>0, <1>10, EditType
  <2>2. TypeOK'
    BY <1>0, <1>10, <2>1 DEF TypeOK, CallbackEdits
  <2>3. NoLostUpdate' /\ NoOversleep'
    BY <1>0, <1>10 DEF NoLostUpdate, NoOversleep, CallbackEdits, Queued
  <2> QED BY <2>2, <2>3 DEF IInv
<1>11. CASE Return
  BY <1>0, <1>11, ReturnIInv
<1>12. CASE RunEnd
  <2>1. thread' \in [Threads -> {"idle", "waiting", "woken", "notify"}]
    BY <1>0, <1>12 DEF TypeOK, RunEnd, Broadcast
  <2>2. \A t \in Threads : thread'[t] \in {"waiting", "woken"} <=> pending'[t] # NoCall
    BY <1>0, <1>12 DEF TypeOK, RunEnd, Broadcast
  <2>3. TypeOK'
    BY <1>0, <1>12, <2>1, <2>2 DEF TypeOK, RunEnd, runVars
  <2>4. NoLostUpdate' /\ NoOversleep'
    BY <1>12 DEF NoLostUpdate, NoOversleep, RunEnd
  <2> QED BY <2>3, <2>4 DEF IInv
<1>13. CASE Cleanup
  <2>1. TypeOK'
    BY <1>0, <1>13 DEF TypeOK, Cleanup, runVars
  <2>2. NoLostUpdate' /\ NoOversleep'
    BY <1>13 DEF NoLostUpdate, NoOversleep, Cleanup
  <2> QED BY <2>1, <2>2 DEF IInv
<1>14. CASE Tick
  <2>1. TypeOK'
    BY <1>0, <1>14 DEF TypeOK, Tick, runVars
  <2>2. NoLostUpdate' /\ NoOversleep'
    BY <1>0, <1>14 DEF NoLostUpdate, NoOversleep, Tick, Queued, TypeOK, runVars
  <2> QED BY <2>1, <2>2 DEF IInv
<1>15. CASE UNCHANGED vars
  <2>1. TypeOK'
    BY <1>0, <1>15 DEF TypeOK, vars, runVars
  <2>2. NoLostUpdate' /\ NoOversleep'
    BY <1>0, <1>15 DEF NoLostUpdate, NoOversleep, Queued, vars, runVars
  <2> QED BY <2>1, <2>2 DEF IInv
<1> QED
  BY <1>1, <1>2, <1>3, <1>4, <1>5, <1>6, <1>7, <1>8, <1>9, <1>10, <1>11, <1>12, <1>13,
     <1>14, <1>15
  DEF Next, Caller

(* The group's state is well typed in every reachable state.               *)
THEOREM TypeCorrect == Spec => []TypeOK
<1>1. IInv => TypeOK
  BY DEF IInv
<1> QED BY <1>1, InitIInv, NextIInv, PTL DEF Spec

(* The run writes a timer back only if nobody has changed it meanwhile.    *)
THEOREM UpdatesAreKept == Spec => []NoLostUpdate
<1>1. IInv => NoLostUpdate
  BY DEF IInv
<1> QED BY <1>1, InitIInv, NextIInv, PTL DEF Spec

(* No poll outlasts the earliest trigger without a wake-up under way.      *)
THEOREM TimersAreServed == Spec => []NoOversleep
<1>1. IInv => NoOversleep
  BY DEF IInv
<1> QED BY <1>1, InitIInv, NextIInv, PTL DEF Spec

(* A thread only waits on a condition variable that the run it waits for   *)
(* has still to broadcast.                                                 *)
WaitsForARun == \A t \in Threads : thread[t] = "waiting" => Active

(* The end of a run leaves no thread waiting, and no other step ends it.   *)
LEMMA WaitsForARunStep ==
  ASSUME TypeOK, WaitsForARun, [Next]_vars
  PROVE  WaitsForARun'
<1> USE DEF WaitsForARun, Active
<1>1. thread \in [Threads -> {"idle", "waiting", "woken", "notify"}]
  BY DEF TypeOK
<1>2. ASSUME \E t \in Threads : Caller(t)
      PROVE  WaitsForARun'
  BY <1>1, <1>2 DEF Caller, CallAtOnce, CallWaits, CallProceeds, Notify
<1>3. ASSUME \/ \E c \in Calls : CallFromLoop(c)
             \/ Plan \/ Poll \/ SocketReady \/ RunBegin \/ RunPick \/ CallbackEdits
             \/ Cleanup \/ Tick \/ UNCHANGED vars
      PROVE  WaitsForARun'
  <2>1. UNCHANGED thread /\ (Active => Active')
    BY <1>3 DEF CallFromLoop, Plan, Poll, SocketReady, RunBegin, RunPick, TryDelete,
       CallbackEdits, Cleanup, Tick, vars
  <2> QED BY <2>1
<1>4. ASSUME Return
      PROVE  WaitsForARun'
  <2>1. UNCHANGED thread /\ (Active => Active')
    BY <1>4 DEF Return, ReturnSkips, ReturnRestarts, ReturnDeletes, ReturnUpdates,
       ReturnGone, TryDelete
  <2> QED BY <2>1
<1>5. ASSUME RunEnd
      PROVE  WaitsForARun'
  BY <1>1, <1>5 DEF RunEnd, Broadcast
<1> QED BY <1>2, <1>3, <1>4, <1>5 DEF Next

(* Whoever waits in LOCK_TIMERS waits for a run that is active, and so for *)
(* the broadcast at its end: nobody can come to wait after it.             *)
THEOREM NobodyWaitsForNothing == Spec => []WaitsForARun
<1>1. Init => WaitsForARun
  BY DEF Init, WaitsForARun
<1> QED BY <1>1, WaitsForARunStep, TypeCorrect, PTL DEF Spec
=============================================================================
