------------------------------ MODULE Gateway ------------------------------
(***************************************************************************)
(* The gateway of a client (winecord-gateway.c, winecord-gateway_dispatch.c) *)
(* and the main loop that drives it (winecord_run of winecord-loop.c),     *)
(* against a Discord gateway that may refuse, close, lose or silence the   *)
(* connection, and a user who shuts the client down or reconnects it.      *)
(*                                                                         *)
(* The WebSockets library is not part of this repository: ws stands for    *)
(* ws_get_status as the code uses it.  Frames arrive in order, while       *)
(* ws_multi_socket_run runs, also those that follow a ws_close.            *)
(***************************************************************************)
EXTENDS Integers, FiniteSets

CONSTANTS
  RetryLimit,     \* session->retry.limit; -1: no limit
  MaxConcurrency, \* start_limit.max_concurrency
  MaxRuns,        \* bound: calls of winecord_run
  MaxSeq,         \* bound: last event a session numbers
  MaxDrops,       \* bound: faults of the network, the server and the REST API
  MaxCalls,       \* bound: calls of winecord_shutdown and winecord_reconnect
  Foreign         \* whether other threads make them, or the main loop only

ASSUME GatewayAssumption ==
  /\ RetryLimit \in Nat \cup {-1}
  /\ MaxConcurrency \in Nat \ {0}
  /\ {MaxRuns, MaxSeq, MaxDrops, MaxCalls} \subseteq Nat
  /\ Foreign \in BOOLEAN

VARIABLES
  pc,         \* where winecord_run is
  ws,         \* ws_get_status(gw->ws)
  status,     \* session->status, a set of flags
  ready,      \* session->is_ready
  retry,      \* session->retry.enable
  attempt,    \* session->retry.attempt
  resumeUrl,  \* session->resume_url is not empty
  concurrent, \* session->concurrent
  identified, \* timer->identify_last is set
  acked,      \* timer->hbeat_acknowledged
  beating,    \* timer->hbeat_timer is set
  seq,        \* payload.seq
  phase,      \* where the server is on this connection
  next,       \* the next event the server sends on it
  valid,      \* the server holds the session that session->id names
  owed,       \* a heartbeat of this connection is not answered
  mute,       \* the connection is half open: nothing arrives any more
  got,        \* history: last event handled of the session
  upc,        \* where another thread's call is
  wanted,     \* history: a shutdown was asked for, and no reconnect since
  used        \* what is used up of the bounds

session == <<status, ready, retry, attempt, resumeUrl, concurrent, identified>>
beat    == <<acked, beating>>
server  == <<phase, next, valid, owed, mute, got>>
user    == <<upc, wanted>>
vars    == <<pc, ws, session, beat, seq, server, user, used>>

Flags   == {"RESUMABLE", "SHUTDOWN"}
Classes == {"normal", "new_session", "fatal", "resume"}
Bounds  == [runs |-> MaxRuns, drops |-> MaxDrops, calls |-> MaxCalls]

Spend(what) == /\ used[what] < Bounds[what]
               /\ used' = [used EXCEPT ![what] = used[what] + 1]

Init ==
  /\ pc = "start" /\ ws = "off"
  /\ status = {} /\ ready = FALSE /\ retry = TRUE /\ attempt = 0
  /\ resumeUrl = FALSE /\ concurrent = 0 /\ identified = FALSE
  /\ acked = TRUE /\ beating = FALSE
  /\ seq = 0 /\ got = 0 /\ next = 1
  /\ phase = "greet" /\ valid = FALSE /\ owed = FALSE /\ mute = FALSE
  /\ upc = "idle" /\ wanted = FALSE
  /\ used = [what \in DOMAIN Bounds |-> 0]

(***************************************************************************)
(* What several handlers do.                                               *)
(***************************************************************************)
\* a mutant: null is stored as 0
SeqOfNull(s) == s

\* "s" of a payload: an event's number; null, read as 0, leaves the last one
SeqOf(s) == IF s # 0 THEN s ELSE seq

\* ws_close: the close frame leaves, the handshake is not awaited
Closed == IF ws \in {"connecting", "connected"} THEN "closing" ELSE ws

\* the writes of winecord_gateway_reconnect, of _winecord_on_reconnect and of
\* _winecord_on_invalid_session
Reconnect(resume) ==
  /\ retry' = TRUE
  /\ status' = {"SHUTDOWN"} \cup (IF resume THEN {"RESUMABLE"} ELSE {})
  /\ ws' = Closed

\* a mutant: the heartbeat does not wait for its acknowledgement
SendHeartbeatNoAck ==
  /\ owed' = (owed \/ ws = "connected")
  /\ beating' = (beating \/ ws = "connected")
  /\ UNCHANGED <<acked, retry, status, ws>>

\* a mutant: the timer is made where the heartbeat could not be sent
SendHeartbeatNoTimer ==
  /\ acked' = (~acked \/ ws # "connected")
  /\ owed' = (owed \/ (acked /\ ws = "connected"))
  /\ beating' = (beating \/ (acked /\ ws # "connected"))
  /\ IF acked THEN UNCHANGED <<retry, status, ws>> ELSE Reconnect(FALSE)

SendHeartbeat ==
  \/ /\ ~acked
     /\ acked' = TRUE
     /\ Reconnect(FALSE)
     /\ UNCHANGED <<owed, beating>>
  \/ /\ acked /\ ws = "connected"
     /\ acked' = FALSE /\ owed' = TRUE /\ beating' = TRUE
     /\ UNCHANGED <<retry, status, ws>>
  \/ /\ acked /\ ws # "connected"
     /\ UNCHANGED <<acked, owed, beating, retry, status, ws>>

(***************************************************************************)
(* The handlers: the frames of the server, as ws_multi_socket_run hands    *)
(* them over from io_poller_perform or from the heartbeat timer.           *)
(***************************************************************************)
Handling == pc \in {"perform", "beat"} /\ ~mute
Open     == Handling /\ ws \in {"connected", "closing"}

OnConnect ==
  /\ Handling /\ ws = "connecting"
  /\ ws' = "connected"
  /\ UNCHANGED <<pc, session, beat, seq, server, user, used>>

\* soon: less than 5 units of timer->now since the last identify was sent; one
\* too many is VASSERT_S, which aborts the process
SendIdentify(soon) ==
  /\ soon => identified
  /\ concurrent' = IF soon THEN concurrent + 1 ELSE 0
  /\ IF soon /\ concurrent' >= MaxConcurrency
       THEN pc' = "aborted" /\ UNCHANGED <<phase, identified>>
       ELSE /\ UNCHANGED pc
            /\ IF ws = "connected" THEN phase' = "identify" /\ identified' = TRUE
                                   ELSE UNCHANGED <<phase, identified>>
  /\ UNCHANGED <<status, next>>

SendResume ==
  /\ status' = status \ {"RESUMABLE"}
  /\ IF ws = "connected" THEN phase' = "resume" /\ next' = SeqOf(0) + 1
                         ELSE UNCHANGED <<phase, next>>
  /\ UNCHANGED <<pc, concurrent, identified>>

OnHello ==
  /\ Open /\ phase = "greet"
  /\ seq' = SeqOf(0)
  /\ IF "RESUMABLE" \in status THEN SendResume
                               ELSE \E soon \in BOOLEAN : SendIdentify(soon)
  /\ UNCHANGED <<ws, ready, retry, attempt, resumeUrl, beat, valid, owed, mute,
                 got, user, used>>

OnReady ==
  /\ Open /\ phase = "identify"
  /\ seq' = SeqOf(1) /\ got' = 1 /\ next' = 2
  /\ phase' = "on" /\ valid' = TRUE
  /\ resumeUrl' = TRUE /\ ready' = TRUE /\ attempt' = 0
  /\ SendHeartbeat
  /\ UNCHANGED <<pc, concurrent, identified, mute, user, used>>

\* the server sends what the session missed, then RESUMED, an event as well
OnResumed ==
  /\ Open /\ phase = "resume" /\ valid
  /\ seq' = SeqOf(next) /\ got' = got + 1 /\ next' = next + 1
  /\ phase' = "on"
  /\ ready' = TRUE /\ attempt' = 0
  /\ SendHeartbeat
  /\ UNCHANGED <<pc, resumeUrl, concurrent, identified, valid, mute, user,
                 used>>

\* any other event: the callbacks of the event run, see Dispatch
OnEvent ==
  /\ Open /\ phase \in {"resume", "on"} /\ valid /\ next <= MaxSeq
  /\ seq' = SeqOf(next) /\ got' = got + 1 /\ next' = next + 1
  /\ UNCHANGED <<pc, ws, session, beat, phase, valid, owed, mute, user, used>>

\* a mutant: only a session that can be resumed is closed
OnInvalidSessionKept(resumable) ==
  /\ Open /\ phase \in {"identify", "resume", "on"}
  /\ IF phase = "resume" /\ ~valid THEN ~resumable /\ UNCHANGED used
                                   ELSE Spend("drops")
  /\ seq' = SeqOf(0)
  /\ phase' = "refused" /\ valid' = (valid /\ resumable)
  /\ IF resumable THEN Reconnect(TRUE) ELSE UNCHANGED <<retry, status, ws>>
  /\ UNCHANGED <<pc, ready, attempt, resumeUrl, concurrent, identified, beat,
                 next, owed, mute, got, user>>

\* resumable: "d" of the payload is not false
OnInvalidSession(resumable) ==
  /\ Open /\ phase \in {"identify", "resume", "on"}
  /\ IF phase = "resume" /\ ~valid THEN ~resumable /\ UNCHANGED used
                                   ELSE Spend("drops")
  /\ seq' = SeqOf(0)
  /\ phase' = "refused" /\ valid' = (valid /\ resumable)
  /\ Reconnect(resumable)
  /\ UNCHANGED <<pc, ready, attempt, resumeUrl, concurrent, identified, beat,
                 next, owed,
                 mute, got, user>>

OnReconnect ==
  /\ Open /\ phase # "refused"
  /\ Spend("drops")
  /\ seq' = SeqOf(0)
  /\ phase' = "refused"
  /\ Reconnect(TRUE)
  /\ UNCHANGED <<pc, ready, attempt, resumeUrl, concurrent, identified, beat,
                 next, valid,
                 owed, mute, got, user>>

OnHeartbeatAck ==
  /\ Open /\ owed
  /\ acked' = TRUE /\ owed' = FALSE
  /\ seq' = SeqOf(0)
  /\ UNCHANGED <<pc, ws, session, beating, phase, next, valid, mute, got, user,
                 used>>

\* _ws_on_close, by the class of the close code
OnClose(class) ==
  /\ Open
  /\ IF ws = "closing" THEN UNCHANGED used ELSE Spend("drops")
  /\ ws' = "closed"
  /\ IF "SHUTDOWN" \in status
       THEN UNCHANGED <<status, retry>>
       ELSE /\ status' = IF class \in {"normal", "resume"} THEN Flags
                                                           ELSE {"SHUTDOWN"}
            /\ retry' = (class # "fatal")
  /\ valid' = (valid /\ class \in {"normal", "resume"})
  /\ UNCHANGED <<pc, ready, attempt, resumeUrl, concurrent, identified, beat,
                 seq, phase,
                 next, owed, mute, got, user>>

OnText == \/ OnHello \/ OnReady \/ OnResumed \/ OnEvent
          \/ \E resumable \in BOOLEAN : OnInvalidSession(resumable)
          \/ OnReconnect \/ OnHeartbeatAck

(***************************************************************************)
(* The loop.                                                               *)
(***************************************************************************)
\* no more attempts, no answer of GET /gateway/bot, or no session start left
GatewayStartFails ==
  /\ pc = "start"
  /\ IF attempt = RetryLimit THEN UNCHANGED used ELSE Spend("drops")
  /\ pc' = "failed"
  /\ UNCHANGED <<ws, session, beat, seq, server, user>>

GatewayStart ==
  /\ pc = "start" /\ attempt # RetryLimit
  /\ pc' = "timers" /\ ws' = "connecting"
  /\ resumeUrl' = (resumeUrl /\ "RESUMABLE" \notin status)
  /\ phase' = "greet" /\ owed' = FALSE /\ mute' = FALSE
  /\ UNCHANGED <<status, ready, retry, attempt, concurrent, identified, beat,
                 seq, next,
                 valid, got, user, used>>

\* winecord_run has returned, or an assertion ended the process
Over == pc \in {"down", "failed", "aborted"}

Alive == ws \in {"connecting", "connected"}

\* winecord_timers_run: the heartbeat timer is not due ...
NoBeat ==
  /\ pc = "timers"
  /\ pc' = "check"
  /\ UNCHANGED <<ws, session, beat, seq, server, user, used>>

\* ... or it is, and _winecord_on_heartbeat_timeout performs first
BeatBegin ==
  /\ pc = "timers" /\ beating
  /\ pc' = IF Alive THEN "beat" ELSE "check"
  /\ UNCHANGED <<ws, session, beat, seq, server, user, used>>

BeatEnd ==
  /\ pc = "beat"
  /\ pc' = "check"
  /\ IF Alive /\ "SHUTDOWN" \notin status /\ ready
       THEN /\ IF ~acked /\ owed /\ ~mute THEN Spend("drops") ELSE UNCHANGED used
            /\ SendHeartbeat
       ELSE UNCHANGED <<ws, retry, status, acked, owed, beating, used>>
  /\ UNCHANGED <<ready, attempt, resumeUrl, concurrent, identified, seq,
                 phase, next, valid,
                 mute, got, user>>

Check ==
  /\ pc = "check"
  /\ pc' = IF "SHUTDOWN" \notin status /\ Alive THEN "perform" ELSE "end"
  /\ UNCHANGED <<ws, session, beat, seq, server, user, used>>

\* winecord_gateway_perform returns; its failure leaves the inner loop
Performed ==
  /\ pc = "perform"
  /\ \/ ws # "closed" /\ pc' = "timers"
     \/ ~Alive /\ pc' = "end"
  /\ UNCHANGED <<ws, session, beat, seq, server, user, used>>

\* a mutant: the attempts are counted down
GatewayEndDown ==
  /\ pc = "end"
  /\ ws' = "off" /\ ready' = FALSE
  /\ IF retry
       THEN /\ status' = status \cap {"RESUMABLE"}
            /\ attempt' = attempt - 1
            /\ pc' = "start"
       ELSE status' = {} /\ attempt' = 0 /\ pc' = "down"
  /\ UNCHANGED <<retry, resumeUrl, concurrent, identified, beat, seq, server,
                 user, used>>

\* a mutant: the loop starts again whatever retry.enable says
GatewayEndRetries ==
  /\ pc = "end"
  /\ ws' = "off" /\ ready' = FALSE
  /\ status' = status \cap {"RESUMABLE"}
  /\ attempt' = attempt + 1
  /\ pc' = "start"
  /\ UNCHANGED <<retry, resumeUrl, concurrent, identified, beat, seq, server,
                 user, used>>

GatewayEnd ==
  /\ pc = "end"
  /\ ws' = "off" /\ ready' = FALSE
  /\ IF retry
       THEN /\ status' = status \cap {"RESUMABLE"}
            /\ attempt' = attempt + 1
            /\ pc' = "start"
       ELSE status' = {} /\ attempt' = 0 /\ pc' = "down"
  /\ UNCHANGED <<retry, resumeUrl, concurrent, identified, beat, seq, server,
                 user, used>>

\* the program calls winecord_run again
RunAgain ==
  /\ pc \in {"down", "failed"} /\ Spend("runs")
  /\ pc' = "start" /\ wanted' = FALSE
  /\ UNCHANGED <<ws, session, beat, seq, server, upc>>

(***************************************************************************)
(* Faults, and the user.                                                   *)
(***************************************************************************)
\* the connection breaks without a close frame: no callback is called
Lose ==
  /\ ws \in {"connecting", "connected", "closing"} /\ Spend("drops")
  /\ ws' = "closed"
  /\ UNCHANGED <<pc, session, beat, seq, server, user>>

\* the peer is gone and nobody says so
FallSilent ==
  /\ ws = "connected" /\ ~mute /\ Spend("drops")
  /\ mute' = TRUE
  /\ UNCHANGED <<pc, ws, session, beat, seq, phase, next, valid, owed, got,
                 user>>

\* the session a resume names has timed out; only a resume can tell
Forget ==
  /\ valid /\ phase = "resume"
  /\ valid' = FALSE
  /\ UNCHANGED <<pc, ws, session, beat, seq, phase, next, owed, mute, got,
                 user,
                 used>>

\* winecord_shutdown returns at once if status is exactly SHUTDOWN
Ignored == status = {"SHUTDOWN"}

Shutdown == retry' = FALSE /\ status' = {"SHUTDOWN"} /\ ws' = Closed

\* from a callback of the main loop: an event's, a timer's, or that of the
\* descriptor that SIGINT and wineberry_shutdown_async make readable (it stays
\* so, and this callback runs again; the others do not)
UserShutdown ==
  /\ pc \in {"timers", "perform", "beat"} /\ Spend("calls")
  /\ wanted' = TRUE
  /\ IF Ignored THEN UNCHANGED <<retry, status, ws>> ELSE Shutdown
  /\ UNCHANGED <<pc, ready, attempt, resumeUrl, concurrent, identified, beat,
                 seq, server, upc>>

UserReconnect(resume) ==
  /\ pc \in {"timers", "perform", "beat"} /\ Spend("calls")
  /\ wanted' = FALSE
  /\ Reconnect(resume)
  /\ UNCHANGED <<pc, ready, attempt, resumeUrl, concurrent, identified, beat,
                 seq, server, upc>>

\* from another thread the two writes of winecord_gateway_shutdown are apart
ForeignShutdown ==
  /\ Foreign /\ upc = "idle" /\ ~Over
  /\ Spend("calls")
  /\ wanted' = TRUE
  /\ IF Ignored THEN UNCHANGED <<retry, upc>>
                ELSE retry' = FALSE /\ upc' = "status"
  /\ UNCHANGED <<pc, ws, status, ready, attempt, resumeUrl, concurrent,
                 identified, beat, seq, server>>

ForeignStatus ==
  /\ upc = "status"
  /\ upc' = "idle"
  /\ status' = {"SHUTDOWN"} /\ ws' = Closed
  /\ UNCHANGED <<pc, ready, retry, attempt, resumeUrl, concurrent, identified,
                 beat, seq, server, wanted, used>>

Loop == \/ GatewayStart \/ GatewayStartFails \/ NoBeat \/ BeatBegin \/ BeatEnd
        \/ Check \/ Performed \/ GatewayEnd

Next ==
  \/ Loop \/ RunAgain
  \/ OnConnect \/ OnText \/ \E class \in Classes : OnClose(class)
  \/ Lose \/ FallSilent \/ Forget
  \/ UserShutdown \/ \E resume \in BOOLEAN : UserReconnect(resume)
  \/ ForeignShutdown \/ ForeignStatus

Spec == Init /\ [][Next]_vars

\* what the server owes a connection, one at a time
Answer == \/ OnConnect \/ OnHello \/ OnReady \/ OnResumed
          \/ phase = "resume" /\ ~valid /\ OnInvalidSession(FALSE)

\* The loop and a thread inside a call keep running.  The timer comes due again
\* and again, and the server answers a handshake, an identify, a resume and a
\* heartbeat that reach it, unless the fault bound pays for its silence.
Fairness == /\ WF_vars(Loop) /\ WF_vars(ForeignStatus)
            /\ SF_vars(BeatBegin) /\ SF_vars(Answer) /\ SF_vars(OnHeartbeatAck)

FairSpec == Spec /\ Fairness

(***************************************************************************)
(* Properties.                                                             *)
(***************************************************************************)
TypeControl ==
  /\ pc \in {"start", "timers", "beat", "check", "perform", "end", "down",
             "failed", "aborted"}
  /\ ws \in {"off", "connecting", "connected", "closing", "closed"}
  /\ phase \in {"greet", "identify", "resume", "on", "refused"}
  /\ upc \in {"idle", "status"}
  /\ status \in SUBSET Flags

TypeFlags ==
  /\ ready \in BOOLEAN /\ retry \in BOOLEAN /\ resumeUrl \in BOOLEAN
  /\ identified \in BOOLEAN /\ acked \in BOOLEAN /\ beating \in BOOLEAN
  /\ valid \in BOOLEAN /\ owed \in BOOLEAN /\ mute \in BOOLEAN
  /\ wanted \in BOOLEAN

TypeCounts ==
  /\ attempt \in Nat /\ concurrent \in Nat
  /\ seq \in Nat /\ got \in Nat /\ next \in Nat
  /\ used \in [DOMAIN Bounds -> Nat]

\* Every variable has its type (gateway, session and heartbeat state).
TypeOK == TypeControl /\ TypeFlags /\ TypeCounts

\* Whatever was closed, lost or refused in between, an attached or resumed
\* session goes on with the event after the last one that was handled: the
\* sequence number the code keeps and resumes with neither skips nor repeats.
NoEventSkipped == phase \in {"resume", "on"} => next = got + 1

\* A session that is ready on a connection nobody is ending has a heartbeat
\* timer: without it the server drops the connection, and a dead one is never
\* noticed.
ReadyIsBeating ==
  ready /\ ws = "connected" /\ "SHUTDOWN" \notin status => beating

\* After the last fault the loop gets back to a ready session, unless the run is
\* over, or the connection fell silent before the first heartbeat was sent (no
\* timeout covers that: _winecord_on_heartbeat_timeout waits for is_ready).
Recovers ==
  []<>(ready \/ Over \/ mute)

\* A ready session whose peer fell silent is given up: a heartbeat is not
\* answered and the next one replaces the connection.
SilenceIsNoticed == (mute /\ ready /\ pc = "timers") ~> (~mute \/ Over)

\* Once both writes of a shutdown are in, the run ends, wherever the loop was,
\* unless somebody enables the retry again.
ShutdownEnds ==
  (status = {"SHUTDOWN"} /\ ~retry) ~> (retry \/ Over)

\* A connection is dropped as a zombie only if a heartbeat sent on it has no
\* answer (what winecord_gateway_send_heartbeat logs: "Heartbeat ACK not
\* received, marked as zombie").
OnlyZombiesDropped ==
  [][~acked /\ acked' /\ ws = "connected" /\ ws' = "closing" => owed]_vars

\* A run that winecord_shutdown was called in ends, unless a reconnect was asked
\* for since.
ShutdownHonoured == wanted ~> (~wanted \/ Over)
=============================================================================
