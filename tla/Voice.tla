------------------------------- MODULE Voice -------------------------------
(***************************************************************************)
(* The voice connections of a client (winecord-voice.c): the pool of slots *)
(* client->vcs, the main loop that joins channels and handles the two      *)
(* voice events of the gateway, and the thread each session runs in.       *)
(*                                                                         *)
(* The pool is one malloc of WINECORD_MAX_VCS slots, which the build takes *)
(* from fresh zero pages: the slots start free.  The main loop and the     *)
(* voice threads share a slot without a lock (client_lock covers only the  *)
(* search for it), so the calls of the main loop are cut where a voice     *)
(* thread can come between what they read and what they write.             *)
(***************************************************************************)
EXTENDS Integers, FiniteSets

CONSTANTS
  MaxVcs,     \* WINECORD_MAX_VCS
  Guilds, Channels,
  NoGuild,    \* guild_id = 0: the slot is in the pool
  NoChannel,
  Threads,    \* the voice threads, bound: how many are ever created
  Threshold,  \* reconnect.threshold
  MaxCalls,   \* bound: calls the main loop makes
  MaxFaults   \* bound: closes and losses of connections that were ready

ASSUME VoiceAssumption ==
  /\ MaxVcs \in Nat \ {0} /\ Threshold \in 1 .. 255
  /\ MaxCalls \in Nat /\ MaxFaults \in Nat
  /\ NoGuild \notin Guilds /\ NoChannel \notin Channels

Slots == 1 .. MaxVcs

VARIABLES
  vcs,     \* client->vcs
  ws,      \* the connection of a slot's WebSockets handle
  thread,  \* where the voice threads are, and the slot each serves
  main,    \* the call the main loop is in
  stray,   \* history: slots a thread was started for that another one served,
           \* or that had gone back to the pool since the call looked
  calls, faults

vars == <<vcs, ws, thread, main, stray, calls, faults>>

Vc == [guild : Guilds \cup {NoGuild}, channel : Channels \cup {NoChannel},
       made : BOOLEAN, enable : BOOLEAN, attempt : 0 .. 255,
       shutdown : BOOLEAN, resumable : BOOLEAN, redirect : BOOLEAN,
       ready : BOOLEAN]

Idle    == [op |-> "idle"]
Unborn  == [pc |-> "unborn", slot |-> 1]

Init ==
  /\ vcs = [s \in Slots |->
              [guild |-> NoGuild, channel |-> NoChannel, made |-> FALSE,
               enable |-> FALSE, attempt |-> 0, shutdown |-> FALSE,
               resumable |-> FALSE, redirect |-> FALSE, ready |-> FALSE]]
  /\ ws = [s \in Slots |-> "off"]
  /\ thread = [t \in Threads |-> Unborn]
  /\ main = Idle
  /\ stray = {}
  /\ calls = 0 /\ faults = 0

Serving(t, s) == thread[t].slot = s /\ thread[t].pc \notin {"unborn", "done"}
Served(s) == \E t \in Threads : Serving(t, s)

\* ws_is_alive
Alive(s) == ws[s] \in {"connecting", "connected", "greeted", "closing"}

\* ws_close: the connection, if there is one, begins to close
Closing(s) == ws' = [ws EXCEPT ![s] = IF Alive(s) THEN "closing" ELSE ws[s]]

Call(m) == /\ main = Idle /\ calls < MaxCalls
           /\ calls' = calls + 1 /\ main' = m

(***************************************************************************)
(* The main loop.                                                          *)
(***************************************************************************)
\* the slot a search for g stops at: the first that serves g or, for a join,
\* that is free
Hit(s, g, free) == /\ vcs[s].guild = g \/ (free /\ vcs[s].guild = NoGuild)
                   /\ \A r \in Slots : r < s =>
                        vcs[r].guild # g /\ (free => vcs[r].guild # NoGuild)

\* _winecord_voice_init
Made(vc, g, c) ==
  [vc EXCEPT !.guild = g, !.channel = c, !.made = TRUE,
             !.enable = ~vc.made \/ vc.enable, !.attempt = 0,
             !.shutdown = FALSE]

\* winecord_voice_join, under client_lock: JOINED, unless the channel is that of
\* the slot (ALREADY_JOINED) or no slot is left (EXHAUST_CAPACITY)
Join(g, c) ==
  /\ \E s \in Slots :
       /\ Hit(s, g, TRUE)
       /\ IF vcs[s].guild = NoGuild
            THEN /\ vcs' = [vcs EXCEPT ![s] = Made(vcs[s], g, c)]
                 /\ Call([op |-> "recycle", slot |-> s, guild |-> g,
                          channel |-> c])
            ELSE /\ vcs[s].channel # c
                 /\ Call([op |-> "recycle", slot |-> s, guild |-> g,
                          channel |-> c])
                 /\ UNCHANGED vcs
  /\ UNCHANGED <<ws, thread, stray, faults>>

\* recycle_active_vc, after the lock
Recycle ==
  /\ main.op = "recycle"
  /\ LET s == main.slot IN
       /\ vcs' = [vcs EXCEPT ![s].guild = main.guild,
                             ![s].channel = main.channel,
                             ![s].shutdown = FALSE,
                             ![s].enable = vcs[s].enable /\ ~Alive(s),
                             ![s].resumable = vcs[s].resumable /\ ~Alive(s)]
       /\ Closing(s)
  /\ main' = Idle
  /\ UNCHANGED <<thread, stray, calls, faults>>

\* winecord_voice_shutdown: first the retry is disabled ...
Shutdown(s) ==
  /\ vcs[s].made
  /\ vcs' = [vcs EXCEPT ![s].enable = FALSE]
  /\ Call([op |-> "shutdown", slot |-> s])
  /\ UNCHANGED <<ws, thread, stray, faults>>

\* ... winecord_voice_reconnect enables it ...
Reconnect(s, resume) ==
  /\ vcs[s].made
  /\ vcs' = [vcs EXCEPT ![s].enable = TRUE]
  /\ Call([op |-> "reconnect", slot |-> s, resume |-> resume])
  /\ UNCHANGED <<ws, thread, stray, faults>>

\* ... then both mark the session and close the connection
Close ==
  /\ main.op \in {"shutdown", "reconnect"}
  /\ vcs' = [vcs EXCEPT ![main.slot].shutdown = TRUE,
                        ![main.slot].resumable =
                          main.op = "reconnect" /\ main.resume]
  /\ Closing(main.slot)
  /\ main' = Idle
  /\ UNCHANGED <<thread, stray, calls, faults>>

\* _winecord_on_voice_server_update: is there a connection to redirect? ...
ServerUpdate(g) ==
  /\ \E s \in Slots :
       /\ Hit(s, g, FALSE)
       /\ Call([op |-> IF Alive(s) THEN "redirect" ELSE "start", slot |-> s])
  /\ UNCHANGED <<vcs, ws, thread, stray, faults>>

\* ... it is closed, for its thread to go to the new server ...
Redirect ==
  /\ main.op = "redirect"
  /\ vcs' = [vcs EXCEPT ![main.slot].redirect = TRUE]
  /\ Closing(main.slot)
  /\ main' = Idle
  /\ UNCHANGED <<thread, stray, calls, faults>>

\* ... or a new thread is started, whether or not one runs between connections
Start ==
  /\ main.op = "start"
  /\ \E t \in Threads :
       /\ thread[t] = Unborn
       /\ thread' = [thread EXCEPT ![t] = [pc |-> "top", slot |-> main.slot]]
  /\ stray' = IF Served(main.slot) \/ vcs[main.slot].guild = NoGuild
                THEN stray \cup {main.slot} ELSE stray
  /\ main' = Idle
  /\ UNCHANGED <<vcs, ws, calls, faults>>

(***************************************************************************)
(* A voice thread.                                                         *)
(***************************************************************************)
Goto(t, pc) == thread' = [thread EXCEPT ![t].pc = pc]

\* reset_vc, and the slot goes back to the pool
Released(vc) == [vc EXCEPT !.attempt = 0, !.shutdown = FALSE, !.guild = NoGuild]

\* a mutant: the slot goes back when the last attempt begins
TopReleases(t) ==
  /\ thread[t].pc = "top"
  /\ LET s == thread[t].slot IN
       /\ ws' = [ws EXCEPT ![s] = "connecting"]
       /\ vcs' = IF vcs[s].attempt + 1 < Threshold
                   THEN vcs ELSE [vcs EXCEPT ![s] = Released(vcs[s])]
  /\ Goto(t, "run")
  /\ UNCHANGED <<main, stray, calls, faults>>

\* the head of the loop, and ws_start
Top(t) ==
  /\ thread[t].pc = "top"
  /\ LET s == thread[t].slot IN
       IF vcs[s].attempt < Threshold
         THEN /\ ws' = [ws EXCEPT ![s] = "connecting"]
              /\ Goto(t, "run")
              /\ UNCHANGED vcs
         ELSE /\ vcs' = [vcs EXCEPT ![s] = Released(vcs[s])]
              /\ Goto(t, "done")
              /\ UNCHANGED ws
  /\ UNCHANGED <<main, stray, calls, faults>>

\* ws_easy_run fails: the connection is severed, event_loop returns
Severed(t) ==
  /\ thread[t].pc = "run"
  /\ LET s == thread[t].slot IN
       /\ ws[s] \in {"closed", "off"}
       /\ ws' = [ws EXCEPT ![s] = "off"]
       /\ vcs' = [vcs EXCEPT ![s].shutdown = FALSE, ![s].ready = FALSE]
  /\ Goto(t, "after")
  /\ UNCHANGED <<main, stray, calls, faults>>

\* a mutant: only a session that is not to be retried is redirected
RedirectsAtEnd(vc) == vc.redirect /\ ~vc.enable
\* a mutant: a session that was shut down is retried
RetriesAll(vc) == TRUE
\* a mutant: attempts are not counted
NotCounted(vc) == vc
\* a mutant: a redirection takes an attempt back
RedirectedBack(vc) == [vc EXCEPT !.redirect = FALSE, !.attempt = vc.attempt - 1,
                                 !.enable = TRUE, !.resumable = FALSE]

Redirects(vc) == vc.redirect
Retries(vc) == vc.enable
\* the attempts are counted in an unsigned char
Counted(vc) == [vc EXCEPT !.attempt = (vc.attempt + 1) % 256]
Redirected(vc) == [vc EXCEPT !.redirect = FALSE, !.attempt = 0,
                             !.enable = TRUE, !.resumable = FALSE]

\* go to the new server, try again or give the slot back
After(t) ==
  /\ thread[t].pc = "after"
  /\ LET s == thread[t].slot vc == vcs[s] IN
       \/ /\ Redirects(vc)
          /\ vcs' = [vcs EXCEPT ![s] = Redirected(vc)]
          /\ Goto(t, "top")
       \/ /\ ~Redirects(vc) /\ Retries(vc)
          /\ vcs' = [vcs EXCEPT ![s] = Counted(vc)]
          /\ Goto(t, "top")
       \/ /\ ~Redirects(vc) /\ ~Retries(vc)
          /\ vcs' = [vcs EXCEPT ![s] = Released(vc)]
          /\ Goto(t, "done")
  /\ UNCHANGED <<ws, main, stray, calls, faults>>

(***************************************************************************)
(* The voice server, and the handlers its frames run in the voice thread.  *)
(***************************************************************************)
Run(s) == \E t \in Threads : Serving(t, s) /\ thread[t].pc = "run"

Connected(s) ==
  /\ Run(s) /\ ws[s] = "connecting"
  /\ ws' = [ws EXCEPT ![s] = "connected"]
  /\ UNCHANGED <<vcs, thread, main, stray, calls, faults>>

\* on_hello: resume or identify
OnHello(s) ==
  /\ Run(s) /\ ws[s] = "connected"
  /\ ws' = [ws EXCEPT ![s] = "greeted"]
  /\ vcs' = [vcs EXCEPT ![s].resumable = FALSE]
  /\ UNCHANGED <<thread, main, stray, calls, faults>>

\* on_ready, on_resumed
OnReady(s) ==
  /\ Run(s) /\ ws[s] = "greeted" /\ ~vcs[s].ready
  /\ vcs' = [vcs EXCEPT ![s].ready = TRUE, ![s].attempt = 0]
  /\ UNCHANGED <<ws, thread, main, stray, calls, faults>>

\* what on_close_cb makes of the class of a close code
Classes == {"crash", "normal", "fatal", "timed_out"}

ClosedAs(vc, class) ==
  IF vc.shutdown THEN vc
  ELSE [vc EXCEPT !.resumable = (class \in {"crash", "normal"}),
                  !.enable = (class # "fatal")]

Fault(s) == IF vcs[s].ready /\ ws[s] # "closing"
              THEN faults < MaxFaults /\ faults' = faults + 1
              ELSE UNCHANGED faults

OnClose(s, class) ==
  /\ Run(s) /\ ws[s] \in {"connected", "greeted", "closing"}
  /\ Fault(s)
  /\ ws' = [ws EXCEPT ![s] = "closed"]
  /\ vcs' = [vcs EXCEPT ![s] = ClosedAs(vcs[s], class)]
  /\ UNCHANGED <<thread, main, stray, calls>>

\* the connection is refused or breaks: no callback is called
Lose(s) ==
  /\ Run(s) /\ Alive(s)
  /\ Fault(s)
  /\ ws' = [ws EXCEPT ![s] = "closed"]
  /\ UNCHANGED <<vcs, thread, main, stray, calls>>

\* without heartbeats the server ends the connection: event_loop sends none to
\* a session that is marked as shut down
TimedOut(s) ==
  /\ Run(s) /\ ws[s] = "greeted" /\ vcs[s].ready /\ vcs[s].shutdown
  /\ ws' = [ws EXCEPT ![s] = "closed"]
  /\ UNCHANGED <<vcs, thread, main, stray, calls, faults>>

MainReturns == Recycle \/ Close \/ Redirect \/ Start

Main == \/ \E g \in Guilds, c \in Channels : Join(g, c)
        \/ \E s \in Slots : Shutdown(s) \/ \E r \in BOOLEAN : Reconnect(s, r)
        \/ \E g \in Guilds : ServerUpdate(g)
        \/ MainReturns

VoiceThread(t) == Top(t) \/ Severed(t) \/ After(t)

Server(s) == \/ Connected(s) \/ OnHello(s) \/ OnReady(s) \/ TimedOut(s)
             \/ Lose(s) \/ \E class \in Classes : OnClose(s, class)

Next == Main \/ (\E t \in Threads : VoiceThread(t)) \/ (\E s \in Slots : Server(s))

Spec == Init /\ [][Next]_vars

\* Calls return and threads run; a server that was asked something answers or
\* ends the connection, whatever it does to those it already serves.
Fairness ==
  /\ WF_vars(MainReturns)
  /\ \A t \in Threads : WF_vars(VoiceThread(t))
  /\ \A s \in Slots : WF_vars((~vcs[s].ready \/ ws[s] = "closing" \/ vcs[s].shutdown) /\ Server(s))

FairSpec == Spec /\ Fairness

(***************************************************************************)
(* Properties.                                                             *)
(***************************************************************************)
\* Every variable has its type.
TypeOK ==
  /\ vcs \in [Slots -> Vc]
  /\ ws \in [Slots -> {"off", "connecting", "connected", "greeted", "closing",
                       "closed"}]
  /\ \A t \in Threads :
       /\ thread[t].pc \in {"unborn", "top", "run", "after", "done"}
       /\ thread[t].slot \in Slots
  /\ main.op \in {"idle", "recycle", "shutdown", "reconnect", "redirect", "start"}
  /\ stray \subseteq Slots
  /\ calls \in 0 .. MaxCalls /\ faults \in 0 .. MaxFaults

\* A slot that went back to the pool has no thread and no connection: what joins
\* next has it to itself, unless a server update came while its thread was
\* between two connections, or ended, and a thread was started all the same.
PoolSlotIsIdle ==
  \A s \in Slots \ stray :
    vcs[s].guild = NoGuild => ~Served(s) /\ ws[s] = "off"

\* A thread gets its session ready or gives up: the attempts are limited, a
\* redirection or a shutdown between them included.
GivesUp ==
  \A t \in Threads :
    thread[t].pc = "top" ~>
      (thread[t].pc = "done" \/ vcs[thread[t].slot].ready)

\* A session that was shut down leaves its slot, unless a callback, a redirection
\* or a later call enabled it again, or the guild joins another channel.
ShutdownFrees ==
  \A s \in Slots :
    (vcs[s].shutdown /\ ~vcs[s].enable /\ Served(s)) ~>
      (~Served(s) \/ vcs[s].enable \/ vcs[s].redirect
         \/ s \in stray \/ (main.op = "recycle" /\ main.slot = s))

\* A redirection that closes a connection is followed once it is closed.  (One
\* whose connection went away between the check and the close waits for the end
\* of the next.)
RedirectFollowed ==
  \A s \in Slots : (vcs[s].redirect /\ ws[s] = "closing") ~>
    (~vcs[s].redirect \/ s \in stray)
=============================================================================
