---------------------------- MODULE VoiceProofs ----------------------------
(***************************************************************************)
(* For any number of slots, guilds, threads, calls and faults: a slot that *)
(* went back to the pool has no thread and no connection, and every        *)
(* variable keeps its type.                                                *)
(***************************************************************************)
EXTENDS Voice, TLAPS

WsStates == {"off", "connecting", "connected", "greeted", "closing", "closed"}
Places   == {"unborn", "top", "run", "after", "done"}
Ops      == {"idle", "recycle", "shutdown", "reconnect", "redirect", "start"}

\* What of the types the argument needs.
Shape ==
  /\ DOMAIN vcs = Slots
  /\ \A s \in Slots : "guild" \in DOMAIN vcs[s]
  /\ ws \in [Slots -> WsStates]
  /\ thread \in [Threads -> [pc : Places, slot : Slots]]
  /\ main.op \in Ops
  /\ main.op # "idle" => main.slot \in Slots
  /\ main.op = "recycle" => main.guild \in Guilds

\* One thread serves a slot, and its connection is that thread's.
Alone(s)   == \A t, u \in Threads : Serving(t, s) /\ Serving(u, s) => t = u
Between(s) == \A t \in Threads :
                Serving(t, s) /\ thread[t].pc # "run" => ws[s] = "off"
Unserved(s) == ~Served(s) => ws[s] = "off"
Free(s)    == vcs[s].guild = NoGuild => ~Served(s)

Private(s) == Alone(s) /\ Between(s) /\ Unserved(s) /\ Free(s)

IInv == Shape /\ \A s \in Slots \ stray : Private(s)

-----------------------------------------------------------------------------
LEMMA InitIInv == Init => IInv
<1> SUFFICES ASSUME Init PROVE IInv
  OBVIOUS
<1> USE VoiceAssumption DEF VoiceAssumption
<1>1. Shape
  BY DEF Init, Shape, Unborn, Idle, Slots, WsStates, Places, Ops
<1>2. \A t \in Threads, s \in Slots : ~Serving(t, s)
  BY DEF Init, Unborn, Serving
<1>3. \A s \in Slots : ws[s] = "off"
  BY DEF Init
<1> QED
  BY <1>1, <1>2, <1>3 DEF IInv, Private, Alone, Between, Unserved, Free, Served

\* Closing a slot's connection leaves the others, and one that is off.
LEMMA ClosingKeeps ==
  ASSUME Shape, NEW s \in Slots, Closing(s)
  PROVE  /\ ws' \in [Slots -> WsStates]
         /\ \A r \in Slots : ws[r] = "off" => ws'[r] = "off"
BY DEF Shape, Closing, Alive, WsStates

\* A step that moves no thread, opens no connection and frees no slot.
LEMMA QuietStep ==
  ASSUME IInv, Shape', UNCHANGED <<thread, stray>>,
         \A r \in Slots : ws[r] = "off" => ws'[r] = "off",
         \A r \in Slots : vcs'[r].guild = NoGuild => vcs[r].guild = NoGuild
  PROVE  IInv'
BY DEF IInv, Private, Alone, Between, Unserved, Free, Served, Serving

\* A frame of the server: the slot's thread is in its event loop.
LEMMA ServerStep ==
  ASSUME IInv, Shape', NEW s \in Slots, Run(s), UNCHANGED <<thread, stray>>,
         \A r \in Slots \ {s} : ws'[r] = ws[r],
         \A r \in Slots : vcs'[r].guild = vcs[r].guild
  PROVE  IInv'
<1> SUFFICES ASSUME NEW r \in Slots \ stray PROVE Private(r)'
  BY DEF IInv
<1>0. Private(r)
  BY DEF IInv
<1>1. CASE r # s
  BY <1>0, <1>1 DEF Private, Alone, Between, Unserved, Free, Served, Serving
<1>2. CASE r = s
  <2>1. PICK t \in Threads : Serving(t, s) /\ thread[t].pc = "run"
    BY DEF Run
  <2>2. \A u \in Threads : Serving(u, s) => u = t
    BY <1>0, <1>2, <2>1 DEF Private, Alone
  <2> QED
    BY <1>0, <1>2, <2>1, <2>2
       DEF Private, Alone, Between, Unserved, Free, Served, Serving
<1> QED
  BY <1>1, <1>2

-----------------------------------------------------------------------------
\* The main loop.
LEMMA MainIInv ==
  ASSUME IInv, Main PROVE IInv'
<1> USE VoiceAssumption DEF VoiceAssumption
<1>0. Shape
  BY DEF IInv
<1>1. ASSUME NEW g \in Guilds, NEW c \in Channels, Join(g, c) PROVE IInv'
  <2>1. PICK s \in Slots :
          /\ main' = [op |-> "recycle", slot |-> s, guild |-> g, channel |-> c]
          /\ vcs' = [vcs EXCEPT ![s] = Made(vcs[s], g, c)] \/ vcs' = vcs
    BY <1>1 DEF Join, Call
  <2>2. Made(vcs[s], g, c).guild = g /\ "guild" \in DOMAIN Made(vcs[s], g, c)
    BY <1>0 DEF Shape, Made
  <2>3. \A r \in Slots : vcs'[r].guild = NoGuild => vcs[r].guild = NoGuild
    BY <2>1, <2>2, <1>0 DEF Shape
  <2>4. UNCHANGED <<ws, thread, stray>>
    BY <1>1 DEF Join
  <2>5. Shape'
    BY <2>1, <2>2, <2>4, <1>0 DEF Shape, Ops
  <2> QED
    BY <2>3, <2>4, <2>5, QuietStep
<1>2. ASSUME Recycle PROVE IInv'
  <2>1. main.slot \in Slots /\ main.guild \in Guilds /\ Closing(main.slot)
    BY <1>2, <1>0 DEF Recycle, Shape
  <2>2. /\ DOMAIN vcs' = Slots
        /\ \A r \in Slots : "guild" \in DOMAIN vcs'[r]
        /\ vcs'[main.slot].guild = main.guild
        /\ \A r \in Slots \ {main.slot} : vcs'[r] = vcs[r]
    BY <2>1, <1>2, <1>0 DEF Recycle, Shape
  <2>3. UNCHANGED <<thread, stray>> /\ main' = Idle
    BY <1>2 DEF Recycle
  <2>4. Shape'
    BY <2>1, <2>2, <2>3, <1>0, ClosingKeeps DEF Shape, Ops, Idle
  <2> QED
    BY <2>1, <2>2, <2>3, <2>4, <1>0, ClosingKeeps, QuietStep
<1>3. ASSUME NEW s \in Slots, NEW r \in BOOLEAN, Shutdown(s) \/ Reconnect(s, r)
      PROVE  IInv'
  <2>1. /\ DOMAIN vcs' = Slots
        /\ \A x \in Slots : "guild" \in DOMAIN vcs'[x]
        /\ \A x \in Slots : vcs'[x].guild = vcs[x].guild
    BY <1>3, <1>0 DEF Shutdown, Reconnect, Shape
  <2>2. UNCHANGED <<ws, thread, stray>>
    BY <1>3 DEF Shutdown, Reconnect
  <2>3. main'.op \in {"shutdown", "reconnect"} /\ main'.slot = s
    BY <1>3 DEF Shutdown, Reconnect, Call
  <2>4. Shape'
    BY <2>1, <2>2, <2>3, <1>0 DEF Shape, Ops
  <2> QED
    BY <2>1, <2>2, <2>4, QuietStep
<1>4. ASSUME Close \/ Redirect PROVE IInv'
  <2>1. main.slot \in Slots /\ Closing(main.slot)
    BY <1>4, <1>0 DEF Close, Redirect, Shape
  <2>2. /\ DOMAIN vcs' = Slots
        /\ \A x \in Slots : "guild" \in DOMAIN vcs'[x]
        /\ \A x \in Slots : vcs'[x].guild = vcs[x].guild
    BY <1>4, <1>0 DEF Close, Redirect, Shape
  <2>3. UNCHANGED <<thread, stray>> /\ main' = Idle
    BY <1>4 DEF Close, Redirect
  <2>4. Shape'
    BY <2>1, <2>2, <2>3, <1>0, ClosingKeeps DEF Shape, Ops, Idle
  <2> QED
    BY <2>1, <2>2, <2>3, <2>4, <1>0, ClosingKeeps, QuietStep
<1>5. ASSUME NEW g \in Guilds, ServerUpdate(g) PROVE IInv'
  <2>1. PICK s \in Slots :
          main' = [op |-> IF Alive(s) THEN "redirect" ELSE "start", slot |-> s]
    BY <1>5 DEF ServerUpdate, Call
  <2>2. main'.op \in {"redirect", "start"} /\ main'.slot = s
    BY <2>1
  <2>3. UNCHANGED <<vcs, ws, thread, stray>>
    BY <1>5 DEF ServerUpdate
  <2>4. Shape'
    BY <2>2, <2>3, <1>0 DEF Shape, Ops
  <2> QED
    BY <2>3, <2>4, QuietStep
<1>6. ASSUME Start PROVE IInv'
  <2> DEFINE s == main.slot
  <2>1. s \in Slots /\ UNCHANGED <<vcs, ws>> /\ main' = Idle
    BY <1>6, <1>0 DEF Start, Shape
  <2>2. PICK t \in Threads :
          /\ thread[t] = Unborn
          /\ thread' = [thread EXCEPT ![t] = [pc |-> "top", slot |-> s]]
    BY <1>6 DEF Start
  <2>3. Shape'
    BY <2>1, <2>2, <1>0 DEF Shape, Ops, Idle, Places
  <2>4. ASSUME NEW r \in Slots \ stray' PROVE Private(r)'
    <3>1. r \in Slots \ stray /\ (r = s => ~Served(r) /\ vcs[r].guild # NoGuild)
      BY <1>6, <2>4 DEF Start
    <3>2. Private(r)
      BY <3>1 DEF IInv
    <3>3. \A u \in Threads : u # t => thread'[u] = thread[u]
      BY <2>2, <1>0 DEF Shape
    <3>4. thread'[t] = [pc |-> "top", slot |-> s] /\ ~Serving(t, r)
      BY <2>2, <1>0 DEF Shape, Serving, Unborn
    <3> QED
      BY <2>1, <3>1, <3>2, <3>3, <3>4
         DEF Private, Alone, Between, Unserved, Free, Served, Serving
  <2> QED
    BY <2>3, <2>4 DEF IInv
<1> QED
  BY <1>1, <1>2, <1>3, <1>4, <1>5, <1>6 DEF Main, MainReturns

\* A voice thread.
LEMMA VoiceThreadIInv ==
  ASSUME IInv, NEW t \in Threads, VoiceThread(t) PROVE IInv'
<1> USE VoiceAssumption DEF VoiceAssumption
<1>a. Shape
  BY DEF IInv
<1>b. PICK s \in Slots : s = thread[t].slot
  BY <1>a DEF Shape
<1>0. Shape /\ s \in Slots /\ s = thread[t].slot
  BY <1>a, <1>b
<1>1. /\ Serving(t, s)
      /\ \A u \in Threads : u # t => thread'[u] = thread[u]
      /\ thread'[t].slot = s /\ thread'[t].pc \in Places \ {"unborn"}
      /\ thread' \in [Threads -> [pc : Places, slot : Slots]]
  BY <1>0 DEF VoiceThread, Top, Severed, After, Goto, Shape, Serving, Places
<1>2. UNCHANGED <<main, stray>>
  BY DEF VoiceThread, Top, Severed, After
<1>3. /\ ws' \in [Slots -> WsStates]
      /\ \A r \in Slots \ {s} : ws'[r] = ws[r]
  BY <1>0 DEF VoiceThread, Top, Severed, After, Shape, WsStates
<1>4. /\ DOMAIN vcs' = Slots
      /\ \A r \in Slots : "guild" \in DOMAIN vcs'[r]
      /\ \A r \in Slots \ {s} : vcs'[r] = vcs[r]
  <2>1. CASE Top(t)
    BY <2>1, <1>0 DEF Top, Released, Shape
  <2>2. CASE Severed(t)
    BY <2>2, <1>0 DEF Severed, Shape
  <2>3. CASE After(t)
    <3>1. PICK v : /\ vcs' = [vcs EXCEPT ![s] = v]
                   /\ v \in {Redirected(vcs[s]), Counted(vcs[s]), Released(vcs[s])}
      BY <2>3, <1>0 DEF After
    <3>2. "guild" \in DOMAIN v
      BY <3>1, <1>0 DEF Redirected, Counted, Released, Shape
    <3> QED
      BY <3>1, <3>2, <1>0 DEF Shape
  <2> QED
    BY <2>1, <2>2, <2>3 DEF VoiceThread
<1>5. Shape'
  BY <1>0, <1>1, <1>2, <1>3, <1>4 DEF Shape
<1>6. \* the connection is on while the thread runs, and off elsewhere
      (thread[t].pc # "run" => ws[s] = "off")
        => (thread'[t].pc # "run" => ws'[s] = "off")
  BY <1>0 DEF VoiceThread, Top, Severed, After, Goto, Shape
<1>7. \* the slot is released only when the thread ends
      vcs'[s].guild = NoGuild => vcs[s].guild = NoGuild \/ thread'[t].pc = "done"
  <2>1. CASE Top(t)
    BY <2>1, <1>0 DEF Top, Goto, Shape
  <2>2. CASE Severed(t)
    BY <2>2, <1>0 DEF Severed, Shape
  <2>3. CASE After(t)
    <3>1. CASE Redirects(vcs[s])
      <4>1. Redirected(vcs[s]).guild = vcs[s].guild
        BY <1>0 DEF Redirected, Shape
      <4>2. vcs' = [vcs EXCEPT ![s] = Redirected(vcs[s])]
        BY <2>3, <3>1, <1>0 DEF After
      <4> QED
        BY <4>1, <4>2, <1>0 DEF Shape
    <3>2. CASE ~Redirects(vcs[s]) /\ Retries(vcs[s])
      BY <2>3, <3>2, <1>0 DEF After, Counted, Shape
    <3>3. CASE ~Redirects(vcs[s]) /\ ~Retries(vcs[s])
      BY <2>3, <3>3, <1>0 DEF After, Goto, Shape
    <3> QED
      BY <3>1, <3>2, <3>3
  <2> QED
    BY <2>1, <2>2, <2>3 DEF VoiceThread
<1>8. ASSUME NEW r \in Slots \ stray' PROVE Private(r)'
  <2>0. Private(r)
    BY <1>2, <1>8 DEF IInv
  <2>1. CASE r # s
    BY <2>0, <2>1, <1>1, <1>3, <1>4
       DEF Private, Alone, Between, Unserved, Free, Served, Serving
  <2>2. CASE r = s
    <3>1. \A u \in Threads : Serving(u, s) => u = t
      BY <2>0, <2>2, <1>1 DEF Private, Alone
    <3>2. \A u \in Threads : Serving(u, s)' => u = t
      BY <3>1, <1>1 DEF Serving
    <3>3. thread[t].pc # "run" => ws[s] = "off"
      BY <2>0, <2>2, <1>1 DEF Private, Between
    <3>4. vcs[s].guild # NoGuild
      BY <2>0, <2>2, <1>1 DEF Private, Free, Served
    <3>5. Serving(t, s)' <=> thread'[t].pc # "done"
      BY <1>1 DEF Serving
    <3>6. ~Served(s)' => thread'[t].pc = "done"
      BY <3>5 DEF Served
    <3>7. thread'[t].pc = "done" => ~Served(s)'
      BY <3>2, <3>5 DEF Served
    <3>8. Alone(s)' /\ Between(s)'
      BY <3>2, <3>3, <1>6 DEF Alone, Between
    <3>9. Unserved(s)' /\ Free(s)'
      BY <3>3, <3>4, <3>6, <3>7, <1>6, <1>7 DEF Unserved, Free
    <3> QED
      BY <2>2, <3>8, <3>9 DEF Private
  <2> QED
    BY <2>1, <2>2
<1> QED
  BY <1>5, <1>8 DEF IInv

\* The voice server.
LEMMA ServerIInv ==
  ASSUME IInv, NEW s \in Slots, Server(s) PROVE IInv'
<1>0. Shape
  BY DEF IInv
<1>1. Run(s) /\ UNCHANGED <<thread, main, stray>>
  BY DEF Server, Connected, OnHello, OnReady, TimedOut, Lose, OnClose
<1>2. /\ ws' \in [Slots -> WsStates]
      /\ \A r \in Slots \ {s} : ws'[r] = ws[r]
  BY <1>0 DEF Server, Connected, OnHello, OnReady, TimedOut, Lose, OnClose,
              Shape, WsStates
<1>3. /\ DOMAIN vcs' = Slots
      /\ \A r \in Slots : "guild" \in DOMAIN vcs'[r] /\ vcs'[r].guild = vcs[r].guild
  <2>1. CASE \E class \in Classes : OnClose(s, class)
    <3>1. PICK class \in Classes : vcs' = [vcs EXCEPT ![s] = ClosedAs(vcs[s], class)]
      BY <2>1 DEF OnClose
    <3> DEFINE vc == ClosedAs(vcs[s], class)
    <3>2. "guild" \in DOMAIN vc /\ vc.guild = vcs[s].guild
      BY <1>0 DEF ClosedAs, Shape
    <3> HIDE DEF vc
    <3>3. vcs' = [vcs EXCEPT ![s] = vc]
      BY <3>1 DEF vc
    <3> QED
      BY <3>2, <3>3, <1>0 DEF Shape
  <2>2. CASE Connected(s) \/ TimedOut(s) \/ Lose(s)
    BY <2>2, <1>0 DEF Connected, TimedOut, Lose, Shape
  <2>3. CASE OnHello(s)
    BY <2>3, <1>0 DEF OnHello, Shape
  <2>4. CASE OnReady(s)
    BY <2>4, <1>0 DEF OnReady, Shape
  <2> QED
    BY <2>1, <2>2, <2>3, <2>4 DEF Server
<1>4. Shape'
  BY <1>0, <1>1, <1>2, <1>3 DEF Shape
<1> QED
  BY <1>1, <1>2, <1>3, <1>4, ServerStep

LEMMA NextIInv == IInv /\ [Next]_vars => IInv'
<1> SUFFICES ASSUME IInv, [Next]_vars PROVE IInv'
  OBVIOUS
<1>1. CASE UNCHANGED vars
  BY <1>1 DEF vars, IInv, Shape, Private, Alone, Between, Unserved, Free,
              Served, Serving
<1> QED
  BY <1>1, MainIInv, VoiceThreadIInv, ServerIInv DEF Next

(* A slot in the pool has neither thread nor connection, unless a server   *)
(* update started a thread for it that it did not need.                    *)
THEOREM SlotsComeBackIdle == Spec => []PoolSlotIsIdle
<1>1. IInv => PoolSlotIsIdle
  BY DEF IInv, PoolSlotIsIdle, Private, Unserved, Free
<1> QED BY <1>1, InitIInv, NextIInv, PTL DEF Spec

-----------------------------------------------------------------------------
(***************************************************************************)
(* The types.  A call of the main loop carries what it writes when it      *)
(* returns, so the argument types that as well; the attempts are what an   *)
(* unsigned char holds, however many threads count in the same slot.       *)
(***************************************************************************)
Carried == /\ main.op = "recycle" => main.channel \in Channels
           /\ main.op = "reconnect" => main.resume \in BOOLEAN

Typed == /\ vcs \in [Slots -> Vc]
         /\ Carried
         /\ stray \subseteq Slots
         /\ calls \in 0 .. MaxCalls /\ faults \in 0 .. MaxFaults

TInv == IInv /\ Typed

\* A field of a slot takes a value of its type.
LEMMA Marked ==
  ASSUME NEW vc \in Vc, NEW b \in BOOLEAN
  PROVE  /\ [vc EXCEPT !.made = b] \in Vc
         /\ [vc EXCEPT !.enable = b] \in Vc
         /\ [vc EXCEPT !.shutdown = b] \in Vc
         /\ [vc EXCEPT !.resumable = b] \in Vc
         /\ [vc EXCEPT !.redirect = b] \in Vc
         /\ [vc EXCEPT !.ready = b] \in Vc
BY DEF Vc

LEMMA Numbered ==
  ASSUME NEW vc \in Vc, NEW n \in 0 .. 255
  PROVE [vc EXCEPT !.attempt = n] \in Vc
BY DEF Vc

LEMMA Cleared ==
  ASSUME NEW vc \in Vc PROVE [vc EXCEPT !.attempt = 0] \in Vc
<1>1. 0 \in 0 .. 255
  OBVIOUS
<1> QED
  BY <1>1, Numbered

LEMMA Placed ==
  ASSUME NEW vc \in Vc, NEW g \in Guilds \cup {NoGuild}, NEW c \in Channels \cup {NoChannel}
  PROVE [vc EXCEPT !.guild = g] \in Vc /\ [vc EXCEPT !.channel = c] \in Vc
BY DEF Vc

\* What the handlers make of a slot is a slot.
LEMMA MadeIsVc ==
  ASSUME NEW vc \in Vc, NEW g \in Guilds, NEW c \in Channels
  PROVE  Made(vc,g,c) \in Vc
<1>1. PICK e \in BOOLEAN : e = (~vc.made \/ vc.enable)
  BY Zenon
<1>2. PICK u \in Vc : u = [vc EXCEPT !.guild = g, !.channel = c, !.made = TRUE]
  <2>1. PICK a \in Vc : a = [vc EXCEPT !.guild = g]
    BY Placed
  <2>2. PICK b \in Vc : b = [a EXCEPT !.channel = c]
    BY Placed
  <2>3. [b EXCEPT !.made = TRUE] \in Vc
    BY Marked
  <2> QED
    BY <2>1, <2>2, <2>3, Zenon
<1>3. PICK w \in Vc : w = [u EXCEPT !.enable = e]
  BY Marked
<1>4. PICK x \in Vc : x = [w EXCEPT !.attempt = 0]
  BY Cleared
<1>5. [x EXCEPT !.shutdown = FALSE] \in Vc
  BY Marked
<1> QED
  BY <1>1, <1>2, <1>3, <1>4, <1>5, Zenon DEF Made

LEMMA ClosedAsIsVc ==
  ASSUME NEW vc \in Vc, NEW c \in Classes
  PROVE  ClosedAs(vc, c) \in Vc
<1>1. PICK r \in BOOLEAN : r = (c \in {"crash", "normal"})
  <2>1. CASE c \in {"crash", "normal"}
    <3>1. TRUE = (c \in {"crash", "normal"})
      BY <2>1
    <3> QED
      BY <3>1
  <2>2. CASE c \notin {"crash", "normal"}
    <3>1. FALSE = (c \in {"crash", "normal"})
      BY <2>2
    <3> QED
      BY <3>1
  <2> QED
    BY <2>1, <2>2
<1>2. PICK e \in BOOLEAN : e = (c # "fatal")
  BY Zenon
<1>3. PICK w \in Vc : w = [vc EXCEPT !.resumable = r]
  BY Marked
<1>4. [w EXCEPT !.enable = e] \in Vc
  BY Marked
<1> QED
  BY <1>1, <1>2, <1>3, <1>4, Zenon DEF ClosedAs

LEMMA ReleasedIsVc ==
  ASSUME NEW vc \in Vc
  PROVE  Released(vc) \in Vc
<1>1. PICK x \in Vc : x = [vc EXCEPT !.attempt = 0]
  BY Cleared
<1>2. PICK y \in Vc : y = [x EXCEPT !.shutdown = FALSE]
  BY Marked
<1>3. [y EXCEPT !.guild = NoGuild] \in Vc
  BY Placed
<1> QED
  BY <1>1, <1>2, <1>3, Zenon DEF Released

LEMMA RedirectedIsVc ==
  ASSUME NEW vc \in Vc
  PROVE  Redirected(vc) \in Vc
<1>0. PICK x \in Vc : x = [vc EXCEPT !.redirect = FALSE]
  BY Marked
<1>1. PICK y \in Vc : y = [x EXCEPT !.attempt = 0]
  BY Cleared
<1>2. PICK z \in Vc : z = [y EXCEPT !.enable = TRUE]
  BY Marked
<1>3. [z EXCEPT !.resumable = FALSE] \in Vc
  BY Marked
<1> QED
  BY <1>0, <1>1, <1>2, <1>3, Zenon DEF Redirected

LEMMA CountedIsVc ==
  ASSUME NEW vc \in Vc
  PROVE  Counted(vc) \in Vc
<1>1. PICK n \in 0 .. 255 : n = (vc.attempt + 1) % 256
  BY DEF Vc
<1> QED
  BY <1>1, Numbered DEF Counted
\* A slot is put back among the others.
LEMMA Put ==
  ASSUME vcs \in [Slots -> Vc], NEW s \in Slots, NEW v \in Vc,
         vcs' = [vcs EXCEPT ![s] = v]
  PROVE  vcs' \in [Slots -> Vc]
OBVIOUS

LEMMA InitTInv == Init => TInv
<1> SUFFICES ASSUME Init PROVE TInv
  OBVIOUS
<1>1. IInv
  BY InitIInv
<1>2. vcs \in [Slots -> Vc]
  BY DEF Init, Vc
<1>3. Carried /\ stray \subseteq Slots
  BY DEF Init, Carried, Idle
<1>4. calls \in 0 .. MaxCalls /\ faults \in 0 .. MaxFaults
  BY VoiceAssumption DEF Init, VoiceAssumption
<1> QED
  BY <1>1, <1>2, <1>3, <1>4 DEF TInv, Typed

\* A call begins: it is counted.
LEMMA CallCounts ==
  ASSUME calls \in 0 .. MaxCalls, calls < MaxCalls, calls' = calls + 1
  PROVE  calls' \in 0 .. MaxCalls
BY VoiceAssumption DEF VoiceAssumption

LEMMA FaultCounts ==
  ASSUME faults \in 0 .. MaxFaults, NEW s \in Slots, Fault(s)
  PROVE  faults' \in 0 .. MaxFaults
BY VoiceAssumption DEF VoiceAssumption, Fault

LEMMA MainTyped ==
  ASSUME TInv, Main PROVE Typed'
<1>0. Shape /\ Typed
  BY DEF TInv, IInv
<1>a. /\ vcs \in [Slots -> Vc] /\ Carried /\ stray \subseteq Slots
      /\ calls \in 0 .. MaxCalls /\ faults \in 0 .. MaxFaults
  BY <1>0 DEF Typed
<1>1. ASSUME NEW g \in Guilds, NEW c \in Channels, Join(g, c) PROVE Typed'
  <2>1. PICK s \in Slots :
          /\ main' = [op |-> "recycle", slot |-> s, guild |-> g, channel |-> c]
          /\ vcs' = [vcs EXCEPT ![s] = Made(vcs[s], g, c)] \/ vcs' = vcs
          /\ calls < MaxCalls /\ calls' = calls + 1
    BY <1>1 DEF Join, Call
  <2>2. vcs' \in [Slots -> Vc]
    BY <2>1, <1>a, MadeIsVc, Put
  <2>3. Carried'
    BY <2>1 DEF Carried
  <2>4. UNCHANGED <<stray, faults>>
    BY <1>1 DEF Join
  <2> QED
    BY <2>1, <2>2, <2>3, <2>4, <1>a, CallCounts DEF Typed
<1>2. ASSUME Recycle PROVE Typed'
  <2>1. PICK s \in Slots : s = main.slot
    BY <1>2, <1>0 DEF Recycle, Shape
  <2>2. main.guild \in Guilds /\ main.channel \in Channels
    BY <1>2, <1>0, <1>a DEF Recycle, Shape, Carried
  <2>3. PICK e \in BOOLEAN : e = (vcs[s].enable /\ ~Alive(s))
    BY Zenon
  <2>4. PICK m \in BOOLEAN : m = (vcs[s].resumable /\ ~Alive(s))
    BY Zenon
  <2>5. vcs' = [vcs EXCEPT ![s] = [vcs[s] EXCEPT !.guild = main.guild,
                                   !.channel = main.channel,
                                   !.shutdown = FALSE, !.enable = e,
                                   !.resumable = m]]
    BY <1>2, <2>1, <2>3, <2>4, <1>a DEF Recycle
  <2>6. PICK v \in Vc : v = [vcs[s] EXCEPT !.guild = main.guild,
                                        !.channel = main.channel]
    <3>1. PICK u \in Vc : u = [vcs[s] EXCEPT !.guild = main.guild]
      BY <2>2, <1>a, Placed
    <3>2. [u EXCEPT !.channel = main.channel] \in Vc
      BY <2>2, Placed
    <3> QED
      BY <3>1, <3>2, Zenon
  <2>7. PICK w \in Vc : w = [v EXCEPT !.shutdown = FALSE]
    BY Marked
  <2>8. PICK x \in Vc : x = [w EXCEPT !.enable = e]
    BY Marked
  <2>9. PICK y \in Vc : y = [x EXCEPT !.resumable = m]
    BY Marked
  <2>10. vcs' = [vcs EXCEPT ![s] = y]
    BY <2>5, <2>6, <2>7, <2>8, <2>9, Zenon
  <2>11. vcs' \in [Slots -> Vc]
    BY <2>10, <1>a, Put
  <2>12. Carried' /\ UNCHANGED <<stray, calls, faults>>
    BY <1>2 DEF Recycle, Carried, Idle
  <2> QED
    BY <2>11, <2>12, <1>a DEF Typed
<1>3. ASSUME NEW s \in Slots, NEW b \in BOOLEAN, Shutdown(s) \/ Reconnect(s, b)
      PROVE  Typed'
  <2>1. PICK e \in BOOLEAN : vcs' = [vcs EXCEPT ![s].enable = e]
    BY <1>3 DEF Shutdown, Reconnect
  <2>2. PICK v \in Vc : v = [vcs[s] EXCEPT !.enable = e]
    BY <1>a, Marked
  <2>3. vcs' \in [Slots -> Vc]
    BY <2>1, <2>2, <1>a, Put
  <2>4. Carried'
    BY <1>3 DEF Shutdown, Reconnect, Call, Carried
  <2>5. UNCHANGED <<stray, faults>> /\ calls < MaxCalls /\ calls' = calls + 1
    BY <1>3 DEF Shutdown, Reconnect, Call
  <2> QED
    BY <2>3, <2>4, <2>5, <1>a, CallCounts DEF Typed
<1>4. ASSUME Close PROVE Typed'
  <2>1. PICK s \in Slots : s = main.slot
    BY <1>4, <1>0 DEF Close, Shape
  <2>2. PICK m \in BOOLEAN : m = (main.op = "reconnect" /\ main.resume)
    BY Zenon
  <2>3. PICK v \in Vc : v = [vcs[s] EXCEPT !.shutdown = TRUE]
    BY <1>a, Marked
  <2>4. PICK w \in Vc : w = [v EXCEPT !.resumable = m]
    BY Marked
  <2>5. vcs' = [vcs EXCEPT ![s] = w]
    <3>1. vcs' = [vcs EXCEPT ![s].shutdown = TRUE, ![s].resumable = m]
      BY <1>4, <2>1, <2>2, Zenon DEF Close
    <3> QED
      BY <3>1, <2>3, <2>4, <1>a
  <2>6. Carried' /\ UNCHANGED <<stray, calls, faults>>
    BY <1>4 DEF Close, Carried, Idle
  <2> QED
    BY <2>5, <2>6, <1>a, Put DEF Typed
<1>5. ASSUME Redirect PROVE Typed'
  <2>1. PICK s \in Slots : s = main.slot
    BY <1>5, <1>0 DEF Redirect, Shape
  <2>2. PICK v \in Vc : v = [vcs[s] EXCEPT !.redirect = TRUE]
    BY <1>a, Marked
  <2>3. vcs' = [vcs EXCEPT ![s] = v]
    BY <1>5, <2>1, <2>2 DEF Redirect
  <2>4. Carried' /\ UNCHANGED <<stray, calls, faults>>
    BY <1>5 DEF Redirect, Carried, Idle
  <2> QED
    BY <2>3, <2>4, <1>a, Put DEF Typed
<1>6. ASSUME NEW g \in Guilds, ServerUpdate(g) PROVE Typed'
  <2>1. main'.op \in {"redirect", "start"} /\ calls < MaxCalls /\ calls' = calls + 1
    BY <1>6 DEF ServerUpdate, Call
  <2>2. UNCHANGED <<vcs, stray, faults>>
    BY <1>6 DEF ServerUpdate
  <2> QED
    BY <2>1, <2>2, <1>a, CallCounts DEF Typed, Carried
<1>7. ASSUME Start PROVE Typed'
  <2>1. main.slot \in Slots
    BY <1>7, <1>0 DEF Start, Shape
  <2> QED
    BY <2>1, <1>7, <1>a DEF Start, Typed, Carried, Idle
<1> QED
  BY <1>1, <1>2, <1>3, <1>4, <1>5, <1>6, <1>7 DEF Main, MainReturns

LEMMA VoiceThreadTyped ==
  ASSUME TInv, NEW t \in Threads, VoiceThread(t) PROVE Typed'
<1>0. Shape /\ Typed
  BY DEF TInv, IInv
<1>a. /\ vcs \in [Slots -> Vc] /\ Carried /\ stray \subseteq Slots
      /\ calls \in 0 .. MaxCalls /\ faults \in 0 .. MaxFaults
  BY <1>0 DEF Typed
<1>b. UNCHANGED <<main, stray, calls, faults>>
  BY DEF VoiceThread, Top, Severed, After
<1>1. PICK s \in Slots : s = thread[t].slot
  BY <1>0 DEF Shape
<1>2. vcs' \in [Slots -> Vc]
  <2>1. CASE Top(t)
    <3>1. vcs' = vcs \/ vcs' = [vcs EXCEPT ![s] = Released(vcs[s])]
      BY <2>1, <1>1 DEF Top
    <3> QED
      BY <3>1, <1>a, ReleasedIsVc, Put
  <2>2. CASE Severed(t)
    <3>1. PICK v \in Vc : v = [vcs[s] EXCEPT !.shutdown = FALSE]
      BY <1>a, Marked
    <3>2. PICK w \in Vc : w = [v EXCEPT !.ready = FALSE]
      BY Marked
    <3>3. vcs' = [vcs EXCEPT ![s] = w]
      BY <2>2, <1>1, <3>1, <3>2, <1>a DEF Severed
    <3> QED
      BY <3>3, <1>a, Put
  <2>3. CASE After(t)
    <3>1. \/ vcs' = [vcs EXCEPT ![s] = Redirected(vcs[s])]
          \/ vcs' = [vcs EXCEPT ![s] = Counted(vcs[s])]
          \/ vcs' = [vcs EXCEPT ![s] = Released(vcs[s])]
      BY <2>3, <1>1 DEF After
    <3> QED
      BY <3>1, <1>a, RedirectedIsVc, CountedIsVc, ReleasedIsVc, Put
  <2> QED
    BY <2>1, <2>2, <2>3 DEF VoiceThread
<1> QED
  BY <1>2, <1>a, <1>b DEF Typed, Carried

LEMMA ServerTyped ==
  ASSUME TInv, NEW s \in Slots, Server(s) PROVE Typed'
<1>0. Shape /\ Typed
  BY DEF TInv, IInv
<1>a. /\ vcs \in [Slots -> Vc] /\ Carried /\ stray \subseteq Slots
      /\ calls \in 0 .. MaxCalls /\ faults \in 0 .. MaxFaults
  BY <1>0 DEF Typed
<1>b. UNCHANGED <<main, stray, calls>>
  BY DEF Server, Connected, OnHello, OnReady, TimedOut, Lose, OnClose
<1>1. faults' \in 0 .. MaxFaults
  <2>1. Fault(s) \/ UNCHANGED faults
    BY DEF Server, Connected, OnHello, OnReady, TimedOut, Lose, OnClose
  <2> QED
    BY <2>1, <1>a, FaultCounts
<1>2. vcs' \in [Slots -> Vc]
  <2>1. CASE \E class \in Classes : OnClose(s, class)
    <3>1. PICK class \in Classes : vcs' = [vcs EXCEPT ![s] = ClosedAs(vcs[s], class)]
      BY <2>1 DEF OnClose
    <3> QED
      BY <3>1, <1>a, ClosedAsIsVc, Put
  <2>2. CASE Connected(s) \/ TimedOut(s) \/ Lose(s)
    BY <2>2, <1>a DEF Connected, TimedOut, Lose
  <2>3. CASE OnHello(s)
    <3>1. PICK v \in Vc : v = [vcs[s] EXCEPT !.resumable = FALSE]
      BY <1>a, Marked
    <3> QED
      BY <2>3, <3>1, <1>a, Put DEF OnHello
  <2>4. CASE OnReady(s)
    <3>1. PICK v \in Vc : v = [vcs[s] EXCEPT !.ready = TRUE]
      BY <1>a, Marked
    <3>2. PICK w \in Vc : w = [v EXCEPT !.attempt = 0]
      BY Cleared
    <3>3. vcs' = [vcs EXCEPT ![s] = w]
      BY <2>4, <3>1, <3>2, <1>a DEF OnReady
    <3> QED
      BY <3>3, <1>a, Put
  <2> QED
    BY <2>1, <2>2, <2>3, <2>4 DEF Server
<1> QED
  BY <1>1, <1>2, <1>a, <1>b DEF Typed, Carried

LEMMA NextTInv == TInv /\ [Next]_vars => TInv'
<1> SUFFICES ASSUME TInv, [Next]_vars PROVE TInv'
  OBVIOUS
<1>1. IInv'
  BY NextIInv DEF TInv
<1>2. CASE UNCHANGED vars
  BY <1>1, <1>2 DEF vars, TInv, Typed, Carried
<1> QED
  BY <1>1, <1>2, MainTyped, VoiceThreadTyped, ServerTyped DEF TInv, Next

(* Every variable keeps its type, whatever the main loop, the threads and  *)
(* the server do: the attempts of a slot that two threads share included.  *)
THEOREM VoiceTypeCorrect == Spec => []TypeOK
<1>1. TInv => TypeOK
  <2> SUFFICES ASSUME TInv PROVE TypeOK
    OBVIOUS
  <2>1. Shape /\ Typed
    BY DEF TInv, IInv
  <2>2. \A t \in Threads : thread[t].pc \in Places /\ thread[t].slot \in Slots
    BY <2>1 DEF Shape
  <2> QED
    BY <2>1, <2>2 DEF Shape, Typed, TypeOK, WsStates, Places, Ops
<1> QED
  BY <1>1, InitTInv, NextTInv, PTL DEF Spec
=============================================================================
