--------------------------- MODULE DispatchProofs ---------------------------
(***************************************************************************)
(* For any bots, workers, traffic and bounds: the process-wide parts stand *)
(* or fall together, an object has a reference for each holder and no      *)
(* other, and every variable keeps its type.                               *)
(*                                                                         *)
(* The counts follow from the accounts of Sound: only the user may hold an *)
(* object several times, any other holder (a map, a thread, the leak of a  *)
(* refused copy) has it once, and what was not allocated yet has neither   *)
(* holder nor reference.  They hold until a job uses the client after it   *)
(* was freed, or the pool after it was (wild).  The types need the pool as *)
(* well: count is the number of running jobs, so no worker lowers it below *)
(* none, and an event that waits has its objects reserved.                 *)
(***************************************************************************)
EXTENDS Dispatch, FiniteSetTheorems, TLAPS

Bit(p) == IF p THEN 1 ELSE 0

Parts ==
  [inits : Nat, curl : BOOLEAN, once : BOOLEAN, pool : {"null", "live", "freed"},
   fds : {{}, {0, 1}}]

(* Complete, or not there: one pool, not lost and not destroyed twice.     *)
PartsOK ==
  /\ parts \in Parts
  /\ parts.inits > 0 =>
       /\ parts.curl = TRUE /\ parts.once = TRUE /\ parts.fds = {0, 1}
       /\ parts.pool # "freed"
  /\ parts.inits = 0 =>
       /\ parts.curl = FALSE /\ parts.once = FALSE /\ parts.fds = {}
       /\ parts.pool # "live"

Life == {"setup", "running", "ended", "joined", "freed"}

(* Who counts, and when the client does.                                   *)
HoldsOK ==
  LET u == Bit(holds["user"] = "held")
      c == Bit(holds["client"] = "held")
  IN
  /\ holds \in [Parties -> {"none", "held", "failed"}] /\ holds["user"] # "failed"
  /\ holds["client"] # "failed" => parts.inits = u + c
  /\ holds["client"] = "failed" => parts.inits =< u
  /\ phase \in Life \cup {"none", "gone"}
  /\ phase = "none" => holds["client"] = "none"
  /\ phase = "gone" => holds["client"] # "held"
  /\ phase \in Life => holds["client"] # "none"

IInv == PartsOK /\ HoldsOK

\* What the steps of the initialisation make.
LEMMA MakeEffect ==
  ASSUME NEW p \in Parts, NEW out, NEW n \in Nat
  PROVE  /\ LET q == [p EXCEPT !.inits = n] IN
              q \in Parts /\ q.inits = n /\ q.curl = p.curl /\ q.once = p.once
              /\ q.pool = p.pool /\ q.fds = p.fds
         /\ LET q == CurlUp(p) IN
              q \in Parts /\ q.inits = p.inits /\ q.curl = TRUE /\ q.once = p.once
              /\ q.pool = p.pool /\ q.fds = p.fds
         /\ LET q == PoolUp(p, out) IN
              q \in Parts /\ q.inits = p.inits /\ q.curl = p.curl /\ q.once = TRUE
              /\ q.pool \in {"null", "live"} /\ q.fds = p.fds
         /\ LET q == PipeUp(p) IN
              q \in Parts /\ q.inits = p.inits /\ q.curl = p.curl /\ q.once = p.once
              /\ q.pool = p.pool /\ q.fds = {0, 1}
BY DEF Parts, CurlUp, PoolUp, PipeUp

\* What the steps of an undo or a cleanup take away.
LEMMA UndoEffect ==
  ASSUME NEW p \in Parts
  PROVE  /\ LET q == ClosePipe(p) IN
              q \in Parts /\ q.inits = p.inits /\ q.curl = p.curl /\ q.once = p.once
              /\ q.pool = p.pool /\ q.fds = {}
         /\ LET q == CurlCleanup(p) IN
              q \in Parts /\ q.inits = p.inits /\ q.curl = FALSE /\ q.once = p.once
              /\ q.pool = p.pool /\ q.fds = p.fds
         /\ LET q == FailCurl(p) IN
              q \in Parts /\ q.inits = 0 /\ q.curl = FALSE /\ q.once = p.once
              /\ q.pool = p.pool /\ q.fds = p.fds
         /\ LET q == WorkerCleanup(p) IN
              p.pool # "freed" =>
                q \in Parts /\ q.inits = p.inits /\ q.curl = p.curl /\ q.once = FALSE
                /\ q.pool # "live" /\ q.fds = p.fds
BY DEF Parts, ClosePipe, CurlCleanup, FailCurl, WorkerCleanup

\* A pipe that fails takes everything back.
LEMMA FailPipeEffect ==
  ASSUME NEW p \in Parts, p.pool # "freed"
  PROVE  LET q == FailPipe(p) IN
           q \in Parts /\ q.inits = 0 /\ q.curl = FALSE /\ q.once = FALSE
           /\ q.pool # "live" /\ q.fds = {}
<1>1. PICK a : a = ClosePipe(p)
  OBVIOUS
<1>2. a \in Parts /\ a.pool # "freed" /\ a.fds = {}
  BY <1>1, UndoEffect
<1>3. PICK b : b = WorkerCleanup(a)
  OBVIOUS
<1>4. b \in Parts /\ b.once = FALSE /\ b.pool # "live" /\ b.fds = {}
  BY <1>2, <1>3, UndoEffect
<1>5. FailPipe(p) = FailCurl(b)
  BY <1>1, <1>3 DEF FailPipe, FailWorker
<1>6. /\ FailCurl(b) \in Parts /\ FailCurl(b).inits = 0 /\ FailCurl(b).curl = FALSE
      /\ FailCurl(b).once = b.once /\ FailCurl(b).pool = b.pool /\ FailCurl(b).fds = b.fds
  BY <1>4, UndoEffect
<1> QED BY <1>4, <1>5, <1>6

\* Each failure of the first initialisation undoes what was made before it.
LEMMA MadeOrUndone ==
  ASSUME PartsOK, NEW out \in Outcomes, GlobalInit(out)
  PROVE  PartsOK' /\ (Succeeded => parts'.inits = parts.inits + 1)
                  /\ (~Succeeded => parts.inits = 0 /\ parts'.inits = 0)
<1>t. parts \in Parts /\ parts.inits \in Nat /\ parts.inits + 1 \in Nat
  BY DEF PartsOK, Parts
<1>c. PICK p : p = [parts EXCEPT !.inits = @ + 1]
  OBVIOUS
<1>p. /\ p \in Parts /\ p.inits = parts.inits + 1 /\ p.curl = parts.curl
      /\ p.once = parts.once /\ p.pool = parts.pool /\ p.fds = parts.fds
  <2>1. p = [parts EXCEPT !.inits = parts.inits + 1]
    BY <1>c
  <2> QED BY <1>t, <2>1, MakeEffect
<1>1. CASE parts.inits > 0
  <2>1. parts' = p
    BY <1>t, <1>c, <1>1 DEF GlobalInit
  <2> QED BY <1>t, <1>p, <1>1, <2>1 DEF PartsOK, Succeeded
<1>2. CASE parts.inits = 0
  <2>1. p.curl = FALSE /\ p.once = FALSE /\ p.fds = {} /\ p.inits = 1
        /\ p.pool \in {"null", "freed"}
    BY <1>p, <1>2 DEF PartsOK, Parts
  <2>2. parts' = Made(p, out)
    BY <1>c, <1>2 DEF GlobalInit
  <2>3. CASE out = "curl"
    <3>1. parts' = FailCurl(p)
      BY <2>2, <2>3 DEF Made
    <3>2. /\ parts' \in Parts /\ parts'.inits = 0 /\ parts'.curl = FALSE
          /\ parts'.once = FALSE /\ parts'.pool # "live" /\ parts'.fds = {}
      BY <1>p, <2>1, <3>1, UndoEffect
    <3> QED BY <1>2, <3>2 DEF PartsOK, Succeeded
  <2>4. CASE out # "curl"
    <3>1. PICK half : half = PoolUp(CurlUp(p), out)
      OBVIOUS
    <3>2. /\ half \in Parts /\ half.inits = 1 /\ half.curl = TRUE /\ half.once = TRUE
          /\ half.pool \in {"null", "live"}
      <4>1. PICK q : q = CurlUp(p)
        OBVIOUS
      <4>2. q \in Parts /\ q.inits = 1 /\ q.curl = TRUE
        BY <1>p, <2>1, <4>1, MakeEffect
      <4> QED BY <3>1, <4>1, <4>2, MakeEffect
    <3>3. PICK full : full = PipeUp(half)
      OBVIOUS
    <3>4. /\ full \in Parts /\ full.inits = 1 /\ full.curl = TRUE /\ full.once = TRUE
          /\ full.pool \in {"null", "live"} /\ full.fds = {0, 1}
      BY <3>2, <3>3, MakeEffect
    <3>5. parts' \in {FailPipe(half), FailPipe(full), full}
      BY <2>1, <2>2, <2>4, <3>1, <3>3 DEF Made
    <3>6. ASSUME NEW q \in {half, full}, parts' = FailPipe(q)
          PROVE  /\ parts' \in Parts /\ parts'.inits = 0 /\ parts'.curl = FALSE
                 /\ parts'.once = FALSE /\ parts'.pool # "live" /\ parts'.fds = {}
      BY <3>2, <3>4, <3>6, FailPipeEffect
    <3>7. CASE parts' \in {FailPipe(half), FailPipe(full)}
      BY <1>2, <3>6, <3>7 DEF PartsOK, Succeeded
    <3>8. CASE parts' = full
      BY <1>2, <3>4, <3>8 DEF PartsOK, Succeeded
    <3> QED BY <3>5, <3>7, <3>8
  <2> QED BY <2>3, <2>4
<1> QED BY <1>t, <1>1, <1>2

\* A cleanup takes one from the count, and all of the parts with the last.
LEMMA CleanedUp ==
  ASSUME PartsOK, GlobalCleanup
  PROVE  PartsOK' /\ parts'.inits = (IF parts.inits = 0 THEN 0 ELSE parts.inits - 1)
<1>t. parts \in Parts /\ parts.inits \in Nat
  BY DEF PartsOK, Parts
<1>1. CASE UNCHANGED parts /\ parts.inits = 0
  BY <1>1 DEF PartsOK
<1>2. CASE parts.inits > 1 /\ parts' = [parts EXCEPT !.inits = @ - 1]
  <2>1. parts.inits - 1 \in Nat /\ parts' = [parts EXCEPT !.inits = parts.inits - 1]
    BY <1>t, <1>2
  <2>2. /\ parts' \in Parts /\ parts'.inits = parts.inits - 1 /\ parts'.curl = parts.curl
        /\ parts'.once = parts.once /\ parts'.pool = parts.pool /\ parts'.fds = parts.fds
    BY <1>t, <2>1, MakeEffect
  <2> QED BY <1>t, <1>2, <2>2 DEF PartsOK
<1>3. CASE parts.inits = 1
           /\ parts' = ClosePipe(WorkerCleanup(CurlCleanup([parts EXCEPT !.inits = 0])))
  <2>1. PICK a : a = CurlCleanup([parts EXCEPT !.inits = 0])
    OBVIOUS
  <2>2. /\ a \in Parts /\ a.inits = 0 /\ a.curl = FALSE /\ a.pool = parts.pool
    <3>1. PICK p : p = [parts EXCEPT !.inits = 0]
      OBVIOUS
    <3>2. p \in Parts /\ p.inits = 0 /\ p.pool = parts.pool
      BY <1>t, <3>1, MakeEffect
    <3> QED BY <2>1, <3>1, <3>2, UndoEffect
  <2>3. a.pool # "freed"
    BY <1>3, <2>2 DEF PartsOK
  <2>4. PICK b : b = WorkerCleanup(a)
    OBVIOUS
  <2>5. b \in Parts /\ b.inits = 0 /\ b.curl = FALSE /\ b.once = FALSE /\ b.pool # "live"
    BY <2>2, <2>3, <2>4, UndoEffect
  <2>6. /\ parts' \in Parts /\ parts'.inits = 0 /\ parts'.curl = FALSE /\ parts'.once = FALSE
        /\ parts'.pool # "live" /\ parts'.fds = {}
    BY <1>3, <2>1, <2>4, <2>5, UndoEffect
  <2> QED BY <1>3, <2>6 DEF PartsOK
<1> QED BY <1>1, <1>2, <1>3 DEF GlobalCleanup

\* The rest of the program leaves the parts alone, and the client goes on.
LEMMA OthersKeep ==
  ASSUME [Next]_vars
  PROVE  \/ UNCHANGED globals /\ (phase' = phase \/ {phase, phase'} \subseteq Life)
         \/ UserGlobalCleanup \/ ClientGlobalCleanup
         \/ \E out \in Outcomes : UserGlobalInit(out) \/ ClientInit(out)
<1>1. CASE UNCHANGED vars
  BY <1>1 DEF vars
<1>2. CASE Setup
  BY <1>2 DEF Setup, SetOn, SetPrefix, SetOnCommand, CacheEnable, Calls
<1>3. CASE Run \/ RunEnds \/ Join \/ Free
  BY <1>3 DEF Run, RunEnds, MainFree, Join, Free, Life
<1>4. CASE \E n \in Ids : Collect({i \in Ids : i =< n})
  BY <1>4 DEF Collect
<1>5. CASE Network
  BY <1>5 DEF Network, Connect, Receive, Resumed, Disconnect, Lose
<1>6. CASE User
  BY <1>6 DEF User, Get, Claim, Own, Unclaim
<1>7. CASE MainThread \/ \E w \in Workers : Worker(w)
  BY <1>7 DEF MainThread, Worker, Perform, Return, Invalidate, TakeJob, StartJob,
              EndJob
<1> QED
  BY <1>1, <1>2, <1>3, <1>4, <1>5, <1>6, <1>7 DEF Next, Cleanup

\* Whoever initialises and cleans up: the parts and their count stay right.
LEMMA NextGlobals == IInv /\ [Next]_vars => IInv'
<1> SUFFICES ASSUME IInv, [Next]_vars PROVE IInv'
  OBVIOUS
<1>0. PartsOK /\ parts.inits \in Nat /\ holds \in [Parties -> {"none", "held", "failed"}]
      /\ Parties = {"user", "client"}
  BY DEF IInv, PartsOK, Parts, HoldsOK, Parties
<1>1. CASE UNCHANGED globals /\ (phase' = phase \/ {phase, phase'} \subseteq Life)
  <2>1. PartsOK'
    BY <1>1 DEF IInv, PartsOK, globals
  <2>2. HoldsOK'
    BY <1>1 DEF IInv, HoldsOK, globals, Life
  <2> QED BY <2>1, <2>2 DEF IInv
<1>2. ASSUME NEW out \in Outcomes, UserGlobalInit(out)
      PROVE  IInv'
  <2>1. PartsOK' /\ (Succeeded => parts'.inits = parts.inits + 1)
                 /\ (~Succeeded => parts.inits = 0 /\ parts'.inits = 0)
    BY <1>0, <1>2, MadeOrUndone DEF UserGlobalInit
  <2>2. CASE Succeeded
    <3>1. /\ holds' \in [Parties -> {"none", "held", "failed"}] /\ phase' = phase
          /\ holds'["user"] = "held" /\ holds["user"] = "none"
          /\ holds'["client"] = holds["client"]
      BY <1>0, <1>2, <2>2 DEF UserGlobalInit
    <3> QED BY <1>0, <2>1, <2>2, <3>1 DEF IInv, HoldsOK, Bit
  <2>3. CASE ~Succeeded
    <3>1. holds' = holds /\ phase' = phase
      BY <1>2, <2>3 DEF UserGlobalInit
    <3> QED BY <1>0, <2>1, <2>3, <3>1 DEF IInv, HoldsOK, Bit
  <2> QED BY <2>2, <2>3
<1>3. ASSUME NEW out \in Outcomes, ClientInit(out)
      PROVE  IInv'
  <2>1. PartsOK' /\ (Succeeded => parts'.inits = parts.inits + 1)
                 /\ (~Succeeded => parts.inits = 0 /\ parts'.inits = 0)
    BY <1>0, <1>3, MadeOrUndone DEF ClientInit
  <2>2. /\ holds' \in [Parties -> {"none", "held", "failed"}] /\ phase' = "setup"
        /\ phase = "none" /\ holds'["user"] = holds["user"]
        /\ holds'["client"] = IF Succeeded THEN "held" ELSE "failed"
    BY <1>0, <1>3 DEF ClientInit
  <2>3. CASE Succeeded
    BY <1>0, <2>1, <2>2, <2>3 DEF IInv, HoldsOK, Bit, Life
  <2>4. CASE ~Succeeded
    BY <1>0, <2>1, <2>2, <2>4 DEF IInv, HoldsOK, Bit, Life
  <2> QED BY <2>3, <2>4
<1>4. CASE UserGlobalCleanup
  <2>1. PartsOK' /\ parts'.inits = (IF parts.inits = 0 THEN 0 ELSE parts.inits - 1)
    BY <1>0, <1>4, CleanedUp DEF UserGlobalCleanup
  <2>2. /\ holds' \in [Parties -> {"none", "held", "failed"}] /\ phase' = phase
        /\ holds'["user"] = "none" /\ holds["user"] = "held"
        /\ holds'["client"] = holds["client"]
    BY <1>0, <1>4 DEF UserGlobalCleanup
  <2> QED BY <1>0, <2>1, <2>2 DEF IInv, HoldsOK, Bit
<1>5. CASE ClientGlobalCleanup
  <2>1. PartsOK' /\ parts'.inits = (IF parts.inits = 0 THEN 0 ELSE parts.inits - 1)
    BY <1>0, <1>5, CleanedUp DEF ClientGlobalCleanup
  <2>2. /\ holds' \in [Parties -> {"none", "held", "failed"}] /\ phase' = "gone"
        /\ phase = "freed" /\ holds'["user"] = holds["user"]
        /\ holds'["client"] = IF holds["client"] = "held" THEN "none" ELSE holds["client"]
    BY <1>0, <1>5 DEF ClientGlobalCleanup
  <2> QED BY <1>0, <2>1, <2>2 DEF IInv, HoldsOK, Bit, Life
<1> QED BY <1>1, <1>2, <1>3, <1>4, <1>5, OthersKeep

\* At first nothing is made and nobody counts.
LEMMA InitGlobals == Init => IInv
<1> SUFFICES ASSUME Init PROVE IInv
  OBVIOUS
<1>1. parts = Nothing /\ Nothing \in Parts
  BY DEF Init, Nothing, Parts
<1>2. PartsOK
  BY <1>1 DEF PartsOK, Nothing
<1>3. phase = "none" /\ holds = [p \in Parties |-> "none"] /\ Parties = {"user", "client"}
  BY DEF Init, Parties
<1>4. holds \in [Parties -> {"none", "held", "failed"}]
      /\ holds["user"] = "none" /\ holds["client"] = "none" /\ parts.inits = 0
  BY <1>1, <1>3 DEF Nothing
<1> QED BY <1>1, <1>2, <1>3, <1>4 DEF IInv, HoldsOK, Bit, Life

\* The count is that of the parties that hold.
LEMMA HeldCount ==
  Cardinality({p \in Parties : holds[p] = "held"})
    = Bit(holds["user"] = "held") + Bit(holds["client"] = "held")
<1>p. Parties = {"user", "client"} /\ "user" # "client"
  BY DEF Parties
<1>1. CASE holds["user"] = "held" /\ holds["client"] = "held"
  <2>1. {p \in Parties : holds[p] = "held"} = {"user"} \cup {"client"}
    BY <1>p, <1>1
  <2>2. IsFiniteSet({"user"}) /\ Cardinality({"user"}) = 1 /\ "client" \notin {"user"}
    BY <1>p, FS_Singleton
  <2>3. Cardinality({"user"} \cup {"client"}) = 2
    BY <2>2, FS_AddElement
  <2> QED BY <1>1, <2>1, <2>3 DEF Bit
<1>2. CASE holds["user"] = "held" /\ holds["client"] # "held"
  <2>1. {p \in Parties : holds[p] = "held"} = {"user"}
    BY <1>p, <1>2
  <2>2. Cardinality({"user"}) = 1
    BY FS_Singleton
  <2> QED BY <1>2, <2>1, <2>2 DEF Bit
<1>3. CASE holds["user"] # "held" /\ holds["client"] = "held"
  <2>1. {p \in Parties : holds[p] = "held"} = {"client"}
    BY <1>p, <1>3
  <2>2. Cardinality({"client"}) = 1
    BY FS_Singleton
  <2> QED BY <1>3, <2>1, <2>2 DEF Bit
<1>4. CASE holds["user"] # "held" /\ holds["client"] # "held"
  <2>1. {p \in Parties : holds[p] = "held"} = {}
    BY <1>p, <1>4
  <2> QED BY <1>4, <2>1, FS_EmptySet DEF Bit
<1> QED BY <1>1, <1>2, <1>3, <1>4

(* Whichever step of the global initialisation fails, and in whatever      *)
(* order the client and the user initialise and clean up: the parts are    *)
(* complete or undone, and their count is that of the successes.           *)
THEOREM GlobalsStayTogether == Spec => []GlobalsTogether
<1>1. IInv => GlobalsTogether
  BY HeldCount DEF IInv, PartsOK, Parts, HoldsOK, GlobalsTogether
<1> QED BY <1>1, InitGlobals, NextGlobals, PTL DEF Spec

-----------------------------------------------------------------------------
Pcs == {"idle", "taken", "ready", "user", "done", "disconnected"}

JobTypes(pcs, objects) ==
  [pc : pcs, event : Events \cup {"NONE"}, id : Ids \cup {None}, obj : objects]

(* A thread in a callback, and no other, has an event of its own; a job    *)
(* names the id its event is about.                                        *)
ThreadsOK ==
  /\ thread \in [Threads -> JobTypes(Pcs, Nat)]
  /\ \A t \in Threads :
       /\ thread[t].pc = "user" <=> thread[t].obj # None
       /\ thread[t].pc \in {"taken", "ready"} => thread[t].id \in Ids
  /\ queue \in Seq({j \in JobTypes({"ready"}, {None}) : j.id \in Ids})
  /\ phase # "running" => thread[Main] = Idle

Table == [Objects -> [visits : Nat, claims : Nat]]

Typed ==
  /\ ThreadsOK
  /\ msgs \in [Ids -> Nat] /\ guilds \in [Ids -> Nat]
  /\ heap \in Table /\ owned \in [Objects -> Nat] /\ lost \subseteq Nat \ {None}
  /\ steps \in [objects : Nat, events : Nat, drops : Nat, claims : Int]
  /\ wild \in BOOLEAN

Fresh ==
  LET allocated == None..steps.objects IN
  /\ \A t \in Threads : thread[t].obj \in allocated
  /\ \A i \in Ids : msgs[i] \in allocated /\ guilds[i] \in allocated
  /\ lost \subseteq allocated /\ \A o \in Objects : owned[o] > 0 => o \in allocated

Distinct(map) == \A i, j \in Ids : map[i] = map[j] /\ map[i] # None => i = j

Apart ==
  /\ Distinct(msgs) /\ Distinct(guilds)
  /\ \A s, t \in Threads : thread[s].obj = thread[t].obj /\ thread[s].obj # None => s = t

InThread(o) == \E t \in Threads : thread[t].obj = o

InMap(map, o) == \E i \in Ids : map[i] = o

(* The references an object must have, holder by holder.                   *)
Owed(o) ==
  Bit(InThread(o)) + Bit(InMap(msgs, o)) + Bit(InMap(guilds, o)) + owned[o]
  + Bit(o \in lost)

Accounts == \A o \in Objects :
  heap[o].visits = Owed(o) /\ heap[o].claims = owned[o]

Sound == Fresh /\ Apart /\ Accounts

HInv == Typed /\ (wild \/ Sound)

-----------------------------------------------------------------------------
(* As no holder holds an object twice, the accounts are the counts.        *)

\* A map without duplicates holds an object once or not at all.
LEMMA CachedOnce ==
  ASSUME NEW map, Distinct(map), NEW o, o # None
  PROVE  Cached(map, o) = Bit(InMap(map, o))
<1>1. CASE InMap(map, o)
  <2>1. PICK i \in Ids : map[i] = o
    BY <1>1 DEF InMap
  <2>2. {j \in Ids : map[j] = o} = {i}
    BY <2>1 DEF Distinct
  <2> QED BY <1>1, <2>2, FS_Singleton DEF Cached, Bit
<1>2. CASE ~InMap(map, o)
  <2>1. {j \in Ids : map[j] = o} = {}
    BY <1>2 DEF InMap
  <2> QED BY <1>2, <2>1, FS_EmptySet DEF Cached, Bit
<1> QED BY <1>1, <1>2

\* At most one thread runs with an object.
LEMMA RunningOnce ==
  ASSUME Apart, NEW o, o # None
  PROVE  Running(o) = Bit(InThread(o))
<1>1. CASE InThread(o)
  <2>1. PICK t \in Threads : thread[t].obj = o
    BY <1>1 DEF InThread
  <2>2. {s \in Threads : thread[s].obj = o} = {t}
    BY <2>1 DEF Apart
  <2> QED BY <1>1, <2>2, FS_Singleton DEF Running, Bit
<1>2. CASE ~InThread(o)
  <2>1. {s \in Threads : thread[s].obj = o} = {}
    BY <1>2 DEF InThread
  <2> QED BY <1>2, <2>1, FS_EmptySet DEF Running, Bit
<1> QED BY <1>1, <1>2

\* So the table has what the property asks for.
LEMMA SoundCounts == Sound => CountsAreHolders
<1> SUFFICES ASSUME Sound, NEW o \in Objects
             PROVE  /\ heap[o].visits = Holders(o) + (IF o \in lost THEN 1 ELSE 0)
                    /\ heap[o].claims = owned[o]
  BY DEF CountsAreHolders
<1>1. o # None
  BY DispatchAssumption DEF DispatchAssumption, Objects, None
<1>2. /\ Running(o) = Bit(InThread(o))
      /\ Cached(msgs, o) = Bit(InMap(msgs, o))
      /\ Cached(guilds, o) = Bit(InMap(guilds, o))
  BY <1>1, RunningOnce, CachedOnce DEF Sound, Apart
<1> QED BY <1>2 DEF Sound, Accounts, Owed, Holders, Bit

-----------------------------------------------------------------------------
(* What the operations on the reference counter do to each entry.          *)

(* An object that is not there (NULL, say) changes nothing; one that is    *)
(* has a reference to give back that is nobody's claim.                    *)
LEMMA DecrEffect ==
  ASSUME NEW h \in Table, NEW o, o \in Objects => h[o].visits > h[o].claims
  PROVE  /\ Decr(h, o) \in Table
         /\ \A x \in Objects : /\ Decr(h, o)[x].visits = h[x].visits - Bit(x = o)
                               /\ Decr(h, o)[x].claims = h[x].claims
<1>1. CASE o \in Objects
  <2>1. PICK n \in Nat, c \in Nat : h[o] = [visits |-> n, claims |-> c] /\ n > c
    BY <1>1 DEF Table
  <2>2. PICK v : v = [visits |-> n - 1, claims |-> c]
    OBVIOUS
  <2>3. v \in [visits : Nat, claims : Nat] /\ v.visits = n - 1 /\ v.claims = c
    BY <2>1, <2>2
  <2>4. Decr(h, o) = [h EXCEPT ![o] = v]
    <3>1. CASE n > 1
      <4>1. [h[o] EXCEPT !.visits = @ - 1] = v
        BY <2>1, <2>2
      <4>2. ~(h[o].visits = 0 \/ h[o].visits < h[o].claims) /\ h[o].visits > 1
        BY <2>1, <3>1
      <4> QED BY <4>1, <4>2 DEF Decr
    <3>2. CASE n = 1
      <4>1. NoEntry = v
        BY <2>1, <2>2, <3>2 DEF NoEntry
      <4>2. ~(h[o].visits = 0 \/ h[o].visits < h[o].claims) /\ ~(h[o].visits > 1)
            /\ ~(h[o].claims # 0)
        BY <2>1, <3>2
      <4> QED BY <4>1, <4>2 DEF Decr
    <3> QED BY <2>1, <3>1, <3>2
  <2>5. /\ Decr(h, o) \in Table
        /\ \A x \in Objects : Decr(h, o)[x] = IF x = o THEN v ELSE h[x]
        /\ \A x \in Objects : h[x].visits \in Nat /\ h[x].claims \in Nat
    BY <1>1, <2>3, <2>4 DEF Table
  <2> QED BY <2>1, <2>3, <2>5 DEF Bit
<1>2. CASE o \notin Objects
  <2>1. Decr(h, o) = h
    BY <1>2 DEF Decr, Table
  <2> QED BY <1>2, <2>1 DEF Table, Bit
<1> QED BY <1>1, <1>2

\* Giving back every object of a set takes one reference from each.
LEMMA ReleaseEffect ==
  ASSUME NEW h \in Table, NEW gone, \A o \in Objects \cap gone : h[o].visits > h[o].claims
  PROVE  /\ Release(h, gone) \in Table
         /\ \A x \in Objects :
              /\ Release(h, gone)[x].visits = h[x].visits - Bit(x \in gone)
              /\ Release(h, gone)[x].claims = h[x].claims
<1>1. ASSUME NEW x \in Objects
      PROVE  /\ Release(h, gone)[x] \in [visits : Nat, claims : Nat]
             /\ Release(h, gone)[x].visits = h[x].visits - Bit(x \in gone)
             /\ Release(h, gone)[x].claims = h[x].claims
  <2>1. CASE x \in gone
    <3>1. /\ Decr(h, x) \in Table
          /\ Decr(h, x)[x].visits = h[x].visits - 1 /\ Decr(h, x)[x].claims = h[x].claims
      BY <2>1, DecrEffect DEF Bit
    <3> QED BY <2>1, <3>1 DEF Release, Table, Bit
  <2>2. CASE x \notin gone
    BY <2>2 DEF Release, Table, Bit
  <2> QED BY <2>1, <2>2
<1> QED BY <1>1 DEF Release, Table

\* A new entry has the reference of the one who made it.
LEMMA AddEffect ==
  ASSUME NEW h \in Table, NEW o
  PROVE  /\ Add(h, o) \in Table
         /\ \A x \in Objects :
              Add(h, o)[x] = IF x = o THEN [visits |-> 1, claims |-> 0] ELSE h[x]
<1>1. [visits |-> 1, claims |-> 0] \in [visits : Nat, claims : Nat]
  OBVIOUS
<1>2. CASE o \in Objects
  <2>1. PICK v : v = [visits |-> 1, claims |-> 0]
    OBVIOUS
  <2>2. Add(h, o) = [h EXCEPT ![o] = v]
    BY <2>1 DEF Add
  <2> QED BY <1>1, <1>2, <2>1, <2>2 DEF Table
<1>3. CASE o \notin Objects
  <2>1. Add(h, o) = h
    BY <1>3 DEF Add, Table
  <2> QED BY <1>3, <2>1
<1> QED BY <1>2, <1>3

\* Retaining adds a reference to an entry that has one already.
LEMMA IncrEffect ==
  ASSUME NEW h \in Table, NEW o, o \in Objects => h[o].visits > 0
  PROVE  /\ Incr(h, o) \in Table
         /\ \A x \in Objects : /\ Incr(h, o)[x].visits = h[x].visits + Bit(x = o)
                               /\ Incr(h, o)[x].claims = h[x].claims
<1>1. CASE o \in Objects
  <2>1. PICK n \in Nat, c \in Nat : h[o] = [visits |-> n, claims |-> c] /\ n > 0
    BY <1>1 DEF Table
  <2>2. PICK v : v = [visits |-> n + 1, claims |-> c]
    OBVIOUS
  <2>3. v \in [visits : Nat, claims : Nat] /\ v.visits = n + 1 /\ v.claims = c
    BY <2>1, <2>2
  <2>4. [h[o] EXCEPT !.visits = IF @ = 0 THEN 0 ELSE @ + 1] = v
    BY <2>1, <2>2
  <2>5. Incr(h, o) = [h EXCEPT ![o] = v]
    BY <2>4 DEF Incr
  <2>6. /\ Incr(h, o) \in Table
        /\ \A x \in Objects : Incr(h, o)[x] = IF x = o THEN v ELSE h[x]
        /\ \A x \in Objects : h[x].visits \in Nat /\ h[x].claims \in Nat
    BY <1>1, <2>3, <2>5 DEF Table
  <2> QED BY <2>1, <2>3, <2>6 DEF Bit
<1>2. CASE o \notin Objects
  <2>1. Incr(h, o) = h
    BY <1>2 DEF Incr, Table
  <2> QED BY <1>2, <2>1 DEF Table, Bit
<1> QED BY <1>1, <1>2

\* A claim is one reference more, and remembered as a claim.
LEMMA ClaimedEffect ==
  ASSUME NEW h \in Table, NEW o, o \in Objects => h[o].visits > 0
  PROVE  /\ Claimed(h, o) \in Table
         /\ \A x \in Objects : /\ Claimed(h, o)[x].visits = h[x].visits + Bit(x = o)
                               /\ Claimed(h, o)[x].claims = h[x].claims + Bit(x = o)
<1>1. CASE o \in Objects
  <2>1. PICK n \in Nat, c \in Nat : h[o] = [visits |-> n, claims |-> c] /\ n > 0
    BY <1>1 DEF Table
  <2>2. PICK v : v = [visits |-> n + 1, claims |-> c + 1]
    OBVIOUS
  <2>3. v \in [visits : Nat, claims : Nat] /\ v.visits = n + 1 /\ v.claims = c + 1
    BY <2>1, <2>2
  <2>4. Claimed(h, o) = [h EXCEPT ![o] = v]
    BY <2>1, <2>2 DEF Claimed
  <2>5. /\ Claimed(h, o) \in Table
        /\ \A x \in Objects : Claimed(h, o)[x] = IF x = o THEN v ELSE h[x]
        /\ \A x \in Objects : h[x].visits \in Nat /\ h[x].claims \in Nat
    BY <1>1, <2>3, <2>4 DEF Table
  <2> QED BY <2>1, <2>3, <2>5 DEF Bit
<1>2. CASE o \notin Objects
  <2>1. Claimed(h, o) = h
    BY <1>2 DEF Claimed, Table
  <2> QED BY <1>2, <2>1 DEF Table, Bit
<1> QED BY <1>1, <1>2

\* Giving a claim back undoes both.
LEMMA UnclaimedEffect ==
  ASSUME NEW h \in Table, NEW o \in Objects, h[o].claims > 0, h[o].visits >= h[o].claims
  PROVE  /\ Unclaimed(h, o) \in Table
         /\ \A x \in Objects : /\ Unclaimed(h, o)[x].visits = h[x].visits - Bit(x = o)
                               /\ Unclaimed(h, o)[x].claims = h[x].claims - Bit(x = o)
<1>0. PICK n \in Nat, c \in Nat : h[o] = [visits |-> n, claims |-> c] /\ c > 0 /\ n >= c
  BY DEF Table
<1>v. PICK v : v = [visits |-> n, claims |-> c - 1]
  OBVIOUS
<1>g. PICK g : g = [h EXCEPT ![o].claims = @ - 1]
  OBVIOUS
<1>1. /\ g \in Table
      /\ \A x \in Objects : /\ g[x].visits = h[x].visits
                            /\ g[x].claims = h[x].claims - Bit(x = o)
  <2>1. v \in [visits : Nat, claims : Nat] /\ v.visits = n /\ v.claims = c - 1
    BY <1>0, <1>v
  <2>2. [h[o] EXCEPT !.claims = @ - 1] = v
    BY <1>0, <1>v
  <2>3. g = [h EXCEPT ![o] = v]
    BY <1>g, <2>2
  <2>4. /\ g \in Table
        /\ \A x \in Objects : g[x] = IF x = o THEN v ELSE h[x]
        /\ \A x \in Objects : h[x].visits \in Nat /\ h[x].claims \in Nat
    BY <2>1, <2>3 DEF Table
  <2> QED BY <1>0, <2>1, <2>4 DEF Bit
<1>2. g[o].visits > g[o].claims
  BY <1>0, <1>1 DEF Bit
<1>3. \A x \in Objects : h[x].visits \in Nat /\ h[x].claims \in Nat
  BY DEF Table
<1>4. Unclaimed(h, o) = Decr(g, o)
  BY <1>0, <1>g DEF Unclaimed
<1>5. /\ Decr(g, o) \in Table
      /\ \A x \in Objects : /\ Decr(g, o)[x].visits = g[x].visits - Bit(x = o)
                            /\ Decr(g, o)[x].claims = g[x].claims
  BY <1>1, <1>2, DecrEffect
<1> QED BY <1>1, <1>3, <1>4, <1>5

(* What a map holds after one of its values was replaced.                  *)
LEMMA PutEffect ==
  ASSUME NEW map \in [Ids -> Nat], Distinct(map), NEW i \in Ids, NEW now \in Nat,
         now \in {None, map[i]} \/ ~InMap(map, now)
  PROVE  LET new == [map EXCEPT ![i] = now] IN
         /\ new \in [Ids -> Nat] /\ Distinct(new)
         /\ \A x : x # None =>
              (InMap(new, x) <=> x = now \/ (InMap(map, x) /\ x # map[i]))
<1> PICK new : new = [map EXCEPT ![i] = now]
  OBVIOUS
<1>1. new \in [Ids -> Nat] /\ new[i] = now /\ \A j \in Ids : j # i => new[j] = map[j]
  OBVIOUS
<1>2. Distinct(new)
  BY <1>1 DEF Distinct, InMap
<1>3. ASSUME NEW x, x # None
      PROVE  InMap(new, x) <=> x = now \/ (InMap(map, x) /\ x # map[i])
  <2>1. ASSUME x = now PROVE InMap(new, x)
    BY <1>1, <2>1 DEF InMap
  <2>2. ASSUME NEW j \in Ids, map[j] = x, x # map[i] PROVE InMap(new, x)
    BY <1>1, <2>2 DEF InMap
  <2>3. ASSUME NEW j \in Ids, new[j] = x, x # now PROVE InMap(map, x) /\ x # map[i]
    BY <1>1, <1>3, <2>3 DEF InMap, Distinct
  <2> QED BY <2>1, <2>2, <2>3 DEF InMap
<1> QED BY <1>1, <1>2, <1>3

-----------------------------------------------------------------------------
(* Steps that move no object between its holders.                          *)

(* One thread's job is replaced.                                           *)
LEMMA SetThread ==
  ASSUME ThreadsOK, NEW t \in Threads, NEW j \in JobTypes(Pcs, Nat),
         j.pc = "user" <=> j.obj # None, j.pc \in {"taken", "ready"} => j.id \in Ids,
         thread' = [thread EXCEPT ![t] = j]
  PROVE  /\ thread' \in [Threads -> JobTypes(Pcs, Nat)]
         /\ \A s \in Threads :
              /\ thread'[s].pc = "user" <=> thread'[s].obj # None
              /\ thread'[s].pc \in {"taken", "ready"} => thread'[s].id \in Ids
         /\ thread'[t] = j /\ \A s \in Threads : s # t => thread'[s] = thread[s]
<1>1. thread \in [Threads -> JobTypes(Pcs, Nat)]
  BY DEF ThreadsOK
<1>2. thread'[t] = j /\ \A s \in Threads : s # t => thread'[s] = thread[s]
  BY <1>1
<1>3. thread' \in [Threads -> JobTypes(Pcs, Nat)]
  BY <1>1
<1> QED BY <1>2, <1>3 DEF ThreadsOK

\* Nobody gains or loses an object, and no object is allocated.
LEMMA Still ==
  ASSUME HInv, ThreadsOK', \A t \in Threads : thread'[t].obj = thread[t].obj,
         UNCHANGED <<msgs, guilds, heap, lost, owned>>,
         steps' \in [objects : Nat, events : Nat, drops : Nat, claims : Int],
         steps'.objects = steps.objects, wild' \in BOOLEAN, wild => wild'
  PROVE  HInv'
<1>1. Typed'
  BY DEF HInv, Typed
<1>2. ASSUME Sound PROVE Sound'
  <2>1. Fresh'
    BY <1>2 DEF Sound, Fresh
  <2>2. Apart'
    BY <1>2 DEF Sound, Apart, Distinct
  <2>3. Accounts'
    <3>1. \A o \in Objects : InThread(o)' <=> InThread(o)
      BY DEF InThread
    <3> QED BY <1>2, <3>1 DEF Sound, Accounts, Owed, InMap, Bit
  <2> QED BY <2>1, <2>2, <2>3 DEF Sound
<1> QED BY <1>1, <1>2 DEF HInv

(* The client's life up to its end, and the network.                       *)
LEMMA LifeHInv ==
  ASSUME HInv,
         \/ \E out \in Outcomes : UserGlobalInit(out) \/ ClientInit(out)
         \/ UserGlobalCleanup
         \/ Setup \/ Run \/ RunEnds
         \/ Connect \/ Resumed \/ Lose
         \/ Join \/ ClientGlobalCleanup
  PROVE  HInv'
<1>1. /\ UNCHANGED <<msgs, guilds, heap, lost, owned, thread, queue>> /\ wild' = wild
      /\ phase' = "running" \/ thread[Main] = Idle
  <2>1. CASE \/ \E out \in Outcomes : UserGlobalInit(out) \/ ClientInit(out)
             \/ UserGlobalCleanup
    BY <2>1 DEF UserGlobalInit, UserGlobalCleanup, ClientInit, cache, workers, HInv, Typed,
                ThreadsOK
  <2>2. CASE Setup
    BY <2>2 DEF Setup, SetOn, SetPrefix, SetOnCommand, CacheEnable, Calls, cache, workers,
                HInv, Typed, ThreadsOK
  <2>3. CASE Run \/ RunEnds \/ Connect \/ Resumed \/ Lose
    BY <2>3 DEF Run, RunEnds, Connect, Resumed, Lose, MainFree, cache, workers
  <2>4. CASE Join \/ ClientGlobalCleanup
    BY <2>4 DEF Join, ClientGlobalCleanup, cache, workers, HInv, Typed, ThreadsOK
  <2> QED BY <2>1, <2>2, <2>3, <2>4
<1>2. ThreadsOK'
  BY <1>1 DEF HInv, Typed, ThreadsOK
<1>3. /\ steps' \in [objects : Nat, events : Nat, drops : Nat, claims : Int]
      /\ steps'.objects = steps.objects
  <2>0. steps \in [objects : Nat, events : Nat, drops : Nat, claims : Int]
    BY DEF HInv, Typed
  <2>1. CASE \/ \E out \in Outcomes : UserGlobalInit(out) \/ ClientInit(out)
             \/ UserGlobalCleanup \/ Setup \/ Run
    BY <2>0, <2>1 DEF UserGlobalInit, UserGlobalCleanup, ClientInit, Setup, SetOn, SetPrefix,
                SetOnCommand, CacheEnable, Calls, Run
  <2>2. CASE RunEnds
    BY <2>0, <2>2 DEF RunEnds
  <2>3. CASE Connect \/ Resumed \/ Join \/ ClientGlobalCleanup
    BY <2>0, <2>3 DEF Connect, Resumed, Join, ClientGlobalCleanup
  <2>4. CASE Lose
    BY <2>0, <2>4 DEF Lose, Bump
  <2> QED BY <2>1, <2>2, <2>3, <2>4
<1>4. wild \in BOOLEAN
  BY DEF HInv, Typed
<1> QED BY <1>1, <1>2, <1>3, <1>4, Still

\* An event that arrives is queued, dispatched at once or dropped.
LEMMA ReceiveHInv ==
  ASSUME HInv, NEW e \in Traffic, NEW i \in Ids, NEW m \in Modes, Receive(e, i, m)
  PROVE  HInv'
<1>0. /\ ThreadsOK /\ steps \in [objects : Nat, events : Nat, drops : Nat, claims : Int]
      /\ wild \in BOOLEAN
  BY DEF HInv, Typed
<1>1. /\ UNCHANGED <<msgs, guilds, heap, lost, owned, phase>> /\ wild' \in {wild, TRUE}
      /\ thread[Main] = Idle /\ phase = "running"
  BY DEF Receive, Schedule, MainFree, cache
<1>2. PICK j : j = Job(e, i)
  OBVIOUS
<1>3. /\ j \in JobTypes({"ready"}, {None}) /\ j \in JobTypes(Pcs, Nat)
      /\ j.pc = "ready" /\ j.id = i /\ j.obj = None
  <2>1. e \in Events
    BY DispatchAssumption DEF DispatchAssumption
  <2> QED BY <1>2, <2>1 DEF Job, JobTypes, Pcs, None
<1>4. /\ ThreadsOK'
      /\ \A t \in Threads : thread'[t].obj = thread[t].obj
  <2>1. CASE UNCHANGED <<thread, queue>>
    BY <1>0, <1>1, <2>1 DEF ThreadsOK
  <2>2. CASE thread' = [thread EXCEPT ![Main] = j] /\ UNCHANGED queue
    <3>1. Main \in Threads
      BY DEF Threads
    <3>2. /\ thread' \in [Threads -> JobTypes(Pcs, Nat)]
          /\ \A s \in Threads :
               /\ thread'[s].pc = "user" <=> thread'[s].obj # None
               /\ thread'[s].pc \in {"taken", "ready"} => thread'[s].id \in Ids
          /\ thread'[Main] = j /\ \A s \in Threads : s # Main => thread'[s] = thread[s]
      BY <1>0, <1>3, <2>2, <3>1, SetThread
    <3>3. thread'[Main].obj = thread[Main].obj
      BY <1>1, <1>3, <3>2 DEF Idle
    <3> QED BY <1>0, <1>1, <2>2, <3>2, <3>3 DEF ThreadsOK
  <2>3. CASE queue' = Append(queue, j) /\ UNCHANGED thread
    <3>1. queue' \in Seq({k \in JobTypes({"ready"}, {None}) : k.id \in Ids})
      BY <1>0, <1>3, <2>3 DEF ThreadsOK
    <3> QED BY <1>0, <1>1, <2>3, <3>1 DEF ThreadsOK
  <2> QED BY <1>2, <2>1, <2>2, <2>3 DEF Receive, Schedule
<1>5. /\ steps' \in [objects : Nat, events : Nat, drops : Nat, claims : Int]
      /\ steps'.objects = steps.objects
  BY <1>0 DEF Receive, Bump
<1> QED BY <1>0, <1>1, <1>4, <1>5, Still

(* A thread's job changes, but not the object it has.                      *)
LEMMA StepOfThread ==
  ASSUME HInv, NEW t \in Threads, NEW j \in JobTypes(Pcs, Nat),
         thread' = [thread EXCEPT ![t] = j], j.obj = thread[t].obj,
         j.pc = "user" <=> j.obj # None, j.pc \in {"taken", "ready"} => j.id \in Ids,
         queue' \in Seq({k \in JobTypes({"ready"}, {None}) : k.id \in Ids}),
         phase' # "running" => thread'[Main] = Idle,
         UNCHANGED <<msgs, guilds, heap, lost, owned, steps, wild>>
  PROVE  HInv'
<1>1. ThreadsOK
  BY DEF HInv, Typed
<1>2. /\ thread' \in [Threads -> JobTypes(Pcs, Nat)]
      /\ \A s \in Threads :
           /\ thread'[s].pc = "user" <=> thread'[s].obj # None
           /\ thread'[s].pc \in {"taken", "ready"} => thread'[s].id \in Ids
      /\ thread'[t] = j /\ \A s \in Threads : s # t => thread'[s] = thread[s]
  BY <1>1, SetThread
<1>3. ThreadsOK'
  BY <1>2 DEF ThreadsOK
<1>4. \A s \in Threads : thread'[s].obj = thread[s].obj
  BY <1>2
<1> QED BY <1>3, <1>4, Still DEF HInv, Typed

\* A worker takes a job, starts it, ends it.
LEMMA WorkerHInv ==
  ASSUME HInv, NEW w \in Workers, TakeJob(w) \/ StartJob(w) \/ EndJob(w)
  PROVE  HInv'
<1>0. /\ ThreadsOK /\ thread[w] \in JobTypes(Pcs, Nat) /\ w \in Threads /\ w # Main
      /\ thread \in [Threads -> JobTypes(Pcs, Nat)]
  BY DispatchAssumption DEF HInv, Typed, ThreadsOK, Threads, DispatchAssumption
<1>q. queue \in Seq({k \in JobTypes({"ready"}, {None}) : k.id \in Ids})
  BY <1>0 DEF ThreadsOK
<1>1. CASE TakeJob(w)
  <2>0. queue # <<>> /\ queue' = Tail(queue) /\ thread[w] = Idle
        /\ UNCHANGED <<phase, msgs, guilds, heap, lost, owned, steps>>
    BY <1>1 DEF TakeJob, cache
  <2>1. /\ Head(queue) \in JobTypes({"ready"}, {None}) /\ Head(queue).id \in Ids
        /\ queue' \in Seq({k \in JobTypes({"ready"}, {None}) : k.id \in Ids})
    <3>1. PICK S : S = {k \in JobTypes({"ready"}, {None}) : k.id \in Ids}
      OBVIOUS
    <3>2. queue \in Seq(S) /\ queue # <<>>
      BY <1>q, <2>0, <3>1
    <3> HIDE <3>1
    <3>3. Head(queue) \in S /\ Tail(queue) \in Seq(S)
      BY <3>2
    <3> QED BY <2>0, <3>1, <3>3
  <2>2. CASE wild' = TRUE /\ UNCHANGED thread
    <3>1. ThreadsOK'
      BY <1>0, <2>0, <2>1, <2>2 DEF ThreadsOK
    <3> QED BY <2>0, <2>2, <3>1, Still DEF HInv, Typed
  <2>3. CASE thread' = [thread EXCEPT ![w] = [Head(queue) EXCEPT !.pc = "taken"]]
             /\ UNCHANGED wild
    <3>1. PICK j : j = [Head(queue) EXCEPT !.pc = "taken"]
      OBVIOUS
    <3>2. /\ j \in JobTypes(Pcs, Nat) /\ j.pc = "taken" /\ j.id \in Ids /\ j.obj = None
      BY <2>1, <3>1 DEF JobTypes, Pcs, None
    <3>3. j.obj = thread[w].obj
      BY <2>0, <3>2 DEF Idle
    <3>4. thread'[Main] = thread[Main]
      BY <1>0, <2>3
    <3> QED BY <1>0, <2>0, <2>1, <2>3, <3>1, <3>2, <3>3, <3>4, StepOfThread DEF ThreadsOK
  <2> QED BY <1>1, <2>2, <2>3 DEF TakeJob
<1>2. CASE StartJob(w)
  <2>1. PICK j : j = [thread[w] EXCEPT !.pc = "ready"]
    OBVIOUS
  <2>2. thread[w].pc = "taken" /\ thread' = [thread EXCEPT ![w] = j]
        /\ UNCHANGED <<phase, queue, msgs, guilds, heap, lost, owned, steps, wild>>
    BY <1>2, <2>1 DEF StartJob, cache
  <2>3. thread[w].id \in Ids /\ thread[w].obj = None
    BY <1>0, <2>2 DEF ThreadsOK
  <2>4. j \in JobTypes(Pcs, Nat) /\ j.pc = "ready" /\ j.id \in Ids /\ j.obj = None
    BY <1>0, <2>1, <2>3 DEF JobTypes, Pcs
  <2>5. thread'[Main] = thread[Main]
    BY <1>0, <2>2
  <2> QED BY <1>0, <1>q, <2>2, <2>3, <2>4, <2>5, StepOfThread DEF ThreadsOK
<1>3. CASE EndJob(w)
  <2>1. thread[w].pc = "done" /\ thread' = [thread EXCEPT ![w] = Idle]
        /\ UNCHANGED <<phase, queue, msgs, guilds, heap, lost, owned, steps, wild>>
    BY <1>3 DEF EndJob, cache
  <2>2. Idle \in JobTypes(Pcs, Nat) /\ Idle.pc = "idle" /\ Idle.obj = None
    BY DEF Idle, JobTypes, Pcs, None
  <2>3. thread[w].obj = None
    BY <1>0, <2>1 DEF ThreadsOK
  <2>4. thread'[Main] = thread[Main]
    BY <1>0, <2>1
  <2> QED BY <1>0, <1>q, <2>1, <2>2, <2>3, <2>4, StepOfThread DEF ThreadsOK
<1> QED BY <1>1, <1>2, <1>3

\* The cache of a connection that is gone is no longer valid.
LEMMA InvalidateHInv ==
  ASSUME HInv, Invalidate
  PROVE  HInv'
<1>0. ThreadsOK /\ Main \in Threads
  BY DEF HInv, Typed, Threads
<1>1. /\ thread[Main].pc = "disconnected" /\ thread' = [thread EXCEPT ![Main] = Idle]
      /\ UNCHANGED <<phase, queue, msgs, guilds, heap, lost, owned, steps, wild>>
  BY DEF Invalidate, workers
<1>2. Idle \in JobTypes(Pcs, Nat) /\ Idle.pc = "idle" /\ Idle.obj = None
  BY DEF Idle, JobTypes, Pcs, None
<1>3. thread[Main].obj = None /\ thread'[Main] = Idle
  BY <1>0, <1>1 DEF ThreadsOK
<1> QED BY <1>0, <1>1, <1>2, <1>3, StepOfThread DEF ThreadsOK

-----------------------------------------------------------------------------
(* Steps that add a holder or take one away.                               *)

(* An object has a reference for each holder, and those are all of them.   *)
LEMMA OwedTypes ==
  /\ \A o : /\ Bit(InThread(o)) \in 0..1 /\ Bit(InMap(msgs, o)) \in 0..1
            /\ Bit(InMap(guilds, o)) \in 0..1 /\ Bit(o \in lost) \in 0..1
  /\ Typed => \A o \in Objects : owned[o] \in Nat
BY DEF Bit, Typed

\* One more owner of an object somebody holds.
LEMMA OwnHInv ==
  ASSUME HInv, ~wild, NEW o \in 1..steps.objects, Own(o),
         InThread(o) \/ InMap(msgs, o) \/ InMap(guilds, o) \/ (o \in Objects /\ owned[o] > 0)
  PROVE  HInv'
<1>0. Typed /\ Sound /\ steps \in [objects : Nat, events : Nat, drops : Nat, claims : Int]
  BY DEF HInv, Typed
<1>u. /\ heap' = Claimed(heap, o) /\ owned' = [owned EXCEPT ![o] = @ + 1]
      /\ UNCHANGED <<phase, msgs, guilds, lost, queue, thread, wild>>
      /\ steps' = [steps EXCEPT !.claims = @ + 1]
  BY DEF Own, workers, Bump
<1>s. steps' \in [objects : Nat, events : Nat, drops : Nat, claims : Int]
      /\ steps'.objects = steps.objects
  BY <1>0, <1>u
<1>1. /\ heap' \in Table
      /\ \A x \in Objects : /\ heap'[x].visits = heap[x].visits + Bit(x = o)
                            /\ heap'[x].claims = heap[x].claims + Bit(x = o)
  <2>1. o \in Objects => heap[o].visits > 0
    BY <1>0, OwedTypes DEF Sound, Accounts, Owed, Bit
  <2> QED BY <1>0, <1>u, <2>1, ClaimedEffect DEF Typed
<1>2. /\ owned' \in [Objects -> Nat]
      /\ \A x \in Objects : owned'[x] = owned[x] + Bit(x = o)
  <2>1. owned \in [Objects -> Nat]
    BY <1>0 DEF Typed
  <2>2. CASE o \in Objects
    <3>1. owned[o] + 1 \in Nat
      BY <2>1, <2>2
    <3> QED BY <1>u, <2>1, <2>2, <3>1 DEF Bit
  <2>3. CASE o \notin Objects
    <3>1. owned' = owned /\ \A x \in Objects : owned[x] \in Nat /\ x # o
      BY <1>u, <2>1, <2>3
    <3> QED BY <2>1, <3>1 DEF Bit
  <2> QED BY <2>2, <2>3
<1>3. Typed'
  BY <1>0, <1>u, <1>s, <1>1, <1>2 DEF Typed, ThreadsOK
<1>4. Fresh' /\ Apart'
  <2>1. \A x \in Objects : owned'[x] > 0 => x \in None..steps'.objects
    BY <1>0, <1>s, <1>2 DEF Sound, Fresh, Bit, None, Typed
  <2>2. Fresh'
    BY <1>0, <1>u, <1>s, <2>1 DEF Sound, Fresh
  <2> QED BY <1>0, <1>u, <2>2 DEF Sound, Apart, Distinct
<1>5. Accounts'
  <2>1. ASSUME NEW x \in Objects
        PROVE  heap'[x].visits = Owed(x)' /\ heap'[x].claims = owned'[x]
    <3>1. heap[x].visits = Owed(x) /\ heap[x].claims = owned[x]
      BY <1>0 DEF Sound, Accounts
    <3>2. owned[x] \in Nat
      BY <1>0 DEF Typed
    <3>3. Bit(InThread(x))' = Bit(InThread(x)) /\ Bit(InMap(msgs, x))' = Bit(InMap(msgs, x))
          /\ Bit(InMap(guilds, x))' = Bit(InMap(guilds, x))
      BY <1>u DEF Bit, InThread, InMap
    <3>4. Owed(x)' = Owed(x) + Bit(x = o)
      BY <1>u, <1>2, <3>2, <3>3, OwedTypes DEF Owed, Bit
    <3> QED BY <1>1, <1>2, <3>1, <3>4
  <2> QED BY <2>1 DEF Accounts
<1> QED BY <1>3, <1>4, <1>5 DEF HInv, Sound

\* A user gives a claim back, maybe the last reference.
LEMMA UnclaimHInv ==
  ASSUME HInv, NEW o \in Objects, Unclaim(o)
  PROVE  HInv'
<1>0. /\ Typed /\ Sound /\ owned[o] > 0
      /\ steps \in [objects : Nat, events : Nat, drops : Nat, claims : Int]
  BY DEF HInv, Typed, Unclaim
<1>u. /\ heap' = Unclaimed(heap, o) /\ owned' = [owned EXCEPT ![o] = @ - 1]
      /\ UNCHANGED <<phase, msgs, guilds, lost, queue, thread, wild>>
      /\ steps' = [steps EXCEPT !.claims = @ + -1]
  BY DEF Unclaim, workers, Bump
<1>s. steps' \in [objects : Nat, events : Nat, drops : Nat, claims : Int]
      /\ steps'.objects = steps.objects
  BY <1>0, <1>u
<1>1. /\ heap' \in Table
      /\ \A x \in Objects : /\ heap'[x].visits = heap[x].visits - Bit(x = o)
                            /\ heap'[x].claims = heap[x].claims - Bit(x = o)
  <2>1. heap[o].claims > 0 /\ heap[o].visits >= heap[o].claims
    BY <1>0, OwedTypes DEF Sound, Accounts, Owed, Bit
  <2> QED BY <1>0, <1>u, <2>1, UnclaimedEffect DEF Typed
<1>2. /\ owned' \in [Objects -> Nat]
      /\ \A x \in Objects : owned'[x] = owned[x] - Bit(x = o)
  <2>1. owned \in [Objects -> Nat]
    BY <1>0 DEF Typed
  <2>2. owned[o] - 1 \in Nat
    BY <1>0, <2>1
  <2> QED BY <1>u, <2>1, <2>2 DEF Bit
<1>3. Typed'
  BY <1>0, <1>u, <1>s, <1>1, <1>2 DEF Typed, ThreadsOK
<1>4. Fresh' /\ Apart'
  <2>1. \A x \in Objects : owned'[x] > 0 => x \in None..steps'.objects
    BY <1>0, <1>s, <1>2 DEF Sound, Fresh, Bit, Typed
  <2>2. Fresh'
    BY <1>0, <1>u, <1>s, <2>1 DEF Sound, Fresh
  <2> QED BY <1>0, <1>u, <2>2 DEF Sound, Apart, Distinct
<1>5. Accounts'
  <2>1. ASSUME NEW x \in Objects
        PROVE  heap'[x].visits = Owed(x)' /\ heap'[x].claims = owned'[x]
    <3>1. heap[x].visits = Owed(x) /\ heap[x].claims = owned[x]
      BY <1>0 DEF Sound, Accounts
    <3>2. owned[x] \in Nat
      BY <1>0 DEF Typed
    <3>3. Bit(InThread(x))' = Bit(InThread(x)) /\ Bit(InMap(msgs, x))' = Bit(InMap(msgs, x))
          /\ Bit(InMap(guilds, x))' = Bit(InMap(guilds, x))
      BY <1>u DEF Bit, InThread, InMap
    <3>4. Owed(x)' = Owed(x) - Bit(x = o)
      BY <1>u, <1>2, <3>2, <3>3, OwedTypes DEF Owed, Bit
    <3> QED BY <1>1, <1>2, <3>1, <3>4
  <2> QED BY <2>1 DEF Accounts
<1> QED BY <1>3, <1>4, <1>5 DEF HInv, Sound

\* The user takes an object from the cache, claims one or gives one back.
LEMMA UserHInv ==
  ASSUME HInv, User
  PROVE  HInv'
<1>0. ~wild => Typed /\ Fresh
  BY DEF HInv, Sound
<1>1. ASSUME NEW i \in Ids, Get(msgs, i)
      PROVE  HInv'
  <2>1. ~wild /\ msgs[i] \in 1..steps.objects /\ InMap(msgs, msgs[i])
    BY <1>0, <1>1 DEF Get, Typed, Fresh, None, InMap
  <2> QED BY <1>1, <2>1, OwnHInv DEF Get
<1>2. ASSUME NEW i \in Ids, Get(guilds, i)
      PROVE  HInv'
  <2>1. ~wild /\ guilds[i] \in 1..steps.objects /\ InMap(guilds, guilds[i])
    BY <1>0, <1>2 DEF Get, Typed, Fresh, None, InMap
  <2> QED BY <1>2, <2>1, OwnHInv DEF Get
<1>3. ASSUME NEW o \in Objects, Claim(o)
      PROVE  HInv'
  <2>1. /\ ~wild /\ (owned[o] > 0 \/ InThread(o))
        /\ Own(o) /\ o # None
    BY <1>3, DispatchAssumption DEF Claim, InThread, DispatchAssumption, Objects, None
  <2>2. o \in 1..steps.objects
    BY <1>0, <2>1 DEF Typed, Fresh, None, InThread
  <2> QED BY <2>1, <2>2, OwnHInv
<1> QED BY <1>1, <1>2, <1>3, UnclaimHInv DEF User

(* The job of a thread that is done with its event.                        *)
LEMMA AfterType ==
  ASSUME ThreadsOK, NEW t \in Threads
  PROVE  /\ After(t) \in JobTypes(Pcs, Nat) /\ After(t).obj = None
         /\ After(t).pc \notin {"user", "taken", "ready"}
         /\ t = Main => After(t) = Idle
<1>1. thread[t] \in JobTypes(Pcs, Nat)
  BY DEF ThreadsOK
<1>2. CASE t = Main
  BY <1>2 DEF After, Idle, JobTypes, Pcs, None
<1>3. CASE t # Main
  <2>1. PICK j : j = [thread[t] EXCEPT !.pc = "done", !.obj = None]
    OBVIOUS
  <2>2. j \in JobTypes(Pcs, Nat) /\ j.pc = "done" /\ j.obj = None
    BY <1>1, <2>1 DEF JobTypes, Pcs, None
  <2> QED BY <1>3, <2>1, <2>2 DEF After
<1> QED BY <1>2, <1>3

\* A callback returns and its object loses the reference it had for it.
LEMMA ReturnHInv ==
  ASSUME HInv, NEW t \in Threads, Return(t)
  PROVE  HInv'
<1>0. Typed /\ Sound /\ ThreadsOK
  BY DEF HInv, Typed, Return
<1>u. /\ thread' = [thread EXCEPT ![t] = After(t)] /\ thread[t].pc = "user"
      /\ UNCHANGED <<phase, msgs, guilds, lost, owned, queue, wild, steps>>
  BY DEF Return, workers
<1>o. PICK o \in Nat : o = thread[t].obj /\ heap' = Decr(heap, o)
  BY <1>0 DEF ThreadsOK, JobTypes, Return
<1>1. /\ heap' \in Table
      /\ \A x \in Objects : /\ heap'[x].visits = heap[x].visits - Bit(x = o)
                            /\ heap'[x].claims = heap[x].claims
  <2>1. ASSUME o \in Objects PROVE heap[o].visits > heap[o].claims
    <3>1. InThread(o)
      BY <1>o DEF InThread
    <3> QED BY <1>0, <2>1, <3>1, OwedTypes DEF Sound, Accounts, Owed, Bit
  <2>2. heap \in Table
    BY <1>0 DEF Typed
  <2>3. /\ Decr(heap, o) \in Table
        /\ \A x \in Objects : /\ Decr(heap, o)[x].visits = heap[x].visits - Bit(x = o)
                              /\ Decr(heap, o)[x].claims = heap[x].claims
    BY <2>1, <2>2, DecrEffect
  <2> QED BY <1>o, <2>3
<1>t. /\ thread' \in [Threads -> JobTypes(Pcs, Nat)]
      /\ \A s \in Threads :
           /\ thread'[s].pc = "user" <=> thread'[s].obj # None
           /\ thread'[s].pc \in {"taken", "ready"} => thread'[s].id \in Ids
      /\ thread'[t] = After(t) /\ thread'[t].obj = None
      /\ \A s \in Threads : s # t => thread'[s] = thread[s]
  BY <1>0, <1>u, AfterType, SetThread
<1>m. phase' # "running" => thread'[Main] = Idle
  BY <1>0, <1>u, <1>t, AfterType DEF ThreadsOK
<1>2. Typed'
  BY <1>0, <1>1, <1>u, <1>t, <1>m DEF Typed, ThreadsOK
<1>3. Fresh' /\ Apart'
  <2>1. Fresh'
    BY <1>0, <1>u, <1>t DEF Sound, Fresh, None, Typed
  <2>2. Apart'
    BY <1>0, <1>u, <1>t DEF Sound, Apart, Distinct
  <2> QED BY <2>1, <2>2
<1>4. Accounts'
  <2>1. ASSUME NEW x \in Objects
        PROVE  heap'[x].visits = Owed(x)' /\ heap'[x].claims = owned'[x]
    <3>1. heap[x].visits = Owed(x) /\ heap[x].claims = owned[x]
      BY <1>0 DEF Sound, Accounts
    <3>0. x # None
      BY DispatchAssumption DEF DispatchAssumption, Objects, None
    <3>2. /\ InThread(x)' <=> InThread(x) /\ x # o
          /\ x = o => InThread(x)
      BY <1>0, <1>o, <1>t, <3>0 DEF InThread, Sound, Apart
    <3>3. Owed(x)' = Owed(x) - Bit(x = o)
      BY <1>0, <1>u, <3>2, OwedTypes DEF Owed, Bit, InMap
    <3> QED BY <1>u, <1>1, <3>1, <3>3
  <2> QED BY <2>1 DEF Accounts
<1> QED BY <1>2, <1>3, <1>4 DEF HInv, Sound

-----------------------------------------------------------------------------
(* Steps in which the maps lose some of their values.                      *)

\* Values leave the maps, and each gives the reference of its map back.
LEMMA DropHInv ==
  ASSUME HInv, ~wild, ThreadsOK', \A t \in Threads : thread'[t].obj = thread[t].obj,
         msgs' \in [Ids -> Nat], guilds' \in [Ids -> Nat],
         \A i \in Ids : msgs'[i] \in {None, msgs[i]} /\ guilds'[i] \in {None, guilds[i]},
         heap' \in Table,
         \A x \in Objects :
           /\ heap'[x].visits = heap[x].visits - Bit(InMap(msgs, x) /\ ~InMap(msgs', x))
                                - Bit(InMap(guilds, x) /\ ~InMap(guilds', x))
           /\ heap'[x].claims = heap[x].claims,
         steps' \in [objects : Nat, events : Nat, drops : Nat, claims : Int],
         steps'.objects = steps.objects, UNCHANGED <<owned, lost, wild>>
  PROVE  HInv'
<1>0. Typed /\ Sound
  BY DEF HInv, Typed
<1>1. Typed'
  BY <1>0 DEF Typed
<1>2. Fresh'
  <2>1. /\ \A t \in Threads : thread[t].obj \in None..steps.objects
        /\ \A i \in Ids : msgs[i] \in None..steps.objects /\ guilds[i] \in None..steps.objects
        /\ lost \subseteq None..steps.objects
        /\ \A o \in Objects : owned[o] > 0 => o \in None..steps.objects
    BY <1>0 DEF Sound, Fresh
  <2>2. None \in None..steps.objects
    BY <1>0 DEF Typed, None
  <2> QED BY <2>1, <2>2 DEF Fresh
<1>3. Apart'
  BY <1>0 DEF Sound, Apart, Distinct
<1>4. Accounts'
  <2>1. ASSUME NEW x \in Objects
        PROVE  heap'[x].visits = Owed(x)' /\ heap'[x].claims = owned'[x]
    <3>1. heap[x].visits = Owed(x) /\ heap[x].claims = owned[x]
      BY <1>0 DEF Sound, Accounts
    <3>0. x # None
      BY DispatchAssumption DEF DispatchAssumption, Objects, None
    <3>2. InThread(x)' <=> InThread(x)
      BY DEF InThread
    <3>3. (InMap(msgs', x) => InMap(msgs, x)) /\ (InMap(guilds', x) => InMap(guilds, x))
      BY <3>0 DEF InMap
    <3>4. (InMap(msgs, x)' <=> InMap(msgs', x)) /\ (InMap(guilds, x)' <=> InMap(guilds', x))
      BY DEF InMap
    <3>5. Owed(x)' = Owed(x) - Bit(InMap(msgs, x) /\ ~InMap(msgs', x))
                             - Bit(InMap(guilds, x) /\ ~InMap(guilds', x))
      BY <1>0, <3>2, <3>3, <3>4, OwedTypes DEF Owed, Bit
    <3> QED BY <3>1, <3>5
  <2> QED BY <2>1 DEF Accounts
<1> QED BY <1>1, <1>2, <1>3, <1>4 DEF HInv, Sound

(* What is in a map has a reference for it, besides a claim's.             *)
LEMMA MappedCounted ==
  ASSUME Typed, Sound, NEW x \in Objects
  PROVE  /\ InMap(msgs, x) => heap[x].visits > heap[x].claims
         /\ InMap(guilds, x) => heap[x].visits > heap[x].claims
         /\ InMap(msgs, x) /\ InMap(guilds, x) => heap[x].visits > heap[x].claims + 1
<1>1. heap[x].visits = Owed(x) /\ heap[x].claims = owned[x]
  BY DEF Sound, Accounts
<1> QED BY <1>1, OwedTypes DEF Owed, Bit

\* The collector drops old messages.
LEMMA CollectHInv ==
  ASSUME HInv, NEW old \in SUBSET Ids, Collect(old)
  PROVE  HInv'
<1>0. Typed /\ Sound /\ ~wild /\ heap \in Table
  BY DEF HInv, Typed, Collect, MainFree
<1>u. /\ heap' = Release(heap, {msgs[i] : i \in old})
      /\ msgs' = [i \in Ids |-> IF i \in old THEN None ELSE msgs[i]]
      /\ UNCHANGED <<phase, guilds, lost, owned, queue, thread, wild, steps>>
  BY DEF Collect, workers
<1>1. \A o \in Objects \cap {msgs[i] : i \in old} : heap[o].visits > heap[o].claims
  BY <1>0, MappedCounted DEF InMap
<1>2. /\ heap' \in Table
      /\ \A x \in Objects :
           /\ heap'[x].visits = heap[x].visits - Bit(x \in {msgs[i] : i \in old})
           /\ heap'[x].claims = heap[x].claims
  BY <1>0, <1>u, <1>1, ReleaseEffect
<1>3. \A x \in Objects : x \in {msgs[i] : i \in old} <=> InMap(msgs, x) /\ ~InMap(msgs', x)
  <2>0. \A x \in Objects : x # None
    BY DispatchAssumption DEF DispatchAssumption, Objects, None
  <2>1. \A i \in Ids : msgs'[i] = IF i \in old THEN None ELSE msgs[i]
    BY <1>u
  <2>2. Distinct(msgs)
    BY <1>0 DEF Sound, Apart
  <2> QED BY <2>0, <2>1, <2>2 DEF InMap, Distinct
<1>4. \A x \in Objects : ~(InMap(guilds, x) /\ ~InMap(guilds', x))
  BY <1>u
<1>5. \A x \in Objects :
        /\ heap'[x].visits = heap[x].visits - Bit(InMap(msgs, x) /\ ~InMap(msgs', x))
                             - Bit(InMap(guilds, x) /\ ~InMap(guilds', x))
        /\ heap'[x].claims = heap[x].claims
  <2>1. \A x \in Objects : heap[x].visits \in Nat
    BY <1>0 DEF Table
  <2> QED BY <1>2, <1>3, <1>4, <2>1 DEF Bit
<1>6. ThreadsOK' /\ msgs' \in [Ids -> Nat] /\ guilds' \in [Ids -> Nat]
  BY <1>0, <1>u DEF Typed, ThreadsOK, None
<1>7. \A i \in Ids : msgs'[i] \in {None, msgs[i]} /\ guilds'[i] \in {None, guilds[i]}
  BY <1>u
<1>8. steps' \in [objects : Nat, events : Nat, drops : Nat, claims : Int] /\ steps'.objects = steps.objects
  BY <1>0, <1>u DEF Typed
<1>9. /\ \A t \in Threads : thread'[t].obj = thread[t].obj
      /\ UNCHANGED <<owned, lost, wild>>
  BY <1>u
<1> QED BY <1>0, <1>2, <1>5, <1>6, <1>7, <1>8, <1>9, DropHInv

(* The main thread goes on to invalidate the cache, or stays idle.         *)
LEMMA DisconnectHInv ==
  ASSUME HInv, NEW r \in BOOLEAN, Disconnect(r)
  PROVE  HInv'
<1>0. Typed /\ Sound /\ ThreadsOK /\ wild = FALSE /\ heap \in Table /\ phase = "running"
      /\ thread[Main] = Idle /\ Main \in Threads
  BY DEF HInv, Typed, Disconnect, MainFree, Threads
<1>u. UNCHANGED <<phase, lost, owned, queue, wild>>
  BY DEF Disconnect, workers
<1>1. ThreadsOK' /\ \A t \in Threads : thread'[t].obj = thread[t].obj
  <2>1. CASE thread' = thread
    BY <1>0, <1>u, <2>1 DEF ThreadsOK
  <2>2. CASE thread' = [thread EXCEPT ![Main].pc = "disconnected"]
    <3>1. PICK j : j = [Idle EXCEPT !.pc = "disconnected"]
      OBVIOUS
    <3>2. j \in JobTypes(Pcs, Nat) /\ j.pc = "disconnected" /\ j.obj = None
      BY <3>1 DEF Idle, JobTypes, Pcs, None
    <3>3. thread' = [thread EXCEPT ![Main] = j]
      BY <1>0, <2>2, <3>1
    <3>4. /\ thread' \in [Threads -> JobTypes(Pcs, Nat)]
          /\ \A s \in Threads :
               /\ thread'[s].pc = "user" <=> thread'[s].obj # None
               /\ thread'[s].pc \in {"taken", "ready"} => thread'[s].id \in Ids
          /\ thread'[Main] = j /\ \A s \in Threads : s # Main => thread'[s] = thread[s]
      BY <1>0, <3>2, <3>3, SetThread
    <3>5. thread[Main].obj = None
      BY <1>0 DEF Idle
    <3> QED BY <1>0, <1>u, <3>2, <3>4, <3>5 DEF ThreadsOK
  <2> QED BY <2>1, <2>2 DEF Disconnect
<1>2. steps' \in [objects : Nat, events : Nat, drops : Nat, claims : Int] /\ steps'.objects = steps.objects
  BY <1>0 DEF Typed, Disconnect, Bump
<1>3. CASE UNCHANGED <<heap, msgs, guilds>>
  <2>1. UNCHANGED <<msgs, guilds, heap, lost, owned>> /\ wild' \in BOOLEAN /\ (wild => wild')
    BY <1>0, <1>u, <1>3
  <2> QED BY <1>1, <1>2, <2>1, Still
<1>4. CASE heap' = Emptied(heap) /\ EmptyMaps
  <2>0. \A x \in Objects : x # None /\ heap[x].visits \in Nat
    BY <1>0, DispatchAssumption DEF DispatchAssumption, Objects, None, Table
  <2>m. \A x \in Objects : /\ x \in Mapped(msgs) <=> InMap(msgs, x) /\ ~InMap(msgs', x)
                           /\ x \in Mapped(guilds) <=> InMap(guilds, x) /\ ~InMap(guilds', x)
    <3>1. \A i \in Ids : msgs'[i] = None /\ guilds'[i] = None
      BY <1>4 DEF EmptyMaps
    <3> QED BY <2>0, <3>1 DEF InMap, Mapped
  <2>1. PICK h : h = Release(heap, Mapped(msgs))
    OBVIOUS
  <2>2. /\ h \in Table
        /\ \A x \in Objects :
             /\ h[x].visits = heap[x].visits - Bit(x \in Mapped(msgs))
             /\ h[x].claims = heap[x].claims
    <3>1. \A o \in Objects \cap Mapped(msgs) : heap[o].visits > heap[o].claims
      BY <1>0, <2>m, MappedCounted
    <3> QED BY <1>0, <2>1, <3>1, ReleaseEffect
  <2>3. \A o \in Objects \cap Mapped(guilds) : h[o].visits > h[o].claims
    <3>1. ASSUME NEW o \in Objects \cap Mapped(guilds)
          PROVE  h[o].visits > h[o].claims
      <4>1. /\ heap[o].visits > heap[o].claims
            /\ o \in Mapped(msgs) => heap[o].visits > heap[o].claims + 1
        BY <1>0, <2>m, <3>1, MappedCounted
      <4>2. h[o].visits = heap[o].visits - Bit(o \in Mapped(msgs)) /\ h[o].claims = heap[o].claims
        BY <2>2, <3>1
      <4>3. heap[o].visits \in Nat /\ heap[o].claims \in Nat
        BY <1>0, <3>1 DEF Table
      <4> QED BY <4>1, <4>2, <4>3 DEF Bit
    <3> QED BY <3>1
  <2>4. /\ heap' \in Table
        /\ \A x \in Objects :
             /\ heap'[x].visits = h[x].visits - Bit(x \in Mapped(guilds))
             /\ heap'[x].claims = h[x].claims
    <3>1. heap' = Release(h, Mapped(guilds))
      BY <1>4, <2>1 DEF Emptied
    <3>2. /\ Release(h, Mapped(guilds)) \in Table
          /\ \A x \in Objects :
               /\ Release(h, Mapped(guilds))[x].visits = h[x].visits - Bit(x \in Mapped(guilds))
               /\ Release(h, Mapped(guilds))[x].claims = h[x].claims
      BY <2>2, <2>3, ReleaseEffect
    <3> QED BY <3>1, <3>2
  <2>5. \A x \in Objects :
          /\ heap'[x].visits = heap[x].visits - Bit(InMap(msgs, x) /\ ~InMap(msgs', x))
                               - Bit(InMap(guilds, x) /\ ~InMap(guilds', x))
          /\ heap'[x].claims = heap[x].claims
    BY <2>0, <2>m, <2>2, <2>4 DEF Bit
  <2>6. /\ msgs' \in [Ids -> Nat] /\ guilds' \in [Ids -> Nat]
        /\ \A i \in Ids : msgs'[i] \in {None, msgs[i]} /\ guilds'[i] \in {None, guilds[i]}
    BY <1>4 DEF EmptyMaps, None
  <2>7. UNCHANGED <<owned, lost, wild>>
    BY <1>u
  <2> QED BY <1>0, <1>1, <1>2, <2>4, <2>5, <2>6, <2>7, DropHInv
<1> QED BY <1>3, <1>4 DEF Disconnect

(* The client is freed: nobody holds anything, or a job still runs and     *)
(* nothing is known any more.                                              *)
LEMMA FreeHInv ==
  ASSUME HInv, Free
  PROVE  HInv'
<1>0. Typed /\ ThreadsOK /\ phase = "joined" /\ thread[Main] = Idle
  BY DEF HInv, Typed, ThreadsOK, Free
<1>u. /\ heap' = [o \in Objects |-> NoEntry] /\ EmptyMaps /\ lost' = {}
      /\ owned' = [o \in Objects |-> 0]
      /\ wild' = (\E w \in Workers : thread[w] # Idle)
      /\ steps' = [f \in DOMAIN steps |-> 0]
      /\ UNCHANGED <<queue, thread>>
  BY DEF Free, workers
<1>1. Typed'
  <2>1. ThreadsOK'
    BY <1>0, <1>u DEF ThreadsOK
  <2>2. msgs' \in [Ids -> Nat] /\ guilds' \in [Ids -> Nat]
    BY <1>u DEF EmptyMaps, None
  <2>3. heap' \in Table
    <3>1. NoEntry \in [visits : Nat, claims : Nat]
      BY DEF NoEntry
    <3> QED BY <1>u, <3>1 DEF Table
  <2>4. steps' \in [objects : Nat, events : Nat, drops : Nat, claims : Int]
    BY <1>0, <1>u DEF Typed
  <2>5. wild' \in BOOLEAN
    BY <1>u
  <2> QED BY <1>u, <2>1, <2>2, <2>3, <2>4, <2>5 DEF Typed
<1>2. ASSUME ~wild' PROVE Sound'
  <2>1. \A t \in Threads : thread'[t] = Idle
    BY <1>0, <1>2, <1>u DEF Threads
  <2>2. steps'.objects = 0
    BY <1>0, <1>u DEF Typed
  <2>3. \A i \in Ids : msgs'[i] = None /\ guilds'[i] = None
    BY <1>u DEF EmptyMaps
  <2>4. \A t \in Threads : thread'[t].obj = None
    BY <2>1 DEF Idle
  <2>5. Fresh'
    BY <1>u, <2>2, <2>3, <2>4 DEF Fresh, None
  <2>6. Apart'
    BY <2>3, <2>4 DEF Apart, Distinct
  <2>7. Accounts'
    <3>1. ASSUME NEW x \in Objects
          PROVE  heap'[x].visits = Owed(x)' /\ heap'[x].claims = owned'[x]
      <4>0. x # None
        BY DispatchAssumption DEF DispatchAssumption, Objects, None
      <4>1. heap'[x].visits = 0 /\ heap'[x].claims = 0
        BY <1>u DEF NoEntry
      <4>2. ~InThread(x)' /\ ~InMap(msgs, x)' /\ ~InMap(guilds, x)'
        BY <2>3, <2>4, <4>0 DEF InThread, InMap
      <4>3. owned'[x] = 0 /\ x \notin lost'
        BY <1>u
      <4> QED BY <4>1, <4>2, <4>3 DEF Owed, Bit
    <3> QED BY <3>1 DEF Accounts
  <2> QED BY <2>5, <2>6, <2>7 DEF Sound
<1> QED BY <1>1, <1>2 DEF HInv

\* At first there are no objects, and nobody holds one.
LEMMA InitHInv == Init => HInv
<1> SUFFICES ASSUME Init PROVE HInv
  OBVIOUS
<1>1. \A t \in Threads : thread[t] = Idle
  BY DEF Init
<1>2. Idle \in JobTypes(Pcs, Nat) /\ Idle.pc = "idle" /\ Idle.obj = None
  BY DEF Idle, JobTypes, Pcs, None
<1>3. Typed
  <2>1. ThreadsOK
    <3>1. thread \in [Threads -> JobTypes(Pcs, Nat)]
      BY <1>2 DEF Init
    <3>2. queue \in Seq({k \in JobTypes({"ready"}, {None}) : k.id \in Ids})
      BY DEF Init
    <3>3. Main \in Threads
      BY DEF Threads
    <3> QED BY <1>1, <1>2, <3>1, <3>2, <3>3 DEF ThreadsOK
  <2>2. heap \in Table
    <3>1. NoEntry \in [visits : Nat, claims : Nat]
      BY DEF NoEntry
    <3> QED BY <3>1 DEF Init, Table
  <2>3. owned \in [Objects -> Nat]
    BY DEF Init
  <2>4. steps \in [objects : Nat, events : Nat, drops : Nat, claims : Int]
    BY DEF Init
  <2> QED BY <2>1, <2>2, <2>3, <2>4 DEF Init, Typed, None
<1>4. Fresh
  BY <1>1, <1>2 DEF Init, Fresh, None
<1>5. Apart
  BY <1>1, <1>2 DEF Init, Apart, Distinct
<1>6. Accounts
  <2>1. ASSUME NEW x \in Objects
        PROVE  heap[x].visits = Owed(x) /\ heap[x].claims = owned[x]
    <3>0. x # None
      BY DispatchAssumption DEF DispatchAssumption, Objects, None
    <3>1. heap[x].visits = 0 /\ heap[x].claims = 0
      BY DEF Init, NoEntry
    <3>2. ~InThread(x) /\ ~InMap(msgs, x) /\ ~InMap(guilds, x)
      BY <1>1, <1>2, <3>0 DEF Init, InThread, InMap
    <3> QED BY <3>1, <3>2 DEF Init, Owed, Bit
  <2> QED BY <2>1 DEF Accounts
<1> QED BY <1>3, <1>4, <1>5, <1>6 DEF HInv, Sound

-----------------------------------------------------------------------------
(* The dispatch of an event: an object is allocated for it, for the cache  *)
(* and for a callback.                                                     *)

(* What was not allocated yet has no holder and no reference.              *)
LEMMA NewObject ==
  ASSUME Typed, Fresh, NEW x \in Nat, x > steps.objects
  PROVE  /\ ~InThread(x) /\ ~InMap(msgs, x) /\ ~InMap(guilds, x)
         /\ (x \in Objects => owned[x] = 0) /\ x \notin lost
BY DEF Typed, Fresh, InThread, InMap, None

\* An event with a callback keeps its reference for it, another gives it back.
LEMMA LeftEffect ==
  ASSUME NEW h \in Table, NEW e, NEW o, o \in Objects => h[o].visits > h[o].claims
  PROVE  /\ Left(e, o, h) \in Table
         /\ \A x \in Objects :
              /\ Left(e, o, h)[x].visits = h[x].visits - Bit(x = o /\ e \notin cbs)
              /\ Left(e, o, h)[x].claims = h[x].claims
<1>1. CASE e \in cbs
  <2>1. Left(e, o, h) = h
    BY <1>1 DEF Left
  <2> QED BY <1>1, <2>1 DEF Table, Bit
<1>2. CASE e \notin cbs
  <2>1. Left(e, o, h) = Decr(h, o)
    BY <1>2 DEF Left
  <2>2. /\ Decr(h, o) \in Table
        /\ \A x \in Objects : /\ Decr(h, o)[x].visits = h[x].visits - Bit(x = o)
                              /\ Decr(h, o)[x].claims = h[x].claims
    BY DecrEffect
  <2> QED BY <1>2, <2>1, <2>2 DEF Bit
<1> QED BY <1>1, <1>2

\* A value that is put in a map gains a reference, the one it replaces loses one.
LEMMA MapChangedEffect ==
  ASSUME NEW h \in Table, NEW prev, NEW now, prev # now \/ now = None,
         prev \in Objects => h[prev].visits > h[prev].claims,
         now \in Objects => h[now].visits > 0
  PROVE  /\ MapChanged(h, prev, now) \in Table
         /\ \A x \in Objects :
              /\ MapChanged(h, prev, now)[x].visits
                   = h[x].visits - Bit(x = prev) + Bit(x = now)
              /\ MapChanged(h, prev, now)[x].claims = h[x].claims
<1>0. \A x \in Objects : x # None /\ h[x].visits \in Nat
  BY DispatchAssumption DEF DispatchAssumption, Objects, None, Table
<1>d. PICK d : d = IF prev = None THEN h ELSE Decr(h, prev)
  OBVIOUS
<1>1. /\ d \in Table
      /\ \A x \in Objects : /\ d[x].visits = h[x].visits - Bit(x = prev)
                            /\ d[x].claims = h[x].claims
  <2>1. CASE prev = None
    BY <1>0, <1>d, <2>1 DEF Bit
  <2>2. CASE prev # None
    <3>1. /\ Decr(h, prev) \in Table
          /\ \A x \in Objects : /\ Decr(h, prev)[x].visits = h[x].visits - Bit(x = prev)
                                /\ Decr(h, prev)[x].claims = h[x].claims
      BY DecrEffect
    <3> QED BY <1>d, <2>2, <3>1
  <2> QED BY <2>1, <2>2
<1>2. CASE now = None
  <2>1. MapChanged(h, prev, now) = d
    BY <1>2, <1>d DEF MapChanged
  <2> QED BY <1>0, <1>1, <1>2, <2>1 DEF Bit
<1>3. CASE now # None
  <2>1. MapChanged(h, prev, now) = Incr(d, now)
    BY <1>3, <1>d DEF MapChanged
  <2>2. now \in Objects => d[now].visits > 0
    BY <1>0, <1>1, <1>3 DEF Bit
  <2>3. /\ Incr(d, now) \in Table
        /\ \A x \in Objects : /\ Incr(d, now)[x].visits = d[x].visits + Bit(x = now)
                              /\ Incr(d, now)[x].claims = d[x].claims
    BY <1>1, <2>2, IncrEffect
  <2> QED BY <1>1, <2>1, <2>3
<1> QED BY <1>2, <1>3

(* What the cache keeps of the object, and of the copy of a guild.         *)
Kept(x) == Bit(InMap(msgs, x)) + Bit(InMap(guilds, x)) + Bit(x \in lost)

(* The cache's callback leaves its maps and the accounts in order; ev is   *)
(* on its way to the callback of the user, when there is one.              *)
CachedSoundly(e, ev, h) ==
  /\ msgs' \in [Ids -> None..(ev + Copies(e))] /\ Distinct(msgs')
  /\ guilds' \in [Ids -> None..(ev + Copies(e))] /\ Distinct(guilds')
  /\ lost' \subseteq 1..(ev + Copies(e))
  /\ heap' \in Table
  /\ \A x \in Objects :
       /\ heap'[x].visits = h[x].visits + Kept(x)' - Kept(x) + Bit(x = ev /\ e \in cbs)
       /\ heap'[x].claims = h[x].claims

\* A message is put in the map, or replaces the one that was there.
LEMMA CacheMessageEffect ==
  ASSUME Typed, Sound, NEW e, NEW i \in Ids, NEW ev, ev = steps.objects + 1,
         Copies(e) = 0, CacheMessage(e, i, ev, Add(heap, ev))
  PROVE  CachedSoundly(e, ev, heap)
<1>0. /\ heap \in Table /\ ev \in Nat /\ ev # None /\ msgs \in [Ids -> Nat]
      /\ Distinct(msgs) /\ Distinct(guilds)
  BY DEF Typed, None, Sound, Apart
<1>n. ~InMap(msgs, ev) /\ ~InMap(guilds, ev) /\ (ev \in Objects => owned[ev] = 0) /\ ev \notin lost
      /\ ~InThread(ev)
  BY <1>0, NewObject DEF Sound, Typed
<1>o. \A x \in Objects : x # None /\ heap[x].visits \in Nat /\ heap[x].claims \in Nat
  BY <1>0, DispatchAssumption DEF DispatchAssumption, Objects, None, Table
<1>e. ev \in Objects => heap[ev].visits = 0 /\ heap[ev].claims = 0
  BY <1>n DEF Sound, Accounts, Owed, Bit
<1>h. PICK h : h = Add(heap, ev)
  OBVIOUS
<1>1. /\ h \in Table
      /\ \A x \in Objects : /\ h[x].visits = heap[x].visits + Bit(x = ev)
                            /\ h[x].claims = heap[x].claims
  <2>1. /\ h \in Table
        /\ \A x \in Objects : h[x] = IF x = ev THEN [visits |-> 1, claims |-> 0] ELSE heap[x]
    BY <1>0, <1>h, AddEffect
  <2> QED BY <1>e, <1>o, <2>1 DEF Bit
<1>p. PICK prev : prev = msgs[i]
  OBVIOUS
<1>w. PICK now : now = MapValue(e, prev, ev)
  OBVIOUS
<1>2. now \in {None, prev, ev} /\ prev \in Nat /\ prev # ev
      /\ (prev # None => InMap(msgs, prev))
  BY <1>0, <1>n, <1>p, <1>w DEF MapValue, InMap
<1>g. PICK g : g = IF now = prev THEN h ELSE MapChanged(h, prev, now)
  OBVIOUS
<1>3. /\ g \in Table
      /\ \A x \in Objects :
           /\ g[x].visits = heap[x].visits + Bit(x = ev) - Bit(x = prev) + Bit(x = now)
           /\ g[x].claims = heap[x].claims
  <2>1. CASE now = prev
    BY <1>o, <1>1, <1>g, <2>1 DEF Bit
  <2>2. CASE now # prev
    <3>1. prev \in Objects => h[prev].visits > h[prev].claims
      BY <1>o, <1>1, <1>2, MappedCounted DEF Bit
    <3>2. now \in Objects => h[now].visits > 0
      BY <1>o, <1>1, <1>2, <2>2 DEF Bit
    <3>3. /\ MapChanged(h, prev, now) \in Table
          /\ \A x \in Objects :
               /\ MapChanged(h, prev, now)[x].visits
                    = h[x].visits - Bit(x = prev) + Bit(x = now)
               /\ MapChanged(h, prev, now)[x].claims = h[x].claims
      BY <1>1, <2>2, <3>1, <3>2, MapChangedEffect
    <3>4. g = MapChanged(h, prev, now)
      BY <1>g, <2>2
    <3> QED BY <1>o, <1>1, <3>3, <3>4 DEF Bit
  <2> QED BY <2>1, <2>2
<1>4. /\ heap' \in Table
      /\ \A x \in Objects :
           /\ heap'[x].visits = g[x].visits - Bit(x = ev /\ e \notin cbs)
           /\ heap'[x].claims = g[x].claims
  <2>1. ev \in Objects => g[ev].visits > g[ev].claims
    BY <1>e, <1>2, <1>3 DEF Bit
  <2>2. heap' = Left(e, ev, g)
    BY <1>h, <1>p, <1>w, <1>g DEF CacheMessage
  <2> QED BY <1>3, <2>1, <2>2, LeftEffect
<1>5. msgs' = [msgs EXCEPT ![i] = now] /\ UNCHANGED <<guilds, lost>>
  BY <1>p, <1>w DEF CacheMessage
<1>6. /\ msgs' \in [Ids -> Nat] /\ Distinct(msgs')
      /\ \A x : x # None => (InMap(msgs', x) <=> x = now \/ (InMap(msgs, x) /\ x # prev))
  <2>1. now \in Nat /\ (now \in {None, msgs[i]} \/ ~InMap(msgs, now))
    BY <1>0, <1>2, <1>n, <1>p DEF None
  <2> QED BY <1>0, <1>5, <1>p, <2>1, PutEffect
<1>7. /\ msgs' \in [Ids -> None..(ev + Copies(e))]
      /\ guilds' \in [Ids -> None..(ev + Copies(e))]
      /\ lost' \subseteq 1..(ev + Copies(e))
  <2>1. steps.objects \in Nat /\ lost \subseteq Nat \ {None}
    BY DEF Typed
  <2>2. /\ \A j \in Ids : msgs[j] \in None..steps.objects /\ guilds[j] \in None..steps.objects
        /\ \A x \in lost : x \in None..steps.objects
    BY DEF Sound, Fresh
  <2>3. \A j \in Ids : msgs'[j] \in {msgs[j], now} /\ guilds'[j] = guilds[j]
    BY <1>0, <1>5
  <2>4. now \in None..ev
    BY <1>2, <1>p, <2>1, <2>2 DEF None
  <2>5. guilds' \in [Ids -> Nat]
    BY <1>5 DEF Typed
  <2>6. \A j \in Ids : msgs'[j] \in None..ev /\ guilds'[j] \in None..ev
    BY <2>1, <2>2, <2>3, <2>4 DEF None
  <2>7. lost' \subseteq 1..ev
    BY <1>5, <2>1, <2>2 DEF None
  <2>8. ev + Copies(e) = ev
    BY <1>0
  <2> QED BY <1>6, <2>5, <2>6, <2>7, <2>8
<1>8. ASSUME NEW x \in Objects
      PROVE  heap'[x].visits = heap[x].visits + Kept(x)' - Kept(x) + Bit(x = ev /\ e \in cbs)
  <2>1. (InMap(msgs, x)' <=> x = now \/ (InMap(msgs, x) /\ x # prev))
        /\ (InMap(guilds, x)' <=> InMap(guilds, x)) /\ (x \in lost' <=> x \in lost)
    BY <1>o, <1>5, <1>6 DEF InMap
  <2>2. x = prev => InMap(msgs, x)
    BY <1>o, <1>2
  <2>3. x = now /\ now # prev => ~InMap(msgs, x)
    BY <1>o, <1>2, <1>n
  <2>4. Kept(x)' - Kept(x) = Bit(x = now) - Bit(x = prev)
    BY <2>1, <2>2, <2>3 DEF Kept, Bit
  <2>5. Kept(x)' \in Int /\ Kept(x) \in Int
    BY DEF Kept, Bit
  <2>6. heap'[x].visits = heap[x].visits + Bit(x = ev) - Bit(x = prev) + Bit(x = now)
                          - Bit(x = ev /\ e \notin cbs)
    BY <1>o, <1>3, <1>4 DEF Bit
  <2> QED BY <1>o, <2>4, <2>5, <2>6 DEF Bit
<1>9. \A x \in Objects : heap'[x].claims = heap[x].claims
  BY <1>3, <1>4
<1>10. Distinct(guilds')
  BY <1>0, <1>5
<1> QED BY <1>4, <1>6, <1>7, <1>8, <1>9, <1>10 DEF CachedSoundly

(* The copy of a guild is in the map, or lost; a guild it replaces, or one *)
(* that is gone, is given back.                                            *)
LEMMA CacheGuildEffect ==
  ASSUME Typed, Sound, NEW e \in GuildEvents, NEW i \in Ids, NEW ev, ev = steps.objects + 1,
         Copies(e) = (IF e = "GUILD_DELETE" THEN 0 ELSE 1),
         CacheGuild(e, i, ev, Add(heap, ev))
  PROVE  CachedSoundly(e, ev, heap)
<1>0. /\ heap \in Table /\ ev \in Nat /\ ev # None /\ guilds \in [Ids -> Nat]
      /\ Distinct(msgs) /\ Distinct(guilds)
  BY DEF Typed, None, Sound, Apart
<1>c. PICK copy \in Nat : copy = ev + 1
  BY <1>0
<1>n. /\ ~InMap(msgs, ev) /\ ~InMap(guilds, ev) /\ (ev \in Objects => owned[ev] = 0) /\ ev \notin lost
      /\ ~InThread(ev)
      /\ ~InMap(msgs, copy) /\ ~InMap(guilds, copy) /\ (copy \in Objects => owned[copy] = 0) /\ copy \notin lost
      /\ ~InThread(copy)
  BY <1>0, <1>c, NewObject DEF Sound, Typed
<1>o. \A x \in Objects : x # None /\ heap[x].visits \in Nat /\ heap[x].claims \in Nat
  BY <1>0, DispatchAssumption DEF DispatchAssumption, Objects, None, Table
<1>e. /\ ev \in Objects => heap[ev].visits = 0 /\ heap[ev].claims = 0
      /\ copy \in Objects => heap[copy].visits = 0 /\ heap[copy].claims = 0
  BY <1>n DEF Sound, Accounts, Owed, Bit
<1>h. PICK h : h = Add(heap, ev)
  OBVIOUS
<1>1. /\ h \in Table
      /\ \A x \in Objects : /\ h[x].visits = heap[x].visits + Bit(x = ev)
                            /\ h[x].claims = heap[x].claims
  <2>1. /\ h \in Table
        /\ \A x \in Objects : h[x] = IF x = ev THEN [visits |-> 1, claims |-> 0] ELSE heap[x]
    BY <1>0, <1>h, AddEffect
  <2> QED BY <1>e, <1>o, <2>1 DEF Bit
<1>a. PICK a : a = IF e = "GUILD_DELETE" THEN h ELSE Add(h, copy)
  OBVIOUS
<1>2. /\ a \in Table
      /\ \A x \in Objects :
           /\ a[x].visits = heap[x].visits + Bit(x = ev) + Bit(x = copy /\ e # "GUILD_DELETE")
           /\ a[x].claims = heap[x].claims
  <2>1. CASE e = "GUILD_DELETE"
    BY <1>o, <1>1, <1>a, <2>1 DEF Bit
  <2>2. CASE e # "GUILD_DELETE"
    <3>1. /\ Add(h, copy) \in Table
          /\ \A x \in Objects :
               Add(h, copy)[x] = IF x = copy THEN [visits |-> 1, claims |-> 0] ELSE h[x]
      BY <1>1, AddEffect
    <3>2. a = Add(h, copy)
      BY <1>a, <2>2
    <3>3. ASSUME NEW x \in Objects
          PROVE  /\ a[x].visits = heap[x].visits + Bit(x = ev) + Bit(x = copy)
                 /\ a[x].claims = heap[x].claims
      <4>1. CASE x = copy
        BY <1>0, <1>c, <1>e, <3>1, <3>2, <4>1 DEF Bit
      <4>2. CASE x # copy
        BY <1>o, <1>1, <3>1, <3>2, <4>2 DEF Bit
      <4> QED BY <4>1, <4>2
    <3> QED BY <2>2, <3>1, <3>2, <3>3 DEF Bit
  <2> QED BY <2>1, <2>2
<1>p. PICK prev : prev = guilds[i]
  OBVIOUS
<1>w. PICK now : now = MapValue(e, prev, copy)
  OBVIOUS
<1>3. /\ now \in {None, prev, copy} /\ prev \in Nat /\ prev # ev /\ prev # copy
      /\ prev # None => InMap(guilds, prev)
      /\ e = "GUILD_DELETE" => now = None
      /\ e # "GUILD_DELETE" => now = copy \/ (e = "GUILD_CREATE" /\ now = prev)
  BY <1>0, <1>n, <1>p, <1>w DEF MapValue, InMap, GuildEvents
<1>g. PICK g : g = IF now = prev THEN a ELSE Release(a, {prev})
  OBVIOUS
<1>4. /\ g \in Table
      /\ \A x \in Objects :
           /\ g[x].visits = heap[x].visits + Bit(x = ev)
                            + Bit(x = copy /\ e # "GUILD_DELETE") - Bit(x = prev /\ now # prev)
           /\ g[x].claims = heap[x].claims
  <2>1. CASE now = prev
    BY <1>o, <1>2, <1>g, <2>1 DEF Bit
  <2>2. CASE now # prev
    <3>1. \A x \in Objects \cap {prev} : a[x].visits > a[x].claims
      <4>1. ASSUME NEW x \in Objects, x = prev
            PROVE  a[x].visits > a[x].claims
        <5>1. heap[x].visits > heap[x].claims
          BY <1>o, <1>3, <4>1, MappedCounted
        <5>2. a[x].visits = heap[x].visits /\ a[x].claims = heap[x].claims
          BY <1>o, <1>2, <1>3, <4>1 DEF Bit
        <5> QED BY <5>1, <5>2
      <4> QED BY <4>1
    <3>2. /\ Release(a, {prev}) \in Table
          /\ \A x \in Objects :
               /\ Release(a, {prev})[x].visits = a[x].visits - Bit(x \in {prev})
               /\ Release(a, {prev})[x].claims = a[x].claims
      BY <1>2, <3>1, ReleaseEffect
    <3>3. g = Release(a, {prev})
      BY <1>g, <2>2
    <3>4. \A x \in Objects : Bit(x \in {prev}) = Bit(x = prev /\ now # prev)
      BY <2>2 DEF Bit
    <3>5. \A x \in Objects : a[x].visits \in Int
      BY <1>2 DEF Table
    <3>6. ASSUME NEW x \in Objects
          PROVE  /\ g[x].visits = heap[x].visits + Bit(x = ev)
                                  + Bit(x = copy /\ e # "GUILD_DELETE")
                                  - Bit(x = prev /\ now # prev)
                 /\ g[x].claims = heap[x].claims
      <4>1. /\ g[x].visits = a[x].visits - Bit(x \in {prev})
            /\ g[x].claims = a[x].claims
        BY <3>2, <3>3
      <4>2. /\ Bit(x = ev) \in Int /\ Bit(x = copy /\ e # "GUILD_DELETE") \in Int
            /\ Bit(x = prev /\ now # prev) \in Int
        BY DEF Bit
      <4> QED BY <1>o, <1>2, <3>4, <4>1, <4>2
    <3>7. g \in Table
      BY <3>2, <3>3
    <3> QED BY <3>6, <3>7
  <2> QED BY <2>1, <2>2
<1>5. /\ heap' \in Table
      /\ \A x \in Objects :
           /\ heap'[x].visits = g[x].visits - Bit(x = ev /\ e \notin cbs)
           /\ heap'[x].claims = g[x].claims
  <2>1. ev \in Objects => g[ev].visits > g[ev].claims
    BY <1>0, <1>c, <1>e, <1>3, <1>4 DEF Bit
  <2>2. heap' = Left(e, ev, g)
    <3>1. /\ MapValue(e, guilds[i], ev + 1) = now
          /\ (IF e = "GUILD_DELETE" THEN h ELSE Add(h, ev + 1)) = a
      BY <1>c, <1>p, <1>w, <1>a
    <3> QED BY <1>h, <1>p, <1>g, <3>1 DEF CacheGuild
  <2> QED BY <1>4, <2>1, <2>2, LeftEffect
<1>6. /\ guilds' = [guilds EXCEPT ![i] = now] /\ UNCHANGED msgs
      /\ lost' = IF e = "GUILD_CREATE" /\ now # copy THEN lost \cup {copy} ELSE lost
  <2>1. MapValue(e, guilds[i], ev + 1) = now
    BY <1>c, <1>p, <1>w
  <2> QED BY <1>c, <2>1 DEF CacheGuild
<1>7. /\ guilds' \in [Ids -> Nat] /\ Distinct(guilds')
      /\ \A x : x # None => (InMap(guilds', x) <=> x = now \/ (InMap(guilds, x) /\ x # prev))
  <2>1. now \in Nat /\ (now \in {None, guilds[i]} \/ ~InMap(guilds, now))
    BY <1>0, <1>3, <1>n, <1>p DEF None
  <2> QED BY <1>0, <1>6, <1>p, <2>1, PutEffect
<1>8. /\ msgs' \in [Ids -> None..(ev + Copies(e))]
      /\ guilds' \in [Ids -> None..(ev + Copies(e))]
      /\ lost' \subseteq 1..(ev + Copies(e))
  <2>0. PICK top \in Nat : top = ev + Copies(e)
    BY <1>0
  <2>1. steps.objects \in Nat /\ lost \subseteq Nat \ {None}
    BY DEF Typed
  <2>2. /\ \A j \in Ids : msgs[j] \in None..steps.objects /\ guilds[j] \in None..steps.objects
        /\ \A x \in lost : x \in None..steps.objects
    BY DEF Sound, Fresh
  <2>3. \A j \in Ids : guilds'[j] \in {guilds[j], now} /\ msgs'[j] = msgs[j]
    BY <1>0, <1>6
  <2>4. now \in None..top
    BY <1>c, <1>3, <1>p, <2>0, <2>1, <2>2 DEF None
  <2>5. msgs' \in [Ids -> Nat]
    BY <1>6 DEF Typed
  <2>6. \A j \in Ids : msgs'[j] \in None..top /\ guilds'[j] \in None..top
    BY <2>0, <2>1, <2>2, <2>3, <2>4 DEF None
  <2>7. lost' \subseteq 1..top
    <3>1. e = "GUILD_CREATE" => copy = top
      BY <1>c, <2>0
    <3>2. \A x \in lost : x \in 1..top
      BY <2>0, <2>1, <2>2 DEF None
    <3>3. copy \in 1..copy
      BY <1>0, <1>c
    <3> QED BY <1>6, <3>1, <3>2, <3>3
  <2> QED BY <1>7, <2>0, <2>5, <2>6, <2>7
<1>9. ASSUME NEW x \in Objects
      PROVE  heap'[x].visits = heap[x].visits + Kept(x)' - Kept(x) + Bit(x = ev /\ e \in cbs)
  <2>1. /\ InMap(guilds, x)' <=> x = now \/ (InMap(guilds, x) /\ x # prev)
        /\ InMap(msgs, x)' <=> InMap(msgs, x)
        /\ x \in lost' <=> x \in lost \/ (x = copy /\ e = "GUILD_CREATE" /\ now # copy)
    BY <1>o, <1>6, <1>7 DEF InMap
  <2>2. x = prev => InMap(guilds, x)
    BY <1>o, <1>3
  <2>3. x = copy => ~InMap(guilds, x) /\ x \notin lost
    BY <1>n
  <2>4. Kept(x)' - Kept(x) = Bit(x = copy /\ e # "GUILD_DELETE") - Bit(x = prev /\ now # prev)
    <3>1. CASE e = "GUILD_DELETE"
      BY <1>o, <1>3, <2>1, <2>2, <2>3, <3>1 DEF Kept, Bit
    <3>2. CASE e # "GUILD_DELETE" /\ now = copy
      BY <1>o, <1>3, <2>1, <2>2, <2>3, <3>2 DEF Kept, Bit
    <3>3. CASE e = "GUILD_CREATE" /\ now = prev
      BY <1>o, <1>3, <2>1, <2>2, <2>3, <3>3 DEF Kept, Bit
    <3> QED BY <1>3, <3>1, <3>2, <3>3
  <2>5. Kept(x)' \in Int /\ Kept(x) \in Int
    BY DEF Kept, Bit
  <2>6. heap'[x].visits = heap[x].visits + Bit(x = ev)
                          + Bit(x = copy /\ e # "GUILD_DELETE") - Bit(x = prev /\ now # prev)
                          - Bit(x = ev /\ e \notin cbs)
    BY <1>o, <1>4, <1>5 DEF Bit
  <2> QED BY <1>o, <2>4, <2>5, <2>6 DEF Bit
<1>10. \A x \in Objects : heap'[x].claims = heap[x].claims
  BY <1>4, <1>5
<1>11. Distinct(msgs')
  BY <1>0, <1>6
<1> QED BY <1>5, <1>7, <1>8, <1>9, <1>10, <1>11 DEF CachedSoundly

\* So does every callback of the cache, those that do nothing included.
LEMMA CacheCallbackEffect ==
  ASSUME Typed, Sound, NEW e, NEW i \in Ids, NEW ev, ev = steps.objects + 1,
         CacheCallback(e, i, ev, Add(heap, ev))
  PROVE  CachedSoundly(e, ev, heap)
<1>1. CASE e \in CacheHears \cap MessageEvents /\ CacheMessage(e, i, ev, Add(heap, ev))
  <2>1. Copies(e) = 0
    BY <1>1 DEF Copies, MessageEvents
  <2> QED BY <1>1, <2>1, CacheMessageEffect
<1>2. CASE e \in CacheHears \cap GuildEvents /\ CacheGuild(e, i, ev, Add(heap, ev))
  <2>1. Copies(e) = (IF e = "GUILD_DELETE" THEN 0 ELSE 1)
    BY <1>2 DEF Copies, GuildEvents
  <2> QED BY <1>2, <2>1, CacheGuildEffect
<1>3. CASE heap' = Left(e, ev, Add(heap, ev)) /\ UNCHANGED <<msgs, guilds, lost>>
           /\ (e \notin CacheHears \/ e = "READY")
  <2>0. /\ heap \in Table /\ ev \in Nat /\ ev # None
        /\ Distinct(msgs) /\ Distinct(guilds)
    BY DEF Typed, None, Sound, Apart
  <2>c. Copies(e) = 0
    BY <1>3 DEF Copies
  <2>n. ~InMap(msgs, ev) /\ ~InMap(guilds, ev) /\ (ev \in Objects => owned[ev] = 0) /\ ev \notin lost
        /\ ~InThread(ev)
    BY <2>0, NewObject DEF Sound, Typed
  <2>o. \A x \in Objects : x # None /\ heap[x].visits \in Nat /\ heap[x].claims \in Nat
    BY <2>0, DispatchAssumption DEF DispatchAssumption, Objects, None, Table
  <2>e. ev \in Objects => heap[ev].visits = 0 /\ heap[ev].claims = 0
    BY <2>n DEF Sound, Accounts, Owed, Bit
  <2>h. PICK h : h = Add(heap, ev)
    OBVIOUS
  <2>1. /\ h \in Table
        /\ \A x \in Objects : /\ h[x].visits = heap[x].visits + Bit(x = ev)
                              /\ h[x].claims = heap[x].claims
    <3>1. /\ h \in Table
          /\ \A x \in Objects : h[x] = IF x = ev THEN [visits |-> 1, claims |-> 0] ELSE heap[x]
      BY <2>0, <2>h, AddEffect
    <3> QED BY <2>e, <2>o, <3>1 DEF Bit
  <2>2. /\ heap' \in Table
        /\ \A x \in Objects :
             /\ heap'[x].visits = h[x].visits - Bit(x = ev /\ e \notin cbs)
             /\ heap'[x].claims = h[x].claims
    <3>1. ev \in Objects => h[ev].visits > h[ev].claims
      BY <2>e, <2>1 DEF Bit
    <3> QED BY <1>3, <2>h, <2>1, <3>1, LeftEffect
  <2>3. /\ msgs' \in [Ids -> None..(ev + Copies(e))]
        /\ guilds' \in [Ids -> None..(ev + Copies(e))]
        /\ lost' \subseteq 1..(ev + Copies(e))
    <3>1. /\ steps.objects \in Nat /\ lost \subseteq Nat \ {None}
          /\ msgs \in [Ids -> Nat] /\ guilds \in [Ids -> Nat]
      BY DEF Typed
    <3>2. /\ \A j \in Ids : msgs[j] \in None..steps.objects /\ guilds[j] \in None..steps.objects
          /\ \A x \in lost : x \in None..steps.objects
      BY DEF Sound, Fresh
    <3>3. /\ \A j \in Ids : msgs[j] \in None..ev /\ guilds[j] \in None..ev
          /\ lost \subseteq 1..ev
      BY <2>0, <3>1, <3>2 DEF None
    <3>4. ev + Copies(e) = ev
      BY <2>0, <2>c
    <3> QED BY <1>3, <3>1, <3>3, <3>4
  <2>4. \A x \in Objects : Kept(x)' = Kept(x)
    BY <1>3 DEF Kept, InMap, Bit
  <2>5. \A x \in Objects :
          /\ heap'[x].visits = heap[x].visits + Kept(x)' - Kept(x) + Bit(x = ev /\ e \in cbs)
          /\ heap'[x].claims = heap[x].claims
    <3>1. \A x : Kept(x) \in Int
      BY DEF Kept, Bit
    <3> QED BY <2>o, <2>1, <2>2, <2>4, <3>1 DEF Bit
  <2> QED BY <1>3, <2>0, <2>2, <2>3, <2>5 DEF CachedSoundly
<1> QED BY <1>1, <1>2, <1>3 DEF CacheCallback

\* The account of one object.
LEMMA AccountOf ==
  ASSUME Sound, NEW x \in Objects
  PROVE  heap[x].visits = Owed(x) /\ heap[x].claims = owned[x]
BY DEF Sound, Accounts

(* An event's object goes to the cache, to the callback, to both or to none. *)
LEMMA ArriveHInv ==
  ASSUME HInv, ~wild, NEW t \in Threads, NEW ev, ev = steps.objects + 1,
         NEW top \in Nat, top >= ev,
         msgs' \in [Ids -> None..top], guilds' \in [Ids -> None..top],
         Distinct(msgs'), Distinct(guilds'), lost' \subseteq 1..top, heap' \in Table,
         NEW o \in {ev, None},
         \A x \in Objects :
           /\ heap'[x].visits = heap[x].visits + Kept(x)' - Kept(x) + Bit(x = o)
           /\ heap'[x].claims = heap[x].claims,
         ThreadsOK', thread[t].obj = None,
         thread'[t].obj = o,
         \A s \in Threads : s # t => thread'[s] = thread[s],
         steps' \in [objects : Nat, events : Nat, drops : Nat, claims : Int], steps'.objects = top,
         UNCHANGED <<owned, wild>>
  PROVE  HInv'
<1>0. /\ Typed /\ Sound /\ wild = FALSE /\ steps.objects \in Nat /\ ev \in Nat /\ ev # None
      /\ owned \in [Objects -> Nat]
  BY DEF HInv, Typed, None
<1>f. /\ \A s \in Threads : thread[s].obj \in None..steps.objects
      /\ \A x \in Objects : owned[x] > 0 => x \in None..steps.objects
  BY <1>0 DEF Sound, Fresh
<1>1. Typed'
  <2>1. \A i \in Ids : msgs'[i] \in Nat /\ guilds'[i] \in Nat
    BY DEF None
  <2>2. lost' \subseteq Nat \ {None}
    BY DEF None
  <2> QED BY <1>0, <2>1, <2>2 DEF Typed
<1>2. Fresh'
  <2>1. \A s \in Threads : thread'[s].obj \in None..top
    BY <1>0, <1>f DEF None
  <2>2. /\ \A x \in Objects : owned'[x] > 0 => x \in None..top
        /\ lost' \subseteq None..top
    BY <1>0, <1>f DEF None
  <2> QED BY <2>1, <2>2 DEF Fresh
<1>n. ~InThread(ev)
  BY <1>0, NewObject DEF Sound
<1>3. Apart'
  <2>1. \A s \in Threads : thread[s].obj # ev
    BY <1>n DEF InThread
  <2>2. \A s, u \in Threads : thread[s].obj = thread[u].obj /\ thread[s].obj # None => s = u
    BY <1>0 DEF Sound, Apart
  <2>3. ASSUME NEW s \in Threads, NEW u \in Threads,
               thread'[s].obj = thread'[u].obj, thread'[s].obj # None
        PROVE  s = u
    <3>1. CASE s = t \/ u = t
      BY <2>1, <2>3, <3>1
    <3>2. CASE s # t /\ u # t
      BY <2>2, <2>3, <3>2
    <3> QED BY <3>1, <3>2
  <2> QED BY <2>3 DEF Apart, Distinct
<1>4. Accounts'
  <2>1. ASSUME NEW x \in Objects
        PROVE  heap'[x].visits = Owed(x)' /\ heap'[x].claims = owned'[x]
    <3>0. x # None
      BY DispatchAssumption DEF DispatchAssumption, Objects, None
    <3>1. heap[x].visits = Owed(x) /\ heap[x].claims = owned[x]
      BY <1>0, AccountOf
    <3>2. InThread(x)' <=> InThread(x) \/ x = o
      <4>1. ASSUME NEW s \in Threads, thread[s].obj = x
            PROVE  InThread(x)'
        <5>1. s # t
          BY <3>0, <4>1
        <5> QED BY <4>1, <5>1 DEF InThread
      <4>2. ASSUME x = o PROVE InThread(x)'
        BY <4>2 DEF InThread
      <4>3. ASSUME NEW s \in Threads, thread'[s].obj = x
            PROVE  InThread(x) \/ x = o
        BY <3>0, <4>3 DEF InThread
      <4>4. InThread(x)' => InThread(x) \/ x = o
        BY <4>3 DEF InThread
      <4>5. InThread(x) => InThread(x)'
        BY <4>1 DEF InThread
      <4> QED BY <4>2, <4>4, <4>5
    <3>3. Bit(InThread(x))' = Bit(InThread(x)) + Bit(x = o)
      BY <1>n, <3>0, <3>2 DEF Bit
    <3>4. /\ Owed(x) = Bit(InThread(x)) + Kept(x) + owned[x]
          /\ Owed(x)' = Bit(InThread(x))' + Kept(x)' + owned[x]
          /\ Kept(x) \in Int /\ Kept(x)' \in Int
          /\ Bit(InThread(x)) \in Int /\ owned[x] \in Int
      BY <1>0 DEF Owed, Kept, Bit
    <3> QED BY <3>1, <3>3, <3>4 DEF Bit
  <2> QED BY <2>1 DEF Accounts
<1> QED BY <1>1, <1>2, <1>3, <1>4 DEF HInv, Sound

\* A job that is ready: the cache first, then the callback or the command.
LEMMA PerformHInv ==
  ASSUME HInv, NEW t \in Threads, NEW c \in Contents, Perform(t, c)
  PROVE  HInv'
<1>0. /\ Typed /\ Sound /\ ThreadsOK /\ wild = FALSE /\ thread[t].pc = "ready"
      /\ thread[t].obj = None /\ thread[t].id \in Ids /\ thread[t] \in JobTypes(Pcs, Nat)
      /\ heap \in Table /\ steps \in [objects : Nat, events : Nat, drops : Nat, claims : Int]
  BY DEF HInv, Typed, ThreadsOK, Perform
<1>u. UNCHANGED <<phase, owned, queue, wild>>
  BY DEF Perform, workers
<1>v. PICK ev \in Nat : ev = steps.objects + 1
  BY <1>0
<1>r. t = Main => phase = "running"
  BY <1>0 DEF ThreadsOK, Idle
(* The thread goes on to the callback with the object ev. *)
<1>c. PICK j : j = [thread[t] EXCEPT !.pc = "user", !.obj = ev]
  OBVIOUS
<1>j. j \in JobTypes(Pcs, Nat) /\ j.pc = "user" /\ j.obj = ev /\ ev # None
  <2>1. ev # None
    BY <1>0, <1>v DEF None
  <2>2. "user" \in Pcs
    BY DEF Pcs
  <2>3. j \in JobTypes(Pcs, Nat) /\ j.pc = "user" /\ j.obj = ev
    BY <1>0, <1>c, <2>2 DEF JobTypes
  <2> QED BY <2>1, <2>3
<1>1. ASSUME thread' = [thread EXCEPT ![t] = j]
      PROVE  /\ ThreadsOK' /\ thread'[t].obj = ev
             /\ \A s \in Threads : s # t => thread'[s] = thread[s]
  <2>1. /\ thread' \in [Threads -> JobTypes(Pcs, Nat)]
        /\ \A s \in Threads :
             /\ thread'[s].pc = "user" <=> thread'[s].obj # None
             /\ thread'[s].pc \in {"taken", "ready"} => thread'[s].id \in Ids
        /\ thread'[t] = j /\ \A s \in Threads : s # t => thread'[s] = thread[s]
    BY <1>0, <1>j, <1>1, SetThread
  <2>2. phase' # "running" => thread'[Main] = Idle
    BY <1>0, <1>u, <1>r, <2>1 DEF ThreadsOK, Threads
  <2> QED BY <1>0, <1>u, <1>j, <2>1, <2>2 DEF ThreadsOK
<1>2. ASSUME thread' = [thread EXCEPT ![t] = After(t)]
      PROVE  /\ ThreadsOK' /\ thread'[t].obj = None
             /\ \A s \in Threads : s # t => thread'[s] = thread[s]
  <2>1. /\ thread' \in [Threads -> JobTypes(Pcs, Nat)]
        /\ \A s \in Threads :
             /\ thread'[s].pc = "user" <=> thread'[s].obj # None
             /\ thread'[s].pc \in {"taken", "ready"} => thread'[s].id \in Ids
        /\ thread'[t] = After(t) /\ \A s \in Threads : s # t => thread'[s] = thread[s]
    BY <1>0, <1>2, AfterType, SetThread
  <2>2. phase' # "running" => thread'[Main] = Idle
    BY <1>0, <1>u, <1>r, <2>1 DEF ThreadsOK, Threads
  <2> QED BY <1>0, <1>u, <2>1, <2>2, AfterType DEF ThreadsOK
<1>3. CASE PerformCommand(t, c)
  <2>1. /\ thread' = [thread EXCEPT ![t] = j] /\ heap' = Add(heap, ev)
        /\ steps' = [steps EXCEPT !.objects = @ + 1] /\ UNCHANGED <<msgs, guilds, lost>>
    BY <1>3, <1>v, <1>c DEF PerformCommand, Bump
  <2>n. ~InMap(msgs, ev) /\ ~InMap(guilds, ev) /\ (ev \in Objects => owned[ev] = 0) /\ ev \notin lost
        /\ ~InThread(ev)
    BY <1>0, <1>v, NewObject DEF Sound, Typed
  <2>e. ev \in Objects => heap[ev].visits = 0 /\ heap[ev].claims = 0
    BY <1>0, <2>n DEF Sound, Accounts, Owed, Bit
  <2>2. /\ heap' \in Table
        /\ \A x \in Objects :
             /\ heap'[x].visits = heap[x].visits + Kept(x)' - Kept(x) + Bit(x = ev)
             /\ heap'[x].claims = heap[x].claims
    <3>1. /\ heap' \in Table
          /\ \A x \in Objects :
               heap'[x] = IF x = ev THEN [visits |-> 1, claims |-> 0] ELSE heap[x]
      BY <1>0, <2>1, AddEffect
    <3>2. \A x : Kept(x)' = Kept(x) /\ Kept(x) \in Int
      BY <2>1 DEF Kept, InMap, Bit
    <3>3. \A x \in Objects : heap[x].visits \in Int
      BY <1>0 DEF Table
    <3> QED BY <2>e, <3>1, <3>2, <3>3 DEF Bit
  <2>3. /\ msgs' \in [Ids -> None..ev] /\ guilds' \in [Ids -> None..ev]
        /\ Distinct(msgs') /\ Distinct(guilds') /\ lost' \subseteq 1..ev
    <3>1. /\ lost \subseteq Nat \ {None} /\ msgs \in [Ids -> Nat] /\ guilds \in [Ids -> Nat]
          /\ Distinct(msgs) /\ Distinct(guilds)
      BY <1>0 DEF Typed, Sound, Apart
    <3>2. /\ \A i \in Ids : msgs[i] \in None..steps.objects /\ guilds[i] \in None..steps.objects
          /\ \A x \in lost : x \in None..steps.objects
      BY <1>0 DEF Sound, Fresh
    <3>3. /\ \A i \in Ids : msgs[i] \in None..ev /\ guilds[i] \in None..ev
          /\ lost \subseteq 1..ev
      BY <1>0, <1>v, <3>1, <3>2 DEF None
    <3> QED BY <2>1, <3>1, <3>3
  <2>4. steps' \in [objects : Nat, events : Nat, drops : Nat, claims : Int] /\ steps'.objects = ev
    BY <1>0, <1>v, <2>1
  <2>5. /\ ThreadsOK' /\ thread[t].obj = None /\ thread'[t].obj = ev
        /\ \A s \in Threads : s # t => thread'[s] = thread[s]
    BY <1>0, <1>1, <2>1
  <2>6. ~wild /\ UNCHANGED <<owned, wild>> /\ ev \in {ev, None} /\ ev >= ev
    BY <1>0, <1>u, <1>v
  <2> QED BY <1>v, <2>2, <2>3, <2>4, <2>5, <2>6, ArriveHInv
<1>4. CASE PerformEvent(t, c)
  <2>e. PICK e : e = thread[t].event
    OBVIOUS
  <2>1. CASE thread' = [thread EXCEPT ![t] = After(t)]
             /\ UNCHANGED <<heap, msgs, guilds, lost, steps>>
    <3>1. \A s \in Threads : thread'[s].obj = thread[s].obj
      BY <1>0, <1>2, <2>1
    <3>2. ThreadsOK' /\ wild' \in BOOLEAN /\ (wild => wild')
          /\ UNCHANGED <<msgs, guilds, heap, lost, owned>>
          /\ steps' \in [objects : Nat, events : Nat, drops : Nat, claims : Int]
          /\ steps'.objects = steps.objects
      BY <1>0, <1>2, <1>u, <2>1
    <3> QED BY <3>1, <3>2, Still
  <2>2. CASE /\ thread' = [thread EXCEPT ![t] = IF e \in cbs THEN j ELSE After(t)]
             /\ steps' = [steps EXCEPT !.objects = @ + (1 + Copies(e))]
             /\ CacheCallback(e, thread[t].id, ev, Add(heap, ev))
    <3>1. CachedSoundly(e, ev, heap)
      BY <1>0, <1>v, <2>2, CacheCallbackEffect
    <3>2. PICK top \in Nat : top = ev + Copies(e) /\ top >= ev
      BY <1>v DEF Copies
    <3>3. steps' \in [objects : Nat, events : Nat, drops : Nat, claims : Int] /\ steps'.objects = top
      BY <1>0, <1>v, <2>2, <3>2 DEF Copies
    <3>4. PICK o \in {ev, None} : o = IF e \in cbs THEN ev ELSE None
      OBVIOUS
    <3>5. /\ ThreadsOK' /\ \A s \in Threads : s # t => thread'[s] = thread[s]
          /\ thread'[t].obj = o
      BY <1>1, <1>2, <2>2, <3>4
    <3>6. /\ msgs' \in [Ids -> None..top] /\ guilds' \in [Ids -> None..top]
          /\ Distinct(msgs') /\ Distinct(guilds') /\ lost' \subseteq 1..top
          /\ heap' \in Table
      BY <3>1, <3>2 DEF CachedSoundly
    <3>7. \A x \in Objects :
            /\ heap'[x].visits = heap[x].visits + Kept(x)' - Kept(x) + Bit(x = o)
            /\ heap'[x].claims = heap[x].claims
      <4>1. \A x \in Objects : Bit(x = o) = Bit(x = ev /\ e \in cbs)
        <5>1. \A x \in Objects : x # None
          BY DispatchAssumption DEF DispatchAssumption, Objects, None
        <5> QED BY <3>4, <5>1 DEF Bit
      <4> QED BY <3>1, <4>1 DEF CachedSoundly
    <3> QED BY <1>0, <1>u, <1>v, <3>2, <3>3, <3>5, <3>6, <3>7, ArriveHInv
  <2> QED BY <1>4, <1>v, <1>c, <2>e, <2>1, <2>2 DEF PerformEvent, Bump
<1> QED BY <1>3, <1>4 DEF Perform

\* Every step keeps the accounts.
LEMMA NextHInv == HInv /\ [Next]_vars => HInv'
<1> SUFFICES ASSUME HInv, [Next]_vars PROVE HInv'
  OBVIOUS
<1>1. CASE UNCHANGED vars
  <2>1. ThreadsOK' /\ UNCHANGED <<msgs, guilds, heap, lost, owned, steps, wild, thread>>
    BY <1>1 DEF HInv, Typed, ThreadsOK, vars, cache, workers
  <2> QED BY <2>1, Still DEF HInv, Typed
<1>2. CASE \/ \E out \in Outcomes : UserGlobalInit(out) \/ ClientInit(out)
           \/ UserGlobalCleanup
           \/ Setup \/ Run \/ RunEnds
  BY <1>2, LifeHInv
<1>3. CASE Network
  BY <1>3, LifeHInv, ReceiveHInv, DisconnectHInv DEF Network
<1>4. CASE \E n \in Ids : Collect({i \in Ids : i =< n})
  BY <1>4, CollectHInv
<1>5. CASE User
  BY <1>5, UserHInv
<1>7. CASE MainThread
  <2>1. Main \in Threads
    BY DEF Threads
  <2> QED BY <1>7, <2>1, PerformHInv, ReturnHInv, InvalidateHInv DEF MainThread
<1>8. CASE \E w \in Workers : Worker(w)
  <2>1. Workers \subseteq Threads
    BY DEF Threads
  <2> QED BY <1>8, <2>1, WorkerHInv, PerformHInv, ReturnHInv DEF Worker
<1>9. CASE Cleanup
  BY <1>9, LifeHInv, FreeHInv DEF Cleanup
<1> QED BY <1>1, <1>2, <1>3, <1>4, <1>5, <1>7, <1>8, <1>9 DEF Next

(* Whatever is dispatched, cached, collected, claimed and given back on    *)
(* however many threads: an object has one reference for each holder, and  *)
(* no other except that of a copy of a guild the map refused.              *)
THEOREM CountsMatchHolders == Spec => []CountsAreHolders
<1>1. HInv => CountsAreHolders
  BY SoundCounts DEF HInv, CountsAreHolders
<1> QED BY <1>1, InitHInv, NextHInv, PTL DEF Spec

-----------------------------------------------------------------------------
(* The pool and the bounds: count is the number of jobs that run, and each *)
(* event that waits for its dispatch has two objects left.                 *)

Working == {"ready", "user", "done"}
Waiting == {"taken", "ready"}

Those(th, T, pcs) == {t \in T : th[t].pc \in pcs}

\* 1 when t is one of those.
One(th, T, pcs, t) == Bit(t \in T /\ th[t].pc \in pcs)

Pending == Len(queue) + Cardinality(Those(thread, Threads, Waiting))

Counting == count = Cardinality(Those(thread, Workers, Working))

Budget ==
  /\ steps.events =< MaxEvents
  /\ steps.objects + 2 * Pending =< 2 * MaxEvents
  /\ phase \in {"none", "setup", "running"} => steps.objects + 2 * Pending =< 2 * steps.events

Pool == Counting /\ Budget /\ Len(queue) =< QueueSize /\ count \in Nat

\* The threads can be counted.
LEMMA ThreadsFinite == IsFiniteSet(Workers) /\ IsFiniteSet(Threads)
<1>1. IsFiniteSet(Workers)
  BY DispatchAssumption DEF DispatchAssumption
<1> QED BY <1>1, FS_Singleton, FS_Union DEF Threads

LEMMA ThoseCount ==
  ASSUME NEW T, IsFiniteSet(T), NEW pcs, NEW th
  PROVE  Cardinality(Those(th, T, pcs)) \in Nat
<1>1. Those(th, T, pcs) \subseteq T
  BY DEF Those
<1> QED BY <1>1, FS_Subset, FS_CardinalityType

\* A thread's job changes: it is one of those or it is not.
LEMMA ThoseMove ==
  ASSUME NEW T, IsFiniteSet(T), NEW pcs, NEW old, NEW new, NEW t,
         \A s \in T : s # t => new[s] = old[s]
  PROVE  Cardinality(Those(new, T, pcs))
           = Cardinality(Those(old, T, pcs)) + One(new, T, pcs, t) - One(old, T, pcs, t)
<1>a. PICK A : A = Those(old, T, pcs)
  OBVIOUS
<1>b. PICK B : B = Those(new, T, pcs)
  OBVIOUS
<1>1. IsFiniteSet(A) /\ IsFiniteSet(B)
  <2>1. A \subseteq T /\ B \subseteq T
    BY <1>a, <1>b DEF Those
  <2> QED BY <2>1, FS_Subset
<1>2. Cardinality(A) \in Nat /\ Cardinality(B) \in Nat
  BY <1>1, FS_CardinalityType
<1>3. \A s : s # t => (s \in A <=> s \in B)
  BY <1>a, <1>b DEF Those
<1>4. /\ t \in A <=> t \in T /\ old[t].pc \in pcs
      /\ t \in B <=> t \in T /\ new[t].pc \in pcs
  BY <1>a, <1>b DEF Those
<1>5. Cardinality(B) = Cardinality(A) + Bit(t \in B) - Bit(t \in A)
  <2>1. CASE t \in A <=> t \in B
    <3>1. \A s : s \in A <=> s \in B
      BY <1>3, <2>1
    <3>2. A = B
      BY <3>1
    <3> QED BY <1>2, <2>1, <3>2 DEF Bit
  <2>2. CASE t \in A /\ t \notin B
    <3>1. B = A \ {t}
      BY <1>3, <2>2
    <3> QED BY <1>1, <1>2, <2>2, <3>1, FS_RemoveElement DEF Bit
  <2>3. CASE t \notin A /\ t \in B
    <3>1. B = A \cup {t}
      BY <1>3, <2>3
    <3> QED BY <1>1, <1>2, <2>3, <3>1, FS_AddElement DEF Bit
  <2> QED BY <2>1, <2>2, <2>3
<1> QED BY <1>a, <1>b, <1>2, <1>4, <1>5 DEF One, Bit

\* A step of another part of the program.
LEMMA PoolStill ==
  ASSUME HInv, Pool, UNCHANGED <<thread, queue, count>>,
         steps'.objects \in Nat, steps'.objects =< steps.objects,
         steps'.events =< MaxEvents,
         phase' \in {"none", "setup", "running"} =>
           phase \in {"none", "setup", "running"} /\ steps'.events = steps.events
  PROVE  Pool'
<1>1. Pending' = Pending
  BY DEF Pending, Those
<1>0. Pending \in Nat /\ steps.objects \in Nat /\ steps.events \in Nat /\ MaxEvents \in Nat
  <2>1. Cardinality(Those(thread, Threads, Waiting)) \in Nat /\ Len(queue) \in Nat
    BY ThreadsFinite, ThoseCount DEF HInv, Typed, ThreadsOK
  <2> QED BY <2>1, DispatchAssumption DEF HInv, Typed, DispatchAssumption, Pending
<1>2. Budget'
  BY <1>0, <1>1 DEF Pool, Budget
<1> QED BY <1>2 DEF Pool, Counting, Those

\* What that does to the jobs that run, and to those that wait.
LEMMA JobMove ==
  ASSUME NEW t, \A s \in Threads : s # t => thread'[s] = thread[s]
  PROVE  /\ Cardinality(Those(thread, Workers, Working)) \in Nat
         /\ Cardinality(Those(thread', Workers, Working)) \in Nat
         /\ Cardinality(Those(thread', Workers, Working))
              = Cardinality(Those(thread, Workers, Working))
                + One(thread', Workers, Working, t) - One(thread, Workers, Working, t)
         /\ Cardinality(Those(thread, Threads, Waiting)) \in Nat
         /\ Cardinality(Those(thread', Threads, Waiting)) \in Nat
         /\ Cardinality(Those(thread', Threads, Waiting))
              = Cardinality(Those(thread, Threads, Waiting))
                + One(thread', Threads, Waiting, t) - One(thread, Threads, Waiting, t)
<1>1. IsFiniteSet(Workers) /\ \A s \in Workers : s # t => thread'[s] = thread[s]
  BY ThreadsFinite DEF Threads
<1>2. IsFiniteSet(Threads)
  BY ThreadsFinite
<1>3. /\ Cardinality(Those(thread, Workers, Working)) \in Nat
      /\ Cardinality(Those(thread', Workers, Working)) \in Nat
      /\ Cardinality(Those(thread, Threads, Waiting)) \in Nat
      /\ Cardinality(Those(thread', Threads, Waiting)) \in Nat
  BY <1>1, <1>2, ThoseCount
<1>4. Cardinality(Those(thread', Workers, Working))
        = Cardinality(Those(thread, Workers, Working))
          + One(thread', Workers, Working, t) - One(thread, Workers, Working, t)
  BY <1>1, ThoseMove
<1>5. Cardinality(Those(thread', Threads, Waiting))
        = Cardinality(Those(thread, Threads, Waiting))
          + One(thread', Threads, Waiting, t) - One(thread, Threads, Waiting, t)
  BY <1>2, ThoseMove
<1> QED BY <1>3, <1>4, <1>5

\* The arithmetic of the budget.
LEMMA BudgetMove ==
  ASSUME NEW o \in Nat, NEW o1 \in Nat, NEW e \in Nat, NEW e1 \in Nat, NEW p \in Nat,
         NEW p1 \in Nat, NEW max \in Nat, o1 + 2 * (p1 - p) =< o + 2 * (e1 - e)
  PROVE  /\ o + 2 * p =< 2 * e => o1 + 2 * p1 =< 2 * e1
         /\ e1 =< max /\ o + 2 * p =< 2 * e => o1 + 2 * p1 =< 2 * max
         /\ e1 = e /\ o + 2 * p =< 2 * max => o1 + 2 * p1 =< 2 * max
OBVIOUS

\* What the step of a thread does to the number of events that wait.
LEMMA PendingMoves ==
  ASSUME ThreadsOK, NEW t \in Threads, NEW j \in JobTypes(Pcs, Nat),
         thread' = [thread EXCEPT ![t] = j], Len(queue') \in Nat
  PROVE  /\ Pending \in Nat /\ Pending' \in Nat
         /\ Pending' = Pending + (Len(queue') - Len(queue) + Bit(j.pc \in Waiting)
                                  - Bit(thread[t].pc \in Waiting))
<1>0. thread \in [Threads -> JobTypes(Pcs, Nat)] /\ Len(queue) \in Nat
  BY DEF ThreadsOK
<1>1. thread'[t].pc = j.pc /\ \A s \in Threads : s # t => thread'[s] = thread[s]
  BY <1>0
<1>2. /\ Cardinality(Those(thread, Threads, Waiting)) \in Nat
      /\ Cardinality(Those(thread', Threads, Waiting)) \in Nat
      /\ Cardinality(Those(thread', Threads, Waiting))
           = Cardinality(Those(thread, Threads, Waiting))
             + One(thread', Threads, Waiting, t) - One(thread, Threads, Waiting, t)
  BY <1>1, JobMove
<1>3. /\ One(thread', Threads, Waiting, t) = Bit(j.pc \in Waiting)
      /\ One(thread, Threads, Waiting, t) = Bit(thread[t].pc \in Waiting)
      /\ Bit(j.pc \in Waiting) \in 0..1 /\ Bit(thread[t].pc \in Waiting) \in 0..1
  BY <1>1 DEF One, Bit
<1>4. /\ Pending = Len(queue) + Cardinality(Those(thread, Threads, Waiting))
      /\ Pending' = Len(queue') + Cardinality(Those(thread', Threads, Waiting))
  BY DEF Pending, Those
<1>5. PICK l \in Nat, l1 \in Nat, c \in Nat, c1 \in Nat, w \in 0..1, w1 \in 0..1 :
        /\ l = Len(queue) /\ l1 = Len(queue')
        /\ c = Cardinality(Those(thread, Threads, Waiting))
        /\ c1 = Cardinality(Those(thread', Threads, Waiting))
        /\ w = Bit(thread[t].pc \in Waiting) /\ w1 = Bit(j.pc \in Waiting)
  BY <1>0, <1>2, <1>3
<1>6. c1 = c + w1 - w
  BY <1>2, <1>3, <1>5
<1>7. l1 + c1 = (l + c) + (l1 - l + w1 - w) /\ l + c \in Nat /\ l1 + c1 \in Nat
  BY <1>6
<1> QED BY <1>4, <1>5, <1>7

\* One thread goes on, with the next job of the queue or its own.
Moves(t, j) ==
  /\ thread' = [thread EXCEPT ![t] = j]
  /\ count' = count + Bit(t \in Workers /\ j.pc \in Working)
                    - Bit(t \in Workers /\ thread[t].pc \in Working)
  /\ Len(queue') \in Nat /\ Len(queue') =< QueueSize /\ phase' = phase
  /\ steps' \in [objects : Nat, events : Nat, drops : Nat, claims : Int]
  /\ steps'.events =< MaxEvents
  /\ steps'.events = steps.events \/ phase = "running"
  /\ steps'.objects + 2 * (Len(queue') - Len(queue) + Bit(j.pc \in Waiting)
                           - Bit(thread[t].pc \in Waiting))
       =< steps.objects + 2 * (steps'.events - steps.events)

\* The step of a thread keeps the pool counted and within its bounds.
LEMMA PoolMove ==
  ASSUME HInv, Pool, NEW t \in Threads, NEW j \in JobTypes(Pcs, Nat), Moves(t, j)
  PROVE  Pool'
<1>d. PICK d : d = Len(queue') - Len(queue) + Bit(j.pc \in Waiting) - Bit(thread[t].pc \in Waiting)
  OBVIOUS
<1>m. /\ thread' = [thread EXCEPT ![t] = j]
      /\ count' = count + Bit(t \in Workers /\ j.pc \in Working)
                        - Bit(t \in Workers /\ thread[t].pc \in Working)
      /\ Len(queue') \in Nat /\ Len(queue') =< QueueSize /\ phase' = phase
      /\ steps' \in [objects : Nat, events : Nat, drops : Nat, claims : Int]
      /\ steps'.events =< MaxEvents
      /\ steps'.events = steps.events \/ phase = "running"
      /\ steps'.objects + 2 * d =< steps.objects + 2 * (steps'.events - steps.events)
  BY <1>d DEF Moves
<1>0. /\ thread \in [Threads -> JobTypes(Pcs, Nat)] /\ Len(queue) \in Nat
      /\ steps \in [objects : Nat, events : Nat, drops : Nat, claims : Int]
  BY DEF HInv, Typed, ThreadsOK
<1>1. thread'[t].pc = j.pc /\ \A s \in Threads : s # t => thread'[s] = thread[s]
  BY <1>0, <1>m
<1>2. /\ One(thread', Threads, Waiting, t) = Bit(j.pc \in Waiting)
      /\ One(thread, Threads, Waiting, t) = Bit(thread[t].pc \in Waiting)
      /\ One(thread', Workers, Working, t) = Bit(t \in Workers /\ j.pc \in Working)
      /\ One(thread, Workers, Working, t) = Bit(t \in Workers /\ thread[t].pc \in Working)
  BY <1>1 DEF One, Bit
<1>3. Counting' /\ count' \in Nat
  <2>1. Counting' = (count' = Cardinality(Those(thread', Workers, Working)))
    BY DEF Counting, Those
  <2>2. /\ Cardinality(Those(thread, Workers, Working)) \in Nat
        /\ Cardinality(Those(thread', Workers, Working)) \in Nat
        /\ Cardinality(Those(thread', Workers, Working))
             = Cardinality(Those(thread, Workers, Working))
               + One(thread', Workers, Working, t) - One(thread, Workers, Working, t)
    BY <1>1, JobMove
  <2> QED BY <1>2, <1>m, <2>1, <2>2 DEF Pool, Counting
<1>5. d \in Int
  <2>1. Bit(j.pc \in Waiting) \in Int /\ Bit(thread[t].pc \in Waiting) \in Int
    BY DEF Bit
  <2> QED BY <1>0, <1>d, <1>m, <2>1
<1>6. Pending \in Nat /\ Pending' \in Nat /\ Pending' = Pending + d
  BY <1>0, <1>d, <1>m, PendingMoves DEF HInv, Typed
<1>7. PICK o \in Nat, o1 \in Nat, e \in Nat, e1 \in Nat, p \in Nat, p1 \in Nat :
        /\ o = steps.objects /\ o1 = steps'.objects /\ e = steps.events /\ e1 = steps'.events
        /\ p = Pending /\ p1 = Pending'
  BY <1>0, <1>6, <1>m
<1>8. /\ o + 2 * p =< 2 * e => o1 + 2 * p1 =< 2 * e1
      /\ e1 =< MaxEvents /\ o + 2 * p =< 2 * e => o1 + 2 * p1 =< 2 * MaxEvents
      /\ e1 = e /\ o + 2 * p =< 2 * MaxEvents => o1 + 2 * p1 =< 2 * MaxEvents
  <2>1. o1 + 2 * (p1 - p) =< o + 2 * (e1 - e)
    <3>1. p1 - p = d
      BY <1>5, <1>6, <1>7
    <3>2. o1 + 2 * d =< o + 2 * (e1 - e)
      BY <1>7, <1>m
    <3> QED BY <3>1, <3>2
  <2>2. MaxEvents \in Nat
    BY DispatchAssumption DEF DispatchAssumption
  <2> QED BY <2>1, <2>2, BudgetMove
<1>9. Budget'
  <2>1. /\ e1 =< MaxEvents /\ o + 2 * p =< 2 * MaxEvents
        /\ phase \in {"none", "setup", "running"} => o + 2 * p =< 2 * e
        /\ e1 = e \/ phase = "running"
    BY <1>7, <1>m DEF Pool, Budget
  <2>2. o1 + 2 * p1 =< 2 * MaxEvents
    BY <1>8, <2>1
  <2>3. phase' \in {"none", "setup", "running"} => o1 + 2 * p1 =< 2 * e1
    BY <1>8, <1>m, <2>1
  <2> QED BY <1>7, <2>1, <2>2, <2>3 DEF Budget
<1> QED BY <1>3, <1>9, <1>m DEF Pool

\* Steps of the client's life, of the cache and of those who claim.
LEMMA LifePool ==
  ASSUME HInv, Pool,
         \/ \E out \in Outcomes : UserGlobalInit(out) \/ ClientInit(out)
         \/ UserGlobalCleanup
         \/ Setup \/ Run \/ RunEnds
         \/ Connect \/ Resumed \/ Lose
         \/ \E n \in Ids : Collect({i \in Ids : i =< n})
         \/ User
         \/ Cleanup
  PROVE  Pool'
<1>0. /\ steps \in [objects : Nat, events : Nat, drops : Nat, claims : Int] /\ steps.events =< MaxEvents
      /\ MaxEvents \in Nat
  BY DispatchAssumption DEF HInv, Typed, Pool, Budget, DispatchAssumption
<1>1. CASE \/ \E out \in Outcomes : UserGlobalInit(out) \/ ClientInit(out)
           \/ UserGlobalCleanup
           \/ Setup \/ Run \/ Connect \/ Resumed \/ Join \/ ClientGlobalCleanup
           \/ \E n \in Ids : Collect({i \in Ids : i =< n})
  <2>1. UNCHANGED <<thread, queue, count, steps>>
    BY <1>1 DEF UserGlobalInit, UserGlobalCleanup, ClientInit, Setup, SetOn, SetPrefix,
                SetOnCommand, CacheEnable, Calls, Run, Connect, Resumed, Join,
                ClientGlobalCleanup, Collect, workers
  <2>2. phase' \in {"none", "setup", "running"} => phase \in {"none", "setup", "running"}
    BY <1>1 DEF UserGlobalInit, UserGlobalCleanup, ClientInit, Setup, SetOn, SetPrefix,
                SetOnCommand, CacheEnable, Calls, Run, Connect, Resumed, Join,
                ClientGlobalCleanup, Collect
  <2> QED BY <1>0, <2>1, <2>2, PoolStill
<1>2. CASE Lose
  <2>1. /\ UNCHANGED <<thread, queue, count, phase>> /\ steps'.objects = steps.objects
        /\ steps'.events = steps.events
    BY <1>0, <1>2 DEF Lose, Bump, workers
  <2> QED BY <1>0, <2>1, PoolStill
<1>3. CASE RunEnds
  <2>1. /\ UNCHANGED <<thread, queue, count>> /\ steps'.objects = steps.objects
        /\ steps'.events = 0 /\ phase' = "ended"
    BY <1>0, <1>3 DEF RunEnds, workers
  <2> QED BY <1>0, <2>1, PoolStill
<1>4. CASE Free
  <2>1. /\ UNCHANGED <<thread, queue, count>> /\ steps'.objects = 0 /\ steps'.events = 0
        /\ phase' = "freed"
    BY <1>0, <1>4 DEF Free, workers
  <2> QED BY <1>0, <2>1, PoolStill
<1>5. CASE User
  <2>1. /\ UNCHANGED <<thread, queue, count, phase>> /\ steps'.objects = steps.objects
        /\ steps'.events = steps.events
    BY <1>0, <1>5 DEF User, Get, Claim, Own, Unclaim, Bump, workers
  <2> QED BY <1>0, <2>1, PoolStill
<1> QED BY <1>1, <1>2, <1>3, <1>4, <1>5 DEF Cleanup

\* An event goes to the main thread, to the queue, or nowhere.
LEMMA ReceivePool ==
  ASSUME HInv, Pool, NEW e \in Traffic, NEW i \in Ids, NEW m \in Modes, Receive(e, i, m)
  PROVE  Pool'
<1>0. /\ thread \in [Threads -> JobTypes(Pcs, Nat)] /\ Main \in Threads
      /\ Main \notin Workers /\ thread[Main] = Idle /\ Len(queue) \in Nat
      /\ steps \in [objects : Nat, events : Nat, drops : Nat, claims : Int] /\ phase = "running"
      /\ steps.events < MaxEvents /\ MaxEvents \in Nat /\ QueueSize \in Nat
      /\ Len(queue) =< QueueSize
      /\ queue \in Seq({k \in JobTypes({"ready"}, {None}) : k.id \in Ids})
  BY DispatchAssumption DEF HInv, Typed, ThreadsOK, Receive, MainFree, Threads, Pool,
                            DispatchAssumption
<1>1. /\ phase' = phase /\ count' = count
      /\ steps' \in [objects : Nat, events : Nat, drops : Nat, claims : Int]
      /\ steps'.objects = steps.objects /\ steps'.events =< MaxEvents
      /\ steps'.events = steps.events + (IF m = "IGNORE" THEN 0 ELSE 1)
  BY <1>0 DEF Receive, Bump
<1>k. Idle \in JobTypes(Pcs, Nat) /\ Idle.pc = "idle"
  BY DEF Idle, JobTypes, Pcs, None
<1>j. PICK j : j = Job(e, i)
  OBVIOUS
<1>2. j \in JobTypes(Pcs, Nat) /\ j \in JobTypes({"ready"}, {None}) /\ j.pc = "ready" /\ j.id = i
  <2>1. e \in Events
    BY DispatchAssumption DEF DispatchAssumption
  <2> QED BY <1>j, <2>1 DEF Job, JobTypes, Pcs, None
<1>3. CASE m = "IGNORE"
  BY <1>0, <1>1, <1>3, PoolStill DEF Receive, Schedule
<1>4. CASE m = "MAIN_THREAD"
  <2>1. thread' = [thread EXCEPT ![Main] = j] /\ queue' = queue
    BY <1>4, <1>j DEF Receive, Schedule
  <2>2. Len(queue') - Len(queue) + Bit(j.pc \in Waiting) - Bit(thread[Main].pc \in Waiting) = 1
    BY <1>0, <1>2, <1>k, <2>1 DEF Bit, Waiting
  <2>3. count' = count + Bit(Main \in Workers /\ j.pc \in Working)
                       - Bit(Main \in Workers /\ thread[Main].pc \in Working)
    BY <1>0, <1>1 DEF Bit, Pool
  <2>4. /\ steps'.objects + 2 * 1 =< steps.objects + 2 * (steps'.events - steps.events)
        /\ Len(queue') \in Nat /\ Len(queue') =< QueueSize
    BY <1>0, <1>1, <1>4, <2>1
  <2>5. Moves(Main, j)
    BY <1>0, <1>1, <2>1, <2>2, <2>3, <2>4 DEF Moves
  <2> QED BY <1>0, <1>2, <2>5, PoolMove
<1>5. CASE m = "WORKER_THREAD"
  <2>1. thread' = [thread EXCEPT ![Main] = Idle] /\ Len(queue') \in Nat
        /\ Len(queue') =< QueueSize /\ Len(queue') - Len(queue) \in 0..1
    <3>1. CASE queue' = Append(queue, j) /\ Len(queue) < QueueSize /\ UNCHANGED thread
      <4>1. Len(queue') = Len(queue) + 1
        BY <1>0, <1>2, <3>1
      <4> QED BY <1>0, <3>1, <4>1
    <3>2. CASE UNCHANGED <<thread, queue>>
      BY <1>0, <3>2
    <3> QED BY <1>5, <1>j, <3>1, <3>2 DEF Receive, Schedule
  <2>d. PICK d \in 0..1 : d = Len(queue') - Len(queue)
    BY <2>1
  <2>2. Len(queue') - Len(queue) + Bit(Idle.pc \in Waiting) - Bit(thread[Main].pc \in Waiting) = d
    BY <1>0, <1>k, <2>1, <2>d DEF Bit, Waiting
  <2>3. count' = count + Bit(Main \in Workers /\ Idle.pc \in Working)
                       - Bit(Main \in Workers /\ thread[Main].pc \in Working)
    BY <1>0, <1>1 DEF Bit, Pool
  <2>4. steps'.objects + 2 * d =< steps.objects + 2 * (steps'.events - steps.events)
    <3>1. steps'.events = steps.events + 1 /\ steps.events \in Nat /\ steps.objects \in Nat
      BY <1>0, <1>1, <1>5
    <3> QED BY <1>1, <3>1
  <2>5. Moves(Main, Idle)
    BY <1>0, <1>1, <2>1, <2>2, <2>3, <2>4 DEF Moves
  <2> QED BY <1>0, <1>k, <2>5, PoolMove
<1> QED BY <1>3, <1>4, <1>5 DEF Modes

\* A worker takes a job, starts it and ends it.
LEMMA WorkerPool ==
  ASSUME HInv, Pool, NEW w \in Workers, TakeJob(w) \/ StartJob(w) \/ EndJob(w)
  PROVE  Pool'
<1>0. /\ thread \in [Threads -> JobTypes(Pcs, Nat)] /\ w \in Threads
      /\ Len(queue) \in Nat /\ Len(queue) =< QueueSize /\ QueueSize \in Nat /\ count \in Nat
      /\ steps \in [objects : Nat, events : Nat, drops : Nat, claims : Int]
      /\ thread[w] \in JobTypes(Pcs, Nat)
  BY DispatchAssumption DEF HInv, Typed, ThreadsOK, Threads, Pool, DispatchAssumption
<1>b. steps.events =< MaxEvents
  BY DEF Pool, Budget
<1>1. CASE TakeJob(w)
  <2>0. /\ thread[w] = Idle /\ queue # <<>> /\ queue' = Tail(queue)
        /\ UNCHANGED <<phase, count, steps>> /\ Idle.pc = "idle"
    BY <1>1 DEF TakeJob, Idle
  <2>1. PICK S : S = {k \in JobTypes({"ready"}, {None}) : k.id \in Ids}
    OBVIOUS
  <2>2. queue \in Seq(S)
    BY <2>1 DEF HInv, Typed, ThreadsOK
  <2>3. /\ Len(queue') = Len(queue) - 1 /\ Len(queue') \in Nat /\ Len(queue') =< QueueSize
        /\ Head(queue) \in S
    BY <1>0, <2>0, <2>2
  <2>4. Head(queue) \in JobTypes({"ready"}, {None})
    BY <2>1, <2>3
  <2>5. CASE UNCHANGED thread
    <3>1. thread' = [thread EXCEPT ![w] = Idle] /\ Idle \in JobTypes(Pcs, Nat)
      BY <1>0, <2>0, <2>5
    <3>2. Len(queue') - Len(queue) + Bit(Idle.pc \in Waiting) - Bit(thread[w].pc \in Waiting) = -1
      BY <1>0, <2>0, <2>3 DEF Bit, Waiting
    <3>3. count' = count + Bit(w \in Workers /\ Idle.pc \in Working)
                         - Bit(w \in Workers /\ thread[w].pc \in Working)
      BY <1>0, <2>0 DEF Bit, Working
    <3>4. /\ steps' \in [objects : Nat, events : Nat, drops : Nat, claims : Int]
          /\ steps'.events = steps.events /\ steps.events =< MaxEvents
          /\ steps'.objects + 2 * (-1) =< steps.objects + 2 * (steps'.events - steps.events)
          /\ phase' = phase
      BY <1>0, <1>b, <2>0
    <3>5. Moves(w, Idle)
      BY <1>0, <2>3, <3>1, <3>2, <3>3, <3>4 DEF Moves
    <3> QED BY <1>0, <3>1, <3>5, PoolMove
  <2>6. CASE thread' = [thread EXCEPT ![w] = [Head(queue) EXCEPT !.pc = "taken"]]
    <3>j. PICK j : j = [Head(queue) EXCEPT !.pc = "taken"]
      OBVIOUS
    <3>1. j \in JobTypes(Pcs, Nat) /\ j.pc = "taken" /\ thread' = [thread EXCEPT ![w] = j]
      BY <2>4, <2>6, <3>j DEF JobTypes, Pcs, None
    <3>2. Len(queue') - Len(queue) + Bit(j.pc \in Waiting) - Bit(thread[w].pc \in Waiting) = 0
      BY <1>0, <2>0, <2>3, <3>1 DEF Bit, Waiting
    <3>3. count' = count + Bit(w \in Workers /\ j.pc \in Working)
                         - Bit(w \in Workers /\ thread[w].pc \in Working)
      BY <1>0, <2>0, <3>1 DEF Bit, Working
    <3>4. /\ steps' \in [objects : Nat, events : Nat, drops : Nat, claims : Int]
          /\ steps'.events = steps.events /\ steps.events =< MaxEvents
          /\ steps'.objects + 2 * 0 =< steps.objects + 2 * (steps'.events - steps.events)
          /\ phase' = phase
      BY <1>0, <1>b, <2>0
    <3>5. Moves(w, j)
      BY <1>0, <2>3, <3>1, <3>2, <3>3, <3>4 DEF Moves
    <3> QED BY <1>0, <3>1, <3>5, PoolMove
  <2> QED BY <1>1, <2>5, <2>6 DEF TakeJob
<1>2. CASE StartJob(w)
  <2>j. PICK j : j = [thread[w] EXCEPT !.pc = "ready"]
    OBVIOUS
  <2>1. /\ j \in JobTypes(Pcs, Nat) /\ j.pc = "ready" /\ thread' = [thread EXCEPT ![w] = j]
        /\ thread[w].pc = "taken" /\ count' = count + 1 /\ UNCHANGED <<phase, queue, steps>>
    BY <1>0, <1>2, <2>j DEF StartJob, JobTypes, Pcs
  <2>2. Len(queue') - Len(queue) + Bit(j.pc \in Waiting) - Bit(thread[w].pc \in Waiting) = 0
    BY <1>0, <2>1 DEF Bit, Waiting
  <2>3. count' = count + Bit(w \in Workers /\ j.pc \in Working)
                       - Bit(w \in Workers /\ thread[w].pc \in Working)
    BY <1>0, <2>1 DEF Bit, Working
  <2>4. /\ steps' \in [objects : Nat, events : Nat, drops : Nat, claims : Int]
        /\ steps'.events = steps.events /\ steps.events =< MaxEvents
          /\ steps'.objects + 2 * 0 =< steps.objects + 2 * (steps'.events - steps.events)
        /\ phase' = phase /\ Len(queue') \in Nat /\ Len(queue') =< QueueSize
    BY <1>0, <1>b, <2>1
  <2>5. Moves(w, j)
    BY <1>0, <2>1, <2>2, <2>3, <2>4 DEF Moves
  <2> QED BY <1>0, <2>1, <2>5, PoolMove
<1>3. CASE EndJob(w)
  <2>1. /\ Idle \in JobTypes(Pcs, Nat) /\ Idle.pc = "idle"
        /\ thread' = [thread EXCEPT ![w] = Idle]
        /\ thread[w].pc = "done" /\ count' = count - 1 /\ UNCHANGED <<phase, queue, steps>>
    BY <1>0, <1>3 DEF EndJob, Idle, JobTypes, Pcs, None
  <2>2. Len(queue') - Len(queue) + Bit(Idle.pc \in Waiting) - Bit(thread[w].pc \in Waiting) = 0
    BY <1>0, <2>1 DEF Bit, Waiting
  <2>3. count' = count + Bit(w \in Workers /\ Idle.pc \in Working)
                       - Bit(w \in Workers /\ thread[w].pc \in Working)
    BY <1>0, <2>1 DEF Bit, Working
  <2>4. /\ steps' \in [objects : Nat, events : Nat, drops : Nat, claims : Int]
        /\ steps'.events = steps.events /\ steps.events =< MaxEvents
          /\ steps'.objects + 2 * 0 =< steps.objects + 2 * (steps'.events - steps.events)
        /\ phase' = phase /\ Len(queue') \in Nat /\ Len(queue') =< QueueSize
    BY <1>0, <1>b, <2>1
  <2>5. Moves(w, Idle)
    BY <1>0, <2>1, <2>2, <2>3, <2>4 DEF Moves
  <2> QED BY <1>0, <2>1, <2>5, PoolMove
<1> QED BY <1>1, <1>2, <1>3

\* A thread that was about to dispatch its event, or was in a callback.
LEMMA DispatchPool ==
  ASSUME HInv, Pool, NEW t \in Threads,
         (\E c \in Contents : Perform(t, c)) \/ Return(t)
  PROVE  Pool'
<1>0. /\ thread \in [Threads -> JobTypes(Pcs, Nat)] /\ ThreadsOK
      /\ Len(queue) \in Nat /\ Len(queue) =< QueueSize /\ QueueSize \in Nat /\ count \in Nat
      /\ steps \in [objects : Nat, events : Nat, drops : Nat, claims : Int]
      /\ steps.events =< MaxEvents
      /\ thread[t] \in JobTypes(Pcs, Nat)
      /\ Main \notin Workers
  BY DispatchAssumption DEF HInv, Typed, ThreadsOK, Pool, Budget, DispatchAssumption
<1>u. UNCHANGED <<phase, queue, count>>
  BY DEF Perform, Return, workers
<1>a. After(t) \in JobTypes(Pcs, Nat) /\ After(t).pc = IF t = Main THEN "idle" ELSE "done"
  <2>1. CASE t = Main
    BY <2>1 DEF After, Idle, JobTypes, Pcs, None
  <2>2. CASE t # Main
    <3>1. PICK j : j = [thread[t] EXCEPT !.pc = "done", !.obj = None]
      OBVIOUS
    <3>2. j \in JobTypes(Pcs, Nat) /\ j.pc = "done"
      BY <1>0, <3>1 DEF JobTypes, Pcs, None
    <3> QED BY <2>2, <3>1, <3>2 DEF After
  <2> QED BY <2>1, <2>2
<1>w. t \in Workers <=> t # Main
  BY <1>0 DEF Threads
<1>1. CASE \E c \in Contents : Perform(t, c)
  <2>v. PICK ev \in Nat : ev = steps.objects + 1
    BY <1>0
  <2>c. PICK called : called = [thread[t] EXCEPT !.pc = "user", !.obj = ev]
    OBVIOUS
  <2>j. called \in JobTypes(Pcs, Nat) /\ called.pc = "user"
    <3>1. "user" \in Pcs
      BY DEF Pcs
    <3> QED BY <1>0, <2>c, <3>1 DEF JobTypes
  <2>1. /\ thread[t].pc = "ready"
        /\ \/ thread' = [thread EXCEPT ![t] = called]
           \/ thread' = [thread EXCEPT ![t] = After(t)]
        /\ \/ UNCHANGED steps
           \/ steps' = [steps EXCEPT !.objects = @ + 1]
           \/ steps' = [steps EXCEPT !.objects = @ + 2]
    <3>1. PICK c \in Contents : Perform(t, c)
      BY <1>1
    <3>2. CASE PerformCommand(t, c)
      BY <2>v, <2>c, <3>1, <3>2 DEF Perform, PerformCommand, Bump
    <3>3. CASE PerformEvent(t, c)
      <4>1. \A e : Copies(e) = 0 \/ Copies(e) = 1
        BY DEF Copies
      <4>2. UNCHANGED steps \/ \E e : steps' = [steps EXCEPT !.objects = @ + (1 + Copies(e))]
        BY <3>3 DEF PerformEvent, Bump
      <4>3. \/ thread' = [thread EXCEPT ![t] = called]
            \/ thread' = [thread EXCEPT ![t] = After(t)]
        BY <2>v, <2>c, <3>3 DEF PerformEvent
      <4>4. thread[t].pc = "ready"
        BY <3>1 DEF Perform
      <4> QED BY <4>1, <4>2, <4>3, <4>4
    <3> QED BY <3>1, <3>2, <3>3 DEF Perform
  <2>2. /\ steps' \in [objects : Nat, events : Nat, drops : Nat, claims : Int]
        /\ steps'.events = steps.events /\ steps'.events =< MaxEvents
        /\ steps'.objects + 2 * (-1) =< steps.objects + 2 * (steps'.events - steps.events)
    BY <1>0, <2>1
  <2>3. PICK j \in JobTypes(Pcs, Nat) :
          /\ thread' = [thread EXCEPT ![t] = j]
          /\ j.pc = "user" \/ j.pc = IF t = Main THEN "idle" ELSE "done"
    BY <1>a, <2>j, <2>1
  <2>4. Len(queue') - Len(queue) + Bit(j.pc \in Waiting) - Bit(thread[t].pc \in Waiting) = -1
    BY <1>0, <1>u, <2>1, <2>3 DEF Bit, Waiting
  <2>5. count' = count + Bit(t \in Workers /\ j.pc \in Working)
                       - Bit(t \in Workers /\ thread[t].pc \in Working)
    BY <1>0, <1>u, <1>w, <2>1, <2>3 DEF Bit, Working
  <2>6. Moves(t, j)
    BY <1>0, <1>u, <2>2, <2>3, <2>4, <2>5 DEF Moves
  <2> QED BY <2>6, PoolMove
<1>2. CASE Return(t)
  <2>1. /\ thread[t].pc = "user" /\ thread' = [thread EXCEPT ![t] = After(t)]
        /\ UNCHANGED steps
    BY <1>2 DEF Return
  <2>2. Len(queue') - Len(queue) + Bit(After(t).pc \in Waiting) - Bit(thread[t].pc \in Waiting) = 0
    BY <1>0, <1>u, <1>a, <2>1 DEF Bit, Waiting
  <2>3. count' = count + Bit(t \in Workers /\ After(t).pc \in Working)
                       - Bit(t \in Workers /\ thread[t].pc \in Working)
    BY <1>0, <1>u, <1>a, <1>w, <2>1 DEF Bit, Working
  <2>4. /\ steps' \in [objects : Nat, events : Nat, drops : Nat, claims : Int]
        /\ steps'.events = steps.events /\ steps'.events =< MaxEvents
        /\ steps'.objects + 2 * 0 =< steps.objects + 2 * (steps'.events - steps.events)
    BY <1>0, <2>1
  <2>5. Moves(t, After(t))
    BY <1>0, <1>u, <2>1, <2>2, <2>3, <2>4 DEF Moves
  <2> QED BY <1>a, <2>5, PoolMove
<1> QED BY <1>1, <1>2

\* The main thread loses the connection, and turns to the cache's flag.
LEMMA DisconnectPool ==
  ASSUME HInv, Pool, (\E r \in BOOLEAN : Disconnect(r)) \/ Invalidate
  PROVE  Pool'
<1>0. /\ thread \in [Threads -> JobTypes(Pcs, Nat)] /\ Main \in Threads
      /\ Len(queue) \in Nat /\ Len(queue) =< QueueSize /\ QueueSize \in Nat /\ count \in Nat
      /\ steps \in [objects : Nat, events : Nat, drops : Nat, claims : Int]
      /\ steps.events =< MaxEvents
      /\ thread[Main] \in JobTypes(Pcs, Nat)
      /\ Main \notin Workers
  BY DispatchAssumption
     DEF HInv, Typed, ThreadsOK, Pool, Budget, DispatchAssumption, Threads
<1>1. PICK j \in JobTypes(Pcs, Nat) :
        /\ thread' = [thread EXCEPT ![Main] = j]
        /\ j.pc \in {"idle", "disconnected"}
  <2>1. CASE Invalidate
    <3>1. Idle \in JobTypes(Pcs, Nat) /\ Idle.pc = "idle"
      BY DEF Idle, JobTypes, Pcs, None
    <3> QED BY <2>1, <3>1 DEF Invalidate
  <2>2. CASE \E r \in BOOLEAN : Disconnect(r)
    <3>1. thread[Main] = Idle
      BY <2>2 DEF Disconnect, MainFree
    <3>2. PICK j : j = [thread[Main] EXCEPT !.pc = "disconnected"]
      OBVIOUS
    <3>3. j \in JobTypes(Pcs, Nat) /\ j.pc = "disconnected"
      BY <1>0, <3>2 DEF JobTypes, Pcs
    <3>4. thread' = [thread EXCEPT ![Main] = j] \/ thread' = [thread EXCEPT ![Main] = Idle]
      BY <1>0, <2>2, <3>1, <3>2 DEF Disconnect
    <3>5. Idle \in JobTypes(Pcs, Nat) /\ Idle.pc = "idle"
      BY DEF Idle, JobTypes, Pcs, None
    <3> QED BY <3>3, <3>4, <3>5
  <2> QED BY <2>1, <2>2
<1>2. thread[Main].pc \in {"idle", "disconnected"}
  BY DEF Disconnect, Invalidate, MainFree, Idle
<1>3. /\ UNCHANGED <<phase, queue, count>>
      /\ steps' \in [objects : Nat, events : Nat, drops : Nat, claims : Int]
      /\ steps'.events = steps.events /\ steps'.events =< MaxEvents
      /\ steps'.objects + 2 * 0 =< steps.objects + 2 * (steps'.events - steps.events)
  BY <1>0 DEF Disconnect, Invalidate, workers, Bump
<1>4. Len(queue') - Len(queue) + Bit(j.pc \in Waiting) - Bit(thread[Main].pc \in Waiting) = 0
  BY <1>0, <1>1, <1>2, <1>3 DEF Bit, Waiting
<1>5. count' = count + Bit(Main \in Workers /\ j.pc \in Working)
                     - Bit(Main \in Workers /\ thread[Main].pc \in Working)
  BY <1>0, <1>3 DEF Bit
<1>6. Moves(Main, j)
  BY <1>0, <1>1, <1>3, <1>4, <1>5 DEF Moves
<1> QED BY <1>0, <1>6, PoolMove

\* Every step keeps the pool counted.
LEMMA NextPool == HInv /\ Pool /\ [Next]_vars => Pool'
<1> SUFFICES ASSUME HInv, Pool, [Next]_vars PROVE Pool'
  OBVIOUS
<1>1. CASE UNCHANGED vars
  <2>1. UNCHANGED <<thread, queue, count, steps, phase>> /\ steps.objects \in Nat
        /\ steps.events =< MaxEvents
    BY <1>1 DEF vars, workers, HInv, Typed, Pool, Budget
  <2>2. steps'.objects =< steps.objects
    BY <2>1
  <2> QED BY <2>1, <2>2, PoolStill
<1>2. CASE \/ \E out \in Outcomes : UserGlobalInit(out) \/ ClientInit(out)
           \/ UserGlobalCleanup
           \/ Setup \/ Run \/ RunEnds
           \/ \E n \in Ids : Collect({i \in Ids : i =< n})
           \/ User
           \/ Cleanup
  BY <1>2, LifePool
<1>3. CASE Network
  BY <1>3, LifePool, ReceivePool, DisconnectPool DEF Network
<1>4. CASE MainThread
  <2>1. Main \in Threads
    BY DEF Threads
  <2> QED BY <1>4, <2>1, DispatchPool, DisconnectPool DEF MainThread
<1>5. CASE \E w \in Workers : Worker(w)
  <2>1. Workers \subseteq Threads
    BY DEF Threads
  <2> QED BY <1>5, <2>1, WorkerPool, DispatchPool DEF Worker
<1> QED BY <1>1, <1>2, <1>3, <1>4, <1>5 DEF Next

\* At first nothing runs and nothing waits.
LEMMA InitPool == Init => Pool
<1> SUFFICES ASSUME Init PROVE Pool
  OBVIOUS
<1>1. /\ Those(thread, Workers, Working) = {} /\ Those(thread, Threads, Waiting) = {}
  BY DEF Init, Those, Threads, Idle, Working, Waiting
<1>2. Pending = 0 /\ Counting /\ count \in Nat
  <2>1. Len(queue) = 0
    BY DEF Init
  <2>2. Cardinality({}) = 0
    BY FS_EmptySet
  <2>3. Pending = 0
    BY <1>1, <2>1, <2>2 DEF Pending
  <2>4. Counting /\ count \in Nat
    BY <1>1, <2>2 DEF Init, Counting
  <2> QED BY <2>3, <2>4
<1>3. QueueSize \in Nat /\ MaxEvents \in Nat
  BY DispatchAssumption DEF DispatchAssumption
<1>4. steps.events = 0 /\ steps.objects = 0 /\ Len(queue) = 0
  BY DEF Init
<1> QED BY <1>2, <1>3, <1>4 DEF Pool, Budget

-----------------------------------------------------------------------------
(* The types of the rest.                                                  *)

Config ==
  /\ script \in Seq(Call)
  /\ cbs \subseteq Events /\ options \subseteq {"GUILDS", "MESSAGES"}
  /\ named \subseteq {"", "help"}
  /\ {prefix, fallback, valid} \subseteq BOOLEAN
  /\ link \in {"down", "hello", "up"}

\* A program's calls name events, commands and caches that exist.
LEMMA SetupConfig == Config /\ Setup => Config'
<1> SUFFICES ASSUME Config, Setup PROVE Config'
  OBVIOUS
<1>1. /\ script \in Seq(Call) /\ script # <<>> /\ script' = Tail(script)
      /\ UNCHANGED <<valid, link>>
  BY DEF Config, Setup, SetOn, SetPrefix, SetOnCommand, CacheEnable, Calls, cache, conn
<1>2. Head(script) \in Call /\ script' \in Seq(Call)
  BY <1>1
<1>3. CASE SetOn
  <2>1. Arg \in Events
    BY <1>2, <1>3 DEF SetOn, Calls, Arg, Call
  <2> QED BY <1>1, <1>2, <1>3, <2>1 DEF SetOn, Config
<1>4. CASE SetPrefix
  BY <1>1, <1>2, <1>4 DEF SetPrefix, Config
<1>5. CASE SetOnCommand
  <2>1. Arg \in {"", "help"}
    BY <1>2, <1>5 DEF SetOnCommand, Calls, Arg, Call
  <2> QED BY <1>1, <1>2, <1>5, <2>1 DEF SetOnCommand, Config
<1>6. CASE CacheEnable
  <2>1. Arg \subseteq {"GUILDS", "MESSAGES"}
    BY <1>2, <1>6 DEF CacheEnable, Calls, Arg, Call
  <2> QED BY <1>1, <1>2, <1>6, <2>1 DEF CacheEnable, Config
<1> QED BY <1>3, <1>4, <1>5, <1>6 DEF Setup

\* The configuration changes during the setup, and nowhere else.
LEMMA NextConfig == Config /\ [Next]_vars => Config'
<1> SUFFICES ASSUME Config, [Next]_vars PROVE Config'
  OBVIOUS
<1>1. CASE UNCHANGED vars
  BY <1>1 DEF vars, config, conn, cache, Config
<1>2. CASE \/ \E out \in Outcomes : UserGlobalInit(out) \/ ClientInit(out)
           \/ UserGlobalCleanup \/ Run \/ RunEnds
  BY <1>2 DEF UserGlobalInit, UserGlobalCleanup, ClientInit, Run, RunEnds, config, conn,
              cache, Config
<1>3. CASE Network
  <2>1. UNCHANGED config /\ link' \in {"down", "hello", "up"} /\ valid' \in BOOLEAN
    BY <1>3 DEF Network, Connect, Receive, Resumed, Disconnect, Lose, cache, Config
  <2> QED BY <2>1 DEF config, Config
<1>4. CASE \E n \in Ids : Collect({i \in Ids : i =< n})
  BY <1>4 DEF Collect, config, conn, Config
<1>5. CASE User
  BY <1>5 DEF User, Get, Claim, Own, Unclaim, config, conn, Config
<1>6. CASE MainThread \/ \E w \in Workers : Worker(w)
  <2>1. ASSUME NEW t, NEW c, Perform(t, c)
        PROVE  UNCHANGED <<config, conn>> /\ valid' \in BOOLEAN
    BY <2>1 DEF Perform, PerformCommand, PerformEvent, CacheCallback, CacheMessage,
                CacheGuild, Config
  <2>2. ASSUME NEW t, Return(t) \/ TakeJob(t) \/ StartJob(t) \/ EndJob(t)
        PROVE  UNCHANGED <<config, conn>> /\ valid' \in BOOLEAN
    BY <2>2 DEF Return, TakeJob, StartJob, EndJob, cache, Config
  <2>3. Invalidate => UNCHANGED <<config, conn>> /\ valid' \in BOOLEAN
    BY DEF Invalidate
  <2>4. UNCHANGED <<config, conn>> /\ valid' \in BOOLEAN
    BY <1>6, <2>1, <2>2, <2>3 DEF MainThread, Worker
  <2> QED BY <2>4 DEF config, conn, Config
<1>7. CASE Cleanup
  BY <1>7 DEF Cleanup, Join, Free, ClientGlobalCleanup, config, conn, cache, Config
<1> QED BY <1>1, <1>2, <1>3, <1>4, <1>5, <1>6, <1>7, SetupConfig DEF Next

\* Every object in a map was allocated, within the bound.
InRange ==
  /\ msgs \in [Ids -> 0..MaxObjects] /\ guilds \in [Ids -> 0..MaxObjects]

\* While the accounts hold, an object in a map is one that was allocated.
LEMMA SoundRange == HInv /\ Pool /\ ~wild => InRange
<1> SUFFICES ASSUME HInv, Pool, ~wild PROVE InRange
  OBVIOUS
<1>1. steps.objects \in Nat /\ steps.objects =< MaxObjects /\ MaxObjects \in Nat
  <2>1. Pending \in Nat
    <3>1. Cardinality(Those(thread, Threads, Waiting)) \in Nat /\ Len(queue) \in Nat
      BY ThreadsFinite, ThoseCount DEF HInv, Typed, ThreadsOK
    <3> QED BY <3>1 DEF Pending
  <2>2. steps.objects \in Nat /\ steps.objects + 2 * Pending =< 2 * MaxEvents
    BY DEF HInv, Typed, Pool, Budget
  <2>3. MaxObjects \in Nat /\ MaxEvents \in Nat /\ MaxObjects >= 2 * MaxEvents
    BY DispatchAssumption DEF DispatchAssumption
  <2> QED BY <2>1, <2>2, <2>3
<1>2. /\ msgs \in [Ids -> Nat] /\ guilds \in [Ids -> Nat]
      /\ \A i \in Ids : msgs[i] \in None..steps.objects /\ guilds[i] \in None..steps.objects
  BY DEF HInv, Typed, Sound, Fresh
<1>3. \A i \in Ids : msgs[i] \in 0..MaxObjects /\ guilds[i] \in 0..MaxObjects
  BY <1>1, <1>2 DEF None
<1> QED BY <1>2, <1>3 DEF InRange

\* Once a job has used the freed client nothing more happens to the cache.
LEMMA WildRange == InRange /\ [Next]_vars /\ wild' => InRange'
<1> SUFFICES ASSUME InRange, [Next]_vars, wild' PROVE InRange'
  OBVIOUS
<1>0. CASE UNCHANGED cache
  BY <1>0 DEF cache, InRange
<1>1. CASE Free
  <2>1. 0 \in 0..MaxObjects
    BY DispatchAssumption DEF DispatchAssumption
  <2> QED BY <1>1, <2>1 DEF Free, EmptyMaps, InRange, None
<1>2. CASE \/ UNCHANGED vars
           \/ \E out \in Outcomes : UserGlobalInit(out) \/ ClientInit(out)
           \/ UserGlobalCleanup
           \/ Setup \/ Run \/ RunEnds \/ Join \/ ClientGlobalCleanup
  BY <1>0, <1>2 DEF vars, UserGlobalInit, UserGlobalCleanup, ClientInit, Setup, SetOn,
                    SetPrefix, SetOnCommand, CacheEnable, Calls, Run, RunEnds, Join,
                    ClientGlobalCleanup
<1>3. CASE Network
  <2>1. CASE \E r \in BOOLEAN : Disconnect(r)
    BY <2>1 DEF Disconnect, MainFree
  <2>2. CASE Resumed
    BY <2>2 DEF Resumed, MainFree
  <2>3. CASE Connect \/ Lose \/ \E e \in Traffic, i \in Ids, m \in Modes : Receive(e, i, m)
    BY <1>0, <2>3 DEF Connect, Lose, Receive
  <2> QED BY <1>3, <2>1, <2>2, <2>3 DEF Network
<1>4. CASE \/ \E n \in Ids : Collect({i \in Ids : i =< n})
           \/ User
  BY <1>4 DEF Collect, MainFree, User, Get, Claim, Own, Unclaim
<1>5. CASE MainThread \/ \E w \in Workers : Worker(w)
  BY <1>0, <1>5 DEF MainThread, Worker, Perform, Return, Invalidate, TakeJob, StartJob,
                    EndJob
<1> QED BY <1>1, <1>2, <1>3, <1>4, <1>5 DEF Next, Cleanup

TInv == IInv /\ HInv /\ Pool /\ Config /\ InRange

(* The types; the maps hold what was allocated, the queue is within its    *)
(* size, and the count of running jobs is never lowered below none.        *)
THEOREM TypeCorrect == Spec => []TypeOK
<1>1. Init => TInv
  <2> SUFFICES ASSUME Init PROVE TInv
    OBVIOUS
  <2>1. IInv
    BY InitGlobals
  <2>2. Config
    BY DispatchAssumption DEF Init, Config, DispatchAssumption
  <2>4. HInv /\ Pool
    BY InitHInv, InitPool
  <2>5. InRange
    BY <2>4, SoundRange DEF Init
  <2> QED BY <2>1, <2>2, <2>4, <2>5 DEF TInv
<1>2. TInv /\ [Next]_vars => TInv'
  <2> SUFFICES ASSUME TInv, [Next]_vars PROVE TInv'
    OBVIOUS
  <2>1. IInv'
    BY NextGlobals DEF TInv
  <2>2. HInv' /\ Pool' /\ Config'
    BY NextHInv, NextPool, NextConfig DEF TInv
  <2>3. InRange'
    <3>1. CASE wild'
      BY <3>1, WildRange DEF TInv
    <3>2. CASE ~wild'
      BY <2>2, <3>2, SoundRange, PTL
    <3> QED BY <3>1, <3>2
  <2> QED BY <2>1, <2>2, <2>3 DEF TInv
<1>3. TInv => TypeOK
  <2> SUFFICES ASSUME TInv PROVE TypeOK
    OBVIOUS
  <2>1. /\ parts.inits \in Nat /\ parts.pool \in {"null", "live", "freed"}
        /\ {parts.curl, parts.once} \subseteq BOOLEAN
    BY DEF TInv, IInv, PartsOK, Parts
  <2>2. /\ parts.inits =< 2 /\ holds \in [Parties -> {"none", "held", "failed"}]
        /\ phase \in Life \cup {"none", "gone"}
    BY <2>1 DEF TInv, IInv, HoldsOK, Bit
  <2>3. /\ wild \in BOOLEAN /\ owned \in [Objects -> Nat]
        /\ \A o \in Objects : heap[o].visits \in Nat /\ heap[o].claims \in Nat
    BY DEF TInv, HInv, Typed, Table
  <2>4. Len(queue) =< QueueSize /\ count \in Nat
    BY DEF TInv, Pool
  <2>5. /\ cbs \subseteq Events /\ options \subseteq {"GUILDS", "MESSAGES"}
        /\ named \subseteq {"", "help"} /\ {prefix, fallback, valid} \subseteq BOOLEAN
        /\ link \in {"down", "hello", "up"}
    BY DEF TInv, Config
  <2>6. msgs \in [Ids -> 0..MaxObjects] /\ guilds \in [Ids -> 0..MaxObjects]
    BY DEF TInv, InRange
  <2>7. phase \in {"none", "setup", "running", "ended", "joined", "freed", "gone"}
    BY <2>2 DEF Life
  <2>8. {parts.curl, parts.once, prefix, fallback, valid, wild} \subseteq BOOLEAN
    BY <2>1, <2>3, <2>5
  <2>9. parts.inits \in 0..2
    BY <2>1, <2>2
  <2> QED BY <2>1, <2>2, <2>3, <2>4, <2>5, <2>6, <2>7, <2>8, <2>9 DEF TypeOK
<1> QED BY <1>1, <1>2, <1>3, PTL DEF Spec
=============================================================================
