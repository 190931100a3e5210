--------------------------- MODULE RefcountProofs ---------------------------
(***************************************************************************)
(* For every set of resources and threads and every INT_MAX: the table     *)
(* counts exactly what its clients hold wherever no entry was exposed to   *)
(* being overwritten, and never leaks, not even there.                     *)
(***************************************************************************)
EXTENDS Refcount, TLAPS

(* What an address that is not exposed satisfies: visits is the number of  *)
(* references and claims outstanding, claims the number of claims.         *)
Exact(d) ==
  /\ visits[d] = refs[d] + owned[d]
  /\ claims[d] = owned[d]

(* A claim refused at INT_MAX leaves claims ahead, and ends the run.       *)
Stranded(d) ==
  /\ d \in present
  /\ Held(d) > 0

(* At most one thread is about to add the address, and nobody has it yet.  *)
OneAdder(d) ==
  \A t, u \in Threads :
     adding[t] = d => d \notin present /\ (adding[u] = d => u = t)

(* What every address satisfies, however often its counts were reset or    *)
(* its claims passed INT_MAX: the table never counts more than is held.    *)
Lap == 2 * IntMax + 2

Covered(d) ==
  /\ claims[d] =< owned[d]
  /\ claims[d] < 0 => claims[d] + Lap =< owned[d]
  /\ \/ visits[d] =< refs[d] + claims[d]
     \/ claims[d] + Lap =< owned[d]

Settled(d) == Held(d) = 0 => d \notin present

Entry(d) ==
  /\ d \in present <=> visits[d] > 0
  /\ visits[d] = 0 => claims[d] = 0

(* The inductive invariant.                                                *)
Counted(d) ==
  /\ Entry(d)
  /\ Covered(d) \/ (aborted /\ Settled(d))
  /\ d \notin exposed => OneAdder(d) /\ (Exact(d) \/ (aborted /\ Stranded(d)))

IInv ==
  /\ TypeOK
  /\ \A d \in Data : Counted(d)

-----------------------------------------------------------------------------
LEMMA InitIInv == Init => IInv
<1> SUFFICES ASSUME Init PROVE IInv
  OBVIOUS
<1> USE IntMaxAssumption, NoDataAssumption DEF IntMaxAssumption, NoDataAssumption
<1>1. TypeOK
  <2>1. aborted \in BOOLEAN
    BY Zenon DEF Init
  <2>2. 0 \in 0..IntMax /\ 0 \in (-IntMax - 1)..IntMax
    OBVIOUS
  <2> QED BY <2>1, <2>2 DEF TypeOK, Init, Codes
<1>2. ASSUME NEW d \in Data PROVE Counted(d)
  BY DEF Init, Counted, Entry, Covered, OneAdder, Exact
<1> QED BY <1>1, <1>2 DEF IInv

(* The two helpers on one entry: what becomes of its visits.               *)
LEMMA IncrEffect ==
  ASSUME TypeOK, NEW d \in Data, d \in present => visits[d] > 0, IncrNoLock(d)
  PROVE  /\ visits' \in [Data -> 0..IntMax]
         /\ ret' \in Codes
         /\ \A e \in Data \ {d} : visits'[e] = visits[e]
         /\ ret' = "OK" <=> CanIncr(d)
         /\ ret' = "OK" => d \in present /\ visits'[d] = visits[d] + 1
         /\ ret' # "OK" => visits' = visits
BY IntMaxAssumption DEF IntMaxAssumption, TypeOK, IncrNoLock, CanIncr, Codes

LEMMA DecrEffect ==
  ASSUME TypeOK, NEW d \in Data, NEW c \in Int,
         d \in present <=> visits[d] > 0, DecrNoLock(d, c)
  PROVE  /\ visits' \in [Data -> 0..IntMax]
         /\ present' \subseteq Data
         /\ ret' \in Codes
         /\ \A e \in Data \ {d} : visits'[e] = visits[e]
         /\ \A e \in Data \ {d} : e \in present' <=> e \in present
         /\ d \in present' <=> visits'[d] > 0
         /\ ret' = "OK" => visits'[d] = visits[d] - 1
         /\ ret' = "OK" /\ visits'[d] = 0 => c = 0
         /\ ret' # "OK" => /\ visits'[d] = visits[d]
                           /\ visits[d] = 0 \/ visits[d] < c \/ (visits[d] = 1 /\ c # 0)
<1> USE IntMaxAssumption DEF IntMaxAssumption, TypeOK, Codes
<1>1. CASE DecrRefused(d, c)
  BY <1>1 DEF DecrNoLock, DecrRefused
<1>2. CASE ~DecrRefused(d, c) /\ ~LastVisit(d)
  BY <1>2 DEF DecrNoLock, DecrRefused, LastVisit
<1>3. CASE ~DecrRefused(d, c) /\ LastVisit(d) /\ c # 0
  BY <1>3 DEF DecrNoLock, DecrRefused, LastVisit
<1>4. CASE ~DecrRefused(d, c) /\ LastVisit(d) /\ c = 0
  <2>1. d \in present /\ visits[d] = 1
    BY <1>4 DEF DecrRefused, LastVisit
  <2>2. RefvalueDelete(d) /\ ret' = "OK"
    BY <1>4 DEF DecrNoLock
  <2>3. visits' = [visits EXCEPT ![d] = 0] /\ present' = present \ {d}
    BY <2>2 DEF RefvalueDelete
  <2> QED BY <1>4, <2>1, <2>2, <2>3
<1> QED BY <1>1, <1>2, <1>3, <1>4

LEMMA ToIntType ==
  ASSUME NEW n \in Int
  PROVE  ToInt(n) \in (-IntMax - 1)..IntMax
BY IntMaxAssumption DEF IntMaxAssumption, ToInt

(* An address the step does not touch stays counted.                       *)
LEMMA Untouched ==
  ASSUME NEW e \in Data, Counted(e), ~aborted,
         e \in present' <=> e \in present,
         visits'[e] = visits[e], claims'[e] = claims[e],
         refs'[e] = refs[e], owned'[e] = owned[e],
         \A t \in Threads : adding'[t] = e => adding[t] = e,
         exposed \subseteq exposed'
  PROVE  Counted(e)'
BY DEF Counted, Entry, Covered, OneAdder, Exact

(* A step on one resource leaves the others alone.                         *)
LEMMA NextIInv == IInv /\ [Next]_vars => IInv'
<1> SUFFICES ASSUME IInv, [Next]_vars
             PROVE  IInv'
  OBVIOUS
<1> USE IntMaxAssumption, NoDataAssumption DEF IntMaxAssumption, NoDataAssumption
<1>1. CASE UNCHANGED vars
  <2>1. TypeOK'
    BY <1>1 DEF IInv, TypeOK, vars, table, history
  <2>2. ASSUME NEW e \in Data PROVE Counted(e)'
    BY <1>1, <2>2 DEF IInv, Counted, Entry, Covered, Settled, OneAdder, Exact,
                      Stranded, Held, vars, table, history
  <2> QED BY <2>1, <2>2 DEF IInv
<1>2. CASE Next
  <2>0. /\ ~aborted /\ TypeOK
        /\ \A e \in Data : Counted(e) /\ Entry(e) /\ Covered(e)
    BY <1>2 DEF IInv, Next, Counted
  <2>t. /\ present \subseteq Data
        /\ \A e \in Data : /\ visits[e] \in 0..IntMax
                           /\ claims[e] \in (-IntMax - 1)..IntMax
                           /\ refs[e] \in Nat /\ owned[e] \in Nat
        /\ \A t \in Threads : adding[t] \in Data \cup {NoData}
    BY <2>0 DEF TypeOK
  (* A claim below zero is that of an exposed address.                     *)
  <2>s. ASSUME aborted' \/ \A d \in Data \ exposed' : owned'[d] \in Nat /\ Exact(d)'
        PROVE  \A d \in Data : claims'[d] >= 0 \/ aborted' \/ d \in exposed'
    BY <2>s DEF Exact
  <2>1. ASSUME NEW d \in Data, AddAllocated(d) PROVE IInv'
    <3>1. Counted(d)'
      BY <2>0, <2>t, <2>1 DEF AddAllocated, Add, RefvalueInit, Held, Adding, Counted,
                         Entry, Covered, OneAdder, Exact, TypeOK
    <3>2. ASSUME NEW e \in Data \ {d} PROVE Counted(e)'
      BY <2>0, <2>1, <3>2, Untouched DEF AddAllocated, Add, RefvalueInit, TypeOK
    <3>3. TypeOK'
      BY <2>0, <2>1 DEF AddAllocated, Add, RefvalueInit, TypeOK
    <3> QED BY <3>1, <3>2, <3>3 DEF IInv
  <2>2. ASSUME NEW t \in Threads, NEW d \in Data, BeginIncr(t, d) PROVE IInv'
    <3>0. IncrNoLock(d) /\ (d \in present => visits[d] > 0)
      BY <2>0, <2>2 DEF BeginIncr, Entry
    <3>1. Counted(d)'
      <4>1. CASE ret' = "OK"
        BY <2>0, <2>t, <2>2, <3>0, <4>1, IncrEffect
        DEF BeginIncr, Counted, Entry, Covered, OneAdder, Exact, TypeOK
      <4>2. CASE ret' # "OK"
        <5>1. /\ UNCHANGED <<present, visits, claims, refs, owned, aborted>>
              /\ adding' = [adding EXCEPT ![t] = d]
              /\ d \notin exposed' => /\ d \notin exposed /\ d \notin present
                                      /\ \A u \in Threads : adding[u] # d
          BY <2>0, <2>2, <3>0, <4>2, IncrEffect DEF BeginIncr, Adding
        <5>2. d \notin exposed' => OneAdder(d)'
          BY <2>0, <5>1 DEF OneAdder, TypeOK
        <5> QED
          BY <2>0, <5>1, <5>2 DEF Counted, Entry, Covered, Exact
      <4> QED BY <4>1, <4>2
    <3>2. ASSUME NEW e \in Data \ {d} PROVE Counted(e)'
      <4>1. /\ e \in present' <=> e \in present
            /\ visits'[e] = visits[e] /\ claims'[e] = claims[e]
            /\ refs'[e] = refs[e] /\ owned'[e] = owned[e]
            /\ exposed \subseteq exposed'
        BY <2>0, <2>2, <3>0, <3>2, IncrEffect DEF BeginIncr, TypeOK
      <4>2. \A u \in Threads : adding'[u] = e => adding[u] = e
        BY <2>0, <2>2, <3>2 DEF BeginIncr, TypeOK
      <4> QED BY <2>0, <4>1, <4>2, Untouched
    <3>3. TypeOK'
      BY <2>0, <2>2, <3>0, IncrEffect DEF BeginIncr, TypeOK
    <3> QED BY <3>1, <3>2, <3>3 DEF IInv
  <2>3. ASSUME NEW t \in Threads, BeginAdd(t) PROVE IInv'
    <3>p. PICK d \in Data : d = adding[t]
      BY <2>0, <2>3 DEF BeginAdd, TypeOK
    <3>0. d \in Data /\ Add(d) /\ adding' = [adding EXCEPT ![t] = NoData]
      BY <2>3, <3>p DEF BeginAdd
    <3>a. /\ present' = present \cup {d}
          /\ visits' = [visits EXCEPT ![d] = 1]
          /\ claims' = [claims EXCEPT ![d] = 0]
          /\ refs' = [refs EXCEPT ![d] = refs[d] + 1]
          /\ UNCHANGED <<ret, owned, exposed, aborted>>
      BY <3>0 DEF Add, RefvalueInit
    <3>1. Counted(d)'
      <4>1. Entry(d)' /\ Covered(d)'
        BY <2>0, <2>t, <3>0, <3>a DEF TypeOK, Entry, Covered
      <4>2. CASE d \notin exposed
        <5>1. d \notin present /\ \A u \in Threads : adding[u] = d => u = t
          BY <2>0, <3>p, <4>2 DEF Counted, OneAdder
        <5>2. OneAdder(d)'
          BY <2>0, <3>0, <5>1 DEF OneAdder, TypeOK
        <5>3. Exact(d) /\ visits[d] = 0
          BY <2>0, <2>t, <3>0, <4>2, <5>1 DEF Counted, Entry
        <5>4. Exact(d)'
          BY <2>0, <2>t, <3>0, <3>a, <5>3 DEF Exact, TypeOK
        <5> QED BY <4>1, <5>2, <5>4 DEF Counted
      <4> QED BY <3>a, <4>1, <4>2 DEF Counted
    <3>2. ASSUME NEW e \in Data \ {d} PROVE Counted(e)'
      <4>1. \A u \in Threads : adding'[u] = e => adding[u] = e
        BY <2>0, <3>0 DEF TypeOK
      <4> QED BY <2>0, <3>a, <3>2, <4>1, Untouched DEF TypeOK
    <3>3. TypeOK'
      BY <2>0, <3>0, <3>a DEF TypeOK
    <3> QED BY <3>1, <3>2, <3>3 DEF IInv
  <2>4. ASSUME NEW d \in Data, Keep(d) PROVE IInv'
    <3>0. IncrNoLock(d) /\ (d \in present => visits[d] > 0)
      BY <2>0, <2>4 DEF Keep, Entry
    <3>1. Counted(d)'
      <4>1. CASE ret' = "OK"
        BY <2>0, <2>t, <2>4, <3>0, <4>1, IncrEffect
        DEF Keep, Counted, Entry, Covered, OneAdder, Exact, TypeOK
      <4>2. CASE ret' # "OK"
        <5>1. UNCHANGED <<present, visits, claims, adding, refs, owned, exposed>>
          BY <2>0, <2>4, <3>0, <4>2, IncrEffect DEF Keep, TypeOK
        <5> QED
          BY <2>0, <5>1 DEF Counted, Entry, Covered, OneAdder, Exact
      <4> QED BY <4>1, <4>2
    <3>2. ASSUME NEW e \in Data \ {d} PROVE Counted(e)'
      BY <2>0, <2>4, <3>0, <3>2, IncrEffect, Untouched DEF Keep, TypeOK
    <3>3. TypeOK'
      BY <2>0, <2>4, <3>0, IncrEffect DEF Keep, TypeOK
    <3> QED BY <3>1, <3>2, <3>3 DEF IInv
  <2>5. ASSUME NEW d \in Data, Store(d) PROVE IInv'
    <3>0. IncrNoLock(d) /\ (d \in present => visits[d] > 0)
      BY <2>0, <2>5 DEF Store, Entry
    <3>1. Counted(d)'
      <4>1. CASE ret' = "OK"
        BY <2>0, <2>t, <2>5, <3>0, <4>1, IncrEffect
        DEF Store, Counted, Entry, Covered, OneAdder, Exact, TypeOK
      <4>2. CASE ret' # "OK"
        <5>1. /\ UNCHANGED <<present, visits, claims, owned>>
              /\ refs'[d] = refs[d] + 1 /\ d \in exposed'
          BY <2>0, <2>5, <3>0, <4>2, IncrEffect DEF Store, TypeOK
        <5> QED
          BY <2>0, <2>t, <5>1 DEF Counted, Entry, Covered
      <4> QED BY <4>1, <4>2
    <3>2. ASSUME NEW e \in Data \ {d} PROVE Counted(e)'
      BY <2>0, <2>5, <3>0, <3>2, IncrEffect, Untouched DEF Store, TypeOK
    <3>3. TypeOK'
      BY <2>0, <2>5, <3>0, IncrEffect DEF Store, TypeOK
    <3> QED BY <3>1, <3>2, <3>3 DEF IInv
  <2>6. ASSUME NEW d \in Data, Decr(d) PROVE IInv'
    <3>0. /\ DecrNoLock(d, claims[d]) /\ claims[d] \in Int
          /\ d \in present <=> visits[d] > 0
          /\ refs[d] > 0 /\ refs' = [refs EXCEPT ![d] = refs[d] - 1]
          /\ UNCHANGED <<claims, adding, owned, exposed, aborted>>
      BY <2>0, <2>t, <2>6 DEF Decr, Entry
    <3>1. Counted(d)'
      <4>1. Entry(d)'
        BY <2>0, <2>t, <3>0, DecrEffect DEF Entry
      <4>2. Covered(d)'
        <5>1. refs'[d] = refs[d] - 1
          BY <2>0, <3>0 DEF TypeOK
        <5> QED BY <2>0, <2>t, <3>0, <5>1, DecrEffect DEF Covered
      <4>3. d \notin exposed' => OneAdder(d)'
        <5>1. d \notin present => d \notin present'
          <6> SUFFICES ASSUME visits[d] = 0, visits'[d] > 0 PROVE FALSE
            BY <2>0, <2>t, <3>0, DecrEffect
          <6>1. visits'[d] = visits[d] - 1 \/ visits'[d] = visits[d]
            BY <2>0, <3>0, DecrEffect
          <6> QED BY <6>1
        <5> QED BY <2>0, <3>0, <5>1 DEF Counted, OneAdder
      <4>4. d \notin exposed' => Exact(d)'
        <5> SUFFICES ASSUME d \notin exposed PROVE Exact(d)'
          BY <3>0
        <5>1. Exact(d)
          BY <2>0 DEF Counted
        <5>2. refs'[d] = refs[d] - 1
          BY <2>0, <3>0 DEF TypeOK
        <5> QED BY <2>0, <2>t, <3>0, <5>1, <5>2, DecrEffect DEF Exact
      <4> QED BY <4>1, <4>2, <4>3, <4>4 DEF Counted
    <3>2. ASSUME NEW e \in Data \ {d} PROVE Counted(e)'
      <4>1. /\ e \in present' <=> e \in present
            /\ visits'[e] = visits[e]
        BY <2>0, <3>0, <3>2, DecrEffect
      <4> QED BY <2>0, <3>0, <3>2, <4>1, Untouched DEF TypeOK
    <3>3. TypeOK'
      <4>1. refs' \in [Data -> Nat]
        BY <2>0, <2>t, <3>0 DEF TypeOK
      <4>2. visits' \in [Data -> 0..IntMax] /\ present' \subseteq Data /\ ret' \in Codes
        BY <2>0, <3>0, DecrEffect
      <4> QED BY <2>0, <3>0, <4>1, <4>2 DEF TypeOK
    <3> QED BY <3>1, <3>2, <3>3 DEF IInv
  <2>7. ASSUME NEW d \in Data, Claim(d) PROVE IInv'
    <3>0. /\ Held(d) > 0 /\ (d \in present => visits[d] > 0)
          /\ UNCHANGED <<present, adding, refs, exposed>>
          /\ owned' = [owned EXCEPT ![d] = IF ret' = "OK" THEN @ + 1 ELSE @]
          /\ aborted' = (ret' # "OK")
      BY <2>0, <2>7 DEF Claim, Entry
    <3>a. /\ visits' \in [Data -> 0..IntMax] /\ ret' \in Codes
          /\ \A e \in Data \ {d} : visits'[e] = visits[e]
          /\ ret' = "OK" => d \in present /\ visits'[d] = visits[d] + 1
          /\ ret' # "OK" => visits'[d] = visits[d]
      BY <2>0, <2>7, <3>0, IncrEffect DEF Claim, TypeOK, Codes
    <3>b. /\ claims' \in [Data -> (-IntMax - 1)..IntMax]
          /\ \A e \in Data \ {d} : claims'[e] = claims[e]
          /\ d \in present => claims'[d] = ToInt(claims[d] + 1)
          /\ d \notin present => claims'[d] = claims[d]
      BY <2>0, <2>t, <2>7, ToIntType DEF Claim, TypeOK
    <3>1. Counted(d)'
      <4>1. Entry(d)'
        BY <2>0, <2>t, <3>0, <3>a, <3>b DEF Entry
      <4>2. CASE ret' = "OK"
        <5>1. owned'[d] = owned[d] + 1 /\ d \in present
          BY <2>0, <3>0, <3>a, <4>2 DEF TypeOK
        <5>2. Covered(d)'
          BY <2>0, <2>t, <3>0, <3>a, <3>b, <4>2, <5>1 DEF Covered, ToInt, Lap
        <5>3. d \notin exposed' => Exact(d)'
          <6> SUFFICES ASSUME d \notin exposed PROVE Exact(d)'
            BY <3>0
          <6>1. Exact(d)
            BY <2>0 DEF Counted
          <6>2. claims[d] + 1 =< IntMax
            <7>1. visits[d] # IntMax
              BY <2>0, <2>t, <3>a, <4>2 DEF TypeOK
            <7> QED BY <2>t, <6>1, <7>1 DEF Exact
          <6> QED BY <2>t, <3>0, <3>a, <3>b, <4>2, <5>1, <6>1, <6>2 DEF Exact, ToInt
        <5>4. d \notin exposed' => OneAdder(d)'
          BY <2>0, <3>0 DEF Counted, OneAdder
        <5> QED BY <4>1, <5>2, <5>3, <5>4 DEF Counted
      <4>3. CASE ret' # "OK"
        <5>1. aborted' /\ Held(d)' > 0
          BY <2>0, <2>t, <3>0, <4>3 DEF TypeOK, Held
        <5>2. d \notin exposed' => OneAdder(d)'
          BY <2>0, <3>0 DEF Counted, OneAdder
        <5>3. d \notin exposed' => d \in present'
          BY <2>0, <2>t, <3>0 DEF Counted, Exact, Entry, Held
        <5>4. Settled(d)'
          BY <5>1, <2>t, <3>0 DEF Settled
        <5> QED BY <4>1, <5>1, <5>2, <5>3, <5>4 DEF Counted, Stranded
      <4> QED BY <4>2, <4>3
    <3>2. ASSUME NEW e \in Data \ {d} PROVE Counted(e)'
      BY <2>0, <3>0, <3>a, <3>b, <3>2, Untouched DEF TypeOK
    <3>3. TypeOK'
      <4>1. owned' \in [Data -> Nat] /\ aborted' \in BOOLEAN
        BY <2>0, <2>t, <3>0 DEF TypeOK
      <4>2. aborted' \/ \A e \in Data \ exposed' : owned'[e] \in Nat /\ Exact(e)'
        BY <3>0, <3>1, <3>2, <4>1 DEF Counted
      <4>3. \A e \in Data : claims'[e] >= 0 \/ aborted' \/ e \in exposed'
        BY <2>s, <4>2
      <4> QED BY <2>0, <3>0, <3>a, <3>b, <4>1, <4>3 DEF TypeOK
    <3> QED BY <3>1, <3>2, <3>3 DEF IInv
  <2>8. ASSUME NEW d \in Data, Unclaim(d) PROVE IInv'
    <3>0. /\ d \in present <=> visits[d] > 0
          /\ UNCHANGED <<adding, refs, exposed>>
          /\ owned' = [owned EXCEPT ![d] = IF @ > 0 THEN @ - 1 ELSE @]
          /\ aborted' = (ret' # "OK")
      BY <2>0, <2>8 DEF Unclaim, Entry
    <3>t. owned' \in [Data -> Nat] /\ aborted' \in BOOLEAN
      BY <2>0, <2>t, <3>0 DEF TypeOK
    <3>o. \A e \in Data \ {d} : owned'[e] = owned[e]
      BY <2>0, <3>0 DEF TypeOK
    <3>d. owned'[d] = IF owned[d] > 0 THEN owned[d] - 1 ELSE owned[d]
      BY <2>0, <3>0 DEF TypeOK
    <3>1. CASE d \in present /\ claims[d] # 0
      <4> DEFINE c == ToInt(claims[d] - 1)
      <4>0. DecrNoLock(d, c) /\ claims' = [claims EXCEPT ![d] = c]
        BY <3>1, <2>8 DEF Unclaim
      <4>1. c \in (-IntMax - 1)..IntMax
        BY <2>t, ToIntType
      <4>2. /\ visits' \in [Data -> 0..IntMax]
            /\ present' \subseteq Data
            /\ ret' \in Codes
            /\ \A e \in Data \ {d} : visits'[e] = visits[e]
            /\ \A e \in Data \ {d} : e \in present' <=> e \in present
            /\ d \in present' <=> visits'[d] > 0
            /\ ret' = "OK" => visits'[d] = visits[d] - 1
            /\ ret' = "OK" /\ visits'[d] = 0 => c = 0
            /\ ret' # "OK" => /\ visits'[d] = visits[d]
                              /\ visits[d] = 0 \/ visits[d] < c \/ (visits[d] = 1 /\ c # 0)
        BY <2>0, <3>0, <4>0, <4>1, DecrEffect
      <4>3. claims' \in [Data -> (-IntMax - 1)..IntMax] /\ claims'[d] = c
            /\ \A e \in Data \ {d} : claims'[e] = claims[e]
        BY <2>0, <4>0, <4>1 DEF TypeOK
      <4>4. owned[d] > 0 /\ owned'[d] = owned[d] - 1
        BY <2>0, <2>t, <3>1, <3>d DEF Covered, Lap
      <4>5. Covered(d)' \/ ret' # "OK"
        BY <2>0, <2>t, <3>0, <3>1, <4>2, <4>3, <4>4 DEF Covered, ToInt, Lap
      <4>6. Entry(d)'
        BY <2>t, <3>0, <3>1, <4>1, <4>2, <4>3 DEF Entry
      <4>7. ret' # "OK" => Settled(d)'
        <5> SUFFICES ASSUME ret' # "OK", refs[d] = 0, owned[d] = 1 PROVE FALSE
          BY <2>t, <3>0, <4>4 DEF Settled, Held
        <5>1. claims[d] = 1
          BY <2>0, <2>t, <3>1 DEF Covered, Lap
        <5>2. c = 0
          BY <5>1 DEF ToInt
        <5>3. visits[d] > 0
          BY <3>0, <3>1
        <5> QED BY <2>t, <4>2, <5>2, <5>3
      <4>8. d \notin exposed => ret' = "OK" /\ Exact(d)' /\ OneAdder(d)'
        <5> SUFFICES ASSUME d \notin exposed
                     PROVE  ret' = "OK" /\ Exact(d)' /\ OneAdder(d)'
          OBVIOUS
        <5>1. Exact(d) /\ OneAdder(d)
          BY <2>0 DEF Counted
        <5>2. c = claims[d] - 1
          BY <2>t, <5>1 DEF Exact, ToInt
        <5>3. ret' = "OK"
          BY <2>t, <3>0, <3>1, <4>2, <4>4, <5>1, <5>2 DEF Exact
        <5>4. OneAdder(d)'
          BY <3>0, <3>1, <5>1 DEF OneAdder
        <5> QED BY <2>t, <3>0, <4>2, <4>3, <4>4, <5>1, <5>2, <5>3, <5>4 DEF Exact
      <4>9. Counted(d)'
        BY <3>0, <4>5, <4>6, <4>7, <4>8 DEF Counted
      <4>10. ASSUME NEW e \in Data \ {d} PROVE Counted(e)'
        BY <2>0, <3>0, <3>o, <4>2, <4>3, <4>10, Untouched
      <4>11. TypeOK'
        <5>1. aborted' \/ \A e \in Data \ exposed' : owned'[e] \in Nat /\ Exact(e)'
          BY <3>0, <3>t, <4>9, <4>10 DEF Counted
        <5>2. \A e \in Data : claims'[e] >= 0 \/ aborted' \/ e \in exposed'
          BY <2>s, <5>1
        <5> QED BY <2>0, <3>0, <3>t, <4>2, <4>3, <5>2 DEF TypeOK
      <4> QED BY <4>9, <4>10, <4>11 DEF IInv
    <3>2. CASE d \notin present \/ claims[d] = 0
      <4>0. ret' = "UNAVAILABLE" /\ UNCHANGED table /\ aborted'
        BY <3>2, <2>8 DEF Unclaim
      <4>1. Settled(d)'
        <5> SUFFICES ASSUME refs[d] = 0, owned'[d] = 0, d \in present PROVE FALSE
          BY <2>t, <3>0, <3>t, <4>0 DEF Settled, Held, table
        <5>1. claims[d] = 0 /\ owned[d] =< 1 /\ visits[d] > 0
          BY <2>t, <3>0, <3>2, <3>d
        <5> QED BY <2>0, <2>t, <5>1 DEF Covered, Lap
      <4>2. d \notin exposed => owned'[d] = owned[d]
        BY <2>0, <2>t, <3>0, <3>2, <3>d DEF Counted, Exact, Entry
      <4>3. Counted(d)'
        BY <2>0, <3>0, <4>0, <4>1, <4>2
        DEF Counted, Entry, OneAdder, Exact, table
      <4>4. ASSUME NEW e \in Data \ {d} PROVE Counted(e)'
        BY <2>0, <3>0, <3>o, <4>0, <4>4, Untouched DEF table
      <4>5. TypeOK'
        BY <2>0, <3>0, <3>t, <4>0 DEF TypeOK, Codes, table
      <4> QED BY <4>3, <4>4, <4>5 DEF IInv
    <3> QED BY <3>1, <3>2
  <2> QED BY <1>2, <2>1, <2>2, <2>3, <2>4, <2>5, <2>6, <2>7, <2>8 DEF Next
<1> QED BY <1>1, <1>2

(* What the counters say about the clients, in every reachable state: of   *)
(* an address that is not exposed they count exactly what is held, of any  *)
(* address never more than is held.                                        *)
THEOREM Counting == Spec => []IInv
BY InitIInv, NextIInv, PTL DEF Spec

(* Type correctness: visits never leaves an int, claims only on exposed    *)
(* addresses or in the claim that ends the program.                        *)
THEOREM TypeCorrect == Spec => []TypeOK
<1>1. IInv => TypeOK
  BY DEF IInv
<1> QED BY <1>1, Counting, PTL

(* No resource is cleaned up while a client references or owns it, unless  *)
(* its entry was exposed to being overwritten.                             *)
THEOREM NeverFreedWhileHeld == Spec => []HeldIsPresent
<1>1. IInv => HeldIsPresent
  BY DEF IInv, TypeOK, Counted, Entry, Exact, Stranded, HeldIsPresent, Held
<1> QED BY <1>1, Counting, PTL

(* A resource nobody holds has been cleaned up, exposed or not.            *)
THEOREM NoLeak == Spec => []UnheldIsCleaned
<1>1. IInv => UnheldIsCleaned
  <2> SUFFICES ASSUME IInv, NEW d \in Data, Held(d) = 0 PROVE d \notin present
    BY DEF UnheldIsCleaned
  <2>1. /\ visits[d] \in 0..IntMax /\ claims[d] \in (-IntMax - 1)..IntMax
        /\ refs[d] \in Nat /\ owned[d] \in Nat
    BY DEF IInv, TypeOK
  <2> QED BY <2>1, IntMaxAssumption
          DEF IntMaxAssumption, IInv, Counted, Entry, Covered, Settled, Held, Lap
<1> QED BY <1>1, Counting, PTL

(* A holder's decrement and an owner's unclaim return OK, unless the entry *)
(* was exposed to being overwritten.                                       *)
THEOREM RightfulRelease == Spec => RightfulReleaseSucceeds
<1> DEFINE Granted == \A d \in Data \ exposed :
             refs'[d] < refs[d] \/ owned'[d] < owned[d] => ret' = "OK"
<1>1. IInv /\ [Next]_vars => [Granted]_vars
  <2> SUFFICES ASSUME IInv, Next, NEW e \in Data \ exposed,
                      refs'[e] < refs[e] \/ owned'[e] < owned[e]
               PROVE  ret' = "OK"
    OBVIOUS
  <2>0. /\ TypeOK /\ Entry(e) /\ Exact(e)
        /\ visits[e] \in 0..IntMax /\ claims[e] \in (-IntMax - 1)..IntMax
        /\ refs[e] \in Nat /\ owned[e] \in Nat
    BY DEF IInv, Next, Counted, TypeOK
  <2>1. ASSUME NEW d \in Data,
               AddAllocated(d) \/ Keep(d) \/ Store(d) \/ Claim(d)
        PROVE  FALSE
    BY <2>0, <2>1 DEF TypeOK, AddAllocated, Add, Keep, Store, Claim
  <2>2. ASSUME NEW t \in Threads, BeginAdd(t) PROVE FALSE
    BY <2>0, <2>2 DEF TypeOK, BeginAdd, Add
  <2>3. ASSUME NEW t \in Threads, NEW d \in Data, BeginIncr(t, d) PROVE FALSE
    BY <2>0, <2>3 DEF TypeOK, BeginIncr
  <2>4. ASSUME NEW d \in Data, Decr(d) PROVE ret' = "OK"
    <3>1. d = e
      BY <2>0, <2>4 DEF TypeOK, Decr
    <3>2. visits[e] > 0 /\ visits[e] >= claims[e] /\ (visits[e] = 1 => claims[e] = 0)
      BY <2>0, <2>4, <3>1 DEF Exact, Decr
    <3> QED BY <2>0, <2>4, <3>1, <3>2
            DEF Entry, Decr, DecrNoLock, DecrRefused, LastVisit
  <2>5. ASSUME NEW d \in Data, Unclaim(d) PROVE ret' = "OK"
    <3>1. d = e /\ owned[e] > 0
      BY <2>0, <2>5 DEF TypeOK, Unclaim
    <3>2. e \in present /\ claims[e] > 0
      BY <2>0, <3>1 DEF Entry, Exact
    <3>3. ToInt(claims[e] - 1) = claims[e] - 1
      BY <2>0, <3>2, IntMaxAssumption DEF IntMaxAssumption, ToInt
    <3>4. DecrNoLock(e, claims[e] - 1)
      BY <2>5, <3>1, <3>2, <3>3 DEF Unclaim
    <3> QED BY <2>0, <3>1, <3>2, <3>4 DEF Exact, DecrNoLock, DecrRefused, LastVisit
  <2> QED BY <2>1, <2>2, <2>3, <2>4, <2>5 DEF Next
<1> QED BY <1>1, Counting, PTL DEF Spec, RightfulReleaseSucceeds
=============================================================================
