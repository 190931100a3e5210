----------------------------- MODULE RestProofs -----------------------------
(***************************************************************************)
(* For every set of requests, route keys and callers, every retry limit    *)
(* and every server: the safety invariants of RestRequest.                 *)
(***************************************************************************)
EXTENDS RestRequest, TLAPS

-----------------------------------------------------------------------------
(* What appending, prepending and taking the head do to the elements of a  *)
(* queue, for queues whose elements are all different (intrusive lists).   *)

(* The set of a queue's elements, by the queue's length.                   *)
LEMMA ItemsByIndex ==
  ASSUME NEW S, NEW s \in Seq(S)
  PROVE  /\ \A x : x \in ToSet(s) <=> \E i \in 1..Len(s) : x = s[i]
         /\ IsInjective(s) <=> \A i, j \in 1..Len(s) : s[i] = s[j] => i = j
BY DEF ToSet, IsInjective

(* The empty queue, and only it, has no elements.                          *)
LEMMA EmptyItems ==
  /\ ToSet(<<>>) = {} /\ IsInjective(<<>>)
  /\ \A S : \A s \in Seq(S) : ToSet(s) \subseteq S /\ (ToSet(s) = {} => s = <<>>)
BY DEF ToSet, IsInjective

(* Append adds one element, and keeps the elements different if it is new. *)
LEMMA AppendItems ==
  ASSUME NEW S, NEW s \in Seq(S), NEW e \in S
  PROVE  /\ Append(s, e) \in Seq(S) /\ Append(s, e) # <<>>
         /\ ToSet(Append(s, e)) = ToSet(s) \cup {e}
         /\ IsInjective(s) /\ e \notin ToSet(s) => IsInjective(Append(s, e))
<1> DEFINE t == Append(s, e)
<1>1. t \in Seq(S) /\ t # <<>> /\ Len(t) = Len(s) + 1 /\ Len(s) \in Nat
  OBVIOUS
<1>2. t[Len(s)+1] = e /\ \A i \in 1..Len(s) : t[i] = s[i]
  OBVIOUS
<1> HIDE DEF t
<1>3. \A i \in 1..Len(t) : i = Len(s)+1 \/ i \in 1..Len(s)
  BY <1>1
<1>4. \A x : x \in ToSet(t) <=> x \in ToSet(s) \cup {e}
  BY <1>1, <1>2, <1>3, ItemsByIndex
<1>5. IsInjective(s) /\ e \notin ToSet(s) => IsInjective(t)
  BY <1>1, <1>2, <1>3, ItemsByIndex
<1> QED BY <1>1, <1>4, <1>5 DEF t

(* Likewise at the front.                                                  *)
LEMMA PrependItems ==
  ASSUME NEW S, NEW s \in Seq(S), NEW e \in S
  PROVE  /\ <<e>> \o s \in Seq(S) /\ <<e>> \o s # <<>>
         /\ ToSet(<<e>> \o s) = ToSet(s) \cup {e}
         /\ IsInjective(s) /\ e \notin ToSet(s) => IsInjective(<<e>> \o s)
<1> DEFINE t == <<e>> \o s
<1>1. t \in Seq(S) /\ t # <<>> /\ Len(t) = Len(s) + 1 /\ Len(s) \in Nat
  OBVIOUS
<1>2. t[1] = e /\ \A i \in 1..Len(s) : t[i+1] = s[i]
  OBVIOUS
<1> HIDE DEF t
<1>3. \A i \in 1..Len(t) : i = 1 \/ (i-1 \in 1..Len(s) /\ t[i] = s[i-1])
  BY <1>1, <1>2
<1>4. \A i \in 1..Len(s) : i+1 \in 1..Len(t)
  BY <1>1
<1>5. /\ \A x : x \in ToSet(s) <=> \E i \in 1..Len(s) : x = s[i]
      /\ \A x : x \in ToSet(t) <=> \E i \in 1..Len(t) : x = t[i]
  BY <1>1, ItemsByIndex
<1>6. \A x : x \in ToSet(t) <=> x \in ToSet(s) \cup {e}
  <2>1. ASSUME NEW x, x \in ToSet(t) PROVE x \in ToSet(s) \cup {e}
    <3>1. PICK i \in 1..Len(t) : x = t[i]
      BY <2>1, <1>5
    <3> QED BY <3>1, <1>2, <1>3, <1>5
  <2>2. ASSUME NEW x \in ToSet(s) PROVE x \in ToSet(t)
    <3>1. PICK i \in 1..Len(s) : x = s[i]
      BY <1>5
    <3> QED BY <3>1, <1>2, <1>4, <1>5
  <2>3. e \in ToSet(t)
    BY <1>1, <1>2, <1>5
  <2> QED BY <2>1, <2>2, <2>3
<1>7. IsInjective(s) /\ e \notin ToSet(s) => IsInjective(t)
  BY <1>1, <1>2, <1>3, <1>4, ItemsByIndex
<1> QED BY <1>1, <1>6, <1>7 DEF t

(* Tail removes the head and nothing else.                                 *)
LEMMA TailItems ==
  ASSUME NEW S, NEW s \in Seq(S), s # <<>>
  PROVE  /\ Head(s) \in S /\ Tail(s) \in Seq(S)
         /\ ToSet(s) = ToSet(Tail(s)) \cup {Head(s)}
         /\ IsInjective(s) => IsInjective(Tail(s)) /\ Head(s) \notin ToSet(Tail(s))
<1> DEFINE t == Tail(s)
           e == Head(s)
<1>1. e \in S /\ t \in Seq(S) /\ Len(s) = Len(t) + 1 /\ Len(t) \in Nat
  OBVIOUS
<1>2. s[1] = e /\ \A i \in 1..Len(t) : s[i+1] = t[i]
  OBVIOUS
<1> HIDE DEF t, e
<1>3. \A i \in 1..Len(s) : i = 1 \/ (i-1 \in 1..Len(t) /\ s[i] = t[i-1])
  BY <1>1, <1>2
<1>4. /\ \A i \in 1..Len(t) : i+1 \in 1..Len(s) /\ i+1 # 1
      /\ 1 \in 1..Len(s)
  BY <1>1
<1>5. /\ \A x : x \in ToSet(s) <=> \E i \in 1..Len(s) : x = s[i]
      /\ \A x : x \in ToSet(t) <=> \E i \in 1..Len(t) : x = t[i]
  BY <1>1, ItemsByIndex
<1>6. \A x : x \in ToSet(s) <=> x \in ToSet(t) \cup {e}
  <2>1. ASSUME NEW x, x \in ToSet(s) PROVE x \in ToSet(t) \cup {e}
    <3>1. PICK i \in 1..Len(s) : x = s[i]
      BY <2>1, <1>5
    <3> QED BY <3>1, <1>2, <1>3, <1>5
  <2>2. ASSUME NEW x \in ToSet(t) PROVE x \in ToSet(s)
    <3>1. PICK i \in 1..Len(t) : x = t[i]
      BY <1>5
    <3> QED BY <3>1, <1>2, <1>4, <1>5
  <2>3. e \in ToSet(s)
    BY <1>4, <1>2, <1>5
  <2> QED BY <2>1, <2>2, <2>3
<1>7. ASSUME IsInjective(s) PROVE IsInjective(t) /\ e \notin ToSet(t)
  <2>1. \A i, j \in 1..Len(s) : s[i] = s[j] => i = j
    BY <1>7, ItemsByIndex
  <2>2. ASSUME NEW i \in 1..Len(t), NEW j \in 1..Len(t), t[i] = t[j] PROVE i = j
    <3>1. i+1 = j+1
      BY <2>1, <2>2, <1>2, <1>4
    <3> QED BY <3>1
  <2>3. ASSUME e \in ToSet(t) PROVE FALSE
    <3>1. PICK i \in 1..Len(t) : e = t[i]
      BY <2>3, <1>5
    <3> QED BY <3>1, <2>1, <1>2, <1>4
  <2> QED BY <2>2, <2>3, <1>1, ItemsByIndex
<1> QED BY <1>1, <1>6, <1>7 DEF t, e

-----------------------------------------------------------------------------
(* The inductive invariant.                                                *)

(* Where the REST thread's local variables mean something.                 *)
Dealing == rest \in {"build", "aborted"}

Locals ==
  /\ Dealing => cur \in Requests /\ bof[cur] \in Bucket
  /\ ~Dealing => cur = NoReq /\ filter = <<>>
  /\ rest # "route" => moved = <<>>
  /\ filter # <<>> => filterTo \in Bucket

(* A request in use has the key it was begun with.                         *)
Keyed == \A r \in Requests :
  key[r] \in Keys \/ r \in unused \/ r \in ToSet(recycling)

(* The pending list, with the reason why null_filter may leave an entry    *)
(* for an empty queue: the request being dealt with came from `null`.      *)
PendingList == \A b \in Bucket :
  \/ b \in listed <=> queue[b] # <<>>
  \/ b = NullB /\ Dealing /\ b \in listed /\ (rest = "build" => bof[cur] = NullB)

IInv ==
  /\ TypeOK
  /\ Locals
  /\ Keyed
  /\ OnePlace
  /\ InFlightIsBusy
  /\ OneAlarmPerTimeout
  /\ PendingList

-----------------------------------------------------------------------------
(* How a step moves the requests, in the phases of RequestService.         *)

Phases == {"idle", "queued", "sent", "answered"}

PlacesOf(phase) ==
  CASE phase = "idle" -> {"unused", "recycling"}
    [] phase = "queued" -> {"pending", "moved", "filter", "bucket"}
    [] phase = "sent" -> {"wire", "read"}
    [] phase = "answered" -> {"finished", "dispatching", "signalled"}

Moves(r, from, to) ==
  \E x \in PlacesOf(from), y \in PlacesOf(to) : At(r, x) /\ At(r, y)'

Stays(r) == \E p \in Phases : Moves(r, p, p)

AllStay == \A r \in Requests : Stays(r)

(* Only r goes on.                                                         *)
Advances(r, from, to) ==
  /\ Moves(r, from, to)
  /\ \A q \in Requests : q # r => Stays(q)

(* A request that keeps its place stays in its phase.                      *)
LEMMA SameStays ==
  ASSUME NEW q, NEW x \in Places, At(q, x), At(q, x)'
  PROVE  Stays(q)
<1>1. PICK p \in Phases : x \in PlacesOf(p)
  BY DEF Places, Phases, PlacesOf
<1> QED BY <1>1 DEF Stays, Moves

(* Whatever moves ends up in a place.                                      *)
LEMMA MovesPlaces ==
  \A q : /\ \A f \in Phases, p \in Phases : Moves(q, f, p) => \E y \in Places : At(q, y)'
         /\ Stays(q) => \E y \in Places : At(q, y)'
<1>1. \A p \in Phases : PlacesOf(p) \subseteq Places
  BY DEF Places, Phases, PlacesOf
<1> QED BY <1>1 DEF Moves, Stays

LEMMA StayPlaces == AllStay => \A q \in Requests : \E y \in Places : At(q, y)'
BY MovesPlaces DEF AllStay

LEMMA AdvancesPlaces ==
  ASSUME NEW r, NEW f \in Phases, NEW p \in Phases, Advances(r, f, p)
  PROVE  \A q \in Requests : \E y \in Places : At(q, y)'
BY MovesPlaces DEF Advances

-----------------------------------------------------------------------------
(* An idle pipeline: every object unused, every bucket empty.              *)
LEMMA InitIInv == Init => IInv
<1> SUFFICES ASSUME Init PROVE IInv
  OBVIOUS
<1> USE BucketAssumption, ServerAssumption, RequestAssumption, EmptyItems
    DEF BucketAssumption, ServerAssumption, RequestAssumption
<1>0. Init /\ RatelimiterInit
  BY DEF Init
<1>1. TypeOK
  <2>1. RatelimiterTypeOK
    BY <1>0 DEF RatelimiterInit, RatelimiterTypeOK, Waits
  <2> QED BY <1>0, <2>1 DEF Init, TypeOK
<1>2. Locals
  BY <1>0 DEF Init, Locals, Dealing
<1>3. Keyed
  BY <1>0 DEF Init, Keyed
<1>4. OnePlace
  <2>1. ASSUME NEW r \in Requests PROVE At(r, "unused")
    BY <1>0 DEF Init, RatelimiterInit, At
  <2>2. \A b \in Bucket : IsInjective(queue[b])
    BY <1>0 DEF RatelimiterInit
  <2>3. IsInjective(recycling) /\ IsInjective(pending) /\ IsInjective(moved)
        /\ IsInjective(filter) /\ IsInjective(finished) /\ IsInjective(dispatching)
    BY <1>0 DEF Init
  <2> QED BY <2>1, <2>2, <2>3 DEF OnePlace, Places
<1>5. InFlightIsBusy
  BY <1>0 DEF Init, InFlightIsBusy
<1>6. OneAlarmPerTimeout
  BY <1>0 DEF RatelimiterInit, OneAlarmPerTimeout
<1>7. PendingList
  BY <1>0 DEF RatelimiterInit, PendingList
<1> QED BY <1>1, <1>2, <1>3, <1>4, <1>5, <1>6, <1>7 DEF IInv

(* winecord_request_begin moves one object to `pending`, with a key.       *)
LEMMA RequestBeginStep ==
  ASSUME IInv, NEW t \in Callers, RequestBegin(t)
  PROVE  IInv' /\ \E r \in Requests : Advances(r, "idle", "queued")
<1> USE BucketAssumption, ServerAssumption, RequestAssumption
    DEF BucketAssumption, ServerAssumption, RequestAssumption
<1>0. PICK r \in Requests, k \in Keys, s \in SyncModes, h \in Priorities :
         /\ RequestGet(r)
         /\ key' = [key EXCEPT ![r] = k]
         /\ sync' = [sync EXCEPT ![r] = s]
         /\ high' = [high EXCEPT ![r] = h]
         /\ pending' = Append(pending, r)
         /\ waiting' = IF s THEN [waiting EXCEPT ![t] = r] ELSE waiting
  BY DEF RequestBegin
<1>0a. /\ UNCHANGED <<bucketVars, finished, attempt, signalled, dispatching, wire, rest,
                 moved, readVars>>
  BY DEF RequestBegin
<1> USE DEF IInv
<1>p. PICK p \in Places : At(r, p)
  BY DEF OnePlace
<1>r. /\ recycling' \in Seq(Requests)
      /\ unused' \subseteq unused
      /\ unused \subseteq unused' \cup {r}
      /\ ToSet(recycling') \subseteq ToSet(recycling)
      /\ ToSet(recycling) \subseteq ToSet(recycling') \cup {r}
      /\ r \notin unused' /\ r \notin ToSet(recycling')
      /\ IsInjective(recycling')
      /\ p \in {"unused", "recycling"}
  <2> USE DEF RequestGet, TypeOK, OnePlace
  <2>1. CASE recycling # <<>>
    <3>1. /\ r = Head(recycling) /\ recycling' = Tail(recycling) /\ unused' = unused
      BY <1>0, <2>1
    <3>2. recycling \in Seq(Requests) /\ IsInjective(recycling)
      OBVIOUS
    <3>3. /\ Tail(recycling) \in Seq(Requests)
          /\ ToSet(recycling) = ToSet(Tail(recycling)) \cup {Head(recycling)}
          /\ IsInjective(Tail(recycling)) /\ Head(recycling) \notin ToSet(Tail(recycling))
      BY <2>1, <3>2, TailItems
    <3> QED BY <3>1, <3>2, <3>3, <1>p DEF At
  <2>2. CASE recycling = <<>>
    BY <1>0, <2>2, <1>p, EmptyItems DEF At
  <2> QED BY <2>1, <2>2
<1>a. /\ pending' \in Seq(Requests)
      /\ ToSet(pending') = ToSet(pending) \cup {r}
      /\ IsInjective(pending')
  <2>1. pending \in Seq(Requests) /\ IsInjective(pending) /\ r \notin ToSet(pending)
    BY <1>p, <1>r DEF TypeOK, OnePlace, At
  <2> QED BY <2>1, <1>0, AppendItems
<1>1. TypeOK'
  BY <1>0, <1>0a, <1>r, <1>a DEF TypeOK, RatelimiterTypeOK, bucketVars, readVars
<1>2. Locals'
  BY <1>0a DEF Locals, Dealing, bucketVars, readVars
<1>3. Keyed'
  BY <1>0, <1>0a, <1>r DEF Keyed, TypeOK
<1>m. Advances(r, "idle", "queued")
  <2>1. Moves(r, "idle", "queued")
    <3>1. At(r, "pending")'
      BY <1>0a, <1>p, <1>r, <1>a DEF At, bucketVars, readVars
    <3> QED BY <3>1, <1>p, <1>r DEF Moves, PlacesOf
  <2>2. ASSUME NEW q \in Requests, q # r PROVE Stays(q)
    <3>1. PICK x \in Places : At(q, x)
      BY DEF OnePlace
    <3>2. At(q, x)'
      BY <1>0a, <1>r, <1>a, <2>2, <3>1 DEF At, bucketVars, readVars
    <3> QED BY <3>1, <3>2, SameStays
  <2> QED BY <2>1, <2>2 DEF Advances
<1>4. OnePlace'
  BY <1>m, AdvancesPlaces, <1>0a, <1>r, <1>a DEF OnePlace, bucketVars, readVars, Phases
<1>5. InFlightIsBusy'
  BY <1>0a DEF InFlightIsBusy, bucketVars
<1>6. OneAlarmPerTimeout'
  BY <1>0a DEF OneAlarmPerTimeout, bucketVars
<1>7. PendingList'
  BY <1>0a DEF PendingList, Dealing, bucketVars, readVars
<1> QED BY <1>m, <1>1, <1>2, <1>3, <1>4, <1>5, <1>6, <1>7

(* A woken caller recycles the object it was signalled for.                *)
LEMMA SyncReturnStep ==
  ASSUME IInv, NEW t \in Callers, SyncReturn(t)
  PROVE  IInv' /\ waiting[t] \in Requests /\ Advances(waiting[t], "answered", "idle")
<1> USE BucketAssumption, ServerAssumption, RequestAssumption
    DEF BucketAssumption, ServerAssumption, RequestAssumption, IInv,
        bucketVars, queueVars, attrVars, waitVars, readVars
<1>0. PICK r \in Requests : /\ r = waiting[t] /\ r \in signalled /\ RequestCancel(r)
                            /\ signalled' = signalled \ {r}
  BY DEF SyncReturn, TypeOK
<1>p. At(r, "signalled")
  BY <1>0 DEF OnePlace, At
<1>b. /\ recycling' \in Seq(Requests)
      /\ ToSet(recycling') = ToSet(recycling) \cup {r}
      /\ IsInjective(recycling')
  <2>1. recycling \in Seq(Requests) /\ IsInjective(recycling) /\ r \notin ToSet(recycling)
    BY <1>p DEF TypeOK, OnePlace, At
  <2> QED BY <2>1, <1>0, AppendItems DEF RequestCancel
<1>1. TypeOK'
  <2>1. /\ key' \in [Requests -> Keys \cup {NoKey}]
        /\ sync' \in [Requests -> BOOLEAN]
        /\ high' \in [Requests -> BOOLEAN]
        /\ attempt' \in [Requests -> 0..RetryLimit]
    BY <1>0 DEF RequestCancel, TypeOK
  <2>2. waiting' \in [Callers -> Requests \cup {NoReq}] /\ signalled' \subseteq Requests
    BY <1>0 DEF SyncReturn, TypeOK
  <2> QED BY <1>b, <2>1, <2>2 DEF SyncReturn, TypeOK, RatelimiterTypeOK
<1>2. Locals'
  BY DEF SyncReturn, Locals, Dealing
<1>3. Keyed'
  BY <1>0, <1>b DEF SyncReturn, RequestCancel, Keyed, TypeOK
<1>m. Advances(r, "answered", "idle")
  <2>1. Moves(r, "answered", "idle")
    <3>1. At(r, "recycling")'
      BY <1>0, <1>p, <1>b DEF SyncReturn, At
    <3> QED BY <3>1, <1>p DEF Moves, PlacesOf
  <2>2. ASSUME NEW q \in Requests, q # r PROVE Stays(q)
    <3>1. PICK x \in Places : At(q, x)
      BY DEF OnePlace
    <3>2. At(q, x)'
      BY <1>0, <1>b, <2>2, <3>1 DEF SyncReturn, At
    <3> QED BY <3>1, <3>2, SameStays
  <2> QED BY <2>1, <2>2 DEF Advances
<1>4. OnePlace'
  BY <1>m, AdvancesPlaces, <1>0, <1>b DEF SyncReturn, OnePlace, Phases
<1>5. InFlightIsBusy'
  BY DEF SyncReturn, InFlightIsBusy
<1>6. OneAlarmPerTimeout'
  BY DEF SyncReturn, OneAlarmPerTimeout
<1>7. PendingList'
  BY DEF SyncReturn, PendingList, Dealing
<1> QED BY <1>0, <1>m, <1>1, <1>2, <1>3, <1>4, <1>5, <1>6, <1>7

(* The main thread recycles the object whose callback it ran.              *)
LEMMA DispatchResponseStep ==
  ASSUME IInv, DispatchResponse
  PROVE  IInv' /\ Head(dispatching) \in Requests /\ Advances(Head(dispatching), "answered", "idle")
<1> USE BucketAssumption, ServerAssumption, RequestAssumption
    DEF BucketAssumption, ServerAssumption, RequestAssumption, IInv,
        bucketVars, queueVars, attrVars, waitVars, readVars
<1>0. PICK r \in Requests :
      /\ r = Head(dispatching) /\ RequestCancel(r)
      /\ dispatching' = Tail(dispatching) /\ dispatching' \in Seq(Requests)
      /\ ToSet(dispatching) = ToSet(dispatching') \cup {r}
      /\ IsInjective(dispatching') /\ r \notin ToSet(dispatching')
  BY TailItems DEF DispatchResponse, TypeOK, OnePlace
<1>p. At(r, "dispatching")
  BY <1>0 DEF OnePlace, At
<1>b. /\ recycling' \in Seq(Requests)
      /\ ToSet(recycling') = ToSet(recycling) \cup {r}
      /\ IsInjective(recycling')
  <2>1. recycling \in Seq(Requests) /\ IsInjective(recycling) /\ r \notin ToSet(recycling)
    BY <1>p DEF TypeOK, OnePlace, At
  <2> QED BY <2>1, <1>0, AppendItems DEF RequestCancel
<1>1. TypeOK'
  <2>1. /\ key' \in [Requests -> Keys \cup {NoKey}]
        /\ sync' \in [Requests -> BOOLEAN]
        /\ high' \in [Requests -> BOOLEAN]
        /\ attempt' \in [Requests -> 0..RetryLimit]
    BY <1>0 DEF RequestCancel, TypeOK
  <2> QED BY <1>0, <1>b, <2>1 DEF DispatchResponse, TypeOK, RatelimiterTypeOK
<1>2. Locals'
  BY DEF DispatchResponse, Locals, Dealing
<1>3. Keyed'
  BY <1>0, <1>b DEF DispatchResponse, RequestCancel, Keyed, TypeOK
<1>m. Advances(r, "answered", "idle")
  <2>1. Moves(r, "answered", "idle")
    <3>1. At(r, "recycling")'
      BY <1>0, <1>p, <1>b DEF DispatchResponse, At
    <3> QED BY <3>1, <1>p DEF Moves, PlacesOf
  <2>2. ASSUME NEW q \in Requests, q # r PROVE Stays(q)
    <3>1. PICK x \in Places : At(q, x)
      BY DEF OnePlace
    <3>2. At(q, x)'
      BY <1>0, <1>b, <2>2, <3>1 DEF DispatchResponse, At
    <3> QED BY <3>1, <3>2, SameStays
  <2> QED BY <2>1, <2>2 DEF Advances
<1>4. OnePlace'
  BY <1>m, AdvancesPlaces, <1>0, <1>b DEF DispatchResponse, OnePlace, Phases
<1>5. InFlightIsBusy'
  BY DEF DispatchResponse, InFlightIsBusy
<1>6. OneAlarmPerTimeout'
  BY DEF DispatchResponse, OneAlarmPerTimeout
<1>7. PendingList'
  BY DEF DispatchResponse, PendingList, Dealing
<1> QED BY <1>0, <1>m, <1>1, <1>2, <1>3, <1>4, <1>5, <1>6, <1>7

(* Taking the finished queue moves it as a whole.                          *)
LEMMA DispatchResponsesStep ==
  ASSUME IInv, DispatchResponses
  PROVE  IInv' /\ AllStay
<1> USE BucketAssumption, ServerAssumption, RequestAssumption
    DEF BucketAssumption, ServerAssumption, RequestAssumption, IInv,
        bucketVars, queueVars, attrVars, waitVars, readVars
<1>1. TypeOK'
  BY DEF DispatchResponses, TypeOK, RatelimiterTypeOK
<1>2. Locals'
  BY DEF DispatchResponses, Locals, Dealing
<1>3. Keyed'
  BY DEF DispatchResponses, Keyed
<1>m. AllStay
  <2>1. ASSUME NEW q \in Requests PROVE Stays(q)
    <3> PICK x \in Places : At(q, x)
      BY DEF OnePlace
    <3>1. CASE x = "finished"
      <4>1. At(q, "dispatching")'
        BY <3>1, EmptyItems DEF DispatchResponses, At
      <4> QED BY <3>1, <4>1 DEF Stays, Moves, Phases, PlacesOf
    <3>2. CASE x # "finished"
      <4>1. At(q, x)'
        BY <3>2, EmptyItems DEF DispatchResponses, At
      <4> QED BY <4>1, SameStays
    <3> QED BY <3>1, <3>2
  <2> QED BY <2>1 DEF AllStay
<1>4. OnePlace'
  BY <1>m, StayPlaces, EmptyItems DEF DispatchResponses, OnePlace
<1>5. InFlightIsBusy'
  BY DEF DispatchResponses, InFlightIsBusy
<1>6. OneAlarmPerTimeout'
  BY DEF DispatchResponses, OneAlarmPerTimeout
<1>7. PendingList'
  BY DEF DispatchResponses, PendingList, Dealing
<1> QED BY <1>m, <1>1, <1>2, <1>3, <1>4, <1>5, <1>6, <1>7

(* The end of a transfer leaves the request on the wire.                   *)
LEMMA TransferEndsStep ==
  ASSUME IInv, NEW r \in Requests, TransferEnds(r)
  PROVE  IInv' /\ AllStay
<1> USE BucketAssumption, ServerAssumption, RequestAssumption
    DEF BucketAssumption, ServerAssumption, RequestAssumption, IInv,
        bucketVars, queueVars, attrVars, waitVars, readVars
<1>1. TypeOK'
  BY DEF TransferEnds, TypeOK, RatelimiterTypeOK, AllOutcomes
<1>2. Locals'
  BY DEF TransferEnds, Locals, Dealing
<1>3. Keyed'
  BY DEF TransferEnds, Keyed
<1>m. AllStay
  <2>2. \A q \in Requests : wire'[q] = "none" <=> wire[q] = "none"
    BY DEF TransferEnds, TypeOK, AllOutcomes
  <2>1. ASSUME NEW q \in Requests, NEW x \in Places, At(q, x) PROVE At(q, x)'
    BY <2>2, <2>1 DEF TransferEnds, At
  <2> QED BY <2>1, SameStays DEF AllStay, OnePlace
<1>4. OnePlace'
  BY <1>m, StayPlaces DEF TransferEnds, OnePlace
<1>5. InFlightIsBusy'
  BY DEF TransferEnds, InFlightIsBusy, TypeOK
<1>6. OneAlarmPerTimeout'
  BY DEF TransferEnds, OneAlarmPerTimeout
<1>7. PendingList'
  BY DEF TransferEnds, PendingList, Dealing
<1> QED BY <1>m, <1>1, <1>2, <1>3, <1>4, <1>5, <1>6, <1>7

(* The REST thread starts a round with nothing in its hands.               *)
LEMMA RestPerformStep ==
  ASSUME IInv, RestPerform
  PROVE  IInv' /\ AllStay
<1> USE BucketAssumption, ServerAssumption, RequestAssumption
    DEF BucketAssumption, ServerAssumption, RequestAssumption, IInv,
        bucketVars, queueVars, attrVars, waitVars, readVars
<1>1. TypeOK'
  BY DEF RestPerform, TypeOK, RatelimiterTypeOK
<1>2. Locals'
  BY DEF RestPerform, Locals, Dealing
<1>3. Keyed'
  BY DEF RestPerform, Keyed
<1>m. AllStay
  <2>1. ASSUME NEW q \in Requests, NEW x \in Places, At(q, x) PROVE At(q, x)'
    BY <2>1 DEF RestPerform, At
  <2> QED BY <2>1, SameStays DEF AllStay, OnePlace
<1>4. OnePlace'
  BY <1>m, StayPlaces DEF RestPerform, OnePlace
<1>5. InFlightIsBusy'
  BY DEF RestPerform, InFlightIsBusy
<1>6. OneAlarmPerTimeout'
  BY DEF RestPerform, OneAlarmPerTimeout
<1>7. PendingList'
  BY DEF RestPerform, PendingList, Dealing
<1> QED BY <1>m, <1>1, <1>2, <1>3, <1>4, <1>5, <1>6, <1>7

(* Time passing arms and fires no timer.                                   *)
LEMMA TickStep ==
  ASSUME IInv, Tick
  PROVE  IInv' /\ AllStay
<1> USE BucketAssumption, ServerAssumption, RequestAssumption
    DEF BucketAssumption, ServerAssumption, RequestAssumption, IInv,
        bucketVars, queueVars, attrVars, waitVars, readVars
<1>1. TypeOK'
  <2>0. \A w \in Waits : Less(w) \in Waits
    BY DEF Less, Waits
  <2>1. global' \in Waits /\ reset' \in [Bucket -> Waits]
    BY <2>0 DEF Tick, TimePasses, TypeOK, RatelimiterTypeOK
  <2>2. alarms' \in [Bucket -> Seq(Waits)]
    <3>1. ASSUME NEW b \in Bucket
          PROVE  [i \in DOMAIN alarms[b] |-> Less(alarms[b][i])] \in Seq(Waits)
      <4>1. alarms[b] \in Seq(Waits) /\ DOMAIN alarms[b] = 1..Len(alarms[b])
        BY DEF TypeOK, RatelimiterTypeOK
      <4>2. \A i \in 1..Len(alarms[b]) : Less(alarms[b][i]) \in Waits
        BY <2>0, <4>1
      <4> QED BY <4>1, <4>2
    <3> QED BY <3>1 DEF Tick, TimePasses
  <2> QED BY <2>1, <2>2 DEF Tick, TypeOK, RatelimiterTypeOK
<1>2. Locals'
  BY DEF Tick, Locals, Dealing
<1>3. Keyed'
  BY DEF Tick, Keyed
<1>m. AllStay
  <2>1. ASSUME NEW q \in Requests, NEW x \in Places, At(q, x) PROVE At(q, x)'
    BY <2>1 DEF Tick, At
  <2> QED BY <2>1, SameStays DEF AllStay, OnePlace
<1>4. OnePlace'
  BY <1>m, StayPlaces DEF Tick, OnePlace
<1>5. InFlightIsBusy'
  BY DEF Tick, InFlightIsBusy
<1>6. OneAlarmPerTimeout'
  <2>1. ASSUME NEW b \in Bucket PROVE Len(alarms'[b]) = Len(alarms[b])
    BY DEF Tick, TimePasses, TypeOK, RatelimiterTypeOK
  <2> QED BY <2>1 DEF Tick, OneAlarmPerTimeout
<1>7. PendingList'
  BY DEF Tick, PendingList, Dealing
<1> QED BY <1>m, <1>1, <1>2, <1>3, <1>4, <1>5, <1>6, <1>7

(* A wake-up timer only frees a bucket that is in timeout.                 *)
LEMMA TimersRunStep ==
  ASSUME IInv, TimersRun
  PROVE  IInv' /\ AllStay
<1> USE BucketAssumption, ServerAssumption, RequestAssumption
    DEF BucketAssumption, ServerAssumption, RequestAssumption, IInv,
        bucketVars, queueVars, attrVars, waitVars, readVars
<1>0. ASSUME NEW b \in Bucket, Due(b)
      PROVE  /\ busy[b] = Timeout /\ Len(alarms[b]) = 1
             /\ Tail(alarms[b]) \in Seq(Waits) /\ Len(Tail(alarms[b])) = 0
  BY <1>0 DEF Due, OneAlarmPerTimeout, TypeOK, RatelimiterTypeOK
<1>1. TypeOK'
  BY <1>0 DEF TimersRun, BucketWake, TypeOK, RatelimiterTypeOK
<1>2. Locals'
  BY DEF TimersRun, Locals, Dealing
<1>3. Keyed'
  BY DEF TimersRun, Keyed
<1>m. AllStay
  <2>1. ASSUME NEW q \in Requests, NEW x \in Places, At(q, x) PROVE At(q, x)'
    BY <2>1 DEF TimersRun, At
  <2> QED BY <2>1, SameStays DEF AllStay, OnePlace
<1>4. OnePlace'
  BY <1>m, StayPlaces DEF TimersRun, OnePlace
<1>5. InFlightIsBusy'
  BY <1>0 DEF TimersRun, BucketWake, InFlightIsBusy, TypeOK, RatelimiterTypeOK
<1>6. OneAlarmPerTimeout'
  BY <1>0 DEF TimersRun, BucketWake, OneAlarmPerTimeout, TypeOK, RatelimiterTypeOK
<1>7. PendingList'
  BY DEF TimersRun, PendingList, Dealing
<1> QED BY <1>m, <1>1, <1>2, <1>3, <1>4, <1>5, <1>6, <1>7

(* An answer frees at most its own bucket; null_filter takes all of `null`.*)
LEMMA InfoReadStep ==
  ASSUME IInv, NEW r \in Requests, InfoRead(r)
  PROVE  IInv' /\ AllStay
<1> USE BucketAssumption, ServerAssumption, RequestAssumption
    DEF BucketAssumption, ServerAssumption, RequestAssumption, IInv,
        bucketVars, queueVars, attrVars, waitVars, readVars
<1>a. /\ wire[r] \in AllOutcomes /\ bof[r] \in Bucket /\ busy[bof[r]] = r
      /\ key[r] \in Keys /\ filter = <<>> /\ cur = NoReq /\ At(r, "wire")
  <2>1. wire[r] \in AllOutcomes /\ wire[r] # "none"
    BY DEF InfoRead, AllOutcomes
  <2>2. At(r, "wire")
    BY <2>1 DEF OnePlace, At
  <2> QED BY <2>1, <2>2 DEF InfoRead, InFlightIsBusy, TypeOK, RatelimiterTypeOK, Keyed,
                           Locals, Dealing, At
<1>b. /\ rest' = "build" /\ cur' = r /\ out' = wire[r]
      /\ wire' = [wire EXCEPT ![r] = "none"]
      /\ UNCHANGED <<listed, alarms, bof, queueVars, attrVars, waitVars, dispatching, moved>>
  BY DEF InfoRead
<1>c. /\ busy' \in [Bucket -> Requests \cup {NoReq, Timeout}]
      /\ busy'[bof[r]] # Timeout
      /\ \A b \in Bucket : b # bof[r] => busy'[b] = busy[b]
      /\ remaining' \in [Bucket -> {0, 1}] /\ reset' \in [Bucket -> Waits]
      /\ global' \in Waits
  <2>1. CASE wire[r] = "throttled"
    <3> PICK w \in Waits, g \in BOOLEAN : SetTimeout(bof[r], w, g)
      BY <2>1 DEF InfoRead, InfoExtract
    <3> QED BY <1>a DEF SetTimeout, TypeOK, RatelimiterTypeOK
  <2>2. CASE UNCHANGED <<global, remaining, reset, busy>>
    BY <1>a, <2>2 DEF TypeOK, RatelimiterTypeOK
  <2> QED BY <2>1, <2>2 DEF InfoRead, InfoExtract
<1>d. /\ NullB \in Bucket /\ MissB \in Bucket /\ Keys \subseteq Bucket
      /\ queue \in [Bucket -> Seq(Requests)]
  BY DEF Bucket, TypeOK, RatelimiterTypeOK
<1>e. /\ known' \subseteq Keys /\ target' \in Bucket \cup {NoBucket}
      /\ filterTo' \in Bucket \cup {NoBucket}
      /\ \/ queue' = queue /\ filter' = <<>>
         \/ /\ bof[r] = NullB /\ filterTo' \in Bucket
            /\ filter' = queue[NullB] /\ queue' = [queue EXCEPT ![NullB] = <<>>]
  <2>1. CASE bof[r] = NullB /\ GetMatch(key[r])
    BY <1>a, <1>d, <2>1 DEF GetMatch, TypeOK, RatelimiterTypeOK
  <2>2. CASE /\ target' \in {bof[r], NoBucket}
             /\ UNCHANGED <<known, queue, filter, filterTo>>
    BY <1>a, <2>2 DEF TypeOK, RatelimiterTypeOK
  <2> QED BY <2>1, <2>2 DEF InfoRead
<1>f. /\ queue' \in [Bucket -> Seq(Requests)] /\ filter' \in Seq(Requests)
      /\ IsInjective(filter') /\ \A b \in Bucket : IsInjective(queue'[b])
  <2>1. CASE queue' = queue /\ filter' = <<>>
    BY <1>d, <2>1, EmptyItems DEF OnePlace
  <2>2. CASE filter' = queue[NullB] /\ queue' = [queue EXCEPT ![NullB] = <<>>]
    <3>1. <<>> \in Seq(Requests)
      OBVIOUS
    <3> QED BY <1>d, <2>2, <3>1, EmptyItems DEF OnePlace
  <2> QED BY <1>e, <2>1, <2>2
<1>g. \/ /\ filter' = <<>> /\ ToSet(filter') = {}
         /\ queue' = queue
      \/ /\ bof[r] = NullB /\ ToSet(filter') = ToSet(queue[NullB])
         /\ queue'[NullB] = <<>> /\ ToSet(queue'[NullB]) = {}
         /\ \A b \in Bucket : b # NullB => queue'[b] = queue[b]
  BY <1>d, <1>e, EmptyItems
<1>1. TypeOK'
  <2>1. RatelimiterTypeOK'
    BY <1>b, <1>c, <1>e, <1>f DEF TypeOK, RatelimiterTypeOK
  <2> QED BY <2>1, <1>a, <1>b, <1>e, <1>f DEF TypeOK, InfoRead
<1>2. Locals'
  BY <1>a, <1>b, <1>e DEF Locals, Dealing, InfoRead
<1>3. Keyed'
  BY <1>b DEF Keyed
<1>m. AllStay
  <2>1. ASSUME NEW q \in Requests PROVE Stays(q)
    <3> PICK x \in Places : At(q, x)
      BY DEF OnePlace
    <3>1. CASE q = r
      <4>1. At(r, "read")'
        BY <1>a, <1>b, <1>d, <1>g DEF At, TypeOK
      <4> QED BY <3>1, <4>1, <1>a DEF Stays, Moves, Phases, PlacesOf
    <3>2. CASE q # r /\ (queue' = queue \/ ~(x = "bucket" /\ bof[q] = NullB))
      <4>1. wire'[q] = wire[q]
        BY <1>b, <3>2 DEF TypeOK
      <4>2. At(q, x)'
        BY <1>a, <1>b, <1>d, <1>g, <3>2, <4>1, EmptyItems DEF At
      <4> QED BY <4>2, SameStays
    <3>3. CASE q # r /\ queue' # queue /\ x = "bucket" /\ bof[q] = NullB
      <4>1. wire'[q] = wire[q]
        BY <1>b, <3>3 DEF TypeOK
      <4>2. At(q, "filter")'
        BY <1>a, <1>b, <1>d, <1>g, <3>3, <4>1, EmptyItems DEF At
      <4> QED BY <3>3, <4>2 DEF Stays, Moves, Phases, PlacesOf
    <3> QED BY <3>1, <3>2, <3>3
  <2> QED BY <2>1 DEF AllStay
<1>4. OnePlace'
  BY <1>m, StayPlaces, <1>b, <1>f DEF OnePlace
<1>5. InFlightIsBusy'
  <2>1. ASSUME NEW q \in Requests, wire'[q] # "none"
        PROVE  bof[q] # NoBucket /\ busy'[bof[q]] = q
    <3>1. q # r /\ wire[q] # "none"
      BY <1>b, <2>1 DEF TypeOK
    <3>2. bof[q] \in Bucket /\ busy[bof[q]] = q
      BY <3>1 DEF InFlightIsBusy, TypeOK, RatelimiterTypeOK
    <3>3. bof[q] # bof[r]
      BY <1>a, <3>1, <3>2
    <3> QED BY <1>c, <3>2, <3>3
  <2> QED BY <1>b, <2>1 DEF InFlightIsBusy
<1>6. OneAlarmPerTimeout'
  BY <1>a, <1>b, <1>c DEF OneAlarmPerTimeout
<1>7. PendingList'
  <2>1. ASSUME NEW b \in Bucket PROVE b \in listed <=> queue[b] # <<>>
    BY DEF InfoRead, PendingList, Dealing
  <2> QED BY <2>1, <1>a, <1>b, <1>d, <1>g DEF PendingList, Dealing
<1> QED BY <1>m, <1>1, <1>2, <1>3, <1>4, <1>5, <1>6, <1>7

(* The effect of winecord_bucket_insert on the queues.                     *)
LEMMA InsertEffect ==
  ASSUME IInv, NEW b \in Bucket, NEW r \in Requests, NEW h,
         BucketInsert(b, r, h), r \notin ToSet(queue[b])
  PROVE  /\ queue' \in [Bucket -> Seq(Requests)]
         /\ queue'[b] # <<>> /\ ToSet(queue'[b]) = ToSet(queue[b]) \cup {r}
         /\ \A c \in Bucket : IsInjective(queue'[c])
         /\ \A c \in Bucket : c # b => queue'[c] = queue[c]
         /\ listed' = listed \cup {b}
         /\ bof' = [bof EXCEPT ![r] = b] /\ bof' \in [Requests -> Bucket \cup {NoBucket}]
<1>1. queue \in [Bucket -> Seq(Requests)] /\ IsInjective(queue[b])
      /\ bof \in [Requests -> Bucket \cup {NoBucket}]
  BY DEF IInv, TypeOK, RatelimiterTypeOK, OnePlace
<1>2. CASE h
  BY <1>1, <1>2, PrependItems DEF BucketInsert, IInv, OnePlace
<1>3. CASE ~h
  BY <1>1, <1>3, AppendItems DEF BucketInsert, IInv, OnePlace
<1> QED BY <1>2, <1>3

(* A filtered request goes to the bucket found, or back to `null`.         *)
LEMMA NullFilterStep ==
  ASSUME IInv, NullFilter
  PROVE  IInv' /\ AllStay
<1> USE BucketAssumption, ServerAssumption, RequestAssumption
    DEF BucketAssumption, ServerAssumption, RequestAssumption, IInv,
        bucketVars, queueVars, attrVars, waitVars, readVars
<1>a. PICK r \in Requests, b \in Bucket :
         /\ r = Head(filter) /\ BucketInsert(b, r, FALSE)
         /\ filterTo' = b /\ filter' = Tail(filter)
  <2>1. Head(filter) \in Requests /\ filterTo \in Bucket /\ NullB \in Bucket
    BY TailItems DEF NullFilter, TypeOK, Locals, Bucket
  <2> QED BY <2>1 DEF NullFilter, Filtered
<1>b. /\ filter' \in Seq(Requests) /\ IsInjective(filter')
      /\ ToSet(filter) = ToSet(filter') \cup {r} /\ r \notin ToSet(filter')
  BY <1>a, TailItems DEF NullFilter, TypeOK, OnePlace
<1>p. At(r, "filter") /\ r # cur /\ wire[r] = "none" /\ \A c \in Bucket : r \notin ToSet(queue[c])
  BY <1>b DEF OnePlace, At
<1>c. /\ queue' \in [Bucket -> Seq(Requests)]
      /\ queue'[b] # <<>> /\ ToSet(queue'[b]) = ToSet(queue[b]) \cup {r}
      /\ \A c \in Bucket : IsInjective(queue'[c])
      /\ \A c \in Bucket : c # b => queue'[c] = queue[c]
      /\ listed' = listed \cup {b}
      /\ bof' = [bof EXCEPT ![r] = b] /\ bof' \in [Requests -> Bucket \cup {NoBucket}]
  BY <1>a, <1>p, InsertEffect
<1>d. rest = "build" /\ UNCHANGED <<known, busy, remaining, reset, global, alarms, queueVars,
        attrVars, waitVars, dispatching, wire, rest, moved, cur, out, target>>
  BY DEF NullFilter
<1>e. bof \in [Requests -> Bucket \cup {NoBucket}]
  BY DEF TypeOK, RatelimiterTypeOK
<1>1. TypeOK'
  BY <1>a, <1>b, <1>c, <1>d DEF TypeOK, RatelimiterTypeOK
<1>2. Locals'
  BY <1>a, <1>c, <1>d, <1>e, <1>p DEF Locals, Dealing
<1>3. Keyed'
  BY <1>d DEF Keyed
<1>m. AllStay
  <2>1. ASSUME NEW q \in Requests PROVE Stays(q)
    <3>1. CASE q = r
      <4>1. At(r, "bucket")'
        BY <1>b, <1>c, <1>d, <1>e, <1>p DEF At
      <4> QED BY <3>1, <4>1, <1>p DEF Stays, Moves, Phases, PlacesOf
    <3>2. CASE q # r
      <4>1. PICK x \in Places : At(q, x)
        BY DEF OnePlace
      <4>2. At(q, x)'
        BY <1>b, <1>c, <1>d, <1>e, <3>2, <4>1 DEF At
      <4> QED BY <4>1, <4>2, SameStays
    <3> QED BY <3>1, <3>2
  <2> QED BY <2>1 DEF AllStay
<1>4. OnePlace'
  BY <1>m, StayPlaces, <1>b, <1>c, <1>d DEF OnePlace
<1>5. InFlightIsBusy'
  BY <1>c, <1>d, <1>e, <1>p DEF InFlightIsBusy
<1>6. OneAlarmPerTimeout'
  BY <1>d DEF OneAlarmPerTimeout
<1>7. PendingList'
  BY <1>c, <1>d, <1>e, <1>p DEF PendingList, Dealing, Locals
<1> QED BY <1>m, <1>1, <1>2, <1>3, <1>4, <1>5, <1>6, <1>7

(* A pending request goes to the queue of the bucket it will name.         *)
LEMMA RoutePendingStep ==
  ASSUME IInv, RoutePending
  PROVE  IInv' /\ AllStay
<1> USE BucketAssumption, ServerAssumption, RequestAssumption
    DEF BucketAssumption, ServerAssumption, RequestAssumption, IInv,
        bucketVars, queueVars, attrVars, waitVars, readVars
<1>a. PICK r \in Requests, b \in Bucket, h \in BOOLEAN :
         r = Head(moved) /\ BucketInsert(b, r, h) /\ moved' = Tail(moved)
  <2>1. Head(moved) \in Requests /\ BucketGet(key[Head(moved)]) \in Bucket
    BY TailItems DEF RoutePending, TypeOK, RatelimiterTypeOK, BucketGet, Bucket
  <2>2. high[Head(moved)] \in BOOLEAN
    BY <2>1 DEF TypeOK
  <2> QED BY <2>1, <2>2 DEF RoutePending
<1>b. /\ moved' \in Seq(Requests) /\ IsInjective(moved')
      /\ ToSet(moved) = ToSet(moved') \cup {r} /\ r \notin ToSet(moved')
  BY <1>a, TailItems DEF RoutePending, TypeOK, OnePlace
<1>p. At(r, "moved") /\ wire[r] = "none" /\ \A c \in Bucket : r \notin ToSet(queue[c])
  BY <1>b DEF OnePlace, At
<1>c. /\ queue' \in [Bucket -> Seq(Requests)]
      /\ queue'[b] # <<>> /\ ToSet(queue'[b]) = ToSet(queue[b]) \cup {r}
      /\ \A c \in Bucket : IsInjective(queue'[c])
      /\ \A c \in Bucket : c # b => queue'[c] = queue[c]
      /\ listed' = listed \cup {b}
      /\ bof' = [bof EXCEPT ![r] = b] /\ bof' \in [Requests -> Bucket \cup {NoBucket}]
  BY <1>a, <1>p, InsertEffect
<1>d. rest = "route" /\ UNCHANGED <<known, busy, remaining, reset, global, alarms, queueVars,
        attrVars, waitVars, dispatching, wire, rest, readVars>>
  BY DEF RoutePending
<1>e. bof \in [Requests -> Bucket \cup {NoBucket}]
  BY DEF TypeOK, RatelimiterTypeOK
<1>1. TypeOK'
  BY <1>b, <1>c, <1>d DEF TypeOK, RatelimiterTypeOK
<1>2. Locals'
  BY <1>d DEF Locals, Dealing
<1>3. Keyed'
  BY <1>d DEF Keyed
<1>m. AllStay
  <2>1. ASSUME NEW q \in Requests PROVE Stays(q)
    <3>1. CASE q = r
      <4>1. At(r, "bucket")'
        BY <1>b, <1>c, <1>d, <1>e, <1>p DEF At
      <4> QED BY <3>1, <4>1, <1>p DEF Stays, Moves, Phases, PlacesOf
    <3>2. CASE q # r
      <4>1. PICK x \in Places : At(q, x)
        BY DEF OnePlace
      <4>2. At(q, x)'
        BY <1>b, <1>c, <1>d, <1>e, <3>2, <4>1 DEF At
      <4> QED BY <4>1, <4>2, SameStays
    <3> QED BY <3>1, <3>2
  <2> QED BY <2>1 DEF AllStay
<1>4. OnePlace'
  BY <1>m, StayPlaces, <1>b, <1>c, <1>d DEF OnePlace
<1>5. InFlightIsBusy'
  BY <1>c, <1>d, <1>e, <1>p DEF InFlightIsBusy
<1>6. OneAlarmPerTimeout'
  BY <1>d DEF OneAlarmPerTimeout
<1>7. PendingList'
  BY <1>c, <1>d DEF PendingList, Dealing
<1> QED BY <1>m, <1>1, <1>2, <1>3, <1>4, <1>5, <1>6, <1>7

(* Taking the pending queue moves it as a whole.                           *)
LEMMA StartPendingStep ==
  ASSUME IInv, StartPending
  PROVE  IInv' /\ AllStay
<1> USE BucketAssumption, ServerAssumption, RequestAssumption
    DEF BucketAssumption, ServerAssumption, RequestAssumption, IInv,
        bucketVars, queueVars, attrVars, waitVars, readVars
<1>1. TypeOK'
  BY DEF StartPending, TypeOK, RatelimiterTypeOK
<1>2. Locals'
  BY DEF StartPending, Locals, Dealing
<1>3. Keyed'
  BY DEF StartPending, Keyed
<1>m. AllStay
  <2>0. moved = <<>>
    BY DEF StartPending, Locals
  <2>1. ASSUME NEW q \in Requests PROVE Stays(q)
    <3> PICK x \in Places : At(q, x)
      BY DEF OnePlace
    <3>1. CASE x = "pending"
      <4>1. At(q, "moved")'
        BY <3>1, EmptyItems DEF StartPending, At
      <4> QED BY <3>1, <4>1 DEF Stays, Moves, Phases, PlacesOf
    <3>2. CASE x # "pending"
      <4>1. At(q, x)'
        BY <2>0, <3>2, EmptyItems DEF StartPending, At
      <4> QED BY <4>1, SameStays
    <3> QED BY <3>1, <3>2
  <2> QED BY <2>1 DEF AllStay
<1>4. OnePlace'
  BY <1>m, StayPlaces, EmptyItems DEF StartPending, OnePlace
<1>5. InFlightIsBusy'
  BY DEF StartPending, InFlightIsBusy
<1>6. OneAlarmPerTimeout'
  BY DEF StartPending, OneAlarmPerTimeout
<1>7. PendingList'
  BY DEF StartPending, PendingList, Dealing
<1> QED BY <1>m, <1>1, <1>2, <1>3, <1>4, <1>5, <1>6, <1>7

(* What the end of winecord_ratelimiter_build leaves well typed.           *)
LEMMA BuildEffect ==
  ASSUME IInv, Build
  PROVE  /\ cur \in Requests /\ bof[cur] \in Bucket /\ At(cur, "read")
         /\ remaining' \in [Bucket -> {0, 1}] /\ reset' \in [Bucket -> Waits]
         /\ global' \in Waits
<1> USE BucketAssumption, ServerAssumption, RequestAssumption
    DEF BucketAssumption, ServerAssumption, RequestAssumption, IInv
<1>1. cur \in Requests /\ bof[cur] \in Bucket
  BY DEF Build, Locals, Dealing
<1>2. At(cur, "read")
  BY <1>1 DEF OnePlace, At
<1>3. CASE Populate(target)
  <2>1. remaining' \in [Bucket -> {0, 1}]
    <3> PICK left \in {0, 1} : remaining' = [remaining EXCEPT ![target] = left]
      BY <1>3 DEF Populate
    <3> QED BY DEF TypeOK, RatelimiterTypeOK
  <2>2. reset' \in [Bucket -> Waits] /\ global' \in Waits
    <3>1. CASE \E w \in Waits : reset' = [reset EXCEPT ![target] = w] /\ UNCHANGED global
      <4> PICK w \in Waits : reset' = [reset EXCEPT ![target] = w] /\ UNCHANGED global
        BY <3>1
      <4> QED BY DEF TypeOK, RatelimiterTypeOK
    <3>2. CASE (\E w \in Waits : global' = w) /\ UNCHANGED reset
      BY <3>2 DEF TypeOK, RatelimiterTypeOK
    <3>3. CASE UNCHANGED <<reset, global>>
      BY <3>3 DEF TypeOK, RatelimiterTypeOK
    <3> QED BY <1>3, <3>1, <3>2, <3>3 DEF Populate
  <2> QED BY <1>1, <1>2, <2>1, <2>2
<1>4. CASE UNCHANGED <<remaining, reset, global>>
  BY <1>1, <1>2, <1>4 DEF TypeOK, RatelimiterTypeOK
<1> QED BY <1>1, <1>2, <1>3, <1>4 DEF Build

(* A retried request goes back to the queue of its own bucket.             *)
LEMMA RetryStep ==
  ASSUME IInv, Retry
  PROVE  IInv' /\ cur \in Requests /\ Advances(cur, "sent", "queued")
<1> USE BucketAssumption, ServerAssumption, RequestAssumption
    DEF BucketAssumption, ServerAssumption, RequestAssumption, IInv,
        bucketVars, queueVars, attrVars, waitVars, readVars
<1>a. PICK r \in Requests, b \in Bucket :
         /\ r = cur /\ b = bof[r] /\ BucketInsert(b, r, TRUE) /\ At(r, "read")
         /\ attempt' = [attempt EXCEPT ![r] = @ + 1] /\ attempt[r] < RetryLimit
         /\ remaining' \in [Bucket -> {0, 1}] /\ reset' \in [Bucket -> Waits]
         /\ global' \in Waits
  BY BuildEffect DEF Retry, WillRetry
<1>p. wire[r] = "none" /\ \A c \in Bucket : r \notin ToSet(queue[c])
  BY <1>a DEF At
<1>c. /\ queue' \in [Bucket -> Seq(Requests)]
      /\ queue'[b] # <<>> /\ ToSet(queue'[b]) = ToSet(queue[b]) \cup {r}
      /\ \A c \in Bucket : IsInjective(queue'[c])
      /\ \A c \in Bucket : c # b => queue'[c] = queue[c]
      /\ listed' = listed \cup {b}
      /\ bof' = [bof EXCEPT ![r] = b] /\ bof' \in [Requests -> Bucket \cup {NoBucket}]
  BY <1>a, <1>p, InsertEffect
<1>d. /\ rest = "build" /\ rest' = "info" /\ filter = <<>>
      /\ cur' = NoReq /\ out' = "none" /\ target' = NoBucket /\ filterTo' = NoBucket
      /\ UNCHANGED <<known, busy, alarms, queueVars, key, sync, high, waitVars, dispatching,
                     wire, moved, filter>>
  BY DEF Retry, Build, MessageDone
<1>e. bof \in [Requests -> Bucket \cup {NoBucket}]
  BY DEF TypeOK, RatelimiterTypeOK
<1>1. TypeOK'
  <2>1. attempt' \in [Requests -> 0..RetryLimit]
    BY <1>a DEF TypeOK
  <2> QED BY <2>1, <1>a, <1>c, <1>d DEF TypeOK, RatelimiterTypeOK
<1>2. Locals'
  BY <1>d DEF Locals, Dealing
<1>3. Keyed'
  BY <1>d DEF Keyed
<1>m. Advances(r, "sent", "queued")
  <2>1. Moves(r, "sent", "queued")
    <3>1. At(r, "bucket")'
      BY <1>a, <1>c, <1>d, <1>e, <1>p DEF At
    <3> QED BY <3>1, <1>a DEF Moves, PlacesOf
  <2>2. ASSUME NEW q \in Requests, q # r PROVE Stays(q)
    <3>1. PICK x \in Places : At(q, x)
      BY DEF OnePlace
    <3>3. /\ bof'[q] = bof[q]
          /\ \A c \in Bucket : q \in ToSet(queue'[c]) <=> q \in ToSet(queue[c])
      BY <1>c, <1>e, <2>2
    <3>2. At(q, x)'
      BY <1>a, <1>d, <3>3, <2>2, <3>1 DEF At
    <3> QED BY <3>1, <3>2, SameStays
  <2> QED BY <2>1, <2>2 DEF Advances
<1>4. OnePlace'
  BY <1>m, AdvancesPlaces, <1>c, <1>d DEF OnePlace, Phases
<1>5. InFlightIsBusy'
  BY <1>c, <1>d, <1>e, <1>p DEF InFlightIsBusy
<1>6. OneAlarmPerTimeout'
  BY <1>d DEF OneAlarmPerTimeout
<1>7. PendingList'
  BY <1>a, <1>c, <1>d DEF PendingList, Dealing
<1> QED BY <1>a, <1>m, <1>1, <1>2, <1>3, <1>4, <1>5, <1>6, <1>7

(* A finished request leaves its bucket, and its bucket is freed.          *)
LEMMA FinishStep ==
  ASSUME IInv, Finish
  PROVE  IInv' /\ cur \in Requests /\ Advances(cur, "sent", "answered")
<1> USE BucketAssumption, ServerAssumption, RequestAssumption
    DEF BucketAssumption, ServerAssumption, RequestAssumption, IInv,
        bucketVars, queueVars, attrVars, waitVars, readVars
<1>a. PICK r \in Requests, b \in Bucket :
         /\ r = cur /\ b = bof[r] /\ busy[b] = r /\ At(r, "read") /\ HandOver(r)
         /\ listed' = IF queue[b] = <<>> THEN listed \ {b} ELSE listed
         /\ busy' = [busy EXCEPT ![b] = NoReq]
         /\ bof' = [bof EXCEPT ![r] = NoBucket]
         /\ remaining' \in [Bucket -> {0, 1}] /\ reset' \in [Bucket -> Waits]
         /\ global' \in Waits
  BY BuildEffect DEF Finish, RequestUnselect
<1>d. /\ rest = "build" /\ rest' = "info" /\ filter = <<>>
      /\ cur' = NoReq /\ out' = "none" /\ target' = NoBucket /\ filterTo' = NoBucket
      /\ UNCHANGED <<known, alarms, queue, unused, recycling, pending, attrVars, waiting,
                     dispatching, wire, moved, filter>>
  BY DEF Finish, Build, MessageDone
<1>e. /\ bof \in [Requests -> Bucket \cup {NoBucket}]
      /\ busy \in [Bucket -> Requests \cup {NoReq, Timeout}]
  BY DEF TypeOK, RatelimiterTypeOK
<1>f. /\ finished' \in Seq(Requests) /\ IsInjective(finished') /\ signalled' \subseteq Requests
      /\ \/ finished' = finished /\ signalled' = signalled \cup {r}
         \/ signalled' = signalled /\ ToSet(finished') = ToSet(finished) \cup {r}
  <2>1. /\ finished \in Seq(Requests) /\ IsInjective(finished) /\ r \notin ToSet(finished)
        /\ signalled \subseteq Requests
    BY <1>a DEF TypeOK, OnePlace, At
  <2>2. CASE signalled' = signalled \cup {r} /\ finished' = finished
    BY <2>1, <2>2
  <2>3. CASE signalled' = signalled /\ finished' = Append(finished, r)
    BY <2>1, <2>3, AppendItems
  <2> QED BY <2>2, <2>3, <1>a DEF HandOver
<1>1. TypeOK'
  BY <1>a, <1>d, <1>f DEF TypeOK, RatelimiterTypeOK
<1>2. Locals'
  BY <1>d DEF Locals, Dealing
<1>3. Keyed'
  BY <1>d DEF Keyed
<1>m. Advances(r, "sent", "answered")
  <2>1. Moves(r, "sent", "answered")
    <3>1. CASE finished' = finished
      <4>1. At(r, "signalled")'
        BY <1>a, <1>d, <1>e, <1>f, <3>1 DEF At
      <4> QED BY <4>1, <1>a DEF Moves, PlacesOf
    <3>2. CASE finished' # finished
      <4>1. At(r, "finished")'
        BY <1>a, <1>d, <1>e, <1>f, <3>2 DEF At
      <4> QED BY <4>1, <1>a DEF Moves, PlacesOf
    <3> QED BY <3>1, <3>2
  <2>2. ASSUME NEW q \in Requests, q # r PROVE Stays(q)
    <3>1. PICK x \in Places : At(q, x)
      BY DEF OnePlace
    <3>2. At(q, x)'
      BY <1>a, <1>d, <1>e, <1>f, <2>2, <3>1 DEF At
    <3> QED BY <3>1, <3>2, SameStays
  <2> QED BY <2>1, <2>2 DEF Advances
<1>4. OnePlace'
  BY <1>m, AdvancesPlaces, <1>d, <1>f DEF OnePlace, Phases
<1>5. InFlightIsBusy'
  <2>1. wire[r] = "none"
    BY <1>a DEF At
  <2> QED BY <2>1, <1>a, <1>d, <1>e DEF InFlightIsBusy
<1>6. OneAlarmPerTimeout'
  BY <1>a, <1>d, <1>e DEF OneAlarmPerTimeout
<1>7. PendingList'
  BY <1>a, <1>d DEF PendingList, Dealing
<1> QED BY <1>a, <1>m, <1>1, <1>2, <1>3, <1>4, <1>5, <1>6, <1>7

(* A failed assertion leaves everything where it was.                      *)
LEMMA AbortStep ==
  ASSUME IInv, Abort
  PROVE  IInv' /\ AllStay
<1> USE BucketAssumption, ServerAssumption, RequestAssumption
    DEF BucketAssumption, ServerAssumption, RequestAssumption, IInv,
        bucketVars, queueVars, attrVars, waitVars, readVars
<1>a. /\ remaining' \in [Bucket -> {0, 1}] /\ reset' \in [Bucket -> Waits]
      /\ global' \in Waits
  BY BuildEffect DEF Abort
<1>b. rest = "build" /\ rest' = "aborted"
  BY DEF Abort, Build
<1>1. TypeOK'
  BY <1>a, <1>b DEF Abort, Build, TypeOK, RatelimiterTypeOK
<1>2. Locals'
  BY <1>b DEF Abort, Build, Locals, Dealing
<1>3. Keyed'
  BY DEF Abort, Build, Keyed
<1>m. AllStay
  <2>1. ASSUME NEW q \in Requests, NEW x \in Places, At(q, x) PROVE At(q, x)'
    BY <2>1 DEF Abort, Build, At
  <2> QED BY <2>1, SameStays DEF AllStay, OnePlace
<1>4. OnePlace'
  BY <1>m, StayPlaces DEF Abort, Build, OnePlace
<1>5. InFlightIsBusy'
  BY DEF Abort, Build, InFlightIsBusy
<1>6. OneAlarmPerTimeout'
  BY DEF Abort, Build, OneAlarmPerTimeout
<1>7. PendingList'
  BY <1>b DEF Abort, Build, PendingList, Dealing
<1> QED BY <1>m, <1>1, <1>2, <1>3, <1>4, <1>5, <1>6, <1>7

(* Every ready bucket sends its head; every exhausted one is put to sleep. *)
LEMMA SelectAndSendStep ==
  ASSUME IInv, SelectAndSend
  PROVE  /\ IInv'
         /\ \A q \in Requests :
              IF q \in Selected THEN Moves(q, "queued", "sent") ELSE Stays(q)
<1> USE BucketAssumption, ServerAssumption, RequestAssumption
    DEF BucketAssumption, ServerAssumption, RequestAssumption, IInv,
        bucketVars, queueVars, attrVars, waitVars, readVars
<1>a. /\ rest = "route" /\ moved = <<>> /\ rest' = "poll"
      /\ UNCHANGED <<known, remaining, reset, global, bof, queueVars, attrVars, waitVars,
                     dispatching, moved, readVars>>
  BY DEF SelectAndSend
<1>b. /\ queue \in [Bucket -> Seq(Requests)] /\ \A b \in Bucket : IsInjective(queue[b])
      /\ busy \in [Bucket -> Requests \cup {NoReq, Timeout}] /\ listed \subseteq Bucket
      /\ bof \in [Requests -> Bucket \cup {NoBucket}]
      /\ alarms \in [Bucket -> Seq(Waits)]
  BY DEF TypeOK, RatelimiterTypeOK, OnePlace
<1>c. \A b \in Bucket : b \in listed <=> queue[b] # <<>>
  BY <1>a DEF PendingList, Dealing
<1>d. ASSUME NEW b \in Bucket, Ready(b)
      PROVE  /\ busy[b] = NoReq /\ Head(queue[b]) \in Requests /\ bof[Head(queue[b])] = b
             /\ Tail(queue[b]) \in Seq(Requests) /\ IsInjective(Tail(queue[b]))
             /\ ToSet(queue[b]) = ToSet(Tail(queue[b])) \cup {Head(queue[b])}
             /\ Head(queue[b]) \notin ToSet(Tail(queue[b]))
             /\ At(Head(queue[b]), "bucket")
  <2>1. queue[b] # <<>> /\ busy[b] = NoReq
    BY <1>c, <1>d DEF Ready, Idle
  <2>2. /\ Head(queue[b]) \in Requests /\ Tail(queue[b]) \in Seq(Requests)
        /\ ToSet(queue[b]) = ToSet(Tail(queue[b])) \cup {Head(queue[b])}
        /\ IsInjective(Tail(queue[b])) /\ Head(queue[b]) \notin ToSet(Tail(queue[b]))
    BY <2>1, <1>b, TailItems
  <2>3. At(Head(queue[b]), "bucket") /\ bof[Head(queue[b])] = b
    BY <2>2 DEF OnePlace, At
  <2> QED BY <2>1, <2>2, <2>3
<1>e. \A b \in Bucket :
        /\ queue'[b] = IF Ready(b) THEN Tail(queue[b]) ELSE queue[b]
        /\ busy'[b] = IF Ready(b) THEN Head(queue[b])
                      ELSE IF Exhausted(b) THEN Timeout ELSE busy[b]
        /\ b \in listed' <=> b \in listed /\ (Ready(b) => Tail(queue[b]) # <<>>)
        /\ alarms'[b] = IF Exhausted(b) THEN Append(alarms[b], WaitOf(b)) ELSE alarms[b]
  BY <1>b DEF SelectAndSend, RequestSelector
<1>f. \A q \in Requests : wire'[q] = IF q \in Selected THEN "sent" ELSE wire[q]
  BY DEF SelectAndSend
<1>g. \A q \in Requests : q \in Selected <=>
        \E b \in Bucket : Ready(b) /\ q = Head(queue[b])
  BY DEF Selected
<1>h. \A b \in Bucket : ~(Ready(b) /\ Exhausted(b)) /\ (Exhausted(b) => busy[b] = NoReq)
  BY DEF Ready, Exhausted, Idle
<1>1. TypeOK'
  <2>1. queue' \in [Bucket -> Seq(Requests)]
    BY <1>b, <1>d DEF SelectAndSend, RequestSelector
  <2>2. busy' \in [Bucket -> Requests \cup {NoReq, Timeout}]
    BY <1>b, <1>d DEF SelectAndSend, RequestSelector
  <2>3. alarms' \in [Bucket -> Seq(Waits)]
    <3>1. \A b \in Bucket : WaitOf(b) \in Waits
      BY DEF WaitOf, TypeOK, RatelimiterTypeOK
    <3>2. \A b \in Bucket : Append(alarms[b], WaitOf(b)) \in Seq(Waits)
      BY <3>1, <1>b
    <3> QED BY <1>b, <3>2 DEF SelectAndSend, RequestSelector
  <2>4. listed' \subseteq Bucket
    BY <1>b DEF SelectAndSend, RequestSelector
  <2>5. wire' \in [Requests -> {"none", "sent"} \cup Outcomes]
    BY DEF SelectAndSend, TypeOK
  <2> QED BY <1>a, <2>1, <2>2, <2>3, <2>4, <2>5 DEF TypeOK, RatelimiterTypeOK
<1>2. Locals'
  BY <1>a DEF Locals, Dealing
<1>3. Keyed'
  BY <1>a DEF Keyed
<1>m. ASSUME NEW q \in Requests
      PROVE  IF q \in Selected THEN Moves(q, "queued", "sent") ELSE Stays(q)
  <2>1. CASE q \in Selected
    <3>1. PICK b \in Bucket : Ready(b) /\ q = Head(queue[b])
      BY <2>1, <1>g
    <3>2. /\ At(q, "bucket") /\ bof[q] = b /\ q \notin ToSet(queue'[b]) /\ wire'[q] = "sent"
      BY <2>1, <3>1, <1>d, <1>e, <1>f
    <3>3. ASSUME NEW c \in Bucket PROVE q \notin ToSet(queue'[c])
      <4>1. c # b => q \notin ToSet(queue[c])
        BY <3>2 DEF At
      <4> QED BY <4>1, <3>2, <1>d, <1>e
    <3>4. At(q, "wire")'
      BY <3>2, <3>3, <1>a DEF At
    <3> QED BY <2>1, <3>2, <3>4 DEF Moves, PlacesOf
  <2>2. CASE q \notin Selected
    <3>1. PICK x \in Places : At(q, x)
      BY DEF OnePlace
    <3>2. \A c \in Bucket : q \in ToSet(queue'[c]) <=> q \in ToSet(queue[c])
      <4> TAKE c \in Bucket
      <4>1. CASE Ready(c)
        BY <4>1, <2>2, <1>d, <1>e, <1>g
      <4>2. CASE ~Ready(c)
        BY <4>2, <1>e
      <4> QED BY <4>1, <4>2
    <3>3. wire'[q] = wire[q]
      BY <2>2, <1>f
    <3>4. At(q, x)'
      BY <3>1, <3>2, <3>3, <1>a DEF At
    <3> QED BY <2>2, <3>1, <3>4, SameStays
  <2> QED BY <2>1, <2>2
<1>4. OnePlace'
  <2>1. ASSUME NEW q \in Requests PROVE \E x \in Places : At(q, x)'
    BY <1>m, MovesPlaces DEF Phases
  <2>2. \A b \in Bucket : IsInjective(queue'[b])
    BY <1>b, <1>d, <1>e
  <2> QED BY <2>1, <2>2, <1>a DEF OnePlace
<1>5. InFlightIsBusy'
  <2>1. ASSUME NEW q \in Requests, wire'[q] # "none"
        PROVE  bof[q] # NoBucket /\ busy'[bof[q]] = q
    <3>1. CASE q \in Selected
      <4>1. PICK b \in Bucket : Ready(b) /\ q = Head(queue[b])
        BY <3>1, <1>g
      <4> QED BY <4>1, <1>d, <1>e
    <3>2. CASE q \notin Selected
      <4>1. wire[q] # "none"
        BY <2>1, <3>2, <1>f
      <4>2. bof[q] \in Bucket /\ busy[bof[q]] = q
        BY <4>1, <1>b DEF InFlightIsBusy
      <4>3. ~Ready(bof[q]) /\ ~Exhausted(bof[q])
        BY <4>2, <1>d, <1>h
      <4> QED BY <4>2, <4>3, <1>e
    <3> QED BY <3>1, <3>2
  <2> QED BY <2>1, <1>a DEF InFlightIsBusy
<1>6. OneAlarmPerTimeout'
  <2>1. ASSUME NEW b \in Bucket
        PROVE  Len(alarms'[b]) = IF busy'[b] = Timeout THEN 1 ELSE 0
    <3>1. Len(alarms[b]) = IF busy[b] = Timeout THEN 1 ELSE 0
      BY DEF OneAlarmPerTimeout
    <3>2. CASE Ready(b)
      BY <3>1, <3>2, <1>d, <1>e, <1>h
    <3>3. CASE Exhausted(b)
      <4>1. Len(Append(alarms[b], WaitOf(b))) = Len(alarms[b]) + 1
        BY <1>b
      <4>2. busy[b] = NoReq /\ ~Ready(b)
        BY <3>3, <1>h
      <4>3. alarms'[b] = Append(alarms[b], WaitOf(b)) /\ busy'[b] = Timeout
        BY <3>3, <4>2, <1>e
      <4> QED BY <3>1, <4>1, <4>2, <4>3
    <3>4. CASE ~Ready(b) /\ ~Exhausted(b)
      BY <3>1, <3>4, <1>e
    <3> QED BY <3>2, <3>3, <3>4
  <2> QED BY <2>1 DEF OneAlarmPerTimeout
<1>7. PendingList'
  <2>1. \A b \in Bucket : b \in listed' <=> queue'[b] # <<>>
    <3> TAKE b \in Bucket
    <3>1. CASE Ready(b)
      <4>1. b \in listed
        BY <3>1 DEF Ready, Idle
      <4> QED BY <3>1, <4>1, <1>e
    <3>2. CASE ~Ready(b)
      BY <3>2, <1>c, <1>e
    <3> QED BY <3>1, <3>2
  <2> QED BY <2>1 DEF PendingList
<1> QED BY <1>m, <1>1, <1>2, <1>3, <1>4, <1>5, <1>6, <1>7

(* No step breaks the inductive invariant.                                 *)
LEMMA NextIInv == IInv /\ [Next]_vars => IInv'
<1> SUFFICES ASSUME IInv, [Next]_vars PROVE IInv'
  OBVIOUS
<1>1. CASE UNCHANGED vars
  <2>1. UNCHANGED <<bucketVars, queueVars, attrVars, waitVars, dispatching, wire, rest,
                    moved, readVars>>
    BY <1>1 DEF vars
  <2> USE DEF bucketVars, queueVars, attrVars, waitVars, readVars
  <2>2. TypeOK' /\ Locals' /\ Keyed'
    BY <2>1 DEF IInv, TypeOK, RatelimiterTypeOK, Locals, Dealing, Keyed
  <2>3. OnePlace'
    BY <2>1 DEF IInv, OnePlace, At
  <2>4. InFlightIsBusy' /\ OneAlarmPerTimeout' /\ PendingList'
    BY <2>1 DEF IInv, InFlightIsBusy, OneAlarmPerTimeout, PendingList, Dealing
  <2> QED BY <2>2, <2>3, <2>4 DEF IInv
<1>2. CASE Next
  <2>1. CASE \E t \in Callers : RequestBegin(t) \/ SyncReturn(t)
    BY <2>1, RequestBeginStep, SyncReturnStep
  <2>2. CASE DispatchResponses \/ DispatchResponse
    BY <2>2, DispatchResponsesStep, DispatchResponseStep
  <2>3. CASE \E r \in Requests : TransferEnds(r)
    BY <2>3, TransferEndsStep
  <2>4. CASE Tick \/ TimersRun
    BY <2>4, TickStep, TimersRunStep
  <2>5. CASE RestThread
    BY <2>5, RestPerformStep, InfoReadStep, NullFilterStep, RetryStep, FinishStep,
       AbortStep, StartPendingStep, RoutePendingStep, SelectAndSendStep DEF RestThread
  <2> QED BY <1>2, <2>1, <2>2, <2>3, <2>4, <2>5 DEF Next
<1> QED BY <1>1, <1>2

(* The pipeline keeps its books in every reachable state.                  *)
THEOREM Bookkeeping == Spec => []IInv
BY InitIInv, NextIInv, PTL DEF Spec

(* Type correctness: in particular no request is sent more than            *)
(* retry_limit times again.                                                *)
THEOREM TypeCorrect == Spec => []TypeOK
<1>1. IInv => TypeOK
  BY DEF IInv
<1> QED BY <1>1, Bookkeeping, PTL

(* No request is lost, and none is in two places at once.                  *)
THEOREM RequestInOnePlace == Spec => []OnePlace
<1>1. IInv => OnePlace
  BY DEF IInv
<1> QED BY <1>1, Bookkeeping, PTL

(* A bucket never has two requests on the wire, nor is it freed under one. *)
THEOREM OneTransferPerBucket == Spec => []InFlightIsBusy
<1>1. IInv => InFlightIsBusy
  BY DEF IInv
<1> QED BY <1>1, Bookkeeping, PTL

(* A bucket is in timeout exactly while one timer is set to wake it.       *)
THEOREM TimeoutsEnd == Spec => []OneAlarmPerTimeout
<1>1. IInv => OneAlarmPerTimeout
  BY DEF IInv
<1> QED BY <1>1, Bookkeeping, PTL

(* No waiting request is out of the selector's sight.                      *)
THEOREM QueuesAreListed == Spec => []ListedIffQueued
<1>1. IInv => ListedIffQueued
  BY DEF IInv, PendingList, ListedIffQueued, Dealing
<1> QED BY <1>1, Bookkeeping, PTL

-----------------------------------------------------------------------------
(* The buckets' routes.                                                    *)

(* The objects that are in no bucket.                                      *)
Spare ==
  unused \cup ToSet(recycling) \cup ToSet(finished) \cup ToSet(dispatching) \cup signalled

(* null_filter only carries requests of the answered one's route.          *)
RouteInv ==
  /\ InBucketOfItsRoute
  /\ \A r \in Spare : bof[r] = NoBucket
  /\ filter # <<>> /\ filterTo \in Keys => key[cur] = filterTo

(* A request that is being read, moved or filtered is not spare.           *)
LEMMA NotSpare ==
  ASSUME IInv, NEW r \in Requests, NEW p \in {"read", "moved", "filter", "wire"}, At(r, p)
  PROVE  r \notin Spare
BY DEF At, Spare

LEMMA ReadIsNotSpare ==
  ASSUME IInv, cur \in Requests
  PROVE  At(cur, "read") /\ cur \notin Spare
<1>1. PICK p \in Places : At(cur, p)
  BY DEF IInv, OnePlace
<1>2. p = "read"
  BY <1>1 DEF At
<1> QED BY <1>1, <1>2, NotSpare

(* An object that is begun, or wiped, has left its bucket.                 *)
LEMMA KeyChanges ==
  ASSUME IInv, RouteInv, NEW r \in Spare, NEW k,
         key' = [key EXCEPT ![r] = k], UNCHANGED <<bof, filter, filterTo, cur, rest>>,
         Spare' \subseteq Spare
  PROVE  RouteInv'
<1>1. /\ key \in [Requests -> Keys \cup {NoKey}]
      /\ bof \in [Requests -> Bucket \cup {NoBucket}]
  BY DEF IInv, TypeOK, RatelimiterTypeOK
<1>2. bof[r] = NoBucket /\ NoBucket \notin Keys
  BY BucketAssumption DEF RouteInv, Bucket, BucketAssumption
<1>3. ASSUME NEW q \in Requests, bof'[q] \in Keys
      PROVE  key'[q] = bof'[q]
  BY <1>1, <1>2, <1>3 DEF RouteInv, InBucketOfItsRoute
<1>4. ASSUME filter # <<>>
      PROVE  key'[cur] = key[cur]
  <2>1. cur \in Requests
    BY <1>4 DEF IInv, Locals
  <2>2. cur # r
    BY <2>1, ReadIsNotSpare
  <2> QED BY <1>1, <2>1, <2>2
<1> QED BY <1>3, <1>4 DEF RouteInv, InBucketOfItsRoute

LEMMA RouteInvStep ==
  ASSUME IInv, RouteInv, [Next]_vars
  PROVE  RouteInv'
<1> USE DEF bucketVars, queueVars, attrVars, waitVars, readVars
<1>1. /\ key \in [Requests -> Keys \cup {NoKey}]
      /\ bof \in [Requests -> Bucket \cup {NoBucket}]
      /\ recycling \in Seq(Requests) /\ finished \in Seq(Requests)
      /\ dispatching \in Seq(Requests) /\ filter \in Seq(Requests) /\ moved \in Seq(Requests)
  BY DEF IInv, TypeOK, RatelimiterTypeOK
<1>2. NullB \notin Keys /\ MissB \notin Keys /\ NoBucket \notin Keys
  BY BucketAssumption DEF Bucket, BucketAssumption
<1>3. ASSUME UNCHANGED <<bof, key, filter, filterTo, cur>>, Spare' \subseteq Spare
      PROVE  RouteInv'
  BY <1>3 DEF RouteInv, InBucketOfItsRoute
<1>4. ASSUME NEW t \in Callers, RequestBegin(t)
      PROVE  RouteInv'
  <2>1. PICK r \in Requests, k \in Keys : RequestGet(r) /\ key' = [key EXCEPT ![r] = k]
    BY <1>4 DEF RequestBegin
  <2>2. UNCHANGED <<bof, filter, filterTo, cur, rest, finished, dispatching, signalled>>
    BY <1>4 DEF RequestBegin
  <2>3. r \in Spare /\ unused' \cup ToSet(recycling') \subseteq unused \cup ToSet(recycling)
    <3>1. CASE /\ recycling # <<>> /\ r = Head(recycling)
               /\ recycling' = Tail(recycling) /\ UNCHANGED unused
      BY <1>1, <3>1, TailItems DEF Spare
    <3>2. CASE r \in unused /\ unused' = unused \ {r} /\ UNCHANGED recycling
      BY <3>2 DEF Spare
    <3> QED BY <2>1, <3>1, <3>2 DEF RequestGet
  <2>4. Spare' \subseteq Spare
    BY <2>2, <2>3 DEF Spare
  <2> QED BY <2>1, <2>2, <2>3, <2>4, KeyChanges
<1>5. ASSUME NEW t \in Callers, SyncReturn(t)
      PROVE  RouteInv'
  <2>1. waiting[t] \in Spare /\ waiting[t] \in Requests
    BY <1>5 DEF SyncReturn, Spare, IInv, TypeOK
  <2>2. key' = [key EXCEPT ![waiting[t]] = NoKey] /\ recycling' = Append(recycling, waiting[t])
    BY <1>5 DEF SyncReturn, RequestCancel
  <2>3. /\ UNCHANGED <<bof, filter, filterTo, cur, rest, finished, dispatching, unused>>
        /\ signalled' \subseteq signalled
    BY <1>5 DEF SyncReturn
  <2>4. ToSet(recycling') = ToSet(recycling) \cup {waiting[t]}
    BY <1>1, <2>1, <2>2, AppendItems
  <2>5. Spare' \subseteq Spare
    BY <2>1, <2>3, <2>4 DEF Spare
  <2> QED BY <2>1, <2>2, <2>3, <2>5, KeyChanges
<1>6. ASSUME DispatchResponse
      PROVE  RouteInv'
  <2> DEFINE r == Head(dispatching)
  <2>1. /\ ToSet(dispatching') \subseteq ToSet(dispatching)
        /\ r \in ToSet(dispatching) /\ r \in Requests
    BY <1>1, <1>6, TailItems DEF DispatchResponse
  <2> HIDE DEF r
  <2>2. key' = [key EXCEPT ![r] = NoKey] /\ recycling' = Append(recycling, r)
    BY <1>6 DEF DispatchResponse, RequestCancel, r
  <2>3. UNCHANGED <<bof, filter, filterTo, cur, rest, finished, unused, signalled>>
    BY <1>6 DEF DispatchResponse
  <2>4. ToSet(recycling') = ToSet(recycling) \cup {r}
    BY <1>1, <2>1, <2>2, AppendItems
  <2>5. r \in Spare /\ Spare' \subseteq Spare
    BY <2>1, <2>3, <2>4 DEF Spare
  <2> QED BY <2>2, <2>3, <2>5, KeyChanges
<1>7. ASSUME DispatchResponses
      PROVE  RouteInv'
  <2>1. /\ dispatching' = finished /\ finished' = <<>>
        /\ UNCHANGED <<bof, key, filter, filterTo, cur, unused, recycling, signalled>>
    BY <1>7 DEF DispatchResponses
  <2>2. Spare' \subseteq Spare
    BY <2>1, EmptyItems DEF Spare
  <2> QED BY <1>3, <2>1, <2>2
<1>8. ASSUME \/ \E r \in Requests : TransferEnds(r)
             \/ Tick \/ TimersRun \/ RestPerform \/ Abort \/ StartPending \/ SelectAndSend
             \/ UNCHANGED vars
      PROVE  RouteInv'
  <2>1. UNCHANGED <<bof, key, filter, filterTo, cur, unused, recycling, finished,
                    dispatching, signalled>>
    BY <1>8 DEF TransferEnds, Tick, TimersRun, RestPerform, Abort, Build, StartPending,
                SelectAndSend, vars
  <2> QED BY <1>3, <2>1 DEF Spare
<1>9. ASSUME NEW r \in Requests, InfoRead(r)
      PROVE  RouteInv'
  <2>1. UNCHANGED <<bof, key, unused, recycling, finished, dispatching, signalled>>
    BY <1>9 DEF InfoRead
  <2>2. Spare' = Spare
    BY <2>1 DEF Spare
  <2>3. filter = <<>>
    BY <1>9 DEF InfoRead, IInv, Locals, Dealing
  <2>4. cur' = r /\ (filter' # <<>> => filterTo' \in {key[r], MissB})
    BY <1>9, <2>3 DEF InfoRead, GetMatch
  <2> QED BY <1>2, <2>1, <2>2, <2>4 DEF RouteInv, InBucketOfItsRoute
<1>10. ASSUME NullFilter
       PROVE  RouteInv'
  <2> DEFINE r == Head(filter)
  <2>1. r \in Requests /\ r \in ToSet(filter) /\ filter # <<>>
    BY <1>1, <1>10, TailItems DEF NullFilter
  <2> HIDE DEF r
  <2>2. /\ filterTo' = Filtered(r) /\ bof' = [bof EXCEPT ![r] = Filtered(r)]
        /\ UNCHANGED <<key, cur, unused, recycling, finished, dispatching, signalled>>
    BY <1>10 DEF NullFilter, BucketInsert, r
  <2>3. Spare' = Spare
    BY <2>2 DEF Spare
  <2>4. r \notin Spare
    <3>1. PICK p \in Places : At(r, p)
      BY <2>1 DEF IInv, OnePlace
    <3>2. At(r, "filter")
      BY <2>1, <3>1 DEF At
    <3> QED BY <2>1, <3>2, NotSpare
  <2>5. Filtered(r) \in Keys => Filtered(r) = key[r] /\ Filtered(r) = key[cur]
    BY <1>2, <2>1 DEF Filtered, RouteInv
  <2> QED BY <1>1, <2>1, <2>2, <2>3, <2>4, <2>5 DEF RouteInv, InBucketOfItsRoute
<1>11. ASSUME Retry
       PROVE  RouteInv'
  <2>1. /\ filter = <<>>
        /\ bof' = [bof EXCEPT ![cur] = bof[cur]]
        /\ UNCHANGED <<key, filter, unused, recycling, finished, dispatching, signalled>>
    BY <1>11 DEF Retry, Build, BucketInsert
  <2>2. bof' = bof
    BY <1>1, <2>1
  <2> QED BY <2>1, <2>2 DEF RouteInv, InBucketOfItsRoute, Spare
<1>12. ASSUME Finish
       PROVE  RouteInv'
  <2>1. /\ filter = <<>>
        /\ bof' = [bof EXCEPT ![cur] = NoBucket]
        /\ UNCHANGED <<key, filter, unused, recycling, dispatching>>
        /\ HandOver(cur) /\ rest = "build"
    BY <1>12 DEF Finish, Build, RequestUnselect
  <2>2. cur \in Requests
    BY <2>1 DEF IInv, Locals, Dealing
  <2>3. Spare' \subseteq Spare \cup {cur}
    <3>1. ToSet(Append(finished, cur)) = ToSet(finished) \cup {cur}
      BY <1>1, <2>2, AppendItems
    <3>2. CASE signalled' = signalled \cup {cur} /\ UNCHANGED finished
      BY <2>1, <3>2 DEF Spare
    <3>3. CASE finished' = Append(finished, cur) /\ UNCHANGED signalled
      BY <2>1, <3>1, <3>3 DEF Spare
    <3> QED BY <2>1, <3>2, <3>3 DEF HandOver
  <2> QED BY <1>1, <1>2, <2>1, <2>2, <2>3 DEF RouteInv, InBucketOfItsRoute
<1>13. ASSUME RoutePending
       PROVE  RouteInv'
  <2> DEFINE r == Head(moved)
             b == BucketGet(key[r])
  <2>1. r \in Requests /\ r \in ToSet(moved)
    BY <1>1, <1>13, TailItems DEF RoutePending
  <2>2. /\ bof' = [bof EXCEPT ![r] = b]
        /\ UNCHANGED <<key, filter, filterTo, cur, unused, recycling, finished,
                       dispatching, signalled>>
    BY <1>13 DEF RoutePending, BucketInsert
  <2>3. b \in Keys => b = key[r]
    BY <1>2 DEF BucketGet
  <2> HIDE DEF r, b
  <2>4. Spare' = Spare
    BY <2>2 DEF Spare
  <2>5. r \notin Spare
    <3>1. PICK p \in Places : At(r, p)
      BY <2>1 DEF IInv, OnePlace
    <3>2. At(r, "moved")
      BY <2>1, <3>1 DEF At
    <3> QED BY <2>1, <3>2, NotSpare
  <2> QED BY <1>1, <2>1, <2>2, <2>3, <2>4, <2>5 DEF RouteInv, InBucketOfItsRoute
<1> QED
  BY <1>4, <1>5, <1>6, <1>7, <1>8, <1>9, <1>10, <1>11, <1>12, <1>13
  DEF Next, RestThread

(* A bucket only ever serves the requests of its own route.                *)
THEOREM BucketsKeepTheirRoute == Spec => []InBucketOfItsRoute
<1>1. Init => RouteInv
  <2>1. NoBucket \notin Keys
    BY BucketAssumption DEF Bucket, BucketAssumption
  <2>2. ASSUME Init, NEW r \in Spare
        PROVE  r \in Requests
    BY <2>2, EmptyItems DEF Init, Spare
  <2> QED BY <2>1, <2>2 DEF Init, RatelimiterInit, RouteInv, InBucketOfItsRoute
<1>2. RouteInv => InBucketOfItsRoute
  BY DEF RouteInv
<1> QED BY <1>1, <1>2, RouteInvStep, Bookkeeping, PTL DEF Spec

-----------------------------------------------------------------------------
(* The assertion of winecord_bucket_request_unselect.                      *)

(* A request whose answer is dealt with still occupies its bucket, unless  *)
(* it was throttled, and then not for the last time.                       *)
UnselectInv ==
  /\ \A r \in Requests : wire[r] = "throttled" => attempt[r] < MaxThrottles
  /\ rest = "build" => IF out = "throttled" THEN attempt[cur] < MaxThrottles
                                            ELSE busy[bof[cur]] = cur
  /\ UnselectsBusyRequest

(* An object that is wiped is not on the wire, nor being dealt with.       *)
LEMMA WipedElsewhere ==
  ASSUME IInv, NEW r \in Requests, r \in signalled \cup ToSet(dispatching)
  PROVE  wire[r] = "none" /\ r # cur
<1>1. PICK p \in Places : At(r, p)
  BY DEF IInv, OnePlace
<1> QED BY <1>1 DEF At

LEMMA UnselectInvStep ==
  ASSUME IInv, UnselectInv, [Next]_vars,
         "throttled" \notin Outcomes \/ MaxThrottles =< RetryLimit
  PROVE  UnselectInv'
<1> USE DEF bucketVars, queueVars, attrVars, waitVars, readVars, UnselectsBusyRequest
<1>1. /\ attempt \in [Requests -> 0..RetryLimit]
      /\ wire \in [Requests -> {"none", "sent"} \cup Outcomes]
      /\ bof \in [Requests -> Bucket \cup {NoBucket}]
      /\ busy \in [Bucket -> Requests \cup {NoReq, Timeout}]
      /\ dispatching \in Seq(Requests)
      /\ RetryLimit \in Nat /\ MaxThrottles \in Nat
  BY RequestAssumption DEF IInv, TypeOK, RatelimiterTypeOK, RequestAssumption
<1>2. rest = "build" => cur \in Requests /\ At(cur, "read") /\ wire[cur] = "none"
  <2>1. ASSUME rest = "build"
        PROVE  cur \in Requests
    BY <2>1 DEF IInv, Locals, Dealing
  <2>2. ASSUME cur \in Requests, NEW p \in Places, At(cur, p)
        PROVE  p = "read" /\ wire[cur] = "none"
    BY <2>2 DEF At, Places
  <2> QED BY <2>1, <2>2 DEF IInv, OnePlace
<1>3. ASSUME NEW r \in Requests, r \in signalled \cup ToSet(dispatching), RequestCancel(r),
             UNCHANGED <<bof, busy, wire, rest, cur, out>>
      PROVE  UnselectInv'
  <2>1. wire[r] = "none" /\ r # cur
    BY <1>3, WipedElsewhere
  <2>2. attempt' = [attempt EXCEPT ![r] = 0]
    BY <1>3 DEF RequestCancel
  <2> QED BY <1>1, <1>2, <1>3, <2>1, <2>2 DEF UnselectInv
<1>4. ASSUME NEW t \in Callers, SyncReturn(t)
      PROVE  UnselectInv'
  <2>1. waiting[t] \in signalled /\ waiting[t] \in Requests
    BY <1>4 DEF SyncReturn, IInv, TypeOK
  <2> QED BY <1>3, <1>4, <2>1 DEF SyncReturn
<1>5. ASSUME DispatchResponse
      PROVE  UnselectInv'
  <2>1. Head(dispatching) \in ToSet(dispatching) /\ Head(dispatching) \in Requests
    BY <1>1, <1>5, TailItems DEF DispatchResponse
  <2> QED BY <1>3, <1>5, <2>1 DEF DispatchResponse
<1>6. ASSUME \/ \E t \in Callers : RequestBegin(t)
             \/ DispatchResponses \/ Tick \/ NullFilter \/ UNCHANGED vars
      PROVE  UnselectInv'
  <2>1. UNCHANGED <<wire, attempt, rest, cur, out, busy>>
    BY <1>6 DEF RequestBegin, DispatchResponses, Tick, NullFilter, vars
  <2>2. rest = "build" => bof'[cur] = bof[cur]
    <3>1. CASE NullFilter
      <4> DEFINE r == Head(filter)
      <4>1. r \in ToSet(filter)
        BY <3>1, TailItems DEF NullFilter, IInv, TypeOK
      <4>2. r # cur
        BY <1>2, <3>1, <4>1 DEF At, NullFilter
      <4>3. bof' = [bof EXCEPT ![r] = Filtered(r)]
        BY <3>1 DEF NullFilter, BucketInsert
      <4> HIDE DEF r
      <4> QED BY <1>1, <1>2, <4>2, <4>3
    <3>2. CASE UNCHANGED bof
      BY <3>2
    <3> QED BY <1>6, <3>1, <3>2 DEF RequestBegin, DispatchResponses, Tick, vars
  <2> QED BY <2>1, <2>2 DEF UnselectInv
<1>7. ASSUME TimersRun \/ RestPerform \/ StartPending \/ RoutePending
      PROVE  UnselectInv'
  BY <1>7 DEF UnselectInv, TimersRun, RestPerform, StartPending, RoutePending
<1>8. ASSUME NEW r \in Requests, TransferEnds(r)
      PROVE  UnselectInv'
  <2>1. PICK o \in Outcomes : /\ o = "throttled" => attempt[r] < MaxThrottles
                              /\ wire' = [wire EXCEPT ![r] = o]
    BY <1>8 DEF TransferEnds
  <2>2. UNCHANGED <<attempt, rest, cur, out, busy, bof>>
    BY <1>8 DEF TransferEnds
  <2> QED BY <1>1, <2>1, <2>2 DEF UnselectInv
<1>9. ASSUME SelectAndSend
      PROVE  UnselectInv'
  <2>1. wire' = [r \in Requests |-> IF r \in Selected THEN "sent" ELSE wire[r]]
    BY <1>9 DEF SelectAndSend
  <2>2. rest' = "poll" /\ UNCHANGED attempt
    BY <1>9 DEF SelectAndSend
  <2> QED BY <2>1, <2>2 DEF UnselectInv
<1>10. ASSUME NEW r \in Requests, InfoRead(r)
       PROVE  UnselectInv'
  <2>1. /\ wire' = [wire EXCEPT ![r] = "none"] /\ cur' = r /\ out' = wire[r]
        /\ rest' = "build" /\ UNCHANGED <<attempt, bof>>
    BY <1>10 DEF InfoRead
  <2>2. CASE wire[r] = "throttled"
    BY <1>1, <2>1, <2>2 DEF UnselectInv
  <2>3. CASE wire[r] # "throttled"
    <3>1. wire[r] # "none"
      BY <1>10, RequestAssumption DEF InfoRead, RequestAssumption, AllOutcomes
    <3>2. busy[bof[r]] = r
      BY <3>1 DEF IInv, InFlightIsBusy
    <3>3. busy' = busy
      BY <1>10, <2>3 DEF InfoRead, InfoExtract
    <3> QED BY <1>1, <2>1, <2>3, <3>2, <3>3 DEF UnselectInv
  <2> QED BY <2>2, <2>3
<1>11. ASSUME Retry
       PROVE  UnselectInv'
  <2>1. /\ rest = "build" /\ rest' = "info" /\ UNCHANGED wire
        /\ attempt' = [attempt EXCEPT ![cur] = @ + 1]
    BY <1>11 DEF Retry, Build, MessageDone
  <2> QED BY <1>1, <1>2, <2>1 DEF UnselectInv
<1>12. ASSUME Finish
       PROVE  UnselectInv'
  BY <1>12 DEF Finish, Build, MessageDone, UnselectInv
<1>13. ASSUME Abort
       PROVE  FALSE
  <2>1. rest = "build" /\ ~WillRetry /\ busy[bof[cur]] # cur
    BY <1>13 DEF Abort, Build
  <2>2. out = "throttled" /\ attempt[cur] < MaxThrottles /\ attempt[cur] \in Nat
    BY <1>1, <1>2, <2>1 DEF UnselectInv
  <2>3. out \in Outcomes
    BY <2>2 DEF IInv, TypeOK
  <2>4. attempt[cur] < RetryLimit
    BY <1>1, <2>2, <2>3
  <2> QED BY <2>1, <2>2, <2>4 DEF WillRetry, Retryable
<1> QED
  BY <1>4, <1>5, <1>6, <1>7, <1>8, <1>9, <1>10, <1>11, <1>12, <1>13
  DEF Next, RestThread

(* While the server throttles no request more than retry_limit times in a  *)
(* row, the assertion of unselect never ends the program: no other outcome *)
(* and no timer takes the mark of a request whose answer is dealt with.    *)
THEOREM OnlyThrottlingEndsIt ==
  ASSUME "throttled" \notin Outcomes \/ MaxThrottles =< RetryLimit
  PROVE  Spec => []UnselectsBusyRequest
<1>1. Init => UnselectInv
  BY DEF Init, UnselectInv, UnselectsBusyRequest
<1>2. UnselectInv => UnselectsBusyRequest
  BY DEF UnselectInv
<1>3. IInv /\ UnselectInv /\ [Next]_vars => UnselectInv'
  BY UnselectInvStep
<1> QED BY <1>1, <1>2, <1>3, Bookkeeping, PTL DEF Spec
=============================================================================
