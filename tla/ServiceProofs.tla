---------------------------- MODULE ServiceProofs ----------------------------
(***************************************************************************)
(* The request pipeline implements RequestService: whatever the buckets,   *)
(* the three kinds of threads and the server do, its steps are the         *)
(* submissions, transfers, retries, answers and deliveries promised there. *)
(* And a synchronous request has one caller, who is alone with it.         *)
(***************************************************************************)
EXTENDS RestProofs

(* The place of a request tells its phase.                                 *)
PhaseByPlace == \A q \in Requests, f \in Phases :
  \A x \in PlacesOf(f) : At(q, x) => Phase(q) = f

LEMMA PhaseOfPlace == PhaseByPlace
<1> SUFFICES ASSUME NEW q \in Requests, NEW f \in Phases, NEW x \in PlacesOf(f), At(q, x)
             PROVE  Phase(q) = f
  BY DEF PhaseByPlace
<1>1. x \in Places
  BY DEF Phases, PlacesOf, Places
<1>2. Queued(q) <=> x \in PlacesOf("queued")
  <2>1. (\E b \in Bucket : q \in ToSet(queue[b])) <=> x = "bucket"
    BY DEF At
  <2> QED BY <2>1, <1>1 DEF At, Queued, PlacesOf
<1>3. Answered(q) <=> x \in PlacesOf("answered")
  BY <1>1 DEF At, Answered, PlacesOf
<1>4. (wire[q] # "none" \/ cur = q) <=> x \in PlacesOf("sent")
  BY <1>1 DEF At, PlacesOf
<1> QED BY <1>2, <1>3, <1>4 DEF Phase, Phases, PlacesOf

(* What a move from place to place is to the service.                      *)
LEMMA MovesPhase ==
  ASSUME NEW q \in Requests, NEW f \in Phases, NEW p \in Phases, Moves(q, f, p)
  PROVE  Phase(q) = f /\ Phase(q)' = p
<1>1. PhaseByPlace /\ PhaseByPlace'
  BY PhaseOfPlace, PTL
<1> QED BY <1>1 DEF PhaseByPlace, Moves

LEMMA StaysPhase ==
  ASSUME NEW q \in Requests, Stays(q)
  PROVE  Phase(q)' = Phase(q)
BY MovesPhase DEF Stays

(* A step in which one request advances is that Move of the service.       *)
LEMMA AdvancesMove ==
  ASSUME NEW r \in Requests, NEW f \in Phases, NEW p \in Phases, Advances(r, f, p)
  PROVE  Service!Move(r, f, p)
<1>1. Phase(r) = f /\ Phase(r)' = p
  BY MovesPhase DEF Advances
<1>2. \A q \in Requests : q # r => Phase(q)' = Phase(q)
  BY StaysPhase DEF Advances
<1> QED BY <1>1, <1>2 DEF Service!Move

(* The steps inside the pipeline are invisible to the service.             *)
LEMMA StayStutters ==
  ASSUME AllStay, UNCHANGED attempt
  PROVE  UNCHANGED Service!vars
<1>1. \A q \in Requests : Phase(q)' = Phase(q)
  BY StaysPhase DEF AllStay
<1> QED BY <1>1 DEF Service!vars

LEMMA BeginSubmits ==
  ASSUME IInv, NEW t \in Callers, RequestBegin(t)
  PROVE  Service!Next
<1>1. PICK r \in Requests : Advances(r, "idle", "queued")
  BY RequestBeginStep
<1>2. Service!Move(r, "idle", "queued")
  BY <1>1, AdvancesMove DEF Phases
<1>3. Service!Submit(r)
  BY <1>2 DEF Service!Submit, RequestBegin
<1> QED BY <1>3 DEF Service!Next

LEMMA CancelDelivers ==
  ASSUME NEW r \in Requests, Advances(r, "answered", "idle"), RequestCancel(r)
  PROVE  Service!Next
<1>1. Service!Move(r, "answered", "idle")
  BY AdvancesMove DEF Phases
<1>2. Service!Deliver(r)
  BY <1>1 DEF Service!Deliver, RequestCancel
<1> QED BY <1>2 DEF Service!Next

LEMMA RetryRetries ==
  ASSUME IInv, Retry
  PROVE  Service!Next
<1>1. PICK r \in Requests : r = cur /\ Advances(r, "sent", "queued")
  BY RetryStep
<1>2. Service!Move(r, "sent", "queued")
  BY <1>1, AdvancesMove DEF Phases
<1>3. Service!Retry(r)
  BY <1>1, <1>2 DEF Service!Retry, Retry, WillRetry
<1> QED BY <1>3 DEF Service!Next

LEMMA FinishAnswers ==
  ASSUME IInv, Finish
  PROVE  Service!Next
<1>1. PICK r \in Requests : r = cur /\ Advances(r, "sent", "answered")
  BY FinishStep
<1>2. Service!Move(r, "sent", "answered")
  BY <1>1, AdvancesMove DEF Phases
<1>3. Service!Answer(r)
  BY <1>2 DEF Service!Answer, Finish
<1> QED BY <1>3 DEF Service!Next

LEMMA SelectSends ==
  ASSUME IInv, SelectAndSend
  PROVE  Service!Next
<1>1. PICK S \in SUBSET Requests : S = Requests \cap Selected
  OBVIOUS
<1>2. ASSUME NEW q \in Requests
      PROVE  IF q \in S THEN Phase(q) = "queued" /\ Phase(q)' = "sent"
                        ELSE Phase(q)' = Phase(q)
  BY <1>1, SelectAndSendStep, MovesPhase, StaysPhase DEF Phases
<1>3. UNCHANGED attempt
  BY DEF SelectAndSend, attrVars
<1>4. Service!Send(S)
  BY <1>2, <1>3 DEF Service!Send
<1> QED BY <1>4 DEF Service!Next

(* Every step of the pipeline is a step of the service or a stutter.       *)
LEMMA NextServes == IInv /\ [Next]_vars => [Service!Next]_(Service!vars)
<1> SUFFICES ASSUME IInv, [Next]_vars
             PROVE  Service!Next \/ UNCHANGED Service!vars
  OBVIOUS
<1> USE DEF attrVars
<1>1. CASE UNCHANGED vars
  <2>1. UNCHANGED <<bucketVars, queueVars, attrVars, waitVars, dispatching, wire, rest,
                    moved, readVars>>
    BY <1>1 DEF vars
  <2>2. \A q \in Requests : Phase(q)' = Phase(q)
    BY <2>1 DEF Phase, Queued, Answered, bucketVars, queueVars, waitVars, readVars
  <2> QED BY <2>1, <2>2 DEF Service!vars
<1>2. CASE Next
  <2>1. CASE \E t \in Callers : RequestBegin(t)
    BY <2>1, BeginSubmits
  <2>2. CASE \E t \in Callers : SyncReturn(t)
    <3>1. PICK t \in Callers : SyncReturn(t)
      BY <2>2
    <3> QED BY <3>1, SyncReturnStep, CancelDelivers DEF SyncReturn
  <2>3. CASE DispatchResponse
    BY <2>3, DispatchResponseStep, CancelDelivers DEF DispatchResponse
  <2>4. CASE DispatchResponses
    BY <2>4, DispatchResponsesStep, StayStutters DEF DispatchResponses
  <2>5. CASE \E r \in Requests : TransferEnds(r)
    BY <2>5, TransferEndsStep, StayStutters DEF TransferEnds
  <2>6. CASE Tick \/ TimersRun
    BY <2>6, TickStep, TimersRunStep, StayStutters DEF Tick, TimersRun
  <2>7. CASE RestPerform \/ StartPending \/ RoutePending
    BY <2>7, RestPerformStep, StartPendingStep, RoutePendingStep, StayStutters
    DEF RestPerform, StartPending, RoutePending
  <2>8. CASE \E r \in Requests : InfoRead(r)
    BY <2>8, InfoReadStep, StayStutters DEF InfoRead
  <2>9. CASE NullFilter \/ Abort
    BY <2>9, NullFilterStep, AbortStep, StayStutters DEF NullFilter, Abort, Build
  <2>10. CASE Retry \/ Finish \/ SelectAndSend
    BY <2>10, RetryRetries, FinishAnswers, SelectSends
  <2> QED
    BY <1>2, <2>1, <2>2, <2>3, <2>4, <2>5, <2>6, <2>7, <2>8, <2>9, <2>10
    DEF Next, RestThread
<1> QED BY <1>1, <1>2

(* winecord_request_begin to winecord_request_cancel is one submission, at *)
(* most retry_limit more transfers, one answer and one delivery, for any   *)
(* number of requests, buckets and callers.                                *)
THEOREM PipelineServes == Spec => ServiceSpec
<1>1. Init => Service!Init
  <2> SUFFICES ASSUME Init PROVE Service!Init
    OBVIOUS
  <2>1. \A q \in Requests : Phase(q) = "idle"
    <3>1. NoReq \notin Requests
      BY BucketAssumption DEF BucketAssumption
    <3> QED BY <3>1, EmptyItems DEF Init, RatelimiterInit, Phase, Queued, Answered
  <2> QED BY <2>1 DEF Service!Init, Init
<1> QED BY <1>1, NextServes, Bookkeeping, PTL DEF Spec, ServiceSpec, Service!Spec

-----------------------------------------------------------------------------
(***************************************************************************)
(* Who waits for whom.  OneCallerPerSync is inductive along with IInv: an  *)
(* idle object is not synchronous, since its caller would wait for an idle *)
(* object; so whoever begins a request with it is the only one to wait.    *)
(***************************************************************************)
SInv == IInv /\ OneCallerPerSync

\* One request advances, the others keep their phase.
LEMMA AdvancesPhase ==
  ASSUME NEW r \in Requests, NEW f \in Phases, NEW p \in Phases, Advances(r, f, p)
  PROVE  /\ Phase(r) = f /\ Phase(r)' = p
         /\ \A q \in Requests \ {r} : Phase(q)' = Phase(q)
BY MovesPhase, StaysPhase DEF Advances

\* A step that neither begins, answers nor ends a request.
LEMMA NobodyGoes ==
  ASSUME OneCallerPerSync, TypeOK, UNCHANGED <<sync, waiting, signalled>>,
         \A q \in Requests : Phase(q)' = "idle" => Phase(q) = "idle",
         ToSet(finished') \cup ToSet(dispatching')
           \subseteq ToSet(finished) \cup ToSet(dispatching)
  PROVE  OneCallerPerSync'
BY DEF OneCallerPerSync, TypeOK

\* A request is begun with an object nobody waits for.
LEMMA BeginOneCaller ==
  ASSUME SInv, NEW t \in Callers, RequestBegin(t)
  PROVE  OneCallerPerSync'
<1> USE DEF SInv
<1>0. PICK r \in Requests, s \in SyncModes :
        /\ RequestGet(r) /\ sync' = [sync EXCEPT ![r] = s] /\ pending' = Append(pending, r)
        /\ waiting' = IF s THEN [waiting EXCEPT ![t] = r] ELSE waiting
        /\ waiting[t] = NoReq
  BY DEF RequestBegin
<1>1. UNCHANGED <<signalled, finished, dispatching>>
  BY DEF RequestBegin
<1>2. PICK q \in Requests : Advances(q, "idle", "queued")
  BY RequestBeginStep
<1>3. TypeOK /\ OnePlace
  BY DEF IInv
<1>4. Phase(r) = "idle"
  <2>1. r \in unused \/ r \in ToSet(recycling)
    BY <1>0, <1>3, TailItems DEF RequestGet, TypeOK
  <2>2. PICK x \in Places : At(r, x)
    BY <1>3 DEF OnePlace
  <2>3. x \in PlacesOf("idle")
    BY <2>1, <2>2 DEF At, PlacesOf
  <2> QED BY <2>2, <2>3, PhaseOfPlace DEF PhaseByPlace, Phases
<1>5. Phase(r)' = "queued"
  <2>1. r \in ToSet(pending')
    BY <1>0, <1>3, AppendItems DEF TypeOK
  <2> QED BY <2>1 DEF Phase, Queued
<1>6. \A x \in Requests \ {r} : Phase(x)' = Phase(x)
  BY <1>2, <1>4, <1>5, AdvancesPhase DEF Phases
<1>7. r \notin signalled /\ r \notin ToSet(finished) \cup ToSet(dispatching)
  BY <1>4 DEF Phase, Answered
<1>8. ~sync[r] /\ \A u \in Callers : waiting[u] # r
  BY <1>4, BucketAssumption DEF OneCallerPerSync, BucketAssumption
<1>9. s \in BOOLEAN
  BY RequestAssumption DEF RequestAssumption
<1>a. NoReq \notin Requests
  BY BucketAssumption DEF BucketAssumption
<1>b. \A x \in Requests : sync'[x] => \E u \in Callers : waiting'[u] = x
  BY <1>0, <1>3, <1>8, <1>a DEF OneCallerPerSync, TypeOK
<1>c. ASSUME NEW u \in Callers, NEW x \in Requests, waiting'[u] = x
      PROVE  /\ sync'[x] /\ Phase(x)' # "idle"
             /\ \A v \in Callers : waiting'[v] = x => v = u
  <2>1. CASE x = r
    <3>1. s /\ \A v \in Callers : waiting'[v] = r => v = t
      BY <1>0, <1>3, <1>8, <1>c, <2>1 DEF TypeOK
    <3>2. sync'[r]
      BY <1>0, <1>3, <3>1 DEF TypeOK
    <3> QED BY <1>5, <1>c, <2>1, <3>1, <3>2
  <2>2. CASE x # r
    <3>1. \A v \in Callers : waiting'[v] = x => waiting[v] = x
      BY <1>0, <1>3, <1>a, <2>2 DEF TypeOK
    <3>2. sync[x] /\ Phase(x) # "idle" /\ \A v \in Callers : waiting[v] = x => v = u
      BY <1>c, <3>1 DEF OneCallerPerSync
    <3>3. sync'[x] = sync[x] /\ Phase(x)' # "idle"
      BY <3>2, <1>0, <1>3, <1>6, <2>2 DEF TypeOK
    <3> QED BY <3>1, <3>2, <3>3
  <2> QED BY <2>1, <2>2
<1>d. (\A x \in signalled' : sync'[x])
      /\ \A x \in ToSet(finished') \cup ToSet(dispatching') : ~sync'[x]
  <2>1. signalled \subseteq Requests /\ ToSet(finished) \cup ToSet(dispatching) \subseteq Requests
    BY <1>3, EmptyItems DEF TypeOK
  <2>2. \A x \in Requests \ {r} : sync'[x] = sync[x]
    BY <1>0, <1>3 DEF TypeOK
  <2>3. r \notin signalled' /\ r \notin ToSet(finished') \cup ToSet(dispatching')
    BY <1>1, <1>7
  <2> QED BY <2>1, <2>2, <2>3, <1>1 DEF OneCallerPerSync
<1> QED BY <1>b, <1>c, <1>d DEF OneCallerPerSync

\* The object goes back to the pool: nobody waits for it, or he does no more.
LetGo(r) ==
  /\ RequestCancel(r) /\ Advances(r, "answered", "idle")
  /\ \A t \in Callers :
       \/ waiting'[t] = waiting[t] /\ waiting[t] # r
       \/ waiting'[t] = NoReq /\ waiting[t] = r
  /\ signalled' \subseteq signalled /\ r \notin signalled'
  /\ ToSet(finished') \cup ToSet(dispatching')
       \subseteq ToSet(finished) \cup ToSet(dispatching)

LEMMA CancelOneCaller ==
  ASSUME SInv, NEW r \in Requests, LetGo(r)
  PROVE  OneCallerPerSync'
<1> USE DEF SInv, LetGo
<1>1. TypeOK /\ OneCallerPerSync /\ NoReq \notin Requests
  BY BucketAssumption DEF IInv, BucketAssumption
<1>2. sync' = [sync EXCEPT ![r] = FALSE] /\ sync \in [Requests -> BOOLEAN]
  BY <1>1 DEF RequestCancel, TypeOK
<1>3. \A q \in Requests \ {r} : Phase(q)' = Phase(q)
  BY AdvancesPhase DEF Phases
<1>4. \A x \in Requests : sync'[x] => \E u \in Callers : waiting'[u] = x
  BY <1>1, <1>2 DEF OneCallerPerSync
<1>5. ASSUME NEW u \in Callers, NEW x \in Requests, waiting'[u] = x
      PROVE  /\ sync'[x] /\ Phase(x)' # "idle"
             /\ \A v \in Callers : waiting'[v] = x => v = u
  <2>1. x # r /\ \A v \in Callers : waiting'[v] = x => waiting[v] = x
    BY <1>1, <1>5
  <2>2. sync[x] /\ Phase(x) # "idle" /\ \A v \in Callers : waiting[v] = x => v = u
    BY <1>1, <1>5, <2>1 DEF OneCallerPerSync
  <2>3. sync'[x] /\ Phase(x)' # "idle"
    BY <1>2, <1>3, <2>1, <2>2
  <2> QED BY <2>1, <2>2, <2>3
<1>6. (\A x \in signalled' : sync'[x])
      /\ \A x \in ToSet(finished') \cup ToSet(dispatching') : ~sync'[x]
  <2>1. signalled \subseteq Requests /\ ToSet(finished) \cup ToSet(dispatching) \subseteq Requests
    BY <1>1, EmptyItems DEF TypeOK
  <2> QED BY <2>1, <1>1, <1>2 DEF OneCallerPerSync
<1> QED BY <1>4, <1>5, <1>6 DEF OneCallerPerSync

\* The caller that was signalled recycles its own request.
LEMMA SyncReturnOneCaller ==
  ASSUME SInv, NEW t \in Callers, SyncReturn(t)
  PROVE  OneCallerPerSync'
<1> USE DEF SInv
<1>1. TypeOK /\ OneCallerPerSync /\ NoReq \notin Requests
  BY BucketAssumption DEF IInv, BucketAssumption
<1>2. waiting[t] \in Requests /\ Advances(waiting[t], "answered", "idle")
  BY SyncReturnStep
<1>3. \A u \in Callers : u # t => waiting[u] # waiting[t]
  BY <1>1, <1>2 DEF OneCallerPerSync
<1>4. /\ waiting' = [waiting EXCEPT ![t] = NoReq] /\ RequestCancel(waiting[t])
      /\ signalled' = signalled \ {waiting[t]} /\ UNCHANGED <<finished, dispatching>>
  BY DEF SyncReturn
<1>5. waiting[t] \notin signalled' /\ signalled' \subseteq signalled
  BY <1>4
<1>6. \A u \in Callers :
        \/ waiting'[u] = waiting[u] /\ waiting[u] # waiting[t]
        \/ waiting'[u] = NoReq /\ waiting[u] = waiting[t]
  BY <1>1, <1>3, <1>4 DEF TypeOK
<1>7. PICK r \in Requests : r = waiting[t]
  BY <1>2
<1>8. RequestCancel(r) /\ Advances(r, "answered", "idle")
  BY <1>2, <1>4, <1>7
<1>9. LetGo(r)
  BY <1>4, <1>5, <1>6, <1>7, <1>8 DEF LetGo
<1> QED BY <1>9, CancelOneCaller

\* The main thread recycles a request nobody waits for.
LEMMA DispatchResponseOneCaller ==
  ASSUME SInv, DispatchResponse
  PROVE  OneCallerPerSync'
<1> USE DEF SInv
<1>1. TypeOK /\ OneCallerPerSync /\ NoReq \notin Requests
  BY BucketAssumption DEF IInv, BucketAssumption
<1>2. PICK r \in Requests : r = Head(dispatching) /\ Advances(r, "answered", "idle")
  BY DispatchResponseStep
<1>3. /\ RequestCancel(r) /\ dispatching # <<>> /\ dispatching' = Tail(dispatching)
      /\ UNCHANGED <<finished, signalled, waiting>>
  BY <1>2 DEF DispatchResponse, waitVars
<1>4. ToSet(dispatching) = ToSet(dispatching') \cup {r}
  BY <1>1, <1>2, <1>3, TailItems DEF TypeOK
<1>5. ~sync[r]
  BY <1>1, <1>4 DEF OneCallerPerSync
<1>6. r \notin signalled /\ \A t \in Callers : waiting[t] # r
  BY <1>1, <1>5 DEF OneCallerPerSync
<1>7. r \notin signalled' /\ signalled' \subseteq signalled
      /\ ToSet(finished') \cup ToSet(dispatching')
           \subseteq ToSet(finished) \cup ToSet(dispatching)
      /\ \A t \in Callers : waiting'[t] = waiting[t] /\ waiting[t] # r
  BY <1>3, <1>4, <1>6
<1>8. LetGo(r)
  BY <1>2, <1>3, <1>7 DEF LetGo
<1> QED BY <1>8, CancelOneCaller

\* The answer goes to the caller, or to the main thread when there is none.
LEMMA FinishOneCaller ==
  ASSUME SInv, Finish
  PROVE  OneCallerPerSync'
<1> USE DEF SInv
<1>1. TypeOK /\ OneCallerPerSync
  BY DEF IInv
<1>2. PICK r \in Requests : r = cur /\ Advances(r, "sent", "answered")
  BY FinishStep
<1>3. \A q \in Requests : Phase(q)' = "idle" => Phase(q) = "idle"
  BY <1>2, AdvancesPhase DEF Phases
<1>4. UNCHANGED <<sync, waiting, dispatching>> /\ HandOver(r)
  BY <1>2 DEF Finish, Build
<1>5. \A t \in Callers : waiting[t] # NoReq => waiting[t] \in Requests
  BY <1>1 DEF TypeOK
<1>6. CASE sync[r] /\ signalled' = signalled \cup {r} /\ UNCHANGED finished
  BY <1>1, <1>3, <1>4, <1>5, <1>6 DEF OneCallerPerSync
<1>7. CASE ~sync[r] /\ finished' = Append(finished, r) /\ UNCHANGED signalled
  <2>1. ToSet(finished') = ToSet(finished) \cup {r}
    BY <1>1, <1>7, AppendItems DEF TypeOK
  <2> QED BY <1>1, <1>3, <1>4, <1>5, <1>7, <2>1 DEF OneCallerPerSync
<1> QED BY <1>4, <1>6, <1>7 DEF HandOver

\* Every step leaves callers and requests matched.
LEMMA NextOneCaller == SInv /\ [Next]_vars => OneCallerPerSync'
<1> SUFFICES ASSUME SInv, [Next]_vars PROVE OneCallerPerSync'
  OBVIOUS
<1> USE DEF attrVars, waitVars, queueVars
<1>0. IInv /\ TypeOK /\ OneCallerPerSync
  BY DEF SInv, IInv
<1>1. ASSUME AllStay, UNCHANGED <<sync, waiting, signalled, finished, dispatching>>
      PROVE  OneCallerPerSync'
  BY <1>0, <1>1, StaysPhase, NobodyGoes DEF AllStay
<1>2. ASSUME NEW r \in Requests, NEW p \in Phases, Advances(r, "sent", p), p # "idle",
             UNCHANGED <<sync, waiting, signalled, finished, dispatching>>
      PROVE  OneCallerPerSync'
  <2>1. \A q \in Requests : Phase(q)' = "idle" => Phase(q) = "idle"
    BY <1>2, AdvancesPhase DEF Phases
  <2> QED BY <1>0, <1>2, <2>1, NobodyGoes
<1>3. CASE UNCHANGED vars
  <2>1. \A q \in Requests : Phase(q)' = Phase(q)
    BY <1>3 DEF vars, Phase, Queued, Answered, bucketVars, readVars
  <2>2. UNCHANGED <<sync, waiting, signalled, finished, dispatching>>
    BY <1>3 DEF vars
  <2> QED BY <1>0, <2>1, <2>2, NobodyGoes
<1>4. CASE Next
  <2>1. CASE \E t \in Callers : RequestBegin(t) \/ SyncReturn(t)
    BY <2>1, BeginOneCaller, SyncReturnOneCaller
  <2>2. CASE DispatchResponse \/ Finish
    BY <2>2, DispatchResponseOneCaller, FinishOneCaller
  <2>3. CASE DispatchResponses
    <3>1. AllStay
      BY <1>0, <2>3, DispatchResponsesStep
    <3>2. \A q \in Requests : Phase(q)' = Phase(q)
      BY <3>1, StaysPhase DEF AllStay
    <3>3. UNCHANGED <<sync, waiting, signalled>>
          /\ ToSet(finished') \cup ToSet(dispatching')
               \subseteq ToSet(finished) \cup ToSet(dispatching)
      BY <2>3, EmptyItems DEF DispatchResponses
    <3> QED BY <1>0, <3>2, <3>3, NobodyGoes
  <2>4. CASE Retry
    <3>1. PICK r \in Requests : Advances(r, "sent", "queued")
      BY <1>0, <2>4, RetryStep
    <3>2. UNCHANGED <<sync, waiting, signalled, finished, dispatching>>
      BY <2>4 DEF Retry, Build
    <3> QED BY <3>1, <3>2, <1>2 DEF Phases
  <2>5. CASE SelectAndSend
    <3>1. \A q \in Requests : Phase(q)' = "idle" => Phase(q) = "idle"
      BY <1>0, <2>5, SelectAndSendStep, MovesPhase, StaysPhase DEF Phases
    <3>2. UNCHANGED <<sync, waiting, signalled, finished, dispatching>>
      BY <2>5 DEF SelectAndSend
    <3> QED BY <1>0, <3>1, <3>2, NobodyGoes
  <2>6. CASE \E r \in Requests : TransferEnds(r) \/ InfoRead(r)
    <3>1. UNCHANGED <<sync, waiting, signalled, finished, dispatching>>
      BY <2>6 DEF TransferEnds, InfoRead
    <3> QED BY <1>0, <1>1, <2>6, <3>1, TransferEndsStep, InfoReadStep
  <2>7. CASE Tick \/ TimersRun \/ RestPerform \/ StartPending \/ RoutePending
             \/ NullFilter \/ Abort
    <3>1. AllStay
      BY <1>0, <2>7, TickStep, TimersRunStep, RestPerformStep, StartPendingStep,
         RoutePendingStep, NullFilterStep, AbortStep
    <3>2. UNCHANGED <<sync, waiting, signalled, finished, dispatching>>
      BY <2>7 DEF Tick, TimersRun, RestPerform, StartPending, RoutePending, NullFilter,
                  Abort, Build
    <3> QED BY <1>1, <3>1, <3>2
  <2> QED
    BY <1>4, <2>1, <2>2, <2>3, <2>4, <2>5, <2>6, <2>7 DEF Next, RestThread
<1> QED BY <1>3, <1>4

(* Who waits is alone with what he waits for until he has recycled it, for *)
(* any number of callers and requests, retries and recycled objects.       *)
THEOREM WaitersAreAlone == Spec => []OneCallerPerSync
<1>1. Init => SInv
  <2> SUFFICES ASSUME Init PROVE OneCallerPerSync
    BY InitIInv DEF SInv
  <2>1. NoReq \notin Requests
    BY BucketAssumption DEF BucketAssumption
  <2> QED BY <2>1, EmptyItems DEF Init, OneCallerPerSync
<1>2. SInv /\ [Next]_vars => SInv'
  BY NextIInv, NextOneCaller DEF SInv
<1>3. SInv => OneCallerPerSync
  BY DEF SInv
<1> QED BY <1>1, <1>2, <1>3, PTL DEF Spec
=============================================================================
