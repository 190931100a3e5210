--------------------------- MODULE GatewayProofs ---------------------------
(***************************************************************************)
(* Theorems about Gateway, for every retry limit and every bound: its      *)
(* variables keep their types, no event of a session is skipped or handled *)
(* twice across reconnections, and a ready session has a heartbeat timer.  *)
(***************************************************************************)
EXTENDS Gateway, TLAPS

\* The number the code keeps is that of the last event it handled, and the
\* server goes on with the one after it.
Sequenced == seq = got /\ NoEventSkipped

\* A session stops being ready before its next connection is opened.
NotReadyYet ==
  pc \in {"start", "down", "failed"} \/ ws \in {"off", "connecting"}
    => ready = FALSE

\* The inductive invariant: a ready session can only be found on a connection
\* whose heartbeat was sent, which is what makes ReadyIsBeating inductive.
IInv == TypeOK /\ Sequenced /\ NotReadyYet /\ ReadyIsBeating

\* The loop starts in a state of the invariant.
LEMMA InitIInv == Init => IInv
<1> SUFFICES ASSUME Init PROVE IInv
  OBVIOUS
<1>1. TypeControl
  BY DEF Init, TypeControl, Flags
<1>2. TypeFlags
  BY Zenon DEF Init, TypeFlags
<1>3. TypeCounts
  BY DEF Init, TypeCounts
<1>4. Sequenced /\ NotReadyYet /\ ReadyIsBeating
  BY DEF Init, Sequenced, NoEventSkipped, NotReadyYet, ReadyIsBeating
<1> QED
  BY <1>1, <1>2, <1>3, <1>4 DEF IInv, TypeOK

\* Using up a bound counts in natural numbers.
LEMMA SpendKeeps ==
  ASSUME used \in [DOMAIN Bounds -> Nat], NEW what \in {"runs", "drops", "calls"},
         Spend(what)
  PROVE  used' \in [DOMAIN Bounds -> Nat]
<1> DEFINE D == DOMAIN Bounds
<1>1. used \in [D -> Nat] /\ used' = [used EXCEPT ![what] = used[what] + 1]
  BY DEF Spend
<1>2. what \in D
  BY DEF Bounds
<1> HIDE DEF D
<1>3. used' \in [D -> Nat]
  BY <1>1, <1>2
<1> QED
  BY <1>3 DEF D

\* Every step keeps the control state within its type.
LEMMA TypeControlKept ==
  ASSUME IInv, [Next]_vars
  PROVE  TypeControl'
<1> USE DEF IInv
<1>1. CASE GatewayStart
  BY <1>1 DEF GatewayStart, TypeOK, TypeControl, Flags, session, server,
     user
<1>2. CASE GatewayStartFails
  BY <1>2 DEF GatewayStartFails, TypeOK, TypeControl, Flags, session,
     server, user
<1>3. CASE NoBeat
  BY <1>3 DEF NoBeat, TypeOK, TypeControl, Flags, session, server, user
<1>4. CASE BeatBegin
  BY <1>4 DEF BeatBegin, TypeOK, TypeControl, Flags, session, server, user
<1>5. CASE BeatEnd
  BY <1>5 DEF BeatEnd, SendHeartbeat, Reconnect, Closed, Alive, TypeOK,
     TypeControl, Flags, session, server, user
<1>6. CASE Check
  BY <1>6 DEF Check, TypeOK, TypeControl, Flags, session, server, user
<1>7. CASE Performed
  BY <1>7 DEF Performed, TypeOK, TypeControl, Flags, session, server, user
<1>8. CASE GatewayEnd
  BY <1>8 DEF GatewayEnd, TypeOK, TypeControl, Flags, session, server, user
<1>9. CASE RunAgain
  BY <1>9 DEF RunAgain, TypeOK, TypeControl, Flags, session, server, user
<1>10. CASE OnConnect
  BY <1>10 DEF OnConnect, Handling, TypeOK, TypeControl, Flags, session,
     server, user
<1>11. CASE OnHello
  BY <1>11 DEF OnHello, SendResume, SendIdentify, Open, Handling, TypeOK,
     TypeControl, Flags, session, server, user
<1>12. CASE OnReady
  BY <1>12 DEF OnReady, SendHeartbeat, Reconnect, Closed, Open, Handling,
     TypeOK, TypeControl, Flags, session, server, user
<1>13. CASE OnResumed
  BY <1>13 DEF OnResumed, SendHeartbeat, Reconnect, Closed, Open, Handling,
     TypeOK, TypeControl, Flags, session, server, user
<1>14. CASE OnEvent
  BY <1>14 DEF OnEvent, Open, Handling, TypeOK, TypeControl, Flags, session,
     server, user
<1>15. ASSUME NEW b \in BOOLEAN, OnInvalidSession(b) PROVE TypeControl'
  BY <1>15 DEF OnInvalidSession, Reconnect, Closed, Open, Handling, TypeOK,
     TypeControl, Flags, session, server, user
<1>16. CASE OnReconnect
  BY <1>16 DEF OnReconnect, Reconnect, Closed, Open, Handling, TypeOK,
     TypeControl, Flags, session, server, user
<1>17. CASE OnHeartbeatAck
  BY <1>17 DEF OnHeartbeatAck, Open, Handling, TypeOK, TypeControl, Flags,
     session, server, user
<1>18. ASSUME NEW class \in Classes, OnClose(class) PROVE TypeControl'
  BY <1>18 DEF OnClose, Open, Handling, TypeOK, TypeControl, Flags, session,
     server, user
<1>19. CASE Lose
  BY <1>19 DEF Lose, TypeOK, TypeControl, Flags, session, server, user
<1>20. CASE FallSilent
  BY <1>20 DEF FallSilent, TypeOK, TypeControl, Flags, session, server, user
<1>21. CASE Forget
  BY <1>21 DEF Forget, TypeOK, TypeControl, Flags, session, server, user
<1>22. CASE UserShutdown
  BY <1>22 DEF UserShutdown, Shutdown, Closed, TypeOK, TypeControl, Flags,
     session, server, user
<1>23. ASSUME NEW b \in BOOLEAN, UserReconnect(b) PROVE TypeControl'
  BY <1>23 DEF UserReconnect, Reconnect, Closed, TypeOK, TypeControl, Flags,
     session, server, user
<1>24. CASE ForeignShutdown
  BY <1>24 DEF ForeignShutdown, Over, TypeOK, TypeControl, Flags, session,
     server, user
<1>25. CASE ForeignStatus
  BY <1>25 DEF ForeignStatus, Closed, TypeOK, TypeControl, Flags, session,
     server, user
<1>26. CASE UNCHANGED vars
  BY <1>26 DEF TypeOK, TypeControl, Flags, vars, session, beat, server, user
<1> QED
  BY <1>1, <1>2, <1>3, <1>4, <1>5, <1>6, <1>7, <1>8, <1>9, <1>10, <1>11,
     <1>12, <1>13, <1>14, <1>15, <1>16, <1>17, <1>18, <1>19, <1>20, <1>21,
     <1>22, <1>23, <1>24, <1>25, <1>26, Zenon DEF Next, Loop, OnText

\* Every step keeps the flags Boolean.
LEMMA TypeFlagsKept ==
  ASSUME IInv, [Next]_vars
  PROVE  TypeFlags'
<1> USE DEF IInv
<1>1. CASE GatewayStart
  BY <1>1, Zenon DEF GatewayStart, TypeOK, TypeFlags, session, beat, server,
     user
<1>2. CASE GatewayStartFails
  BY <1>2, Zenon DEF GatewayStartFails, TypeOK, TypeFlags, session, beat,
     server, user
<1>3. CASE NoBeat
  BY <1>3, Zenon DEF NoBeat, TypeOK, TypeFlags, session, beat, server, user
<1>4. CASE BeatBegin
  BY <1>4, Zenon DEF BeatBegin, TypeOK, TypeFlags, session, beat, server,
     user
<1>5. CASE BeatEnd
  BY <1>5, Zenon DEF BeatEnd, SendHeartbeat, Reconnect, TypeOK, TypeFlags,
     session, beat, server, user
<1>6. CASE Check
  BY <1>6, Zenon DEF Check, TypeOK, TypeFlags, session, beat, server, user
<1>7. CASE Performed
  BY <1>7, Zenon DEF Performed, TypeOK, TypeFlags, session, beat, server,
     user
<1>8. CASE GatewayEnd
  BY <1>8, Zenon DEF GatewayEnd, TypeOK, TypeFlags, session, beat, server,
     user
<1>9. CASE RunAgain
  BY <1>9, Zenon DEF RunAgain, TypeOK, TypeFlags, session, beat, server,
     user
<1>10. CASE OnConnect
  BY <1>10, Zenon DEF OnConnect, TypeOK, TypeFlags, session, beat, server,
     user
<1>11. CASE OnHello
  BY <1>11, Zenon DEF OnHello, SendResume, SendIdentify, TypeOK, TypeFlags,
     session, beat, server, user
<1>12. CASE OnReady
  BY <1>12, Zenon DEF OnReady, SendHeartbeat, Reconnect, TypeOK, TypeFlags,
     session, beat, server, user
<1>13. CASE OnResumed
  BY <1>13, Zenon DEF OnResumed, SendHeartbeat, Reconnect, TypeOK,
     TypeFlags, session, beat, server, user
<1>14. CASE OnEvent
  BY <1>14, Zenon DEF OnEvent, TypeOK, TypeFlags, session, beat, server,
     user
<1>15. ASSUME NEW b \in BOOLEAN, OnInvalidSession(b) PROVE TypeFlags'
  BY <1>15, Zenon DEF OnInvalidSession, Reconnect, TypeOK, TypeFlags,
     session, beat, server, user
<1>16. CASE OnReconnect
  BY <1>16, Zenon DEF OnReconnect, Reconnect, TypeOK, TypeFlags, session,
     beat, server, user
<1>17. CASE OnHeartbeatAck
  BY <1>17, Zenon DEF OnHeartbeatAck, TypeOK, TypeFlags, session, beat,
     server, user
<1>18. ASSUME NEW class \in Classes, OnClose(class) PROVE TypeFlags'
  BY <1>18, Zenon DEF OnClose, TypeOK, TypeFlags, session, beat, server,
     user
<1>19. CASE Lose
  BY <1>19, Zenon DEF Lose, TypeOK, TypeFlags, session, beat, server, user
<1>20. CASE FallSilent
  BY <1>20, Zenon DEF FallSilent, TypeOK, TypeFlags, session, beat, server,
     user
<1>21. CASE Forget
  BY <1>21, Zenon DEF Forget, TypeOK, TypeFlags, session, beat, server, user
<1>22. CASE UserShutdown
  BY <1>22, Zenon DEF UserShutdown, Shutdown, TypeOK, TypeFlags, session,
     beat, server, user
<1>23. ASSUME NEW b \in BOOLEAN, UserReconnect(b) PROVE TypeFlags'
  BY <1>23, Zenon DEF UserReconnect, Reconnect, TypeOK, TypeFlags, session,
     beat, server, user
<1>24. CASE ForeignShutdown
  BY <1>24, Zenon DEF ForeignShutdown, TypeOK, TypeFlags, session, beat,
     server, user
<1>25. CASE ForeignStatus
  BY <1>25, Zenon DEF ForeignStatus, TypeOK, TypeFlags, session, beat,
     server, user
<1>26. CASE UNCHANGED vars
  BY <1>26, Zenon DEF TypeOK, TypeFlags, vars, session, beat, server, user
<1> QED
  BY <1>1, <1>2, <1>3, <1>4, <1>5, <1>6, <1>7, <1>8, <1>9, <1>10, <1>11,
     <1>12, <1>13, <1>14, <1>15, <1>16, <1>17, <1>18, <1>19, <1>20, <1>21,
     <1>22, <1>23, <1>24, <1>25, <1>26, Zenon DEF Next, Loop, OnText

\* Every step keeps the counters natural numbers.
LEMMA TypeCountsKept ==
  ASSUME IInv, [Next]_vars
  PROVE  TypeCounts'
<1> USE DEF IInv
<1>1. CASE GatewayStart
  BY <1>1 DEF GatewayStart, TypeOK, TypeCounts, session, server
<1>2. CASE GatewayStartFails
  BY <1>2, SpendKeeps DEF GatewayStartFails, TypeOK, TypeCounts, session,
     server
<1>3. CASE NoBeat
  BY <1>3 DEF NoBeat, TypeOK, TypeCounts, session, server
<1>4. CASE BeatBegin
  BY <1>4 DEF BeatBegin, TypeOK, TypeCounts, session, server
<1>5. CASE BeatEnd
  BY <1>5, SpendKeeps DEF BeatEnd, TypeOK, TypeCounts, session, server
<1>6. CASE Check
  BY <1>6 DEF Check, TypeOK, TypeCounts, session, server
<1>7. CASE Performed
  BY <1>7 DEF Performed, TypeOK, TypeCounts, session, server
<1>8. CASE GatewayEnd
  BY <1>8 DEF GatewayEnd, TypeOK, TypeCounts, session, server
<1>9. CASE RunAgain
  BY <1>9, SpendKeeps DEF RunAgain, TypeOK, TypeCounts, session, server
<1>10. CASE OnConnect
  BY <1>10 DEF OnConnect, TypeOK, TypeCounts, session, server
<1>11. CASE OnHello
  BY <1>11 DEF OnHello, SendResume, SendIdentify, SeqOf, TypeOK, TypeCounts,
     session, server
<1>12. CASE OnReady
  BY <1>12 DEF OnReady, SeqOf, TypeOK, TypeCounts, session, server
<1>13. CASE OnResumed
  BY <1>13 DEF OnResumed, SeqOf, TypeOK, TypeCounts, session, server
<1>14. CASE OnEvent
  BY <1>14 DEF OnEvent, SeqOf, TypeOK, TypeCounts, session, server
<1>15. ASSUME NEW b \in BOOLEAN, OnInvalidSession(b) PROVE TypeCounts'
  BY <1>15, SpendKeeps DEF OnInvalidSession, SeqOf, TypeOK, TypeCounts,
     session, server
<1>16. CASE OnReconnect
  BY <1>16, SpendKeeps DEF OnReconnect, SeqOf, TypeOK, TypeCounts, session,
     server
<1>17. CASE OnHeartbeatAck
  BY <1>17 DEF OnHeartbeatAck, SeqOf, TypeOK, TypeCounts, session, server
<1>18. ASSUME NEW class \in Classes, OnClose(class) PROVE TypeCounts'
  BY <1>18, SpendKeeps DEF OnClose, TypeOK, TypeCounts, session, server
<1>19. CASE Lose
  BY <1>19, SpendKeeps DEF Lose, TypeOK, TypeCounts, session, server
<1>20. CASE FallSilent
  BY <1>20, SpendKeeps DEF FallSilent, TypeOK, TypeCounts, session, server
<1>21. CASE Forget
  BY <1>21 DEF Forget, TypeOK, TypeCounts, session, server
<1>22. CASE UserShutdown
  BY <1>22, SpendKeeps DEF UserShutdown, TypeOK, TypeCounts, session, server
<1>23. ASSUME NEW b \in BOOLEAN, UserReconnect(b) PROVE TypeCounts'
  BY <1>23, SpendKeeps DEF UserReconnect, TypeOK, TypeCounts, session,
     server
<1>24. CASE ForeignShutdown
  BY <1>24, SpendKeeps DEF ForeignShutdown, TypeOK, TypeCounts, session,
     server
<1>25. CASE ForeignStatus
  BY <1>25 DEF ForeignStatus, TypeOK, TypeCounts, session, server
<1>26. CASE UNCHANGED vars
  BY <1>26 DEF TypeOK, TypeCounts, vars, session, beat, server, user
<1> QED
  BY <1>1, <1>2, <1>3, <1>4, <1>5, <1>6, <1>7, <1>8, <1>9, <1>10, <1>11,
     <1>12, <1>13, <1>14, <1>15, <1>16, <1>17, <1>18, <1>19, <1>20, <1>21,
     <1>22, <1>23, <1>24, <1>25, <1>26, Zenon DEF Next, Loop, OnText

\* Every step keeps the sequence number that of the last event handled.
LEMMA SequencedKept ==
  ASSUME IInv, [Next]_vars
  PROVE  Sequenced'
<1> USE DEF IInv
<1>1. CASE GatewayStart
  BY <1>1 DEF GatewayStart, TypeOK, TypeCounts, Sequenced, NoEventSkipped,
     server
<1>2. CASE GatewayStartFails
  BY <1>2 DEF GatewayStartFails, TypeOK, TypeCounts, Sequenced,
     NoEventSkipped, server
<1>3. CASE NoBeat
  BY <1>3 DEF NoBeat, TypeOK, TypeCounts, Sequenced, NoEventSkipped, server
<1>4. CASE BeatBegin
  BY <1>4 DEF BeatBegin, TypeOK, TypeCounts, Sequenced, NoEventSkipped,
     server
<1>5. CASE BeatEnd
  BY <1>5 DEF BeatEnd, TypeOK, TypeCounts, Sequenced, NoEventSkipped, server
<1>6. CASE Check
  BY <1>6 DEF Check, TypeOK, TypeCounts, Sequenced, NoEventSkipped, server
<1>7. CASE Performed
  BY <1>7 DEF Performed, TypeOK, TypeCounts, Sequenced, NoEventSkipped,
     server
<1>8. CASE GatewayEnd
  BY <1>8 DEF GatewayEnd, TypeOK, TypeCounts, Sequenced, NoEventSkipped,
     server
<1>9. CASE RunAgain
  BY <1>9 DEF RunAgain, TypeOK, TypeCounts, Sequenced, NoEventSkipped,
     server
<1>10. CASE OnConnect
  BY <1>10 DEF OnConnect, TypeOK, TypeCounts, Sequenced, NoEventSkipped,
     server
<1>11. CASE OnHello
  BY <1>11 DEF OnHello, SendResume, SendIdentify, SeqOf, TypeOK, TypeCounts,
     Sequenced, NoEventSkipped, server
<1>12. CASE OnReady
  BY <1>12 DEF OnReady, SeqOf, TypeOK, TypeCounts, Sequenced,
     NoEventSkipped, server
<1>13. CASE OnResumed
  BY <1>13 DEF OnResumed, SeqOf, TypeOK, TypeCounts, Sequenced,
     NoEventSkipped, server
<1>14. CASE OnEvent
  BY <1>14 DEF OnEvent, SeqOf, TypeOK, TypeCounts, Sequenced,
     NoEventSkipped, server
<1>15. ASSUME NEW b \in BOOLEAN, OnInvalidSession(b) PROVE Sequenced'
  BY <1>15 DEF OnInvalidSession, SeqOf, TypeOK, TypeCounts, Sequenced,
     NoEventSkipped, server
<1>16. CASE OnReconnect
  BY <1>16 DEF OnReconnect, SeqOf, TypeOK, TypeCounts, Sequenced,
     NoEventSkipped, server
<1>17. CASE OnHeartbeatAck
  BY <1>17 DEF OnHeartbeatAck, SeqOf, TypeOK, TypeCounts, Sequenced,
     NoEventSkipped, server
<1>18. ASSUME NEW class \in Classes, OnClose(class) PROVE Sequenced'
  BY <1>18 DEF OnClose, TypeOK, TypeCounts, Sequenced, NoEventSkipped,
     server
<1>19. CASE Lose
  BY <1>19 DEF Lose, TypeOK, TypeCounts, Sequenced, NoEventSkipped, server
<1>20. CASE FallSilent
  BY <1>20 DEF FallSilent, TypeOK, TypeCounts, Sequenced, NoEventSkipped,
     server
<1>21. CASE Forget
  BY <1>21 DEF Forget, TypeOK, TypeCounts, Sequenced, NoEventSkipped, server
<1>22. CASE UserShutdown
  BY <1>22 DEF UserShutdown, TypeOK, TypeCounts, Sequenced, NoEventSkipped,
     server
<1>23. ASSUME NEW b \in BOOLEAN, UserReconnect(b) PROVE Sequenced'
  BY <1>23 DEF UserReconnect, TypeOK, TypeCounts, Sequenced, NoEventSkipped,
     server
<1>24. CASE ForeignShutdown
  BY <1>24 DEF ForeignShutdown, TypeOK, TypeCounts, Sequenced,
     NoEventSkipped, server
<1>25. CASE ForeignStatus
  BY <1>25 DEF ForeignStatus, TypeOK, TypeCounts, Sequenced, NoEventSkipped,
     server
<1>26. CASE UNCHANGED vars
  BY <1>26 DEF TypeOK, TypeCounts, Sequenced, NoEventSkipped, vars, session,
     beat, server, user
<1> QED
  BY <1>1, <1>2, <1>3, <1>4, <1>5, <1>6, <1>7, <1>8, <1>9, <1>10, <1>11,
     <1>12, <1>13, <1>14, <1>15, <1>16, <1>17, <1>18, <1>19, <1>20, <1>21,
     <1>22, <1>23, <1>24, <1>25, <1>26, Zenon DEF Next, Loop, OnText

\* No step makes a session ready outside an open connection.
LEMMA NotReadyYetKept ==
  ASSUME IInv, [Next]_vars
  PROVE  NotReadyYet'
<1> USE DEF IInv
<1>1. CASE GatewayStart
  BY <1>1 DEF GatewayStart, TypeOK, TypeControl, NotReadyYet, session
<1>2. CASE GatewayStartFails
  BY <1>2 DEF GatewayStartFails, TypeOK, TypeControl, NotReadyYet, session
<1>3. CASE NoBeat
  BY <1>3 DEF NoBeat, TypeOK, TypeControl, NotReadyYet, session
<1>4. CASE BeatBegin
  BY <1>4 DEF BeatBegin, TypeOK, TypeControl, NotReadyYet, session
<1>5. CASE BeatEnd
  BY <1>5 DEF BeatEnd, SendHeartbeat, Reconnect, Closed, Alive, TypeOK,
     TypeControl, NotReadyYet, session
<1>6. CASE Check
  BY <1>6 DEF Check, TypeOK, TypeControl, NotReadyYet, session
<1>7. CASE Performed
  BY <1>7 DEF Performed, TypeOK, TypeControl, NotReadyYet, session
<1>8. CASE GatewayEnd
  BY <1>8 DEF GatewayEnd, TypeOK, TypeControl, NotReadyYet, session
<1>9. CASE RunAgain
  BY <1>9 DEF RunAgain, TypeOK, TypeControl, NotReadyYet, session
<1>10. CASE OnConnect
  BY <1>10 DEF OnConnect, Handling, TypeOK, TypeControl, NotReadyYet,
     session
<1>11. CASE OnHello
  BY <1>11 DEF OnHello, SendResume, SendIdentify, Open, Handling, TypeOK,
     TypeControl, NotReadyYet, session
<1>12. CASE OnReady
  BY <1>12 DEF OnReady, SendHeartbeat, Reconnect, Closed, Open, Handling,
     TypeOK, TypeControl, NotReadyYet, session
<1>13. CASE OnResumed
  BY <1>13 DEF OnResumed, SendHeartbeat, Reconnect, Closed, Open, Handling,
     TypeOK, TypeControl, NotReadyYet, session
<1>14. CASE OnEvent
  BY <1>14 DEF OnEvent, Open, Handling, TypeOK, TypeControl, NotReadyYet,
     session
<1>15. ASSUME NEW b \in BOOLEAN, OnInvalidSession(b) PROVE NotReadyYet'
  BY <1>15 DEF OnInvalidSession, Reconnect, Closed, Open, Handling, TypeOK,
     TypeControl, NotReadyYet, session
<1>16. CASE OnReconnect
  BY <1>16 DEF OnReconnect, Reconnect, Closed, Open, Handling, TypeOK,
     TypeControl, NotReadyYet, session
<1>17. CASE OnHeartbeatAck
  BY <1>17 DEF OnHeartbeatAck, Open, Handling, TypeOK, TypeControl,
     NotReadyYet, session
<1>18. ASSUME NEW class \in Classes, OnClose(class) PROVE NotReadyYet'
  BY <1>18 DEF OnClose, Open, Handling, TypeOK, TypeControl, NotReadyYet,
     session
<1>19. CASE Lose
  BY <1>19 DEF Lose, TypeOK, TypeControl, NotReadyYet, session
<1>20. CASE FallSilent
  BY <1>20 DEF FallSilent, TypeOK, TypeControl, NotReadyYet, session
<1>21. CASE Forget
  BY <1>21 DEF Forget, TypeOK, TypeControl, NotReadyYet, session
<1>22. CASE UserShutdown
  BY <1>22 DEF UserShutdown, Shutdown, Closed, TypeOK, TypeControl,
     NotReadyYet, session
<1>23. ASSUME NEW b \in BOOLEAN, UserReconnect(b) PROVE NotReadyYet'
  BY <1>23 DEF UserReconnect, Reconnect, Closed, TypeOK, TypeControl,
     NotReadyYet, session
<1>24. CASE ForeignShutdown
  BY <1>24 DEF ForeignShutdown, Over, TypeOK, TypeControl, NotReadyYet,
     session
<1>25. CASE ForeignStatus
  BY <1>25 DEF ForeignStatus, Closed, TypeOK, TypeControl, NotReadyYet,
     session
<1>26. CASE UNCHANGED vars
  BY <1>26 DEF TypeOK, TypeControl, NotReadyYet, vars, session, beat,
     server, user
<1> QED
  BY <1>1, <1>2, <1>3, <1>4, <1>5, <1>6, <1>7, <1>8, <1>9, <1>10, <1>11,
     <1>12, <1>13, <1>14, <1>15, <1>16, <1>17, <1>18, <1>19, <1>20, <1>21,
     <1>22, <1>23, <1>24, <1>25, <1>26, Zenon DEF Next, Loop, OnText

\* No step leaves a ready session on a live connection without a heartbeat.
LEMMA ReadyIsBeatingKept ==
  ASSUME IInv, [Next]_vars
  PROVE  ReadyIsBeating'
<1> USE DEF IInv
<1>1. CASE GatewayStart
  BY <1>1 DEF GatewayStart, TypeOK, TypeControl, NotReadyYet,
     ReadyIsBeating, session, beat
<1>2. CASE GatewayStartFails
  BY <1>2 DEF GatewayStartFails, TypeOK, TypeControl, NotReadyYet,
     ReadyIsBeating, session, beat
<1>3. CASE NoBeat
  BY <1>3 DEF NoBeat, TypeOK, TypeControl, NotReadyYet, ReadyIsBeating,
     session, beat
<1>4. CASE BeatBegin
  BY <1>4 DEF BeatBegin, TypeOK, TypeControl, NotReadyYet, ReadyIsBeating,
     session, beat
<1>5. CASE BeatEnd
  BY <1>5 DEF BeatEnd, SendHeartbeat, Reconnect, Closed, Alive, TypeOK,
     TypeControl, NotReadyYet, ReadyIsBeating, session, beat
<1>6. CASE Check
  BY <1>6 DEF Check, TypeOK, TypeControl, NotReadyYet, ReadyIsBeating,
     session, beat
<1>7. CASE Performed
  BY <1>7 DEF Performed, TypeOK, TypeControl, NotReadyYet, ReadyIsBeating,
     session, beat
<1>8. CASE GatewayEnd
  BY <1>8 DEF GatewayEnd, TypeOK, TypeControl, NotReadyYet, ReadyIsBeating,
     session, beat
<1>9. CASE RunAgain
  BY <1>9 DEF RunAgain, TypeOK, TypeControl, NotReadyYet, ReadyIsBeating,
     session, beat
<1>10. CASE OnConnect
  BY <1>10 DEF OnConnect, Handling, TypeOK, TypeControl, NotReadyYet,
     ReadyIsBeating, session, beat
<1>11. CASE OnHello
  BY <1>11 DEF OnHello, SendResume, SendIdentify, Open, Handling, TypeOK,
     TypeControl, NotReadyYet, ReadyIsBeating, session, beat
<1>12. CASE OnReady
  BY <1>12 DEF OnReady, SendHeartbeat, Reconnect, Closed, Open, Handling,
     TypeOK, TypeControl, NotReadyYet, ReadyIsBeating, session, beat
<1>13. CASE OnResumed
  BY <1>13 DEF OnResumed, SendHeartbeat, Reconnect, Closed, Open, Handling,
     TypeOK, TypeControl, NotReadyYet, ReadyIsBeating, session, beat
<1>14. CASE OnEvent
  BY <1>14 DEF OnEvent, Open, Handling, TypeOK, TypeControl, NotReadyYet,
     ReadyIsBeating, session, beat
<1>15. ASSUME NEW b \in BOOLEAN, OnInvalidSession(b) PROVE ReadyIsBeating'
  BY <1>15 DEF OnInvalidSession, Reconnect, Closed, Open, Handling, TypeOK,
     TypeControl, NotReadyYet, ReadyIsBeating, session, beat
<1>16. CASE OnReconnect
  BY <1>16 DEF OnReconnect, Reconnect, Closed, Open, Handling, TypeOK,
     TypeControl, NotReadyYet, ReadyIsBeating, session, beat
<1>17. CASE OnHeartbeatAck
  BY <1>17 DEF OnHeartbeatAck, Open, Handling, TypeOK, TypeControl,
     NotReadyYet, ReadyIsBeating, session, beat
<1>18. ASSUME NEW class \in Classes, OnClose(class) PROVE ReadyIsBeating'
  BY <1>18 DEF OnClose, Open, Handling, TypeOK, TypeControl, NotReadyYet,
     ReadyIsBeating, session, beat
<1>19. CASE Lose
  BY <1>19 DEF Lose, TypeOK, TypeControl, NotReadyYet, ReadyIsBeating,
     session, beat
<1>20. CASE FallSilent
  BY <1>20 DEF FallSilent, TypeOK, TypeControl, NotReadyYet, ReadyIsBeating,
     session, beat
<1>21. CASE Forget
  BY <1>21 DEF Forget, TypeOK, TypeControl, NotReadyYet, ReadyIsBeating,
     session, beat
<1>22. CASE UserShutdown
  BY <1>22 DEF UserShutdown, Shutdown, Closed, TypeOK, TypeControl,
     NotReadyYet, ReadyIsBeating, session, beat
<1>23. ASSUME NEW b \in BOOLEAN, UserReconnect(b) PROVE ReadyIsBeating'
  BY <1>23 DEF UserReconnect, Reconnect, Closed, TypeOK, TypeControl,
     NotReadyYet, ReadyIsBeating, session, beat
<1>24. CASE ForeignShutdown
  BY <1>24 DEF ForeignShutdown, Over, TypeOK, TypeControl, NotReadyYet,
     ReadyIsBeating, session, beat
<1>25. CASE ForeignStatus
  BY <1>25 DEF ForeignStatus, Closed, TypeOK, TypeControl, NotReadyYet,
     ReadyIsBeating, session, beat
<1>26. CASE UNCHANGED vars
  BY <1>26 DEF TypeOK, TypeControl, NotReadyYet, ReadyIsBeating, vars,
     session, beat, server, user
<1> QED
  BY <1>1, <1>2, <1>3, <1>4, <1>5, <1>6, <1>7, <1>8, <1>9, <1>10, <1>11,
     <1>12, <1>13, <1>14, <1>15, <1>16, <1>17, <1>18, <1>19, <1>20, <1>21,
     <1>22, <1>23, <1>24, <1>25, <1>26, Zenon DEF Next, Loop, OnText

\* Every reachable state satisfies the inductive invariant.
THEOREM Inductive == Spec => []IInv
<1>1. IInv /\ [Next]_vars => IInv'
  BY TypeControlKept, TypeFlagsKept, TypeCountsKept, SequencedKept,
     NotReadyYetKept, ReadyIsBeatingKept DEF IInv, TypeOK
<1> QED
  BY InitIInv, <1>1, PTL DEF Spec

\* The variables of the gateway and its main loop have their types.
THEOREM TypeCorrect == Spec => []TypeOK
<1>1. IInv => TypeOK
  BY DEF IInv
<1> QED
  BY Inductive, <1>1, PTL

\* The sequence number that a resume sends, and every heartbeat, is that of the
\* last event handled: no fault makes the session skip or repeat an event.
THEOREM EventsInSequence == Spec => []NoEventSkipped
<1>1. IInv => NoEventSkipped
  BY DEF IInv, Sequenced
<1> QED
  BY Inductive, <1>1, PTL

\* However the connection was replaced, a ready session is kept alive by a timer.
THEOREM ReadyBeats == Spec => []ReadyIsBeating
<1>1. IInv => ReadyIsBeating
  BY DEF IInv
<1> QED
  BY Inductive, <1>1, PTL

\* On a connection whose session is ready, a heartbeat that waits for its
\* acknowledgement is one that was sent on this connection.
ReadyOwed == ready /\ ws = "connected" /\ ~acked => owed

\* No step leaves a ready session with the missing acknowledgement of an earlier
\* connection.
LEMMA ReadyOwedKept ==
  ASSUME IInv, ReadyOwed, [Next]_vars
  PROVE  ReadyOwed'
<1> USE DEF ReadyOwed, session, beat, server, user
<1>1. ASSUME \/ GatewayStartFails \/ NoBeat \/ BeatBegin \/ Check \/ Performed
             \/ RunAgain \/ OnHello \/ OnEvent \/ FallSilent \/ Forget
             \/ ForeignShutdown \/ UNCHANGED vars
      PROVE  ReadyOwed'
  <2>1. UNCHANGED <<ready, ws, acked, owed>>
    BY <1>1, Zenon DEF GatewayStartFails, NoBeat, BeatBegin, Check, Performed,
       RunAgain, OnHello, OnEvent, FallSilent, Forget, ForeignShutdown, vars
  <2> QED
    BY <2>1, Zenon
<1>2. ASSUME \/ GatewayStart \/ OnConnect \/ GatewayEnd \/ Lose
             \/ \E class \in Classes : OnClose(class)
      PROVE  ReadyOwed'
  <2>1. ready' = FALSE \/ ws' # "connected"
    BY <1>2 DEF GatewayStart, OnConnect, GatewayEnd, Lose, OnClose, IInv,
       NotReadyYet
  <2> QED
    BY <2>1
<1>3. ASSUME \/ \E resume \in BOOLEAN : UserReconnect(resume)
             \/ UserShutdown \/ ForeignStatus \/ OnReconnect
             \/ \E resumable \in BOOLEAN : OnInvalidSession(resumable)
      PROVE  ReadyOwed'
  <2>1. ws' \in {ws, Closed}
    BY <1>3 DEF UserReconnect, UserShutdown, ForeignStatus, OnReconnect,
       OnInvalidSession, Reconnect, Shutdown
  <2>2. UNCHANGED <<ready, acked, owed>>
    BY <1>3, Zenon DEF UserReconnect, UserShutdown, ForeignStatus, OnReconnect,
       OnInvalidSession
  <2>3. Closed = "connected" => ws = "connected"
    BY DEF Closed
  <2> QED
    BY <2>1, <2>2, <2>3, Zenon
<1>4. ASSUME SendHeartbeat
      PROVE  ReadyOwed'
  BY <1>4, Zenon DEF SendHeartbeat, Reconnect, Closed
<1>5. ASSUME BeatEnd
      PROVE  ReadyOwed'
  BY <1>4, <1>5, Zenon DEF BeatEnd
<1>6. ASSUME OnReady \/ OnResumed
      PROVE  ReadyOwed'
  BY <1>4, <1>6, Zenon DEF OnReady, OnResumed
<1>7. ASSUME OnHeartbeatAck
      PROVE  ReadyOwed'
  BY <1>7, Zenon DEF OnHeartbeatAck
<1> QED
  BY <1>1, <1>2, <1>3, <1>5, <1>6, <1>7, Zenon DEF Next, Loop, OnText

\* Only READY and RESUMED can mistake a connection for a zombie: once its
\* session is ready, a connection is dropped as one only if a heartbeat sent on
\* it has no answer (winecord_gateway_send_heartbeat).
THEOREM ReadyZombiesAreReal ==
  Spec =>
    [][ready /\ ~acked /\ acked' /\ ws = "connected" /\ ws' = "closing" => owed]_vars
<1>1. Init => ReadyOwed
  BY DEF Init, ReadyOwed
<1>2. ReadyOwed =>
        (ready /\ ~acked /\ acked' /\ ws = "connected" /\ ws' = "closing" => owed)
  BY DEF ReadyOwed
<1>3. IInv /\ ReadyOwed /\ [Next]_vars => ReadyOwed'
  BY ReadyOwedKept
<1> QED
  BY Inductive, <1>1, <1>2, <1>3, PTL DEF Spec
=============================================================================
