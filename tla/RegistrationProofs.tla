------------------------- MODULE RegistrationProofs -------------------------
(***************************************************************************)
(* Proofs about registration, for any relays, retry count and limit.       *)
(***************************************************************************)
EXTENDS Registration, TLAPS

(* The invariant holds before Start is called.                             *)
LEMMA InitRegInv == Init => RegInv
<1> SUFFICES ASSUME Init PROVE RegInv
  OBVIOUS
<1> USE RegistrationAssumption DEF Init
<1>1. TypeOK
  <2>1. started \in BOOLEAN /\ fresh \in BOOLEAN
    BY Zenon
  <2>2. tries \in 0..RetryCount-1 /\ cnt \in Nat /\ attempts \in 0..Limit+1
    OBVIOUS
  <2>3. QED
    BY <2>1, <2>2, Zenon DEF TypeOK, RegPcs, RecvPcs, Sources, Errors, Ends
<1>2. Control /\ AddressFollowsCall /\ CounterBounded /\ NoBackToBack
  BY DEF Control, AddressFollowsCall, CounterBounded, NoBackToBack
<1>3. QED
  BY <1>1, <1>2 DEF RegInv

(* A number is a multiple of itself, which is how the limit is met.        *)
LEMMA LimitMeetsItself == Limit % Limit = 0
BY RegistrationAssumption

(* No step leaves the value ranges.                                        *)
LEMMA NextTypeOK == RegInv /\ [Next]_vars => TypeOK'
<1> SUFFICES ASSUME RegInv, [Next]_vars PROVE TypeOK'
  OBVIOUS
<1> USE RegistrationAssumption DEF RegInv, TypeOK, regVars, recvVars, RegPcs, RecvPcs, Sources, Errors, Ends
<1>1. CASE Clear
  BY <1>1 DEF Clear
<1>2. CASE RpcOk
  BY <1>2 DEF RpcOk
<1>3. CASE RpcNotIPv4
  BY <1>3 DEF RpcNotIPv4
<1>4. CASE Publish
  <2>1. started' \in BOOLEAN
    BY <1>4, Zenon DEF Publish
  <2>2. addr' \in Relays \cup {Zero} /\ pc' \in RegPcs /\ rcv' \in RecvPcs
    BY <1>4 DEF Publish
  <2>3. QED
    BY <1>4, <2>1, <2>2, Zenon DEF Publish
<1>5. CASE StartFailed
  BY <1>5 DEF StartFailed
<1>6. CASE Arm
  BY <1>6 DEF Arm
<1>7. CASE TickElapses
  BY <1>7 DEF TickElapses
<1>8. CASE TakeTick
  BY <1>8 DEF TakeTick
<1>9. CASE MonitorDone
  BY <1>9 DEF MonitorDone
<1>10. CASE ReRegisterFailed
  BY <1>10 DEF ReRegisterFailed
<1>11. CASE AddCounter
  BY <1>11 DEF AddCounter
<1>12. CASE CheckCounter
  BY <1>12 DEF CheckCounter
<1>13. CASE ResetTicker
  BY <1>13 DEF ResetTicker
<1>14. CASE RecvLoop
  BY <1>14 DEF RecvLoop
<1>15. CASE RecvRead
  BY <1>15 DEF RecvRead
<1>16. CASE RecvZero
  BY <1>16 DEF RecvZero
<1>17. CASE RecvMatch
  BY <1>17 DEF RecvMatch
<1>18. CASE RecvReset
  BY <1>18 DEF RecvReset
<1>19. CASE RecvStore
  BY <1>19 DEF RecvStore
<1>20. CASE Interrupt
  BY <1>20 DEF Interrupt
<1>21. CASE Cancel
  BY <1>21 DEF Cancel
<1>22. CASE Exit
  BY <1>22 DEF Exit
<1>23. ASSUME NEW code \in Codes, RpcError(code) PROVE TypeOK'
  BY <1>23 DEF RpcError, ErrorOf, Codes
<1>24. CASE UNCHANGED vars
  BY <1>24 DEF vars
<1>25. QED
  BY <1>1, <1>2, <1>3, <1>4, <1>5, <1>6, <1>7, <1>8, <1>9, <1>10, <1>11, <1>12,
     <1>13, <1>14, <1>15, <1>16, <1>17, <1>18, <1>19, <1>20, <1>21, <1>22, <1>23, <1>24
     DEF Next, RpcAnswers, RegisterStep, RecvStep, Ended

(* The registering goroutine keeps its control discipline.                 *)
LEMMA NextControl == RegInv /\ [Next]_vars => Control'
<1> SUFFICES ASSUME RegInv, [Next]_vars PROVE Control'
  OBVIOUS
<1> USE RegistrationAssumption DEF RegInv, TypeOK, regVars, recvVars, Control
<1>1. CASE Clear
  BY <1>1 DEF Clear
<1>2. CASE RpcOk
  BY <1>2 DEF RpcOk
<1>3. CASE RpcNotIPv4
  BY <1>3 DEF RpcNotIPv4
<1>4. CASE Publish
  BY <1>4 DEF Publish
<1>5. CASE StartFailed
  BY <1>5 DEF StartFailed
<1>6. CASE Arm
  BY <1>6 DEF Arm
<1>7. CASE TickElapses
  BY <1>7 DEF TickElapses
<1>8. CASE TakeTick
  BY <1>8 DEF TakeTick
<1>9. CASE MonitorDone
  BY <1>9 DEF MonitorDone
<1>10. CASE ReRegisterFailed
  BY <1>10 DEF ReRegisterFailed
<1>11. CASE AddCounter
  BY <1>11 DEF AddCounter
<1>12. CASE CheckCounter
  BY <1>12 DEF CheckCounter
<1>13. CASE ResetTicker
  BY <1>13 DEF ResetTicker
<1>14. CASE RecvLoop
  BY <1>14 DEF RecvLoop
<1>15. CASE RecvRead
  BY <1>15 DEF RecvRead
<1>16. CASE RecvZero
  BY <1>16 DEF RecvZero
<1>17. CASE RecvMatch
  BY <1>17 DEF RecvMatch
<1>18. CASE RecvReset
  BY <1>18 DEF RecvReset
<1>19. CASE RecvStore
  BY <1>19 DEF RecvStore
<1>20. CASE Interrupt
  BY <1>20 DEF Interrupt
<1>21. CASE Cancel
  BY <1>21 DEF Cancel
<1>22. CASE Exit
  BY <1>22 DEF Exit
<1>23. ASSUME NEW code \in Codes, RpcError(code) PROVE Control'
  BY <1>23 DEF RpcError, ErrorOf, Codes
<1>24. CASE UNCHANGED vars
  BY <1>24 DEF vars
<1>25. QED
  BY <1>1, <1>2, <1>3, <1>4, <1>5, <1>6, <1>7, <1>8, <1>9, <1>10, <1>11, <1>12,
     <1>13, <1>14, <1>15, <1>16, <1>17, <1>18, <1>19, <1>20, <1>21, <1>22, <1>23, <1>24
     DEF Next, RpcAnswers, RegisterStep, RecvStep, Ended

(* Only Register writes the address, and only as its call went.            *)
LEMMA NextAddress == RegInv /\ [Next]_vars => AddressFollowsCall'
<1> SUFFICES ASSUME RegInv, [Next]_vars PROVE AddressFollowsCall'
  OBVIOUS
<1> USE RegistrationAssumption DEF RegInv, TypeOK, regVars, recvVars, Control, AddressFollowsCall
<1>1. CASE Clear
  BY <1>1 DEF Clear
<1>2. CASE RpcOk
  BY <1>2 DEF RpcOk
<1>3. CASE RpcNotIPv4
  BY <1>3 DEF RpcNotIPv4
<1>4. CASE Publish
  BY <1>4 DEF Publish
<1>5. CASE StartFailed
  BY <1>5 DEF StartFailed
<1>6. CASE Arm
  BY <1>6 DEF Arm
<1>7. CASE TickElapses
  BY <1>7 DEF TickElapses
<1>8. CASE TakeTick
  BY <1>8 DEF TakeTick
<1>9. CASE MonitorDone
  BY <1>9 DEF MonitorDone
<1>10. CASE ReRegisterFailed
  BY <1>10 DEF ReRegisterFailed
<1>11. CASE AddCounter
  BY <1>11 DEF AddCounter
<1>12. CASE CheckCounter
  BY <1>12 DEF CheckCounter
<1>13. CASE ResetTicker
  BY <1>13 DEF ResetTicker
<1>14. CASE RecvLoop
  BY <1>14 DEF RecvLoop
<1>15. CASE RecvRead
  BY <1>15 DEF RecvRead
<1>16. CASE RecvZero
  BY <1>16 DEF RecvZero
<1>17. CASE RecvMatch
  BY <1>17 DEF RecvMatch
<1>18. CASE RecvReset
  BY <1>18 DEF RecvReset
<1>19. CASE RecvStore
  BY <1>19 DEF RecvStore
<1>20. CASE Interrupt
  BY <1>20 DEF Interrupt
<1>21. CASE Cancel
  BY <1>21 DEF Cancel
<1>22. CASE Exit
  BY <1>22 DEF Exit
<1>23. ASSUME NEW code \in Codes, RpcError(code) PROVE AddressFollowsCall'
  BY <1>23 DEF RpcError, ErrorOf, Codes
<1>24. CASE UNCHANGED vars
  BY <1>24 DEF vars
<1>25. QED
  BY <1>1, <1>2, <1>3, <1>4, <1>5, <1>6, <1>7, <1>8, <1>9, <1>10, <1>11, <1>12,
     <1>13, <1>14, <1>15, <1>16, <1>17, <1>18, <1>19, <1>20, <1>21, <1>22, <1>23, <1>24
     DEF Next, RpcAnswers, RegisterStep, RecvStep, Ended

(* Between two checks the counter grows by at most one.                    *)
LEMMA NextCounter == RegInv /\ [Next]_vars => CounterBounded'
<1> SUFFICES ASSUME RegInv, [Next]_vars PROVE CounterBounded'
  OBVIOUS
<1> USE RegistrationAssumption DEF RegInv, TypeOK, regVars, recvVars, Control, CounterBounded
<1>1. CASE Clear
  BY <1>1 DEF Clear
<1>2. CASE RpcOk
  BY <1>2 DEF RpcOk
<1>3. CASE RpcNotIPv4
  BY <1>3 DEF RpcNotIPv4
<1>4. CASE Publish
  BY <1>4 DEF Publish
<1>5. CASE StartFailed
  BY <1>5 DEF StartFailed
<1>6. CASE Arm
  BY <1>6 DEF Arm
<1>7. CASE TickElapses
  BY <1>7 DEF TickElapses
<1>8. CASE TakeTick
  BY <1>8 DEF TakeTick
<1>9. CASE MonitorDone
  BY <1>9 DEF MonitorDone
<1>10. CASE ReRegisterFailed
  BY <1>10 DEF ReRegisterFailed
<1>11. CASE AddCounter
  BY <1>11 DEF AddCounter
<1>12. CASE CheckCounter
  BY <1>12, LimitMeetsItself DEF CheckCounter
<1>13. CASE ResetTicker
  BY <1>13 DEF ResetTicker
<1>14. CASE RecvLoop
  BY <1>14 DEF RecvLoop
<1>15. CASE RecvRead
  BY <1>15 DEF RecvRead
<1>16. CASE RecvZero
  BY <1>16 DEF RecvZero
<1>17. CASE RecvMatch
  BY <1>17 DEF RecvMatch
<1>18. CASE RecvReset
  BY <1>18 DEF RecvReset
<1>19. CASE RecvStore
  BY <1>19 DEF RecvStore
<1>20. CASE Interrupt
  BY <1>20 DEF Interrupt
<1>21. CASE Cancel
  BY <1>21 DEF Cancel
<1>22. CASE Exit
  BY <1>22 DEF Exit
<1>23. ASSUME NEW code \in Codes, RpcError(code) PROVE CounterBounded'
  BY <1>23 DEF RpcError, ErrorOf, Codes
<1>24. CASE UNCHANGED vars
  BY <1>24 DEF vars
<1>25. QED
  BY <1>1, <1>2, <1>3, <1>4, <1>5, <1>6, <1>7, <1>8, <1>9, <1>10, <1>11, <1>12,
     <1>13, <1>14, <1>15, <1>16, <1>17, <1>18, <1>19, <1>20, <1>21, <1>22, <1>23, <1>24
     DEF Next, RpcAnswers, RegisterStep, RecvStep, Ended

(* A tick that is waited for is one that elapsed while waiting.            *)
LEMMA NextTick == RegInv /\ [Next]_vars => NoBackToBack'
<1> SUFFICES ASSUME RegInv, [Next]_vars PROVE NoBackToBack'
  OBVIOUS
<1> USE RegistrationAssumption DEF RegInv, TypeOK, regVars, recvVars, NoBackToBack
<1>1. CASE Clear
  BY <1>1 DEF Clear
<1>2. CASE RpcOk
  BY <1>2 DEF RpcOk
<1>3. CASE RpcNotIPv4
  BY <1>3 DEF RpcNotIPv4
<1>4. CASE Publish
  BY <1>4 DEF Publish
<1>5. CASE StartFailed
  BY <1>5 DEF StartFailed
<1>6. CASE Arm
  BY <1>6 DEF Arm
<1>7. CASE TickElapses
  BY <1>7 DEF TickElapses
<1>8. CASE TakeTick
  BY <1>8 DEF TakeTick
<1>9. CASE MonitorDone
  BY <1>9 DEF MonitorDone
<1>10. CASE ReRegisterFailed
  BY <1>10 DEF ReRegisterFailed
<1>11. CASE AddCounter
  BY <1>11 DEF AddCounter
<1>12. CASE CheckCounter
  BY <1>12 DEF CheckCounter
<1>13. CASE ResetTicker
  BY <1>13 DEF ResetTicker
<1>14. CASE RecvLoop
  BY <1>14 DEF RecvLoop
<1>15. CASE RecvRead
  BY <1>15 DEF RecvRead
<1>16. CASE RecvZero
  BY <1>16 DEF RecvZero
<1>17. CASE RecvMatch
  BY <1>17 DEF RecvMatch
<1>18. CASE RecvReset
  BY <1>18 DEF RecvReset
<1>19. CASE RecvStore
  BY <1>19 DEF RecvStore
<1>20. CASE Interrupt
  BY <1>20 DEF Interrupt
<1>21. CASE Cancel
  BY <1>21 DEF Cancel
<1>22. CASE Exit
  BY <1>22 DEF Exit
<1>23. ASSUME NEW code \in Codes, RpcError(code) PROVE NoBackToBack'
  BY <1>23 DEF RpcError, ErrorOf, Codes
<1>24. CASE UNCHANGED vars
  BY <1>24 DEF vars
<1>25. QED
  BY <1>1, <1>2, <1>3, <1>4, <1>5, <1>6, <1>7, <1>8, <1>9, <1>10, <1>11, <1>12,
     <1>13, <1>14, <1>15, <1>16, <1>17, <1>18, <1>19, <1>20, <1>21, <1>22, <1>23, <1>24
     DEF Next, RpcAnswers, RegisterStep, RecvStep, Ended

(* The registration protocol keeps its invariant.                          *)
THEOREM RegistrationInvariant == Spec => []RegInv
<1>1. RegInv /\ [Next]_vars => RegInv'
  BY NextTypeOK, NextControl, NextAddress, NextCounter, NextTick DEF RegInv
<1>2. QED
  BY InitRegInv, <1>1, PTL DEF Spec

(* The address is the one last granted, or none while a call is out or     *)
(* after it failed.                                                        *)
THEOREM AddressIsTheGrantedOne == Spec => []AddressFollowsCall
BY RegistrationInvariant, PTL DEF RegInv

(* The counter never passes the limit without the panic.                   *)
THEOREM CounterNeverPassesLimit == Spec => []CounterBounded
BY RegistrationInvariant, PTL DEF RegInv

(* No attempt starts on a tick left over from the attempt before.          *)
THEOREM AttemptsAreSpaced == Spec => []NoBackToBack
BY RegistrationInvariant, PTL DEF RegInv

(* After a refusal no call goes out any more.                              *)
THEOREM RefusalIsFinal == Spec => NoCallAfterRefusal
<1>1. RegInv /\ [Next]_vars => [err = "fatal" => pc' # "rpc"]_vars
  <2> SUFFICES ASSUME RegInv, [Next]_vars, err = "fatal" PROVE pc' # "rpc"
    OBVIOUS
  <2>1. pc = "failed"
    BY DEF RegInv, Control
  <2>2. CASE UNCHANGED vars
    BY <2>1, <2>2 DEF vars, regVars
  <2>3. CASE Next
    BY <2>1, <2>3 DEF Next, RpcAnswers, RegisterStep, RecvStep, Ended, vars, regVars, Clear, RpcOk,
       RpcError, RpcNotIPv4, Publish, StartFailed, Arm, TickElapses, TakeTick, MonitorDone,
       ReRegisterFailed, AddCounter, CheckCounter, ResetTicker, RecvLoop, RecvRead, RecvZero,
       RecvMatch, RecvReset, RecvStore, Interrupt, Cancel, Exit
  <2>4. QED
    BY <2>2, <2>3
<1>2. QED
  BY RegistrationInvariant, <1>1, PTL DEF Spec, NoCallAfterRefusal
=============================================================================
