--------------------------- MODULE AlterKeyProofs ---------------------------
(***************************************************************************)
(* Proofs about the de-duplication cache, for any number of goroutines and *)
(* keys: its inductive invariant, and that it implements DedupWindow.      *)
(***************************************************************************)
EXTENDS AlterKey, TLAPS

(* The invariant holds of the empty cache NewAlterKey returns.             *)
LEMMA InitInv == Init => Inv
BY CacheAssumption
DEF Init, Inv, TypeOK, MutexHeld, Disjoint, Seen, Procs, CallerPcs, CleanerPcs, Critical

(* No step of Set or of cleanup leaves the value ranges.                   *)
LEMMA NextTypeOK == TypeOK /\ [Next]_vars => TypeOK'
<1> SUFFICES ASSUME TypeOK, [Next]_vars PROVE TypeOK'
  OBVIOUS
<1> DEFINE Rets == {NoRet} \cup (Keys \X BOOLEAN)
<1>0. ASSUME NEW c \in Callers, NEW b \in BOOLEAN
      PROVE  [ret EXCEPT ![c] = <<key[c], b>>] \in [Callers -> Rets]
  <2>1. key[c] \in Keys /\ ret \in [Callers -> Rets]
    BY DEF TypeOK
  <2>2. <<key[c], b>> \in Rets
    BY <2>1
  <2> HIDE DEF Rets
  <2>3. QED
    BY <2>1, <2>2
<1> USE CacheAssumption DEF TypeOK, Procs, CallerPcs, CleanerPcs, Goto
<1>1. ASSUME NEW c \in Callers, NEW k \in Keys, Call(c, k) PROVE TypeOK'
  BY <1>1 DEF Call
<1>2. ASSUME NEW c \in Callers, LockCaller(c) PROVE TypeOK'
  BY <1>2 DEF LockCaller
<1>3. ASSUME NEW c \in Callers, LookCurrent(c) PROVE TypeOK'
  <2>1. ret' \in [Callers -> Rets]
    BY <1>0, <1>3 DEF LookCurrent
  <2>2. QED
    BY <1>3, <2>1 DEF LookCurrent
<1>4. ASSUME NEW c \in Callers, LookAltered(c) PROVE TypeOK'
  <2>1. ret' \in [Callers -> Rets]
    BY <1>0, <1>4 DEF LookAltered
  <2>2. QED
    BY <1>4, <2>1 DEF LookAltered
<1>5. ASSUME NEW c \in Callers, Insert(c) PROVE TypeOK'
  <2>0. ret' = [ret EXCEPT ![c] = <<key[c], TRUE>>]
    BY <1>5 DEF Insert
  <2>1. ret' \in [Callers -> Rets]
    BY <1>0, <2>0, Zenon
  <2>2. current' \subseteq Keys /\ UNCHANGED <<altered, mx, key>>
    BY <1>5 DEF Insert
  <2>3. /\ pc' \in [Procs -> CallerPcs \cup CleanerPcs]
        /\ \A d \in Callers : pc'[d] \in CallerPcs
        /\ pc'[Cleaner] \in CleanerPcs
    BY <1>5 DEF Insert
  <2>4. QED
    BY <2>1, <2>2, <2>3, Zenon
<1>6. ASSUME NEW p \in Procs, Unlock(p) PROVE TypeOK'
  BY <1>6 DEF Unlock
<1>7. CASE Wake
  BY <1>7 DEF Wake
<1>8. CASE LockCleaner
  BY <1>8 DEF LockCleaner
<1>9. CASE Clear
  BY <1>9 DEF Clear
<1>10. CASE Swap
  BY <1>10 DEF Swap
<1>11. CASE UNCHANGED vars
  BY <1>11 DEF vars
<1>12. QED
  BY <1>1, <1>2, <1>3, <1>4, <1>5, <1>6, <1>7, <1>8, <1>9, <1>10, <1>11
     DEF Next, SetStep, CleanupStep

(* The mutex, the disjointness of the maps and what a goroutine has seen   *)
(* of them are preserved by every step.                                    *)
LEMMA NextInv == Inv /\ [Next]_vars => Inv'
<1> SUFFICES ASSUME Inv, [Next]_vars PROVE Inv'
  OBVIOUS
<1>0. TypeOK'
  BY NextTypeOK DEF Inv
<1> DEFINE Rest == MutexHeld /\ Disjoint /\ Seen
<1> USE CacheAssumption, <1>0 DEF Inv, TypeOK, MutexHeld, Disjoint, Seen, Procs,
        CallerPcs, CleanerPcs, Critical, Goto
<1>1. ASSUME NEW c \in Callers, NEW k \in Keys, Call(c, k) PROVE Rest'
  BY <1>1 DEF Call
<1>2. ASSUME NEW c \in Callers, LockCaller(c) PROVE Rest'
  BY <1>2 DEF LockCaller
<1>3. ASSUME NEW c \in Callers, LookCurrent(c) PROVE Rest'
  BY <1>3 DEF LookCurrent
<1>4. ASSUME NEW c \in Callers, LookAltered(c) PROVE Rest'
  BY <1>4 DEF LookAltered
<1>5. ASSUME NEW c \in Callers, Insert(c) PROVE Rest'
  BY <1>5 DEF Insert
<1>6. ASSUME NEW p \in Procs, Unlock(p) PROVE Rest'
  BY <1>6 DEF Unlock
<1>7. CASE Wake
  BY <1>7 DEF Wake
<1>8. CASE LockCleaner
  BY <1>8 DEF LockCleaner
<1>9. CASE Clear
  BY <1>9 DEF Clear
<1>10. CASE Swap
  BY <1>10 DEF Swap
<1>11. CASE UNCHANGED vars
  BY <1>11 DEF vars
<1>12. QED
  BY <1>1, <1>2, <1>3, <1>4, <1>5, <1>6, <1>7, <1>8, <1>9, <1>10, <1>11
     DEF Next, SetStep, CleanupStep

(* At every moment the mutex separates Set from cleanup, the two maps are  *)
(* disjoint, and what a goroutine read under the mutex is still true when  *)
(* it acts on it.                                                          *)
THEOREM CacheInvariant == Spec => []Inv
BY InitInv, NextInv, PTL DEF Spec

-----------------------------------------------------------------------------
(* A step of the cache is a step of the window, or changes nothing it      *)
(* shows: Set takes effect when it decides its answer, cleanup when it     *)
(* clears altered.                                                         *)
LEMMA StepRefinement == Inv /\ [Next]_vars => [DW!Next]_DW!vars
<1> SUFFICES ASSUME Inv, [Next]_vars PROVE [DW!Next]_DW!vars
  OBVIOUS
<1> USE CacheAssumption DEF Inv, TypeOK, Procs, CallerPcs, CleanerPcs, Critical, Goto,
        DW!vars
<1>0. Inv'
  BY NextInv
<1>1. ASSUME NEW c \in Callers, NEW k \in Keys, Call(c, k) PROVE UNCHANGED DW!vars
  BY <1>1 DEF Call, life
<1>2. ASSUME NEW c \in Callers, LockCaller(c) PROVE UNCHANGED DW!vars
  BY <1>2 DEF LockCaller, life
<1>3. ASSUME NEW c \in Callers, LookCurrent(c) PROVE [DW!Next]_DW!vars
  <2>1. CASE key[c] \in current
    <3>1. life[key[c]] > 0
      BY <2>1 DEF life
    <3>2. UNCHANGED life
      BY <1>3 DEF LookCurrent, life
    <3>3. DW!Refuse(c, key[c])
      BY <1>3, <2>1, <3>1, <3>2 DEF LookCurrent, DW!Refuse
    <3>4. QED
      BY <3>3 DEF DW!Next
  <2>2. CASE key[c] \notin current
    BY <1>3, <2>2 DEF LookCurrent, life
  <2>3. QED
    BY <2>1, <2>2
<1>4. ASSUME NEW c \in Callers, LookAltered(c) PROVE [DW!Next]_DW!vars
  <2>1. CASE key[c] \in altered
    <3>1. life[key[c]] > 0
      BY <2>1 DEF life
    <3>2. UNCHANGED life
      BY <1>4 DEF LookAltered, life
    <3>3. DW!Refuse(c, key[c])
      BY <1>4, <2>1, <3>1, <3>2 DEF LookAltered, DW!Refuse
    <3>4. QED
      BY <3>3 DEF DW!Next
  <2>2. CASE key[c] \notin altered
    BY <1>4, <2>2 DEF LookAltered, life
  <2>3. QED
    BY <2>1, <2>2
<1>5. ASSUME NEW c \in Callers, Insert(c) PROVE [DW!Next]_DW!vars
  <2>1. key[c] \in Keys /\ key[c] \notin current /\ key[c] \notin altered
    BY <1>5 DEF Insert, Seen
  <2>2. pc[Cleaner] # "swap" /\ pc'[Cleaner] # "swap"
    <3>1. mx = c /\ c # Cleaner
      BY <1>5 DEF Insert, MutexHeld
    <3>2. QED
      BY <1>5, <3>1 DEF Insert, MutexHeld
  <2>3. life[key[c]] = 0
    BY <2>1 DEF life
  <2>4. life' = DW!Remember(key[c])
    BY <1>5, <2>1, <2>2 DEF Insert, life, DW!Remember, DW!Phases
  <2>5. DW!Admit(c, key[c])
    BY <1>5, <2>3, <2>4 DEF Insert, DW!Admit
  <2>6. QED
    BY <2>1, <2>5 DEF DW!Next
<1>6. ASSUME NEW p \in Procs, Unlock(p) PROVE UNCHANGED DW!vars
  BY <1>6 DEF Unlock, life
<1>7. CASE Wake
  BY <1>7 DEF Wake, life
<1>8. CASE LockCleaner
  BY <1>8 DEF LockCleaner, life
<1>9. CASE Clear
  <2>1. life' = DW!Aged
    BY <1>9 DEF Clear, life, DW!Aged, Disjoint
  <2>2. DW!Cleanup
    BY <1>9, <2>1 DEF Clear, DW!Cleanup
  <2>3. QED
    BY <2>2 DEF DW!Next
<1>10. CASE Swap
  BY <1>10 DEF Swap, life, Seen
<1>11. CASE UNCHANGED vars
  BY <1>11 DEF vars, life
<1>12. QED
  BY <1>1, <1>2, <1>3, <1>4, <1>5, <1>6, <1>7, <1>8, <1>9, <1>10, <1>11
     DEF Next, SetStep, CleanupStep

(* The two-map cache implements the atomic de-duplication window, for any  *)
(* set of goroutines and keys: concurrent Set calls for one key return     *)
(* true once, and not again before the second clean-up after it.           *)
THEOREM CacheRefinement == Spec => ImplementsWindow
<1>1. Init => DW!Init
  BY DEF Init, DW!Init, life
<1>2. QED
  BY <1>1, CacheInvariant, StepRefinement, PTL DEF Spec, ImplementsWindow, DW!Spec
=============================================================================
