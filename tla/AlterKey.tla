------------------------------ MODULE AlterKey ------------------------------
(***************************************************************************)
(* The de-duplication cache AlterKey of pkg/cache/alterkey.go at the       *)
(* granularity of its memory accesses: two maps, one mutex, any number of  *)
(* goroutines inside Set (the OFR receiver, the network listener or the    *)
(* Firedancer sniffer) and the cleanup goroutine NewAlterKey starts.       *)
(*                                                                         *)
(* Nothing makes the accesses atomic but the mutex; that it is enough is   *)
(* what the refinement of DedupWindow shows.                               *)
(***************************************************************************)
EXTENDS Naturals

CONSTANTS
  Callers,   \* goroutines that call Set
  Keys,      \* uint64 keys
  Cleaner,   \* the cleanup goroutine
  Free,      \* value of mx when nobody holds the mutex
  NoRet      \* ret of a caller that has not returned from Set yet

ASSUME CacheAssumption ==
  /\ Cleaner \notin Callers
  /\ Free \notin Callers \cup {Cleaner}
  /\ NoRet \notin Keys \X BOOLEAN

VARIABLES
  current,   \* map current: keys set since the last cleanup
  altered,   \* map altered: keys set in the round before it
  mx,        \* the mutex: Free or the goroutine that holds it
  pc,        \* where each goroutine is
  key,       \* argument of the Set a caller is in (or was last in)
  ret        \* last return value of each caller, as <<key, value>>

vars == <<current, altered, mx, pc, key, ret>>

Procs == Callers \cup {Cleaner}

CallerPcs  == {"idle", "lock", "current", "altered", "insert", "unlock"}
CleanerPcs == {"idle", "lock", "clear", "swap", "unlock"}

(* The places between mx.Lock() and mx.Unlock().                           *)
Critical == {"current", "altered", "insert", "unlock", "clear", "swap"}

Goto(p, l) == pc' = [pc EXCEPT ![p] = l]

Init ==
  /\ current = {}
  /\ altered = {}
  /\ mx = Free
  /\ pc  = [p \in Procs |-> "idle"]
  /\ key \in [Callers -> Keys]
  /\ ret = [c \in Callers |-> NoRet]

-----------------------------------------------------------------------------
(* Set(key): take the mutex, look into current, look into altered, insert  *)
(* into current, release the mutex in the deferred Unlock.                 *)

Call(c, k) ==
  /\ pc[c] = "idle"
  /\ key' = [key EXCEPT ![c] = k]
  /\ Goto(c, "lock")
  /\ UNCHANGED <<current, altered, mx, ret>>

(* Faulty variant: Set reads the maps without taking the mutex.            *)
LockCaller_NoMutex(c) ==
  /\ pc[c] = "lock"
  /\ Goto(c, "current")
  /\ UNCHANGED <<current, altered, mx, key, ret>>

LockCaller(c) ==
  /\ pc[c] = "lock"
  /\ mx = Free
  /\ mx' = c
  /\ Goto(c, "current")
  /\ UNCHANGED <<current, altered, key, ret>>

LookCurrent(c) ==
  /\ pc[c] = "current"
  /\ \/ /\ key[c] \in current
        /\ ret' = [ret EXCEPT ![c] = <<key[c], FALSE>>]
        /\ Goto(c, "unlock")
     \/ /\ key[c] \notin current
        /\ Goto(c, "altered")
        /\ UNCHANGED ret
  /\ UNCHANGED <<current, altered, mx, key>>

(* Faulty variant: old entries are not consulted.                          *)
LookAltered_Skipped(c) ==
  /\ pc[c] = "altered"
  /\ Goto(c, "insert")
  /\ UNCHANGED <<current, altered, mx, key, ret>>

LookAltered(c) ==
  /\ pc[c] = "altered"
  /\ \/ /\ key[c] \in altered
        /\ ret' = [ret EXCEPT ![c] = <<key[c], FALSE>>]
        /\ Goto(c, "unlock")
     \/ /\ key[c] \notin altered
        /\ Goto(c, "insert")
        /\ UNCHANGED ret
  /\ UNCHANGED <<current, altered, mx, key>>

Insert(c) ==
  /\ pc[c] = "insert"
  /\ current' = current \cup {key[c]}
  /\ ret' = [ret EXCEPT ![c] = <<key[c], TRUE>>]
  /\ Goto(c, "unlock")
  /\ UNCHANGED <<altered, mx, key>>

Unlock(p) ==
  /\ pc[p] = "unlock"
  /\ mx' = Free
  /\ Goto(p, "idle")
  /\ UNCHANGED <<current, altered, key, ret>>

-----------------------------------------------------------------------------
(* cleanup(timeout): sleep, then under the mutex clear altered and swap    *)
(* the two maps, for ever.                                                 *)

Wake ==
  /\ pc[Cleaner] = "idle"
  /\ Goto(Cleaner, "lock")
  /\ UNCHANGED <<current, altered, mx, key, ret>>

LockCleaner ==
  /\ pc[Cleaner] = "lock"
  /\ mx = Free
  /\ mx' = Cleaner
  /\ Goto(Cleaner, "clear")
  /\ UNCHANGED <<current, altered, key, ret>>

Clear ==
  /\ pc[Cleaner] = "clear"
  /\ altered' = {}
  /\ Goto(Cleaner, "swap")
  /\ UNCHANGED <<current, mx, key, ret>>

(* Faulty variant: altered is cleared but the maps are never swapped.      *)
Swap_Missing ==
  /\ pc[Cleaner] = "swap"
  /\ Goto(Cleaner, "unlock")
  /\ UNCHANGED <<current, altered, mx, key, ret>>

Swap ==
  /\ pc[Cleaner] = "swap"
  /\ altered' = current
  /\ current' = altered
  /\ Goto(Cleaner, "unlock")
  /\ UNCHANGED <<mx, key, ret>>

-----------------------------------------------------------------------------
SetStep(c) ==
  LockCaller(c) \/ LookCurrent(c) \/ LookAltered(c) \/ Insert(c) \/ Unlock(c)

CleanupStep == LockCleaner \/ Clear \/ Swap \/ Unlock(Cleaner)

Next ==
  \/ \E c \in Callers : SetStep(c) \/ (\E k \in Keys : Call(c, k))
  \/ Wake
  \/ CleanupStep

(* Goroutines inside Set run to the end of it.  cleanup's sleep ends, and  *)
(* a goroutine blocked on the mutex is not starved: sync.Mutex hands it    *)
(* over in starvation mode, hence strong fairness of LockCleaner.          *)
Fairness ==
  /\ \A c \in Callers : WF_vars(LookCurrent(c) \/ LookAltered(c) \/ Insert(c) \/ Unlock(c))
  /\ WF_vars(Wake)
  /\ SF_vars(LockCleaner)
  /\ WF_vars(Clear \/ Swap \/ Unlock(Cleaner))

Spec     == Init /\ [][Next]_vars
FairSpec == Spec /\ Fairness

-----------------------------------------------------------------------------
TypeOK ==
  /\ current \subseteq Keys
  /\ altered \subseteq Keys
  /\ mx \in Procs \cup {Free}
  /\ pc \in [Procs -> CallerPcs \cup CleanerPcs]
  /\ \A c \in Callers : pc[c] \in CallerPcs
  /\ pc[Cleaner] \in CleanerPcs
  /\ key \in [Callers -> Keys]
  /\ ret \in [Callers -> {NoRet} \cup (Keys \X BOOLEAN)]

(* A goroutine that reads or writes the maps holds the mutex; the mutex    *)
(* thus keeps Set and cleanup apart.                                       *)
MutexHeld == \A p \in Procs : pc[p] \in Critical <=> mx = p

(* The two maps never hold the same key: a key is aged exactly once before *)
(* it is dropped, and the swap cannot resurrect it.                        *)
Disjoint == current \cap altered = {}

(* What a caller has seen of the maps still holds when it acts on it, and  *)
(* between clear and swap altered stays empty.                             *)
Seen ==
  /\ \A c \in Callers : pc[c] \in {"altered", "insert"} => key[c] \notin current
  /\ \A c \in Callers : pc[c] = "insert" => key[c] \notin altered
  /\ pc[Cleaner] = "swap" => altered = {}

(* The inductive invariant behind the refinement.                          *)
Inv == TypeOK /\ MutexHeld /\ Disjoint /\ Seen

(* Refinement mapping: a key in current sees two clean-ups, one in altered *)
(* sees one.  A clean-up takes effect when it clears altered; from there   *)
(* to the swap the keys in current already count as aged.                  *)
life ==
  [k \in Keys |->
     IF k \in current THEN (IF pc[Cleaner] = "swap" THEN 1 ELSE 2)
     ELSE IF k \in altered THEN 1 ELSE 0]

DW == INSTANCE DedupWindow

(* The locked two-map cache implements the atomic de-duplication window:   *)
(* of several concurrent Set calls for a key exactly one returns true, and *)
(* no call returns true again until the second clean-up after it.          *)
ImplementsWindow == DW!Spec

(* No key stays in the cache for ever: the two-phase clean-up reaches      *)
(* every key whatever the callers do (memory of the cache is bounded).     *)
EventuallyForgotten ==
  \A k \in Keys : k \in current \cup altered ~> k \notin current \cup altered
=============================================================================
