---------------------------- MODULE DedupWindow ----------------------------
(***************************************************************************)
(* What the de-duplication cache of pkg/cache/alterkey.go promises, with   *)
(* no maps and no mutex: a key that was admitted stays remembered through  *)
(* one clean-up and is forgotten by the second ("Cleanup is done [in] 2    *)
(* phases so after first clean previous values are preserved and may be    *)
(* accessed until the second one").  life[k] is the number of clean-ups    *)
(* key k will still see before it may be admitted again; 0 = unknown key.  *)
(***************************************************************************)
EXTENDS Naturals

CONSTANTS
  Callers,  \* goroutines that call Set
  Keys,     \* uint64 keys computed by solana.ShredKey
  NoRet     \* a caller that has not returned from Set yet

VARIABLES
  life,     \* [Keys -> 0..2]
  ret       \* [Callers -> NoRet or <<key, value>>], the last value Set returned

vars == <<life, ret>>

(* The phases a key goes through: filled into current, moved to altered.   *)
Phases == 2

TypeOK ==
  /\ life \in [Keys -> 0..Phases]
  /\ ret  \in [Callers -> {NoRet} \cup (Keys \X BOOLEAN)]

(* The effect of an admission and of a clean-up on the remembered keys.    *)
Remember(k) == [life EXCEPT ![k] = Phases]
Aged        == [k \in Keys |-> IF life[k] = 0 THEN 0 ELSE life[k] - 1]

Init ==
  /\ life = [k \in Keys |-> 0]
  /\ ret  = [c \in Callers |-> NoRet]

(* Set(key) by caller c, as one atomic operation.                          *)
Admit(c, k) ==
  /\ life[k] = 0
  /\ life' = Remember(k)
  /\ ret'  = [ret EXCEPT ![c] = <<k, TRUE>>]

Refuse(c, k) ==
  /\ life[k] > 0
  /\ ret' = [ret EXCEPT ![c] = <<k, FALSE>>]
  /\ UNCHANGED life

(* One round of cleanup.                                                   *)
Cleanup ==
  /\ life' = Aged
  /\ UNCHANGED ret

Next ==
  \/ \E c \in Callers, k \in Keys : Admit(c, k) \/ Refuse(c, k)
  \/ Cleanup

Spec == Init /\ [][Next]_vars
=============================================================================
