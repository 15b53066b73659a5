-------------------------- MODULE RelayLinkProofs ---------------------------
(***************************************************************************)
(* Proofs about the relay's address, word by word, for any relays and with *)
(* all readers at work at once.                                            *)
(***************************************************************************)
EXTENDS RelayLink, TLAPS

(* What a variable of the type of the address may contain, whole or torn.  *)
Torn == {a \in [Words -> Relays \cup {Zero, Set}] :
           a["data"] \in Relays \cup {Zero} /\ a["ip"] \in Relays \cup {Zero}}

Whole == {NoAddr} \cup {NewAddr(r) : r \in Relays}

States == {"off", "idle", "test", "match", "admitted", "use", "sent", "panic", "copy", "send"}

Types ==
  /\ word \in Torn
  /\ mx \in {"free", "read", "write"}
  /\ reg \in [pc : {"idle", "lock", "store", "rpc"}, to : Whole, todo : SUBSET Words]
  /\ pc \in [Readers -> States]
  /\ todo \in [Readers -> SUBSET Words]
  /\ got \in [Readers -> Torn]
  /\ src \in Relays \cup {Stranger}
  /\ inForce \in [Readers -> SUBSET Relays]

(* The lock is held by the one who stores or copies.                       *)
LockHeld ==
  /\ mx = "write" <=> reg.pc = "store"
  /\ mx = "read" <=> pc["bcast"] = "copy"

(* The address is whole but while it is stored, and what was stored stays. *)
Stored ==
  /\ reg.pc # "store" => word \in Whole
  /\ reg.pc = "store" => \A w \in Words \ reg.todo : word[w] = reg.to[w]
  /\ reg.pc = "lock" => reg.todo = Words

(* Words are read only in the states that ask for them.                    *)
Reading ==
  /\ todo["rcv"] # {} => pc["rcv"] \in {"test", "match"}
  /\ todo["alive"] # {} => pc["alive"] \in {"test", "use"}
  /\ todo["bcast"] # {} => pc["bcast"] = "copy"
  /\ pc["alive"] = "test" => "data" \notin todo["alive"]

(* What the broadcaster has copied so far is the address; what it has      *)
(* copied in the end is a whole one.                                       *)
Copied ==
  /\ pc["bcast"] = "copy" => \A w \in Words \ todo["bcast"] : got["bcast"][w] = word[w]
  /\ pc["bcast"] = "test" => got["bcast"] \in Whole
  /\ pc["bcast"] = "send" => got["bcast"] \in Whole \ {NoAddr}

(* The history has what the address was made of since a turn began, and    *)
(* what a reader goes by is part of it.                                    *)
Remembered ==
  /\ \A p \in Readers : pc[p] \notin {"off", "idle"} => Held(word) \subseteq inForce[p]
  /\ pc["rcv"] = "idle" => got["rcv"]["ip"] = Zero
  /\ pc["rcv"] \in {"test", "match"} => got["rcv"]["ip"] \in inForce["rcv"] \cup {Zero}
  /\ pc["rcv"] = "admitted" => src \in inForce["rcv"]
  /\ pc["alive"] = "use" => got["alive"]["data"] \in inForce["alive"] \cup {Zero}
  /\ pc["alive"] = "sent" => got["alive"]["data"] \in inForce["alive"]
  /\ pc["bcast"] = "idle" => got["bcast"]["data"] = Zero
  /\ pc["bcast"] \in {"copy", "test", "send"} => got["bcast"]["data"] \in inForce["bcast"] \cup {Zero}

LinkInv == Types /\ LockHeld /\ Stored /\ Reading /\ Copied /\ Remembered
-----------------------------------------------------------------------------
(* Copies and partial copies of addresses are of their type.               *)
LEMMA WholeIsTorn == Whole \subseteq Torn
BY RelayLinkAssumption DEF Whole, Torn, NoAddr, NewAddr, Words

(* A copy stays a (possibly torn) address when a word is loaded into it.   *)
LEMMA LoadedIsTorn ==
  ASSUME NEW a \in Torn, NEW b \in Torn, NEW w \in Words
  PROVE  [a EXCEPT ![w] = b[w]] \in Torn
BY DEF Torn, Words

(* A copy stays a (possibly torn) address when words of it are forgotten.  *)
LEMMA KeptIsTorn ==
  ASSUME NEW a \in Torn, NEW kept
  PROVE  [w \in Words |-> IF w \in kept THEN a[w] ELSE Zero] \in Torn
BY DEF Torn, Words

(* Of the whole addresses only the empty one is zero.                      *)
LEMMA ZeroOrNot ==
  ASSUME NEW a \in Whole
  PROVE  IsZero(a) <=> a = NoAddr
BY RelayLinkAssumption DEF Whole, IsZero, NoAddr, NewAddr, Words

(* The invariant holds when the first address was published.               *)
LEMMA InitLinkInv == Init => LinkInv
<1> SUFFICES ASSUME Init PROVE LinkInv
  OBVIOUS
<1>1. PICK r \in Relays : word = NewAddr(r)
  BY DEF Init
<1>2. word \in Whole /\ NoAddr \in Whole /\ word \in Torn /\ NoAddr \in Torn
  BY <1>1, WholeIsTorn DEF Whole
<1>3. PICK T \in Teams : pc = [p \in Readers |-> IF p \in T THEN "idle" ELSE "off"]
  BY DEF Init
<1>4. /\ mx = "free" /\ reg = [pc |-> "idle", to |-> NoAddr, todo |-> {}]
      /\ todo = [p \in Readers |-> {}] /\ got = [p \in Readers |-> NoAddr]
      /\ src = Stranger /\ inForce = [p \in Readers |-> {}]
  BY DEF Init
<1>5. Types
  BY <1>2, <1>3, <1>4 DEF Types, States
<1>6. \A p \in Readers : pc[p] \in {"idle", "off"} /\ todo[p] = {} /\ got[p] = NoAddr
  BY <1>3, <1>4
<1>7. LockHeld /\ Stored /\ Reading /\ Copied
  BY <1>2, <1>4, <1>6 DEF LockHeld, Stored, Reading, Copied, Readers
<1>8. Remembered
  BY <1>6 DEF Remembered, Readers, NoAddr, Words
<1>9. QED
  BY <1>5, <1>7, <1>8 DEF LinkInv

(* The effect of the readers' steps on the types.                          *)
LEMMA BeginTypes ==
  ASSUME Types, NEW p \in Readers, NEW state \in States, NEW words \in SUBSET Words,
         Begin(p, state, words), mx' \in {"free", "read", "write"}, src' \in Relays \cup {Stranger}
  PROVE  Types'
BY DEF Types, Begin, GoTo, Held

(* Loading a word keeps the types.                                         *)
LEMMA LoadTypes ==
  ASSUME Types, NEW p \in Readers, NEW w \in Words, Load(p, w)
  PROVE  Types'
<1>1. got' \in [Readers -> Torn]
  <2>1. got \in [Readers -> Torn] /\ word \in Torn
    BY DEF Types
  <2>2. got' = [got EXCEPT ![p] = [got[p] EXCEPT ![w] = word[w]]]
    BY <2>1 DEF Load
  <2>3. [got[p] EXCEPT ![w] = word[w]] \in Torn
    BY <2>1, LoadedIsTorn
  <2>4. QED
    BY <2>1, <2>2, <2>3
<1>2. QED
  BY <1>1 DEF Types, Load

(* Going on from a test, a comparison or a send keeps the types.           *)
LEMMA DecideTypes ==
  ASSUME Types, NEW p \in Readers, NEW state, NEW next \in States, NEW words \in SUBSET Words,
         NEW kept, Decide(p, state, next, words, kept), UNCHANGED src,
         mx' \in {"free", "read", "write"}
  PROVE  Types'
<1>1. got' \in [Readers -> Torn]
  BY KeptIsTorn DEF Types, Decide
<1>2. inForce' \in [Readers -> SUBSET Relays]
  BY DEF Types, Decide
<1>3. QED
  BY <1>1, <1>2 DEF Types, Decide, GoTo
-----------------------------------------------------------------------------
(* Register.                                                               *)

(* Steps that touch neither words nor readers keep the readers' part.      *)
LEMMA ReadersUnmoved ==
  ASSUME LinkInv, UNCHANGED <<word, readVars, inForce>>
  PROVE  Reading' /\ Copied' /\ Remembered'
BY DEF LinkInv, readVars, Reading, Copied, Remembered, Held

(* The address is about to be cleared: only Register moves.                *)
LEMMA WithdrawKeeps == ASSUME LinkInv, Withdraw PROVE LinkInv'
<1>1. NoAddr \in Whole
  BY DEF Whole
<1>2. /\ UNCHANGED <<word, mx, readVars, inForce>> /\ reg.pc = "idle"
      /\ reg' = [pc |-> "lock", to |-> NoAddr, todo |-> Words]
  BY DEF Withdraw
<1>3. Types' /\ LockHeld' /\ Stored'
  BY <1>1, <1>2 DEF LinkInv, Types, LockHeld, Stored, readVars
<1>4. QED
  BY <1>2, <1>3, ReadersUnmoved DEF LinkInv

(* The relay answers, or the call fails: only Register moves.              *)
LEMMA AnswerKeeps == ASSUME LinkInv, Answer PROVE LinkInv'
<1>1. UNCHANGED <<word, mx, readVars, inForce>> /\ reg.pc = "rpc"
  BY DEF Answer
<1>2. /\ reg' \in [pc : {"idle", "lock", "store", "rpc"}, to : Whole, todo : SUBSET Words]
      /\ reg'.pc \in {"idle", "lock"} /\ (reg'.pc = "lock" => reg'.todo = Words)
  <2>1. \A r \in Relays : NewAddr(r) \in Whole
    BY DEF Whole
  <2>2. reg \in [pc : {"idle", "lock", "store", "rpc"}, to : Whole, todo : SUBSET Words]
    BY DEF LinkInv, Types
  <2>3. QED
    BY <2>1, <2>2 DEF Answer
<1>3. Types' /\ LockHeld' /\ Stored'
  BY <1>1, <1>2 DEF LinkInv, Types, LockHeld, Stored, readVars
<1>4. QED
  BY <1>1, <1>3, ReadersUnmoved DEF LinkInv

(* Register takes the lock, so no broadcast is copying.                    *)
LEMMA LockKeeps == ASSUME LinkInv, Lock PROVE LinkInv'
<1>1. /\ UNCHANGED <<word, readVars, inForce>> /\ reg.pc = "lock" /\ mx = "free" /\ mx' = "write"
      /\ reg' = [reg EXCEPT !.pc = "store"]
  BY DEF Lock
<1>2. Types' /\ LockHeld' /\ Stored'
  BY <1>1 DEF LinkInv, Types, LockHeld, Stored, readVars
<1>3. QED
  BY <1>1, <1>2, ReadersUnmoved DEF LinkInv

(* Register has stored every word and gives the lock back.                 *)
LEMMA UnlockKeeps == ASSUME LinkInv, Unlock PROVE LinkInv'
<1>1. /\ UNCHANGED <<word, readVars, inForce>> /\ reg.pc = "store" /\ reg.todo = {} /\ mx' = "free"
      /\ reg'.pc \in {"rpc", "idle"} /\ reg'.to = NoAddr /\ reg'.todo = {}
      /\ reg' \in [pc : {"idle", "lock", "store", "rpc"}, to : Whole, todo : SUBSET Words]
  BY DEF LinkInv, Types, Unlock, Whole
<1>2. word = reg.to
  <2>1. \A w \in Words : word[w] = reg.to[w]
    BY <1>1 DEF LinkInv, Stored
  <2>2. word \in Torn /\ reg.to \in Torn
    BY WholeIsTorn DEF LinkInv, Types
  <2>3. QED
    BY <2>1, <2>2 DEF Torn
<1>3. word \in Whole
  BY <1>2 DEF LinkInv, Types
<1>4. Types' /\ LockHeld' /\ Stored'
  BY <1>1, <1>3 DEF LinkInv, Types, LockHeld, Stored, readVars
<1>5. QED
  BY <1>1, <1>4, ReadersUnmoved DEF LinkInv

(* One word is stored; the readers' histories take it in.  Nobody copies   *)
(* under the lock meanwhile.                                               *)
LEMMA StoreKeeps == ASSUME LinkInv, NEW w \in Words, Store(w) PROVE LinkInv'
<1>1. /\ UNCHANGED <<mx, pc, todo, got, src>> /\ reg.pc = "store" /\ w \in reg.todo
      /\ word' = [word EXCEPT ![w] = reg.to[w]]
      /\ reg' = [reg EXCEPT !.todo = reg.todo \ {w}]
      /\ inForce' = [p \in Readers |-> IF pc[p] \in {"off", "idle"} THEN {}
                                       ELSE inForce[p] \cup Held(word')]
  BY DEF Store, readVars
<1>2. /\ word \in Torn /\ reg.to \in Torn
      /\ reg \in [pc : {"idle", "lock", "store", "rpc"}, to : Whole, todo : SUBSET Words]
      /\ inForce \in [Readers -> SUBSET Relays]
  BY WholeIsTorn DEF LinkInv, Types
<1>3. word' \in Torn
  BY <1>1, <1>2, LoadedIsTorn
<1>4. inForce' \in [Readers -> SUBSET Relays]
  BY <1>1, <1>2 DEF Held
<1>5. Types'
  BY <1>1, <1>2, <1>3, <1>4 DEF LinkInv, Types
<1>6. LockHeld' /\ Reading'
  BY <1>1, <1>2 DEF LinkInv, LockHeld, Reading
<1>7. Stored'
  BY <1>1, <1>2 DEF LinkInv, Stored, Torn
<1>8. Copied'
  BY <1>1 DEF LinkInv, LockHeld, Copied
<1>9. /\ \A p \in Readers : pc[p] \notin {"off", "idle"} =>
           Held(word)' \subseteq inForce'[p] /\ inForce[p] \subseteq inForce'[p]
  BY <1>1 DEF Held
<1>10. Remembered'
  BY <1>1, <1>9 DEF LinkInv, Remembered, Readers
<1>11. QED
  BY <1>5, <1>6, <1>7, <1>8, <1>10 DEF LinkInv
-----------------------------------------------------------------------------
(* The readers.  A step of one of them leaves the others alone.            *)
OnlyMoves(p) ==
  /\ UNCHANGED <<word, reg>>
  /\ \A q \in Readers \ {p} :
       /\ pc'[q] = pc[q] /\ todo'[q] = todo[q] /\ got'[q] = got[q] /\ inForce'[q] = inForce[q]

(* A word is read as it is.                                                *)
LEMMA LoadKeeps == ASSUME LinkInv, NEW p \in Readers, NEW w \in Words, Load(p, w) PROVE LinkInv'
<1>1. Types /\ Types'
  BY LoadTypes DEF LinkInv
<1>2. /\ UNCHANGED <<word, mx, reg, pc, src, inForce>> /\ w \in todo[p]
      /\ todo' = [todo EXCEPT ![p] = todo[p] \ {w}]
      /\ got' = [got EXCEPT ![p][w] = word[w]]
  BY DEF Load
<1>3. /\ \A q \in Readers : todo'[q] = IF q = p THEN todo[q] \ {w} ELSE todo[q]
      /\ \A q \in Readers, v \in Words :
           got'[q][v] = IF q = p /\ v = w THEN word[v] ELSE got[q][v]
  BY <1>1, <1>2 DEF Types, Torn
<1>4. LockHeld' /\ Stored' /\ Reading'
  BY <1>2, <1>3 DEF LinkInv, LockHeld, Stored, Reading, Readers
<1>5. Copied'
  <2>1. CASE p = "bcast"
    BY <1>2, <1>3, <2>1 DEF LinkInv, Reading, Copied, Readers
  <2>2. CASE p # "bcast"
    <3>1. got'["bcast"] = got["bcast"]
      BY <1>1, <1>2, <2>2 DEF Types, Readers
    <3>2. QED
      BY <1>2, <1>3, <2>2, <3>1 DEF LinkInv, Copied, Readers
  <2>3. QED
    BY <2>1, <2>2
<1>6. pc[p] \notin {"off", "idle"}
  BY <1>2 DEF LinkInv, Reading, Readers
<1>7. word["ip"] \in inForce[p] \cup {Zero} /\ word["data"] \in inForce[p] \cup {Zero}
  BY <1>1, <1>6 DEF LinkInv, Remembered, Held, Types, Torn
<1>8. Remembered'
  <2>1. \A q \in Readers : pc'[q] \notin {"off", "idle"} => Held(word)' \subseteq inForce'[q]
    BY <1>2 DEF LinkInv, Remembered, Held
  <2>2. /\ got'["rcv"]["ip"] \in {got["rcv"]["ip"]} \cup inForce["rcv"] \cup {Zero}
        /\ got'["alive"]["data"] \in {got["alive"]["data"]} \cup inForce["alive"] \cup {Zero}
        /\ got'["bcast"]["data"] \in {got["bcast"]["data"]} \cup inForce["bcast"] \cup {Zero}
    BY <1>3, <1>7 DEF Readers, Words
  <2>3. /\ pc["rcv"] = "idle" => got'["rcv"]["ip"] = got["rcv"]["ip"]
        /\ pc["alive"] = "sent" => got'["alive"]["data"] = got["alive"]["data"]
        /\ pc["bcast"] = "idle" => got'["bcast"]["data"] = got["bcast"]["data"]
    BY <1>2, <1>3 DEF LinkInv, Reading, Readers, Words
  <2>4. QED
    BY <1>2, <2>1, <2>2, <2>3 DEF LinkInv, Remembered
<1>9. QED
  BY <1>1, <1>4, <1>5, <1>8 DEF LinkInv

(* The turn of a reader begins.                                            *)
LEMMA BeginMoves ==
  ASSUME LinkInv, NEW p \in Readers, NEW state \in States, NEW words \in SUBSET Words,
         Begin(p, state, words)
  PROVE  /\ OnlyMoves(p) /\ got' = got /\ pc[p] = "idle"
         /\ pc'[p] = state /\ todo'[p] = words /\ inForce'[p] = Held(word)
BY DEF LinkInv, Types, Begin, GoTo, OnlyMoves

(* A reader goes on.                                                       *)
LEMMA DecideMoves ==
  ASSUME LinkInv, NEW p \in Readers, NEW state, NEW next \in States, NEW words \in SUBSET Words,
         NEW kept, Decide(p, state, next, words, kept)
  PROVE  /\ OnlyMoves(p) /\ pc[p] = state /\ todo[p] = {}
         /\ pc'[p] = next /\ todo'[p] = words
         /\ \A w \in Words : got'[p][w] = IF w \in kept THEN got[p][w] ELSE Zero
         /\ inForce'[p] = IF next = "idle" THEN {} ELSE inForce[p]
BY DEF LinkInv, Types, Decide, GoTo, OnlyMoves

(* What is left to show of a step of the receiver.                         *)
LEMMA RecvFrame ==
  ASSUME LinkInv, Types', OnlyMoves("rcv"), UNCHANGED mx,
         todo'["rcv"] # {} => pc'["rcv"] \in {"test", "match"},
         pc'["rcv"] \notin {"off", "idle"} => Held(word) \subseteq inForce'["rcv"],
         pc'["rcv"] \in {"idle", "test", "match"} => got'["rcv"]["ip"] = Zero,
         pc'["rcv"] = "admitted" => src' \in inForce'["rcv"]
  PROVE  LinkInv'
<1>1. UNCHANGED <<word, reg>>
  BY DEF OnlyMoves
<1>2. \A q \in {"alive", "bcast"} :
        pc'[q] = pc[q] /\ todo'[q] = todo[q] /\ got'[q] = got[q] /\ inForce'[q] = inForce[q]
  BY DEF OnlyMoves, Readers
<1>3. LockHeld' /\ Stored' /\ Reading' /\ Copied'
  BY <1>1, <1>2 DEF LinkInv, LockHeld, Stored, Reading, Copied
<1>4. Remembered'
  BY <1>1, <1>2 DEF LinkInv, Remembered, Held, Readers
<1>5. QED
  BY <1>3, <1>4 DEF LinkInv

(* The steps of the receiver other than its loads.                         *)
LEMMA RecvKeeps ==
  ASSUME LinkInv,
         (\E s \in Relays \cup {Stranger} : RecvPacket(s)) \/ RecvTest \/ RecvMatch \/ RecvNext
  PROVE  LinkInv'
<1>0. "rcv" \in Readers /\ Types /\ "ip" \in Words /\ "test" \in States
  BY DEF Readers, LinkInv, Words, States
<1>1. ASSUME NEW s \in Relays \cup {Stranger}, RecvPacket(s) PROVE LinkInv'
  <2>1. Begin("rcv", "test", Words \ {"data"}) /\ src' = s /\ UNCHANGED mx
    BY <1>1 DEF RecvPacket
  <2>2. Types'
    BY <1>0, <2>1, BeginTypes DEF Types
  <2>3. /\ OnlyMoves("rcv") /\ got' = got /\ pc["rcv"] = "idle"
        /\ pc'["rcv"] = "test" /\ inForce'["rcv"] = Held(word)
    BY <1>0, <2>1, BeginMoves
  <2>4. got["rcv"]["ip"] = Zero
    BY <2>3 DEF LinkInv, Remembered
  <2>5. QED
    BY <2>1, <2>2, <2>3, <2>4, RecvFrame
<1>2. ASSUME NEW state \in {"test", "match", "admitted"}, NEW next \in {"idle", "match", "admitted"},
             NEW words \in SUBSET Words, Decide("rcv", state, next, words, {}), UNCHANGED <<mx, src>>,
             words # {} => next = "match",
             next = "admitted" => state = "match" /\ Matches(got["rcv"])
      PROVE  LinkInv'
  <2>0. next \in States /\ mx' \in {"free", "read", "write"} /\ UNCHANGED src
    BY <1>0, <1>2 DEF States, Types
  <2>1. Types'
    BY <1>0, <1>2, <2>0, DecideTypes
  <2>2. /\ OnlyMoves("rcv") /\ pc["rcv"] = state /\ pc'["rcv"] = next /\ todo'["rcv"] = words
        /\ got'["rcv"]["ip"] = Zero
        /\ inForce'["rcv"] = IF next = "idle" THEN {} ELSE inForce["rcv"]
    <3>1. /\ OnlyMoves("rcv") /\ pc["rcv"] = state /\ todo["rcv"] = {}
          /\ pc'["rcv"] = next /\ todo'["rcv"] = words
          /\ \A w \in Words : got'["rcv"][w] = IF w \in {} THEN got["rcv"][w] ELSE Zero
          /\ inForce'["rcv"] = IF next = "idle" THEN {} ELSE inForce["rcv"]
      BY <1>0, <1>2, <2>0, DecideMoves, Zenon
    <3>2. QED
      BY <1>0, <3>1
  <2>3. Held(word) \subseteq inForce["rcv"]
    BY <1>0, <2>2 DEF LinkInv, Remembered
  <2>4. next = "admitted" => src \in inForce["rcv"]
    BY <1>0, <1>2, <2>2, RelayLinkAssumption DEF LinkInv, Remembered, Matches, Types
  <2>5. QED
    BY <1>2, <2>1, <2>2, <2>3, <2>4, RecvFrame
<1>3. CASE RecvTest
  BY <1>2, <1>3 DEF RecvTest, Words
<1>4. CASE RecvMatch
  BY <1>2, <1>4 DEF RecvMatch
<1>5. CASE RecvNext
  BY <1>2, <1>5 DEF RecvNext
<1>6. QED
  BY <1>1, <1>3, <1>4, <1>5

(* What is left to show of a step of the alive messages.                   *)
LEMMA AliveFrame ==
  ASSUME LinkInv, Types', OnlyMoves("alive"), UNCHANGED <<mx, src>>,
         todo'["alive"] # {} => pc'["alive"] \in {"test", "use"},
         pc'["alive"] = "test" => "data" \notin todo'["alive"],
         pc'["alive"] \notin {"off", "idle"} => Held(word) \subseteq inForce'["alive"],
         pc'["alive"] = "use" => got'["alive"]["data"] = Zero,
         pc'["alive"] = "sent" => got'["alive"]["data"] \in inForce'["alive"]
  PROVE  LinkInv'
<1>1. UNCHANGED <<word, reg>>
  BY DEF OnlyMoves
<1>2. \A q \in {"rcv", "bcast"} :
        pc'[q] = pc[q] /\ todo'[q] = todo[q] /\ got'[q] = got[q] /\ inForce'[q] = inForce[q]
  BY DEF OnlyMoves, Readers
<1>3. LockHeld' /\ Stored' /\ Reading' /\ Copied'
  BY <1>1, <1>2 DEF LinkInv, LockHeld, Stored, Reading, Copied
<1>4. Remembered'
  BY <1>1, <1>2 DEF LinkInv, Remembered, Held, Readers
<1>5. QED
  BY <1>3, <1>4 DEF LinkInv

(* The steps of the alive sender other than its loads.                     *)
LEMMA AliveKeeps ==
  ASSUME LinkInv, AliveTick \/ AliveTest \/ AliveSend \/ AliveNext
  PROVE  LinkInv'
<1>0. "alive" \in Readers /\ Types /\ "data" \in Words /\ "test" \in States
  BY DEF Readers, LinkInv, Words, States
<1>1. CASE AliveTick
  <2>1. Begin("alive", "test", Words \ {"data"}) /\ UNCHANGED <<mx, src>>
    BY <1>1 DEF AliveTick
  <2>2. Types'
    BY <1>0, <2>1, BeginTypes DEF Types
  <2>3. /\ OnlyMoves("alive") /\ pc'["alive"] = "test" /\ inForce'["alive"] = Held(word)
        /\ todo'["alive"] = Words \ {"data"}
    BY <1>0, <2>1, BeginMoves
  <2>4. QED
    BY <2>1, <2>2, <2>3, AliveFrame
<1>2. ASSUME NEW state \in {"test", "use", "sent"}, NEW next \in {"idle", "use", "sent", "panic"},
             NEW words \in SUBSET Words, NEW kept,
             Decide("alive", state, next, words, kept), UNCHANGED <<mx, src>>,
             words # {} => next = "use", next = "use" => kept = {},
             next = "sent" => state = "use" /\ kept = {"data"} /\ got["alive"]["data"] # Zero
      PROVE  LinkInv'
  <2>0. next \in States /\ mx' \in {"free", "read", "write"} /\ UNCHANGED src
    BY <1>0, <1>2 DEF States, Types
  <2>1. Types'
    BY <1>0, <1>2, <2>0, DecideTypes
  <2>2. /\ OnlyMoves("alive") /\ pc["alive"] = state /\ pc'["alive"] = next /\ todo'["alive"] = words
        /\ got'["alive"]["data"] = IF "data" \in kept THEN got["alive"]["data"] ELSE Zero
        /\ inForce'["alive"] = IF next = "idle" THEN {} ELSE inForce["alive"]
    <3>1. /\ OnlyMoves("alive") /\ pc["alive"] = state /\ todo["alive"] = {}
          /\ pc'["alive"] = next /\ todo'["alive"] = words
          /\ \A w \in Words : got'["alive"][w] = IF w \in kept THEN got["alive"][w] ELSE Zero
          /\ inForce'["alive"] = IF next = "idle" THEN {} ELSE inForce["alive"]
      BY <1>0, <1>2, <2>0, DecideMoves, Zenon
    <3>2. QED
      BY <1>0, <3>1
  <2>3. Held(word) \subseteq inForce["alive"]
    BY <1>0, <2>2 DEF LinkInv, Remembered
  <2>4. next = "sent" => got["alive"]["data"] \in inForce["alive"]
    BY <1>2, <2>2 DEF LinkInv, Remembered
  <2>5. QED
    BY <1>2, <2>1, <2>2, <2>3, <2>4, AliveFrame
<1>3. CASE AliveTest
  BY <1>2, <1>3 DEF AliveTest, Words
<1>4. CASE AliveSend
  BY <1>2, <1>4 DEF AliveSend, AliveOutcome
<1>5. CASE AliveNext
  BY <1>2, <1>5 DEF AliveNext
<1>6. QED
  BY <1>1, <1>3, <1>4, <1>5
(* What is left to show of a step of the broadcaster.                      *)
LEMMA BcastFrame ==
  ASSUME LinkInv, Types', OnlyMoves("bcast"), UNCHANGED src, LockHeld', Copied',
         todo'["bcast"] # {} => pc'["bcast"] = "copy",
         pc'["bcast"] \notin {"off", "idle"} => Held(word) \subseteq inForce'["bcast"],
         pc'["bcast"] = "idle" => got'["bcast"]["data"] = Zero,
         pc'["bcast"] \in {"copy", "test", "send"} => got'["bcast"]["data"] \in inForce'["bcast"] \cup {Zero}
  PROVE  LinkInv'
<1>1. UNCHANGED <<word, reg>>
  BY DEF OnlyMoves
<1>2. \A q \in {"rcv", "alive"} :
        pc'[q] = pc[q] /\ todo'[q] = todo[q] /\ got'[q] = got[q] /\ inForce'[q] = inForce[q]
  BY DEF OnlyMoves, Readers
<1>3. Stored' /\ Reading'
  BY <1>1, <1>2 DEF LinkInv, Stored, Reading
<1>4. Remembered'
  BY <1>1, <1>2 DEF LinkInv, Remembered, Held, Readers
<1>5. QED
  BY <1>3, <1>4 DEF LinkInv

(* The broadcaster takes the read lock, so nothing is half stored.         *)
LEMMA BcastRLockKeeps == ASSUME LinkInv, BcastRLock PROVE LinkInv'
<1>1. /\ Begin("bcast", "copy", Words) /\ mx = "free" /\ mx' = "read" /\ UNCHANGED src
      /\ "bcast" \in Readers /\ "copy" \in States /\ Types
  BY DEF BcastRLock, Readers, States, LinkInv
<1>2. Types'
  BY <1>1, BeginTypes DEF Types
<1>3. /\ OnlyMoves("bcast") /\ got' = got /\ pc["bcast"] = "idle"
      /\ pc'["bcast"] = "copy" /\ todo'["bcast"] = Words /\ inForce'["bcast"] = Held(word)
  BY <1>1, BeginMoves
<1>4. LockHeld'
  BY <1>1, <1>3 DEF LinkInv, LockHeld, OnlyMoves
<1>5. Copied'
  BY <1>3 DEF Copied
<1>6. got["bcast"]["data"] = Zero
  BY <1>3 DEF LinkInv, Remembered
<1>7. QED
  BY <1>1, <1>2, <1>3, <1>4, <1>5, <1>6, BcastFrame

(* The other steps of the broadcaster, which keep its copy or drop it.     *)
LEMMA BcastGoesOn ==
  ASSUME LinkInv, UNCHANGED src, NEW state \in {"copy", "test", "send"}, NEW next \in {"idle", "test", "send"},
         mx' = IF state = "copy" THEN "free" ELSE mx,
         Decide("bcast", state, next, {}, IF next = "idle" THEN {} ELSE Words),
         next = "test" => state = "copy",
         next = "send" => state = "test" /\ ~IsZero(got["bcast"])
  PROVE  LinkInv'
<1> DEFINE kept == IF next = "idle" THEN {} ELSE Words
<1>1. "bcast" \in Readers /\ next \in States /\ Types /\ "data" \in Words /\ {} \in SUBSET Words
  BY DEF Readers, States, LinkInv, Words
<1>2. mx' \in {"free", "read", "write"} /\ Decide("bcast", state, next, {}, kept)
  BY <1>1 DEF Types
<1> HIDE DEF kept
<1>3. Types'
  BY <1>1, <1>2, DecideTypes
<1>4. /\ OnlyMoves("bcast") /\ pc["bcast"] = state /\ todo["bcast"] = {}
      /\ pc'["bcast"] = next /\ todo'["bcast"] = {}
      /\ \A w \in Words : got'["bcast"][w] = IF w \in kept THEN got["bcast"][w] ELSE Zero
      /\ inForce'["bcast"] = IF next = "idle" THEN {} ELSE inForce["bcast"]
  BY <1>1, <1>2 DEF LinkInv, Types, Decide, GoTo, OnlyMoves
<1>5. LockHeld'
  BY <1>4 DEF LinkInv, LockHeld, OnlyMoves
<1>6. next # "idle" => got'["bcast"] = got["bcast"]
  BY <1>1, <1>3, <1>4 DEF Types, Torn, kept
<1>7. state = "copy" => got["bcast"] \in Whole
  <2> SUFFICES ASSUME state = "copy" PROVE got["bcast"] = word /\ word \in Whole
    OBVIOUS
  <2>1. word \in Whole
    BY <1>4 DEF LinkInv, LockHeld, Stored
  <2>2. \A w \in Words : got["bcast"][w] = word[w]
    BY <1>4 DEF LinkInv, Copied
  <2>3. QED
    BY <1>1, <2>1, <2>2 DEF Types, Torn
<1>8. state = "test" /\ ~IsZero(got["bcast"]) => got["bcast"] \in Whole \ {NoAddr}
  BY <1>4, ZeroOrNot DEF LinkInv, Copied
<1>9. Copied'
  BY <1>4, <1>6, <1>7, <1>8 DEF Copied
<1>10. /\ Held(word) \subseteq inForce["bcast"]
       /\ got["bcast"]["data"] \in inForce["bcast"] \cup {Zero}
  BY <1>1, <1>4 DEF LinkInv, Remembered
<1>11. next = "idle" => got'["bcast"]["data"] = Zero
  BY <1>1, <1>4 DEF kept
<1>12. QED
  BY <1>3, <1>4, <1>5, <1>6, <1>9, <1>10, <1>11, BcastFrame

-----------------------------------------------------------------------------
(* The inductive invariant of the relay's address and its readers.         *)
THEOREM RelayLinkInvariant == Spec => []LinkInv
<1>1. LinkInv /\ [Next]_vars => LinkInv'
  <2> SUFFICES ASSUME LinkInv, [Next]_vars PROVE LinkInv'
    OBVIOUS
  <2>1. CASE Withdraw
    BY <2>1, WithdrawKeeps
  <2>2. CASE Answer
    BY <2>2, AnswerKeeps
  <2>3. CASE Lock
    BY <2>3, LockKeeps
  <2>4. ASSUME NEW w \in Words, Store(w) PROVE LinkInv'
    BY <2>4, StoreKeeps
  <2>5. CASE Unlock
    BY <2>5, UnlockKeeps
  <2>6. ASSUME NEW p \in Readers, NEW w \in Words, Load(p, w) PROVE LinkInv'
    BY <2>6, LoadKeeps
  <2>7. CASE (\E s \in Relays \cup {Stranger} : RecvPacket(s)) \/ RecvTest \/ RecvMatch \/ RecvNext
    BY <2>7, RecvKeeps
  <2>8. CASE AliveTick \/ AliveTest \/ AliveSend \/ AliveNext
    BY <2>8, AliveKeeps
  <2>9. CASE BcastRLock
    BY <2>9, BcastRLockKeeps
  <2>10. CASE BcastRUnlock
    BY <2>10, BcastGoesOn DEF BcastRUnlock
  <2>11. CASE BcastTest
    BY <2>11, BcastGoesOn DEF BcastTest
  <2>12. CASE BcastSend
    BY <2>12, BcastGoesOn DEF BcastSend
  <2>13. CASE UNCHANGED vars
    BY <2>13, ReadersUnmoved DEF vars, readVars, LinkInv, Types, LockHeld, Stored
  <2>14. QED
    BY <2>1, <2>2, <2>3, <2>4, <2>5, <2>6, <2>7, <2>8, <2>9, <2>10, <2>11, <2>12, <2>13
       DEF Next, RegStore, Alive, Bcast, Readers
<1>2. QED
  BY InitLinkInv, <1>1, PTL DEF Spec

(* The broadcaster, which takes the lock, never uses parts of two          *)
(* addresses.                                                              *)
THEOREM LockedCopyIsWhole == Spec => []WholeCopy
<1>1. LinkInv => WholeCopy
  BY DEF LinkInv, Copied, Whole, WholeCopy
<1>2. QED
  BY RelayLinkInvariant, <1>1, PTL

(* No reader, locking or not, goes by an address that was given up before  *)
(* its turn began.                                                         *)
THEOREM OldAddressesAreNotUsed == Spec => []OnlyInForce
<1>1. LinkInv => OnlyInForce
  <2> SUFFICES ASSUME LinkInv PROVE OnlyInForce
    OBVIOUS
  <2>1. pc["bcast"] = "send" => got["bcast"]["data"] # Zero
    BY RelayLinkAssumption DEF LinkInv, Copied, Whole, NewAddr, Words
  <2>2. QED
    BY <2>1 DEF LinkInv, Remembered, OnlyInForce
<1>2. QED
  BY RelayLinkInvariant, <1>1, PTL
=============================================================================
