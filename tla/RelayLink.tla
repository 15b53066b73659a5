----------------------------- MODULE RelayLink -----------------------------
(***************************************************************************)
(* The relay's address, g.ofrUDPAddr, word by word: Register withdraws and *)
(* publishes it under ofrUDPAddrMx (gateway.go), broadcastShredsToOFR      *)
(* copies it under the same lock, processShred and sendAliveMessages read  *)
(* it without.  The address is an interface (type and data word) and an IP *)
(* (its bits and its kind); nothing orders the accesses to the words of a  *)
(* variable that is written without synchronisation, so they come in any   *)
(* order.  Registration has the life of the whole address.                 *)
(***************************************************************************)
EXTENDS Naturals

CONSTANTS
  Relays,     \* addresses a relay may grant; each has an IP of its own
  Stranger,   \* any other source of packets
  Zero,       \* a zero word
  Set,        \* the non-zero value of the type and kind words
  Teams       \* sets of readers that run together

Words   == {"tab", "data", "ip", "kind"}
Readers == {"rcv", "alive", "bcast"}

ASSUME RelayLinkAssumption ==
  /\ Stranger \notin Relays
  /\ Zero \notin Relays \cup {Stranger, Set}
  /\ Set \notin Relays
  /\ Teams \subseteq SUBSET Readers

VARIABLES
  word,      \* [Words -> value]: g.ofrUDPAddr
  mx,        \* ofrUDPAddrMx: "free", "read" or "write"
  reg,       \* [pc, to, todo]: Register storing the address to
  pc,        \* [Readers -> control state]
  todo,      \* [Readers -> words not yet read]
  got,       \* [Readers -> [Words -> value]]: words read
  src,       \* source of the packet processShred has in hand
  inForce    \* history: [Readers -> addresses in force since the reader's turn began]

readVars == <<pc, todo, got, src>>
vars == <<word, mx, reg, readVars, inForce>>

(* udp.NewAddr of an IPv4 address, and udp.Addr{}.                         *)
NewAddr(r) == [w \in Words |-> IF w \in {"data", "ip"} THEN r ELSE Set]
NoAddr     == [w \in Words |-> Zero]

(* Addr.IsZero: nil interfaces are equal whatever their data word.         *)
IsZero(a) == \A w \in Words \ {"data"} : a[w] = Zero

(* Start launches the readers once an address is published: the receiver,  *)
(* and the alive messages or, with a validator, the broadcaster.           *)
Init ==
  /\ \E r \in Relays : word = NewAddr(r)
  /\ mx = "free"
  /\ reg = [pc |-> "idle", to |-> NoAddr, todo |-> {}]
  /\ \E T \in Teams : pc = [p \in Readers |-> IF p \in T THEN "idle" ELSE "off"]
  /\ todo = [p \in Readers |-> {}]
  /\ got = [p \in Readers |-> NoAddr]
  /\ src = Stranger
  /\ inForce = [p \in Readers |-> {}]

Running == pc["alive"] # "panic"

-----------------------------------------------------------------------------
(* Register, in the goroutine of reRegister.                               *)

(* An attempt: the old address is to be withdrawn.                         *)
Withdraw ==
  /\ Running /\ reg.pc = "idle"
  /\ reg' = [pc |-> "lock", to |-> NoAddr, todo |-> Words]
  /\ UNCHANGED <<word, mx, readVars, inForce>>

(* The relay has answered; or it has not, and the address stays withdrawn. *)
Answer ==
  /\ Running /\ reg.pc = "rpc"
  /\ \/ \E r \in Relays : reg' = [pc |-> "lock", to |-> NewAddr(r), todo |-> Words]
     \/ reg' = [reg EXCEPT !.pc = "idle"]
  /\ UNCHANGED <<word, mx, readVars, inForce>>

Lock ==
  /\ Running /\ reg.pc = "lock" /\ mx = "free"
  /\ mx' = "write"
  /\ reg' = [reg EXCEPT !.pc = "store"]
  /\ UNCHANGED <<word, readVars, inForce>>

Held(a) == {a["data"], a["ip"]} \cap Relays

(* The words are stored in any order.                                      *)
Store(w) ==
  /\ Running /\ reg.pc = "store" /\ w \in reg.todo
  /\ word' = [word EXCEPT ![w] = reg.to[w]]
  /\ reg' = [reg EXCEPT !.todo = @ \ {w}]
  /\ inForce' = [p \in Readers |-> IF pc[p] \in {"off", "idle"} THEN {}
                                   ELSE inForce[p] \cup Held(word')]
  /\ UNCHANGED <<mx, readVars>>

Unlock ==
  /\ Running /\ reg.pc = "store" /\ reg.todo = {}
  /\ mx' = "free"
  /\ reg' = [reg EXCEPT !.pc = IF reg.to = NoAddr THEN "rpc" ELSE "idle", !.to = NoAddr]
  /\ UNCHANGED <<word, readVars, inForce>>

-----------------------------------------------------------------------------
(* Steps the readers share.                                                *)

GoTo(p, state, words) ==
  /\ pc' = [pc EXCEPT ![p] = state]
  /\ todo' = [todo EXCEPT ![p] = words]

(* A reader begins a turn; what is in force from here on is remembered.    *)
Begin(p, state, words) ==
  /\ Running /\ pc[p] = "idle"
  /\ GoTo(p, state, words)
  /\ inForce' = [inForce EXCEPT ![p] = Held(word)]
  /\ UNCHANGED <<word, reg, got>>

Load(p, w) ==
  /\ Running /\ w \in todo[p]
  /\ got' = [got EXCEPT ![p][w] = word[w]]
  /\ todo' = [todo EXCEPT ![p] = @ \ {w}]
  /\ UNCHANGED <<word, mx, reg, pc, src, inForce>>

(* All words of this state are read: the reader goes on, or back.          *)
Decide(p, state, next, words, kept) ==
  /\ Running /\ pc[p] = state /\ todo[p] = {}
  /\ GoTo(p, next, words)
  /\ got' = [got EXCEPT ![p] = [w \in Words |-> IF w \in kept THEN got[p][w] ELSE Zero]]
  /\ inForce' = [inForce EXCEPT ![p] = IF next = "idle" THEN {} ELSE @]
  /\ UNCHANGED <<word, reg>>

-----------------------------------------------------------------------------
(* processShred: a packet is read, the address tested and compared.        *)

RecvPacket(s) ==
  /\ Begin("rcv", "test", Words \ {"data"})
  /\ src' = s
  /\ UNCHANGED mx

RecvTest ==
  /\ IF IsZero(got["rcv"]) THEN Decide("rcv", "test", "idle", {}, {})
                           ELSE Decide("rcv", "test", "match", {"ip", "kind"}, {})
  /\ UNCHANGED <<mx, src>>

(* Faulty variant: any address but the zero one will do.                   *)
Matches_NonZero(a) == a["kind"] # Zero

(* addr.NetipAddr = g.ofrUDPAddr.NetipAddr, for a packet over IPv4.        *)
Matches(a) == a["ip"] = src /\ a["kind"] = Set

RecvMatch ==
  /\ Decide("rcv", "match", IF Matches(got["rcv"]) THEN "admitted" ELSE "idle", {}, {})
  /\ UNCHANGED <<mx, src>>

RecvNext == Decide("rcv", "admitted", "idle", {}, {}) /\ UNCHANGED <<mx, src>>

-----------------------------------------------------------------------------
(* sendAliveMessages: the address is tested, then used.                    *)

AliveTick == Begin("alive", "test", Words \ {"data"}) /\ UNCHANGED <<mx, src>>

AliveTest ==
  /\ IF IsZero(got["alive"]) THEN Decide("alive", "test", "idle", {}, {})
                             ELSE Decide("alive", "test", "use", {"tab", "data"}, {})
  /\ UNCHANGED <<mx, src>>

(* Faulty variant: an error ends the loop.                                 *)
AliveOutcome_Return(a) ==
  IF a["tab"] = Zero THEN "off" ELSE IF a["data"] = Zero THEN "panic" ELSE "sent"

(* Sendmsg with the words read: without an address it is an error, which   *)
(* is logged; an address type without the address is dereferenced.         *)
AliveOutcome(a) ==
  IF a["tab"] = Zero THEN "idle" ELSE IF a["data"] = Zero THEN "panic" ELSE "sent"

AliveSend ==
  /\ Decide("alive", "use", AliveOutcome(got["alive"]), {}, {"data"})
  /\ UNCHANGED <<mx, src>>

AliveNext == Decide("alive", "sent", "idle", {}, {}) /\ UNCHANGED <<mx, src>>

-----------------------------------------------------------------------------
(* broadcastShredsToOFR: the address is copied under the read lock, which  *)
(* waits for a writer that holds or awaits the lock.                       *)

(* Faulty variant: the copy is made without the lock.                      *)
BcastRLock_Missing == Begin("bcast", "copy", Words) /\ UNCHANGED <<mx, src>>

BcastRLock ==
  /\ mx = "free" /\ reg.pc # "lock"
  /\ Begin("bcast", "copy", Words)
  /\ mx' = "read"
  /\ UNCHANGED src

(* Faulty variant: the path on which nothing is sent keeps the lock.       *)
BcastRUnlock_NonZero ==
  /\ Decide("bcast", "copy", "test", {}, Words)
  /\ mx' = IF IsZero(got["bcast"]) THEN "read" ELSE "free"
  /\ UNCHANGED src

BcastRUnlock ==
  /\ Decide("bcast", "copy", "test", {}, Words)
  /\ mx' = "free"
  /\ UNCHANGED src

BcastTest ==
  /\ IF IsZero(got["bcast"]) THEN Decide("bcast", "test", "idle", {}, {})
                             ELSE Decide("bcast", "test", "send", {}, Words)
  /\ UNCHANGED <<mx, src>>

BcastSend == Decide("bcast", "send", "idle", {}, {}) /\ UNCHANGED <<mx, src>>

-----------------------------------------------------------------------------
RegStore == Lock \/ (\E w \in Words : Store(w)) \/ Unlock

Alive ==
  \/ AliveTick \/ AliveTest \/ AliveSend \/ AliveNext
  \/ \E w \in Words : Load("alive", w)

Bcast ==
  \/ BcastRUnlock \/ BcastTest \/ BcastSend
  \/ \E w \in Words : Load("bcast", w)

Next ==
  \/ Withdraw \/ Answer \/ RegStore
  \/ (\E s \in Relays \cup {Stranger} : RecvPacket(s))
  \/ RecvTest \/ RecvMatch \/ RecvNext \/ (\E w \in Words : Load("rcv", w))
  \/ Alive
  \/ BcastRLock \/ Bcast

Spec == Init /\ [][Next]_vars

(* A goroutine that can run does; the ticker of the alive messages ticks.  *)
(* Attempts, answers, packets and shreds are not forced.                   *)
FairSpec == Spec /\ WF_vars(RegStore) /\ WF_vars(Alive) /\ WF_vars(Bcast)

-----------------------------------------------------------------------------
(* The lock protects the broadcaster: what it sends to is a whole address, *)
(* never the parts of two, although Register stores it word by word.       *)
WholeCopy ==
  pc["bcast"] = "send" => \E r \in Relays : got["bcast"] = NewAddr(r)

(* A relay that was left is left: a packet is admitted only if its source  *)
(* was the relay at some moment since the packet was read, and alive       *)
(* messages and shreds go only to an address that was in force at some     *)
(* moment since the sender's turn began, with or without the lock.         *)
OnlyInForce ==
  /\ pc["rcv"] = "admitted" => src \in inForce["rcv"]
  /\ pc["alive"] = "sent" => got["alive"]["data"] \in inForce["alive"]
  /\ pc["bcast"] = "send" => got["bcast"]["data"] \in inForce["bcast"]

(* Register is not held up by the readers: it gets the lock although       *)
(* shreds to be sent keep coming.                                          *)
RegisterGetsLock == reg.pc = "lock" /\ Running ~> reg.pc = "store" \/ ~Running

(* While the gateway stays registered alive messages go out again and      *)
(* again, also after a turn that met a half-written address and failed.    *)
AliveGoesOn ==
  (pc["alive"] # "off" /\ <>[](reg.pc = "idle" /\ ~IsZero(word) /\ Running))
    => []<>(pc["alive"] = "sent")
=============================================================================
