----------------------------- MODULE Forwarding -----------------------------
(***************************************************************************)
(* The way of a shred through the gateway: the tail of processShred (relay *)
(* to node), the tail of NetworkListener.Recv or FiredancerSniffer.Recv    *)
(* (node to relay), the two bounded channels and the two broadcasters.     *)
(* Both directions share the de-duplication cache, taken here as the       *)
(* atomic window DedupWindow that AlterKey implements; registration is its *)
(* two effects on the address (see Registration).                          *)
(*                                                                         *)
(* An admitted shred is named by the number of its admission; log records  *)
(* its key, its source and how many clean-ups had happened.                *)
(***************************************************************************)
EXTENDS Naturals, Sequences, FiniteSets

CONSTANTS
  Keys,        \* shred keys
  Extra,       \* extraBroadcastAddrs
  NoValidator, \* noValidator: no node to send to and no local source
  OfrOnly,     \* extraBroadcastFromOFROnly
  Cap,         \* capacity of ofrNodeCh and node2OFRCh
  NoRet,       \* no Set call has returned yet
  MaxEra,      \* bound: clean-ups explored
  MaxLog       \* bound: admissions explored

ASSUME ForwardingAssumption ==
  /\ NoValidator \in BOOLEAN /\ OfrOnly \in BOOLEAN
  /\ Cap \in Nat \ {0} /\ MaxEra \in Nat /\ MaxLog \in Nat
  /\ NoRet \notin Keys \X BOOLEAN
  /\ {"node", "ofr"} \cap Extra = {}

Sources == IF NoValidator THEN {"ofr"} ELSE {"ofr", "local"}

VARIABLES
  life, ret,   \* the cache: see DedupWindow
  reading,     \* [Sources -> "set" | "queue"]: what a source does next
  chan,        \* [Sources -> Seq(Nat)]: ofrNodeCh, node2OFRCh
  hand,        \* [Sources -> 0..MaxLog]: shred the broadcaster works on, 0 = none
  todo,        \* [Sources -> SUBSET Dests]: where it still has to send it
  registered,  \* ofrUDPAddr is not zero
  era,         \* history: clean-ups so far
  log,         \* history: admissions, in order
  fate         \* history: [1..Len(log) -> outcome]

cacheVars == <<life, ret>>
vars == <<cacheVars, reading, chan, hand, todo, registered, era, log, fate>>

Dests == {"node", "ofr"} \cup Extra

Cache == INSTANCE DedupWindow WITH Callers <- Sources

Init ==
  /\ Cache!Init
  /\ reading = [s \in Sources |-> "set"]
  /\ chan = [s \in Sources |-> << >>]
  /\ hand = [s \in Sources |-> 0]
  /\ todo = [s \in Sources |-> {}]
  /\ registered = TRUE
  /\ era = 0 /\ log = << >> /\ fate = << >>

-----------------------------------------------------------------------------
(* A source has a parsed shred with key k and calls cache.Set.             *)

(* Faulty variant: the shred is forwarded without asking the cache.        *)
Admit_Always(s, k) ==
  /\ reading[s] = "set" /\ Len(log) < MaxLog
  /\ life' = Cache!Remember(k)
  /\ ret' = [ret EXCEPT ![s] = <<k, TRUE>>]
  /\ reading' = [reading EXCEPT ![s] = "queue"]
  /\ log' = Append(log, [key |-> k, src |-> s, era |-> era])
  /\ fate' = Append(fate, "pending")
  /\ UNCHANGED <<chan, hand, todo, registered, era>>

Admit(s, k) ==
  /\ reading[s] = "set" /\ Len(log) < MaxLog
  /\ Cache!Admit(s, k)
  /\ reading' = [reading EXCEPT ![s] = "queue"]
  /\ log' = Append(log, [key |-> k, src |-> s, era |-> era])
  /\ fate' = Append(fate, "pending")
  /\ UNCHANGED <<chan, hand, todo, registered, era>>

Refuse(s, k) ==
  /\ reading[s] = "set"
  /\ Cache!Refuse(s, k)
  /\ UNCHANGED <<reading, chan, hand, todo, registered, era, log, fate>>

(* The admission a source has in hand: its latest one.                     *)
Mine(s) == CHOOSE n \in DOMAIN log :
             log[n].src = s /\ \A m \in DOMAIN log : log[m].src = s => m <= n

(* Faulty variant: the channel grows without bound.                        *)
Queue_Unbounded(s) ==
  /\ reading[s] = "queue"
  /\ chan' = [chan EXCEPT ![s] = Append(@, Mine(s))]
  /\ reading' = [reading EXCEPT ![s] = "set"]
  /\ UNCHANGED <<cacheVars, hand, todo, registered, era, log, fate>>

(* The non-blocking send: a full channel drops the shred, which the cache  *)
(* nevertheless remembers.                                                 *)
Queue(s) ==
  /\ reading[s] = "queue"
  /\ \/ /\ Len(chan[s]) < Cap
        /\ chan' = [chan EXCEPT ![s] = Append(@, Mine(s))]
        /\ UNCHANGED fate
     \/ /\ Len(chan[s]) >= Cap
        /\ fate' = [fate EXCEPT ![Mine(s)] = "full"]
        /\ UNCHANGED chan
  /\ reading' = [reading EXCEPT ![s] = "set"]
  /\ UNCHANGED <<cacheVars, hand, todo, registered, era, log>>

(* A round of the cache's cleanup goroutine.                               *)
Cleanup ==
  /\ era < MaxEra
  /\ Cache!Cleanup
  /\ era' = era + 1
  /\ UNCHANGED <<reading, chan, hand, todo, registered, log, fate>>

-----------------------------------------------------------------------------
(* broadcastShredsToNode: the validator first, then the extra addresses.   *)
NodeDests == (IF NoValidator THEN {} ELSE {"node"}) \cup Extra

TakeForNode ==
  /\ hand["ofr"] = 0 /\ chan["ofr"] # << >>
  /\ hand' = [hand EXCEPT !["ofr"] = Head(chan["ofr"])]
  /\ todo' = [todo EXCEPT !["ofr"] = NodeDests]
  /\ chan' = [chan EXCEPT !["ofr"] = Tail(@)]
  /\ UNCHANGED <<cacheVars, reading, registered, era, log, fate>>

(* broadcastShredsToOFR: the address is read once; unregistered, the shred *)
(* is dropped for the extra addresses too.                                 *)
OFRDests == {"ofr"} \cup (IF OfrOnly THEN {} ELSE Extra)

(* Faulty variant: the broadcaster returns when it is not registered.      *)
TakeForOFR_Return ==
  /\ ~NoValidator
  /\ hand["local"] = 0 /\ chan["local"] # << >>
  /\ registered
  /\ hand' = [hand EXCEPT !["local"] = Head(chan["local"])]
  /\ todo' = [todo EXCEPT !["local"] = OFRDests]
  /\ chan' = [chan EXCEPT !["local"] = Tail(@)]
  /\ UNCHANGED <<cacheVars, reading, registered, era, log, fate>>

TakeForOFR ==
  /\ ~NoValidator
  /\ hand["local"] = 0 /\ chan["local"] # << >>
  /\ \/ /\ registered
        /\ hand' = [hand EXCEPT !["local"] = Head(chan["local"])]
        /\ todo' = [todo EXCEPT !["local"] = OFRDests]
        /\ UNCHANGED fate
     \/ /\ ~registered
        /\ fate' = [fate EXCEPT ![Head(chan["local"])] = "unregistered"]
        /\ UNCHANGED <<hand, todo>>
  /\ chan' = [chan EXCEPT !["local"] = Tail(@)]
  /\ UNCHANGED <<cacheVars, reading, registered, era, log>>

(* One UnsafeWrite, whether the system call fails or not (the error is     *)
(* logged): the validator or the relay first, then the extra addresses.    *)
Send(s, d) ==
  /\ hand[s] # 0 /\ d \in todo[s]
  /\ d \in Extra => todo[s] \cap {"node", "ofr"} = {}
  /\ todo' = [todo EXCEPT ![s] = @ \ {d}]
  /\ UNCHANGED <<cacheVars, reading, chan, hand, registered, era, log, fate>>

(* Faulty variant: the next shred is taken before all sends are done.      *)
SendDone_Early(s) ==
  /\ hand[s] # 0 /\ todo[s] # {}
  /\ hand' = [hand EXCEPT ![s] = 0]
  /\ todo' = [todo EXCEPT ![s] = {}]
  /\ UNCHANGED <<cacheVars, reading, chan, registered, era, log, fate>>

SendDone(s) ==
  /\ hand[s] # 0 /\ todo[s] = {}
  /\ fate' = [fate EXCEPT ![hand[s]] = "sent"]
  /\ hand' = [hand EXCEPT ![s] = 0]
  /\ UNCHANGED <<cacheVars, reading, chan, todo, registered, era, log>>

-----------------------------------------------------------------------------
(* Register withdraws the address and publishes another one.               *)
Unregister ==
  /\ registered
  /\ registered' = FALSE
  /\ UNCHANGED <<cacheVars, reading, chan, hand, todo, era, log, fate>>

Publish ==
  /\ ~registered
  /\ registered' = TRUE
  /\ UNCHANGED <<cacheVars, reading, chan, hand, todo, era, log, fate>>

-----------------------------------------------------------------------------
SourceStep(s) == Queue(s) \/ (\E k \in Keys : Admit(s, k) \/ Refuse(s, k))

BroadcastStep(s) == (\E d \in Dests : Send(s, d)) \/ SendDone(s)

Next ==
  \/ \E s \in Sources : SourceStep(s) \/ BroadcastStep(s)
  \/ TakeForNode \/ TakeForOFR
  \/ Cleanup \/ Unregister \/ Publish

(* A goroutine with a shred in hand goes on, a broadcaster takes what is   *)
(* queued.  Arrivals, clean-ups and registration are left to chance.       *)
Fairness ==
  /\ \A s \in Sources : WF_vars(Queue(s)) /\ WF_vars(BroadcastStep(s))
  /\ WF_vars(TakeForNode) /\ WF_vars(TakeForOFR)

Spec     == Init /\ [][Next]_vars
FairSpec == Spec /\ Fairness

-----------------------------------------------------------------------------
Fates == {"pending", "full", "unregistered", "sent"}

TypeOK ==
  /\ Cache!TypeOK
  /\ reading \in [Sources -> {"set", "queue"}]
  /\ \A s \in Sources : Len(chan[s]) <= Cap /\ \A i \in DOMAIN chan[s] : chan[s][i] \in DOMAIN log
  /\ hand \in [Sources -> 0..Len(log)]
  /\ todo \in [Sources -> SUBSET Dests]
  /\ registered \in BOOLEAN /\ era \in 0..MaxEra
  /\ \A n \in DOMAIN log : log[n] \in [key : Keys, src : Sources, era : 0..MaxEra]
  /\ fate \in [DOMAIN log -> Fates]

(* A shred travels once: between two admissions of a key, from whichever   *)
(* side, lie two clean-ups.  In particular what came from the relay and    *)
(* was sent to the node does not go back to the relay when the listener    *)
(* sees it, nor the other way round.                                       *)
NoEcho ==
  \A m, n \in DOMAIN log :
    m < n /\ log[m].key = log[n].key => log[n].era >= log[m].era + Cache!Phases

Held(s, n) == reading[s] = "queue" /\ Mine(s) = n
Queued(s, n) == \E i \in DOMAIN chan[s] : chan[s][i] = n

(* No admitted shred is lost or duplicated on the way: while its outcome   *)
(* is open it is with its source, in its channel or with its broadcaster,  *)
(* in one of them only; once it is decided it is nowhere.                  *)
Accounted ==
  \A n \in DOMAIN log :
    LET s == log[n].src
        places == {p \in {"source", "channel", "broadcaster"} :
                     \/ p = "source" /\ Held(s, n)
                     \/ p = "channel" /\ Queued(s, n)
                     \/ p = "broadcaster" /\ hand[s] = n}
    IN  Cardinality(places) = (IF fate[n] = "pending" THEN 1 ELSE 0)

(* Every admitted shred is dealt with: a stalled registration or a full    *)
(* channel delays no other shred for ever.                                 *)
Drains == \A n \in 1..MaxLog : n \in DOMAIN log ~> n \in DOMAIN log /\ fate[n] # "pending"
=============================================================================
