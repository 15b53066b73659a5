-------------------------- MODULE ForwardingProofs --------------------------
(***************************************************************************)
(* Proofs about forwarding, for any keys, extra addresses, capacity and    *)
(* bounds, with and without a validator.                                   *)
(***************************************************************************)
EXTENDS Forwarding, FiniteSetTheorems, TLAPS

Admissions == [key : Keys, src : Sources, era : 0..MaxEra]

(* The types with the sequences being sequences.                           *)
Types ==
  /\ life \in [Keys -> 0..2]
  /\ ret \in [Sources -> {NoRet} \cup (Keys \X BOOLEAN)]
  /\ reading \in [Sources -> {"set", "queue"}]
  /\ chan \in [Sources -> Seq(Nat)]
  /\ hand \in [Sources -> Nat]
  /\ todo \in [Sources -> SUBSET Dests]
  /\ registered \in BOOLEAN /\ era \in 0..MaxEra
  /\ log \in Seq(Admissions)
  /\ fate \in Seq(Fates) /\ Len(fate) = Len(log)

(* An admission is in the past, and what is left of its key's life and the *)
(* clean-ups since make up the two phases at least.                        *)
Window ==
  \A n \in DOMAIN log :
    /\ log[n].era <= era
    /\ life[log[n].key] + era >= log[n].era + 2

(* n is the last admission of s.                                           *)
Latest(s, n) ==
  /\ n \in DOMAIN log /\ log[n].src = s
  /\ \A m \in DOMAIN log : log[m].src = s => m <= n

(* A source about to queue has admitted something.                         *)
HasLatest == \A s \in Sources : reading[s] = "queue" => \E n \in DOMAIN log : Latest(s, n)

(* Channels are bounded and contain, as the broadcaster has in hand,       *)
(* admissions of their source that are still open, in their order.         *)
Channels ==
  \A s \in Sources :
    /\ Len(chan[s]) <= Cap
    /\ \A i \in DOMAIN chan[s] :
         /\ chan[s][i] \in DOMAIN log
         /\ log[chan[s][i]].src = s
         /\ fate[chan[s][i]] = "pending"
    /\ \A i, j \in DOMAIN chan[s] : i < j => chan[s][i] < chan[s][j]

InHand ==
  \A s \in Sources :
    hand[s] # 0 =>
      /\ hand[s] \in DOMAIN log
      /\ log[hand[s]].src = s
      /\ fate[hand[s]] = "pending"
      /\ \A i \in DOMAIN chan[s] : hand[s] < chan[s][i]

(* The admission a source has in hand is open and came after what it       *)
(* queued.                                                                 *)
AtSource ==
  \A s \in Sources, n \in DOMAIN log :
    reading[s] = "queue" /\ Latest(s, n) =>
      /\ fate[n] = "pending"
      /\ \A i \in DOMAIN chan[s] : chan[s][i] < n
      /\ hand[s] < n

(* An open admission is somewhere.                                         *)
Somewhere ==
  \A s \in Sources, n \in DOMAIN log :
    log[n].src = s /\ fate[n] = "pending" =>
      \/ reading[s] = "queue" /\ Latest(s, n)
      \/ Queued(s, n)
      \/ hand[s] = n

FInv ==
  /\ Types /\ Window /\ HasLatest /\ Channels /\ InHand /\ AtSource /\ Somewhere
-----------------------------------------------------------------------------
(* What an entry of the log is.                                            *)
LEMMA EntryType ==
  ASSUME Types, NEW n \in DOMAIN log
  PROVE  /\ n \in 1..Len(log) /\ fate[n] \in Fates
         /\ log[n].key \in Keys /\ log[n].src \in Sources
         /\ log[n].era \in 0..MaxEra /\ log[n].era \in Nat
<1>1. n \in 1..Len(log) /\ log[n] \in Admissions /\ fate[n] \in Fates
  BY DEF Types
<1>2. QED
  BY <1>1, ForwardingAssumption DEF Admissions

(* A channel that something is sent to, and one that something is taken    *)
(* from.                                                                   *)
LEMMA Sent ==
  ASSUME NEW q \in Seq(Nat), NEW n \in Nat
  PROVE  /\ Append(q, n) \in Seq(Nat) /\ Len(q) \in Nat
         /\ DOMAIN q = 1..Len(q) /\ DOMAIN Append(q, n) = 1..Len(q) + 1
         /\ Len(Append(q, n)) = Len(q) + 1
         /\ \A i \in DOMAIN q : Append(q, n)[i] = q[i]
         /\ Append(q, n)[Len(q) + 1] = n
OBVIOUS

(* Receiving from a channel moves every other item one place forward.      *)
LEMMA Received ==
  ASSUME NEW q \in Seq(Nat), q # << >>
  PROVE  /\ Head(q) \in Nat /\ Tail(q) \in Seq(Nat) /\ Len(Tail(q)) <= Len(q)
         /\ 1 \in DOMAIN q /\ q[1] = Head(q)
         /\ \A i \in DOMAIN Tail(q) : i \in Nat /\ i > 0 /\ i + 1 \in DOMAIN q /\ Tail(q)[i] = q[i + 1]
         /\ \A i \in DOMAIN q : i \in Nat /\ (i # 1 => i - 1 \in DOMAIN Tail(q) /\ Tail(q)[i - 1] = q[i])
OBVIOUS

(* The last admission of a source is the one it has in hand.               *)
LEMMA LatestIsMine ==
  ASSUME Types, NEW s \in Sources, NEW n \in DOMAIN log, Latest(s, n)
  PROVE  Mine(s) = n
<1>1. \A m \in DOMAIN log : Latest(s, m) => m = n
  <2> SUFFICES ASSUME NEW m \in DOMAIN log, Latest(s, m) PROVE m = n
    OBVIOUS
  <2>1. m <= n /\ n <= m
    BY DEF Latest
  <2>2. m \in Nat /\ n \in Nat
    BY DEF Types
  <2>3. QED
    BY <2>1, <2>2
<1>2. QED
  BY <1>1 DEF Mine, Latest

(* The invariant holds when the workers are started.                       *)
LEMMA InitFInv == Init => FInv
<1> SUFFICES ASSUME Init PROVE FInv
  OBVIOUS
<1> USE ForwardingAssumption DEF Init
<1>1. Types
  BY DEF Types, Cache!Init, Admissions, Fates
<1>2. Window /\ HasLatest /\ Channels /\ InHand /\ AtSource /\ Somewhere
  BY DEF Window, HasLatest, Channels, InHand, AtSource, Somewhere
<1>3. QED
  BY <1>1, <1>2 DEF FInv

(* A step that leaves the shreds on their way alone only has to keep the   *)
(* types and the window.                                                   *)
LEMMA ShredsUnmoved ==
  ASSUME FInv, Types', Window', UNCHANGED <<reading, chan, hand, log, fate>>
  PROVE  FInv'
<1>1. \A s, n : Latest(s, n)' <=> Latest(s, n)
  BY DEF Latest
<1>2. HasLatest' /\ AtSource' /\ Somewhere'
  BY <1>1 DEF FInv, HasLatest, AtSource, Somewhere, Queued
<1>3. Channels' /\ InHand'
  BY DEF FInv, Channels, InHand
<1>4. QED
  BY <1>2, <1>3 DEF FInv

(* A clean-up takes one from a life and adds one to the era.               *)
LEMMA CleanupKeeps == ASSUME FInv, Cleanup PROVE FInv'
<1> USE ForwardingAssumption DEF FInv, Cleanup, Cache!Cleanup, Cache!Aged
<1>1. Types'
  BY DEF Types
<1>2. Window'
  <2> SUFFICES ASSUME NEW n \in DOMAIN log
               PROVE  log[n].era <= era' /\ life'[log[n].key] + era' >= log[n].era + 2
    BY DEF Window
  <2>1. log[n].key \in Keys /\ log[n].era \in Nat /\ era \in Nat
    BY EntryType DEF Types
  <2>2. life[log[n].key] \in 0..2
    BY <2>1 DEF Types
  <2>3. log[n].era <= era /\ life[log[n].key] + era >= log[n].era + 2
    BY DEF Window
  <2>4. QED
    BY <2>1, <2>2, <2>3
<1>3. QED
  BY <1>1, <1>2, ShredsUnmoved

(* Refused shreds, sends and registration move no shred.                   *)
LEMMA OthersKeep ==
  ASSUME FInv,
         \/ \E s \in Sources, k \in Keys : Refuse(s, k)
         \/ \E s \in Sources, d \in Dests : Send(s, d)
         \/ Unregister \/ Publish
  PROVE  FInv'
<1>1. UNCHANGED <<life, era, reading, chan, hand, log, fate>>
  BY DEF Refuse, Cache!Refuse, Send, Unregister, Publish, cacheVars
<1>2. Window'
  BY <1>1 DEF FInv, Window
<1>3. Types'
  <2>1. ret' \in [Sources -> {NoRet} \cup (Keys \X BOOLEAN)]
    <3>1. CASE UNCHANGED ret
      BY <3>1 DEF FInv, Types
    <3>2. ASSUME NEW s \in Sources, NEW k \in Keys, ret' = [ret EXCEPT ![s] = <<k, FALSE>>]
          PROVE  ret' \in [Sources -> {NoRet} \cup (Keys \X BOOLEAN)]
      BY <3>2, Zenon DEF FInv, Types
    <3>3. QED
      BY <3>1, <3>2 DEF Refuse, Cache!Refuse, Send, Unregister, Publish, cacheVars
  <2>2. todo' \in [Sources -> SUBSET Dests]
    BY DEF FInv, Types, Refuse, Send, Unregister, Publish
  <2>3. registered' \in BOOLEAN
    BY Zenon DEF FInv, Types, Refuse, Send, Unregister, Publish
  <2>4. QED
    BY <1>1, <2>1, <2>2, <2>3, Zenon DEF FInv, Types
<1>4. QED
  BY <1>1, <1>2, <1>3, ShredsUnmoved

(* The log grows by an admission of source s with key k.                   *)
LEMMA Appended ==
  ASSUME Types, NEW s \in Sources, NEW k \in Keys, Admit(s, k)
  PROVE  /\ Types'
         /\ Len(log') = Len(log) + 1 /\ Len(log) \in Nat
         /\ DOMAIN log = 1..Len(log) /\ DOMAIN log' = 1..Len(log) + 1
         /\ \A n \in DOMAIN log : log'[n] = log[n] /\ fate'[n] = fate[n]
         /\ log'[Len(log) + 1] = [key |-> k, src |-> s, era |-> era]
         /\ fate'[Len(log) + 1] = "pending"
<1> DEFINE e == [key |-> k, src |-> s, era |-> era]
<1>1. e \in Admissions
  BY DEF Types, Admissions
<1>2. log' = Append(log, e) /\ fate' = Append(fate, "pending")
  BY DEF Admit
<1>3. "pending" \in Fates
  BY DEF Fates
<1>4. log \in Seq(Admissions) /\ fate \in Seq(Fates) /\ Len(fate) = Len(log)
  BY DEF Types
<1> HIDE DEF e
<1>5. /\ log' \in Seq(Admissions) /\ fate' \in Seq(Fates) /\ Len(fate') = Len(log')
      /\ Len(log') = Len(log) + 1 /\ Len(log) \in Nat
      /\ DOMAIN log = 1..Len(log) /\ DOMAIN log' = 1..Len(log) + 1
      /\ \A n \in DOMAIN log : log'[n] = log[n] /\ fate'[n] = fate[n]
      /\ log'[Len(log) + 1] = e /\ fate'[Len(log) + 1] = "pending"
  BY <1>1, <1>2, <1>3, <1>4
<1>6. ret' \in [Sources -> {NoRet} \cup (Keys \X BOOLEAN)]
  BY Zenon DEF Types, Admit, Cache!Admit
<1>7. life' \in [Keys -> 0..2] /\ reading' \in [Sources -> {"set", "queue"}]
  BY DEF Types, Admit, Cache!Admit, Cache!Remember, Cache!Phases
<1>8. UNCHANGED <<chan, hand, todo, registered, era>>
  BY DEF Admit
<1>9. Types'
  BY <1>5, <1>6, <1>7, <1>8, Zenon DEF Types
<1>10. QED
  BY <1>5, <1>9 DEF e

(* An admission: the cache did not know the key, so that its earlier       *)
(* admissions are two clean-ups old.                                       *)
LEMMA AdmitKeeps == ASSUME FInv, NEW s \in Sources, NEW k \in Keys, Admit(s, k) PROVE FInv'
<1>0. PICK N \in Nat : N = Len(log) + 1
  BY DEF FInv, Types
<1>1. /\ Types' /\ Len(log) \in Nat
      /\ DOMAIN log = 1..Len(log) /\ DOMAIN log' = 1..N
      /\ \A n \in DOMAIN log : log'[n] = log[n] /\ fate'[n] = fate[n]
      /\ log'[N] = [key |-> k, src |-> s, era |-> era] /\ fate'[N] = "pending"
  BY <1>0, Appended DEF FInv
<1>2. /\ UNCHANGED <<chan, hand, era>> /\ reading[s] = "set"
      /\ reading' = [reading EXCEPT ![s] = "queue"]
      /\ life' = [life EXCEPT ![k] = 2]
  BY DEF Admit, Cache!Admit, Cache!Remember, Cache!Phases
<1>3. Types
  BY DEF FInv
<1>4. \A t \in Sources : reading'[t] = (IF t = s THEN "queue" ELSE reading[t])
  BY <1>2, <1>3 DEF Types
<1>5. DOMAIN log' = DOMAIN log \cup {N} /\ \A n \in DOMAIN log : n \in Nat /\ n < N
  BY <1>0, <1>1
<1>6. Window'
  <2> SUFFICES ASSUME NEW n \in DOMAIN log'
               PROVE  log'[n].era <= era' /\ life'[log'[n].key] + era' >= log'[n].era + 2
    BY DEF Window
  <2>1. era \in Nat /\ life[k] \in 0..2 /\ life'[k] = 2
    BY <1>2, <1>3, ForwardingAssumption DEF Types
  <2>2. CASE n = N
    BY <1>1, <1>2, <2>1, <2>2
  <2>3. CASE n \in DOMAIN log
    <3>1. log[n].key \in Keys /\ log[n].era \in Nat
      BY <1>3, <2>3, EntryType
    <3>2. life[log[n].key] \in 0..2 /\ life'[log[n].key] \in {2, life[log[n].key]}
      BY <1>2, <1>3, <3>1 DEF Types
    <3>3. log[n].era <= era /\ life[log[n].key] + era >= log[n].era + 2
      BY <2>3 DEF FInv, Window
    <3>4. QED
      BY <1>1, <1>2, <2>1, <2>3, <3>1, <3>2, <3>3
  <2>4. QED
    BY <1>5, <2>2, <2>3
<1>7. /\ Latest(s, N)'
      /\ \A n \in DOMAIN log : ~Latest(s, n)'
      /\ \A t \in Sources \ {s} : ~Latest(t, N)'
      /\ \A t \in Sources \ {s}, n \in DOMAIN log : Latest(t, n)' <=> Latest(t, n)
  <2>1. log'[N].src = s
    BY <1>1
  <2>2. \A n \in DOMAIN log : log'[n].src = log[n].src
    BY <1>1
  <2>3. Latest(s, N)'
    BY <1>5, <2>1 DEF Latest
  <2>4. \A n \in DOMAIN log : ~Latest(s, n)'
    BY <1>5, <2>1 DEF Latest
  <2>5. \A t \in Sources \ {s} : ~Latest(t, N)'
    BY <2>1 DEF Latest
  <2>6. ASSUME NEW t \in Sources \ {s}, NEW n \in DOMAIN log
        PROVE  Latest(t, n)' <=> Latest(t, n)
    BY <1>5, <2>1, <2>2 DEF Latest
  <2>7. QED
    BY <2>3, <2>4, <2>5, <2>6
<1>8. HasLatest'
  BY <1>4, <1>5, <1>7 DEF FInv, HasLatest
<1>9. Channels'
  BY <1>1, <1>2, <1>5 DEF FInv, Channels
<1>10. InHand'
  BY <1>1, <1>2, <1>5 DEF FInv, InHand
<1>11. AtSource'
  <2>1. (\A i \in DOMAIN chan[s] : chan[s][i] < N) /\ hand[s] < N
    BY <1>1, <1>5 DEF FInv, Channels, InHand
  <2> SUFFICES ASSUME NEW t \in Sources, NEW n \in DOMAIN log',
                      reading'[t] = "queue", Latest(t, n)'
               PROVE  /\ fate'[n] = "pending"
                      /\ \A i \in DOMAIN chan[t] : chan[t][i] < n
                      /\ hand[t] < n
    BY <1>2 DEF AtSource
  <2>2. CASE t = s
    BY <1>1, <1>5, <1>7, <2>1, <2>2
  <2>3. CASE t # s
    <3>1. n \in DOMAIN log /\ Latest(t, n) /\ reading[t] = "queue"
      BY <1>4, <1>5, <1>7, <2>3
    <3>2. QED
      BY <1>1, <3>1 DEF FInv, AtSource
  <2>4. QED
    BY <2>2, <2>3
<1>12. Somewhere'
  <2> SUFFICES ASSUME NEW t \in Sources, NEW n \in DOMAIN log',
                      log'[n].src = t, fate'[n] = "pending"
               PROVE  (reading'[t] = "queue" /\ Latest(t, n)') \/ Queued(t, n)' \/ hand'[t] = n
    BY DEF Somewhere
  <2>1. CASE n = N
    BY <1>1, <1>4, <1>7, <2>1
  <2>2. CASE n \in DOMAIN log
    <3>1. \/ reading[t] = "queue" /\ Latest(t, n)
          \/ Queued(t, n) \/ hand[t] = n
      BY <1>1, <2>2 DEF FInv, Somewhere
    <3>2. reading[t] = "queue" /\ Latest(t, n) => reading'[t] = "queue" /\ Latest(t, n)'
      BY <1>2, <1>4, <1>7, <2>2
    <3>3. Queued(t, n)' <=> Queued(t, n)
      BY <1>2 DEF Queued
    <3>4. QED
      BY <1>2, <3>1, <3>2, <3>3
  <2>3. QED
    BY <1>5, <2>1, <2>2
<1>13. QED
  BY <1>1, <1>6, <1>8, <1>9, <1>10, <1>11, <1>12 DEF FInv

(* As long as nothing is admitted the latest admissions stay.              *)
LEMMA SameLatest ==
  ASSUME UNCHANGED log, NEW s, NEW n PROVE Latest(s, n)' <=> Latest(s, n)
BY DEF Latest

(* Steps that touch neither the cache nor the log keep the window.         *)
LEMMA SameWindow ==
  ASSUME Window, UNCHANGED <<life, era, log>> PROVE Window'
BY DEF Window

(* What a source has in hand is put in the channel.                        *)
LEMMA QueueRoom ==
  ASSUME FInv, NEW s \in Sources, Queue(s), Len(chan[s]) < Cap
  PROVE  FInv'
<1>1. PICK n \in DOMAIN log : Latest(s, n)
  BY DEF FInv, HasLatest, Queue
<1>2. Mine(s) = n /\ n \in Nat /\ Types /\ chan[s] \in Seq(Nat)
  BY <1>1, LatestIsMine DEF FInv, Types
<1>3. /\ UNCHANGED <<life, ret, hand, todo, registered, era, log, fate>>
      /\ reading' = [reading EXCEPT ![s] = "set"] /\ reading[s] = "queue"
      /\ chan' = [chan EXCEPT ![s] = Append(chan[s], n)]
  BY <1>2, ForwardingAssumption, Sent DEF Queue, cacheVars
<1>4. Types'
  BY <1>2, <1>3, Sent DEF Types
<1>5. /\ \A t \in Sources : chan'[t] = IF t = s THEN Append(chan[s], n) ELSE chan[t]
      /\ \A t \in Sources : reading'[t] = IF t = s THEN "set" ELSE reading[t]
  BY <1>2, <1>3 DEF Types
<1>6. /\ DOMAIN chan[s] = 1..Len(chan[s]) /\ DOMAIN chan'[s] = 1..Len(chan[s]) + 1
      /\ Len(chan[s]) \in Nat /\ Len(chan'[s]) = Len(chan[s]) + 1
      /\ \A i \in DOMAIN chan[s] : chan'[s][i] = chan[s][i]
      /\ chan'[s][Len(chan[s]) + 1] = n
  <2>1. chan'[s] = Append(chan[s], n)
    BY <1>5
  <2>2. QED
    BY <1>2, <2>1
<1>7. /\ fate[n] = "pending" /\ log[n].src = s /\ hand[s] < n
      /\ \A i \in DOMAIN chan[s] : chan[s][i] < n
  BY <1>1, <1>3 DEF FInv, AtSource, Latest
<1>8. Window'
  BY <1>3, SameWindow DEF FInv
<1>9. HasLatest' /\ AtSource'
  BY <1>3, <1>5, SameLatest DEF FInv, HasLatest, AtSource
<1>10. Channels'
  <2> SUFFICES ASSUME NEW t \in Sources
               PROVE  /\ Len(chan'[t]) <= Cap
                      /\ \A i \in DOMAIN chan'[t] :
                           /\ chan'[t][i] \in DOMAIN log /\ log[chan'[t][i]].src = t
                           /\ fate[chan'[t][i]] = "pending"
                      /\ \A i, j \in DOMAIN chan'[t] : i < j => chan'[t][i] < chan'[t][j]
    BY <1>3 DEF Channels
  <2>1. CASE t # s
    BY <1>5, <2>1 DEF FInv, Channels
  <2>2. CASE t = s
    <3>1. Len(chan'[s]) <= Cap
      BY <1>6, ForwardingAssumption
    <3>2. \A i \in DOMAIN chan'[s] : \/ i \in DOMAIN chan[s] /\ chan'[s][i] = chan[s][i]
                                   \/ chan'[s][i] = n
      BY <1>6
    <3>3. \A i \in DOMAIN chan'[s] :
            /\ chan'[s][i] \in DOMAIN log /\ log[chan'[s][i]].src = s
            /\ fate[chan'[s][i]] = "pending"
      BY <1>1, <1>7, <3>2 DEF FInv, Channels
    <3>4. ASSUME NEW i \in DOMAIN chan'[s], NEW j \in DOMAIN chan'[s], i < j
          PROVE  chan'[s][i] < chan'[s][j]
      <4>1. i \in DOMAIN chan[s] /\ chan'[s][i] = chan[s][i]
        BY <1>6, <3>4
      <4>2. QED
        BY <1>6, <1>7, <3>4, <4>1 DEF FInv, Channels
    <3>5. QED
      BY <2>2, <3>1, <3>3, <3>4
  <2>3. QED
    BY <2>1, <2>2
<1>11. InHand'
  <2> SUFFICES ASSUME NEW t \in Sources, hand[t] # 0
               PROVE  /\ hand[t] \in DOMAIN log /\ log[hand[t]].src = t
                      /\ fate[hand[t]] = "pending"
                      /\ \A i \in DOMAIN chan'[t] : hand[t] < chan'[t][i]
    BY <1>3 DEF InHand
  <2>1. CASE t # s
    BY <1>5, <2>1 DEF FInv, InHand
  <2>2. CASE t = s
    BY <1>6, <1>7, <2>2 DEF FInv, InHand
  <2>3. QED
    BY <2>1, <2>2
<1>12. Somewhere'
  <2> SUFFICES ASSUME NEW t \in Sources, NEW m \in DOMAIN log, log[m].src = t, fate[m] = "pending"
               PROVE  (reading'[t] = "queue" /\ Latest(t, m)') \/ Queued(t, m)' \/ hand[t] = m
    BY <1>3 DEF Somewhere
  <2>1. (reading[t] = "queue" /\ Latest(t, m)) \/ Queued(t, m) \/ hand[t] = m
    BY DEF FInv, Somewhere
  <2>2. CASE t # s
    BY <1>3, <1>5, <2>1, <2>2, SameLatest DEF Queued
  <2>3. CASE t = s
    <3>1. Latest(t, m) => m = n
      BY <1>1, <1>2, <2>3, LatestIsMine
    <3>2. Queued(t, n)'
      BY <1>6, <2>3 DEF Queued
    <3>3. Queued(t, m) => Queued(t, m)'
      BY <1>6, <2>3 DEF Queued
    <3>4. QED
      BY <2>1, <3>1, <3>2, <3>3
  <2>4. QED
    BY <2>2, <2>3
<1>13. QED
  BY <1>4, <1>8, <1>9, <1>10, <1>11, <1>12 DEF FInv

(* The channel is full and what the source has in hand is dropped.         *)
LEMMA QueueFull ==
  ASSUME FInv, NEW s \in Sources, Queue(s), ~(Len(chan[s]) < Cap)
  PROVE  FInv'
<1>1. PICK n \in DOMAIN log : Latest(s, n)
  BY DEF FInv, HasLatest, Queue
<1>2. Mine(s) = n /\ Types /\ n \in DOMAIN fate
  BY <1>1, LatestIsMine DEF FInv, Types
<1>3. /\ UNCHANGED <<life, ret, chan, hand, todo, registered, era, log>>
      /\ reading' = [reading EXCEPT ![s] = "set"] /\ reading[s] = "queue"
      /\ fate' = [fate EXCEPT ![n] = "full"]
  BY <1>2 DEF Queue, cacheVars
<1>4. Types'
  BY <1>2, <1>3 DEF Types, Fates
<1>5. /\ \A m \in DOMAIN log : fate'[m] = IF m = n THEN "full" ELSE fate[m]
      /\ \A t \in Sources : reading'[t] = IF t = s THEN "set" ELSE reading[t]
  BY <1>2, <1>3 DEF Types
<1>6. /\ log[n].src = s /\ hand[s] # n
      /\ \A i \in DOMAIN chan[s] : chan[s][i] # n
  BY <1>1, <1>2, <1>3 DEF FInv, AtSource, Latest, Types
<1>7. Window'
  BY <1>3, SameWindow DEF FInv
<1>8. HasLatest'
  BY <1>3, <1>5, SameLatest DEF FInv, HasLatest
<1>9. Channels'
  BY <1>3, <1>5, <1>6 DEF FInv, Channels
<1>10. InHand'
  BY <1>3, <1>5, <1>6 DEF FInv, InHand
<1>11. AtSource'
  <2>1. ASSUME NEW t \in Sources, NEW m \in DOMAIN log, t # s, Latest(t, m) PROVE m # n
    BY <1>6, <2>1 DEF Latest
  <2>2. QED
    BY <1>3, <1>5, <2>1, SameLatest DEF FInv, AtSource
<1>12. Somewhere'
  <2> SUFFICES ASSUME NEW t \in Sources, NEW m \in DOMAIN log, log[m].src = t, fate'[m] = "pending"
               PROVE  (reading'[t] = "queue" /\ Latest(t, m)') \/ Queued(t, m)' \/ hand[t] = m
    BY <1>3 DEF Somewhere
  <2>1. m # n /\ fate[m] = "pending"
    BY <1>5
  <2>2. (reading[t] = "queue" /\ Latest(t, m)) \/ Queued(t, m) \/ hand[t] = m
    BY <2>1 DEF FInv, Somewhere
  <2>3. Latest(s, m) => m = n
    BY <1>2, LatestIsMine
  <2>4. Queued(t, m)' <=> Queued(t, m)
    BY <1>3 DEF Queued
  <2>5. QED
    BY <1>3, <1>5, <2>1, <2>2, <2>3, <2>4, SameLatest
<1>13. QED
  BY <1>4, <1>7, <1>8, <1>9, <1>10, <1>11, <1>12 DEF FInv

(* The first shred h of the channel of s was taken; the others have moved  *)
(* up.                                                                     *)
Shifted(s, h) ==
  /\ chan' \in [Sources -> Seq(Nat)]
  /\ \A t \in Sources : t # s => chan'[t] = chan[t]
  /\ h \in DOMAIN log /\ log[h].src = s /\ fate[h] = "pending"
  /\ Len(chan'[s]) <= Cap
  /\ \A i \in DOMAIN chan'[s] :
       (\E j \in DOMAIN chan[s] : chan'[s][i] = chan[s][j]) /\ h < chan'[s][i]
  /\ \A i, j \in DOMAIN chan'[s] : i < j => chan'[s][i] < chan'[s][j]
  /\ \A n : n # h /\ Queued(s, n) => Queued(s, n)'

(* The queue loses its head and every other item moves one place forward.  *)
LEMMA TakenShifts ==
  ASSUME FInv, NEW s \in Sources, chan[s] # << >>, NEW h, h = Head(chan[s]),
         chan' = [chan EXCEPT ![s] = Tail(chan[s])]
  PROVE  Shifted(s, h)
<1>1. chan[s] \in Seq(Nat) /\ chan \in [Sources -> Seq(Nat)]
  BY DEF FInv, Types
<1>2. chan'[s] = Tail(chan[s]) /\ \A t \in Sources : t # s => chan'[t] = chan[t]
  BY <1>1
<1>3. /\ h = chan[s][1] /\ 1 \in DOMAIN chan[s]
      /\ Tail(chan[s]) \in Seq(Nat) /\ Len(chan'[s]) <= Len(chan[s])
      /\ \A i \in DOMAIN chan'[s] :
           i \in Nat /\ i > 0 /\ i + 1 \in DOMAIN chan[s] /\ chan'[s][i] = chan[s][i + 1]
      /\ \A i \in DOMAIN chan[s] :
           i # 1 => i - 1 \in DOMAIN chan'[s] /\ chan'[s][i - 1] = chan[s][i]
  BY <1>1, <1>2, Received
<1>4. chan' \in [Sources -> Seq(Nat)]
  BY <1>1, <1>3
<1>5. h \in DOMAIN log /\ log[h].src = s /\ fate[h] = "pending"
  BY <1>3 DEF FInv, Channels
<1>6. ASSUME NEW i \in DOMAIN chan'[s] PROVE h < chan'[s][i]
  <2>1. i + 1 \in DOMAIN chan[s] /\ chan'[s][i] = chan[s][i + 1] /\ 1 < i + 1
    BY <1>3
  <2>2. QED
    BY <1>3, <2>1 DEF FInv, Channels
<1>7. ASSUME NEW n, n # h, Queued(s, n) PROVE Queued(s, n)'
  <2>1. PICK i \in DOMAIN chan[s] : chan[s][i] = n
    BY <1>7 DEF Queued
  <2>2. i - 1 \in DOMAIN chan'[s] /\ chan'[s][i - 1] = n
    BY <1>3, <1>7, <2>1
  <2>3. QED
    BY <2>2 DEF Queued
<1>8. Len(chan'[s]) <= Cap
  <2>1. Len(chan[s]) <= Cap /\ Len(chan[s]) \in Nat /\ Len(chan'[s]) \in Nat
    BY <1>1, <1>2, <1>3 DEF FInv, Channels
  <2>2. QED
    BY <1>3, <2>1, ForwardingAssumption
<1>9. ASSUME NEW i \in DOMAIN chan'[s], NEW j \in DOMAIN chan'[s], i < j
      PROVE  chan'[s][i] < chan'[s][j]
  <2>1. i + 1 \in DOMAIN chan[s] /\ j + 1 \in DOMAIN chan[s] /\ i + 1 < j + 1
    BY <1>3, <1>9
  <2>2. QED
    BY <1>3, <2>1 DEF FInv, Channels
<1>10. QED
  BY <1>2, <1>3, <1>4, <1>5, <1>6, <1>7, <1>8, <1>9 DEF Shifted

(* A broadcaster takes a shred in hand.                                    *)
LEMMA TakeKeeps ==
  ASSUME FInv, NEW s \in Sources, NEW D \in SUBSET Dests,
         hand[s] = 0, chan[s] # << >>,
         hand' = [hand EXCEPT ![s] = Head(chan[s])],
         todo' = [todo EXCEPT ![s] = D],
         chan' = [chan EXCEPT ![s] = Tail(chan[s])],
         UNCHANGED <<life, ret, reading, registered, era, log, fate>>
  PROVE  FInv'
<1>0. PICK h : h = Head(chan[s])
  OBVIOUS
<1>1. Shifted(s, h)
  BY <1>0, TakenShifts
<1>2. Types /\ h \in Nat
  BY <1>1 DEF Shifted, FInv, Types
<1>3. \A t \in Sources : hand'[t] = IF t = s THEN h ELSE hand[t]
  BY <1>0, <1>2 DEF Types
<1>4. Types'
  <2>1. hand' \in [Sources -> Nat] /\ todo' \in [Sources -> SUBSET Dests]
    BY <1>0, <1>2 DEF Types
  <2>2. QED
    BY <1>1, <1>2, <2>1 DEF Shifted, Types
<1>5. h = chan[s][1] /\ 1 \in DOMAIN chan[s] /\ chan[s] \in Seq(Nat)
  BY <1>0, <1>2, Received DEF Types
<1>6. Window' /\ HasLatest'
  BY SameWindow, SameLatest DEF FInv, HasLatest
<1>7. Channels'
  BY <1>1 DEF Shifted, FInv, Channels
<1>8. InHand'
  BY <1>1, <1>3 DEF Shifted, FInv, InHand
<1>9. AtSource'
  <2> SUFFICES ASSUME NEW t \in Sources, NEW n \in DOMAIN log, reading[t] = "queue", Latest(t, n)
               PROVE  /\ fate[n] = "pending"
                      /\ \A i \in DOMAIN chan'[t] : chan'[t][i] < n
                      /\ hand'[t] < n
    BY SameLatest DEF AtSource
  <2>1. fate[n] = "pending" /\ (\A i \in DOMAIN chan[t] : chan[t][i] < n) /\ hand[t] < n
    BY DEF FInv, AtSource
  <2>2. QED
    BY <1>1, <1>3, <1>5, <2>1 DEF Shifted
<1>10. Somewhere'
  <2> SUFFICES ASSUME NEW t \in Sources, NEW m \in DOMAIN log, log[m].src = t, fate[m] = "pending"
               PROVE  (reading[t] = "queue" /\ Latest(t, m)') \/ Queued(t, m)' \/ hand'[t] = m
    BY DEF Somewhere
  <2>1. (reading[t] = "queue" /\ Latest(t, m)) \/ Queued(t, m) \/ hand[t] = m
    BY DEF FInv, Somewhere
  <2>2. m # 0
    BY <1>2 DEF Types
  <2>3. CASE t = s
    BY <1>1, <1>3, <2>1, <2>2, <2>3, SameLatest DEF Shifted
  <2>4. CASE t # s
    BY <1>1, <1>3, <2>1, <2>4, SameLatest DEF Shifted, Queued
  <2>5. QED
    BY <2>3, <2>4
<1>11. QED
  BY <1>4, <1>6, <1>7, <1>8, <1>9, <1>10 DEF FInv

(* An unregistered broadcaster drops what it takes.                        *)
LEMMA DropKeeps ==
  ASSUME FInv, NEW s \in Sources, hand[s] = 0, chan[s] # << >>,
         fate' = [fate EXCEPT ![Head(chan[s])] = "unregistered"],
         chan' = [chan EXCEPT ![s] = Tail(chan[s])],
         UNCHANGED <<life, ret, reading, hand, todo, registered, era, log>>
  PROVE  FInv'
<1>0. PICK h : h = Head(chan[s])
  OBVIOUS
<1>1. Shifted(s, h)
  BY <1>0, TakenShifts
<1>2. Types /\ h \in Nat /\ h # 0 /\ DOMAIN fate = DOMAIN log
  BY <1>1 DEF Shifted, FInv, Types
<1>3. \A n \in DOMAIN log : fate'[n] = IF n = h THEN "unregistered" ELSE fate[n]
  BY <1>0, <1>2
<1>4. Types'
  BY <1>0, <1>1, <1>2 DEF Shifted, Types, Fates
<1>5. h = chan[s][1] /\ 1 \in DOMAIN chan[s] /\ chan[s] \in Seq(Nat)
  BY <1>0, <1>2, Received DEF Types
<1>6. Window' /\ HasLatest'
  BY SameWindow, SameLatest DEF FInv, HasLatest
<1>7. Channels'
  <2>1. \A t \in Sources : t # s => \A i \in DOMAIN chan[t] : chan[t][i] # h
    BY <1>1 DEF Shifted, FInv, Channels
  <2>2. QED
    <3> SUFFICES ASSUME NEW t \in Sources
                 PROVE  /\ Len(chan'[t]) <= Cap
                        /\ \A i \in DOMAIN chan'[t] :
                             /\ chan'[t][i] \in DOMAIN log /\ log[chan'[t][i]].src = t
                             /\ fate'[chan'[t][i]] = "pending"
                        /\ \A i, j \in DOMAIN chan'[t] : i < j => chan'[t][i] < chan'[t][j]
      BY DEF Channels
    <3>1. CASE t # s
      BY <1>1, <1>3, <2>1, <3>1 DEF Shifted, FInv, Channels
    <3>2. CASE t = s
      BY <1>1, <1>2, <1>3, <3>2 DEF Shifted, FInv, Channels
    <3>3. QED
      BY <3>1, <3>2
<1>8. InHand'
  <2>1. \A t \in Sources : hand[t] # 0 => t # s /\ hand[t] # h /\ chan'[t] = chan[t]
    BY <1>1 DEF Shifted, FInv, InHand
  <2>2. QED
    BY <1>3, <2>1 DEF FInv, InHand
<1>9. AtSource'
  <2> SUFFICES ASSUME NEW t \in Sources, NEW n \in DOMAIN log, reading[t] = "queue", Latest(t, n)
               PROVE  /\ fate'[n] = "pending"
                      /\ \A i \in DOMAIN chan'[t] : chan'[t][i] < n
                      /\ hand[t] < n
    BY SameLatest DEF AtSource
  <2>1. fate[n] = "pending" /\ (\A i \in DOMAIN chan[t] : chan[t][i] < n) /\ hand[t] < n
    BY DEF FInv, AtSource
  <2>2. log[n].src = t
    BY DEF Latest
  <2>3. n # h
    BY <1>1, <1>2, <1>5, <2>1, <2>2 DEF Shifted
  <2>4. QED
    BY <1>1, <1>3, <2>1, <2>3 DEF Shifted
<1>10. Somewhere'
  <2> SUFFICES ASSUME NEW t \in Sources, NEW m \in DOMAIN log, log[m].src = t, fate'[m] = "pending"
               PROVE  (reading[t] = "queue" /\ Latest(t, m)') \/ Queued(t, m)' \/ hand[t] = m
    BY DEF Somewhere
  <2>1. m # h /\ fate[m] = "pending"
    BY <1>3
  <2>2. (reading[t] = "queue" /\ Latest(t, m)) \/ Queued(t, m) \/ hand[t] = m
    BY <2>1 DEF FInv, Somewhere
  <2>3. Queued(t, m) => Queued(t, m)'
    <3>1. t # s => (Queued(t, m)' <=> Queued(t, m))
      BY <1>1 DEF Shifted, Queued
    <3>2. QED
      BY <1>1, <2>1, <3>1 DEF Shifted
  <2>4. QED
    BY <2>2, <2>3, SameLatest
<1>11. QED
  BY <1>4, <1>6, <1>7, <1>8, <1>9, <1>10 DEF FInv

(* All sends of the shred in hand are done.                                *)
LEMMA SendDoneKeeps == ASSUME FInv, NEW s \in Sources, SendDone(s) PROVE FInv'
<1>0. PICK h : h = hand[s]
  OBVIOUS
<1>1. /\ h # 0 /\ h \in DOMAIN log /\ log[h].src = s /\ fate[h] = "pending"
      /\ \A i \in DOMAIN chan[s] : h < chan[s][i]
  BY <1>0 DEF FInv, InHand, SendDone
<1>2. /\ UNCHANGED <<life, ret, reading, chan, todo, registered, era, log>>
      /\ fate' = [fate EXCEPT ![h] = "sent"] /\ hand' = [hand EXCEPT ![s] = 0]
  BY <1>0 DEF SendDone, cacheVars
<1>3. Types /\ h \in Nat /\ DOMAIN fate = DOMAIN log
  BY <1>1 DEF FInv, Types
<1>4. Types'
  BY <1>1, <1>2, <1>3 DEF Types, Fates
<1>5. /\ \A n \in DOMAIN log : fate'[n] = IF n = h THEN "sent" ELSE fate[n]
      /\ \A t \in Sources : hand'[t] = IF t = s THEN 0 ELSE hand[t]
  BY <1>2, <1>3 DEF Types
<1>6. Window' /\ HasLatest'
  BY <1>2, SameWindow, SameLatest DEF FInv, HasLatest
<1>7. Channels'
  <2>1. \A t \in Sources : \A i \in DOMAIN chan[t] : chan[t][i] # h
    BY <1>1, <1>3 DEF FInv, Channels
  <2>2. QED
    BY <1>2, <1>5, <2>1 DEF FInv, Channels
<1>8. InHand'
  <2>1. \A t \in Sources : hand'[t] # 0 => t # s /\ hand'[t] = hand[t] /\ hand[t] # h
    BY <1>1, <1>5 DEF FInv, InHand
  <2>2. QED
    BY <1>2, <1>5, <2>1 DEF FInv, InHand
<1>9. AtSource'
  <2> SUFFICES ASSUME NEW t \in Sources, NEW n \in DOMAIN log, reading[t] = "queue", Latest(t, n)
               PROVE  /\ fate'[n] = "pending"
                      /\ \A i \in DOMAIN chan[t] : chan[t][i] < n
                      /\ hand'[t] < n
    BY <1>2, SameLatest DEF AtSource
  <2>1. fate[n] = "pending" /\ (\A i \in DOMAIN chan[t] : chan[t][i] < n) /\ hand[t] < n
    BY DEF FInv, AtSource
  <2>2. log[n].src = t /\ n \in Nat /\ n > 0
    BY <1>3 DEF Latest, Types
  <2>3. n # h
    BY <1>0, <1>1, <1>3, <2>1, <2>2
  <2>4. QED
    BY <1>5, <2>1, <2>2, <2>3
<1>10. Somewhere'
  <2> SUFFICES ASSUME NEW t \in Sources, NEW m \in DOMAIN log, log[m].src = t, fate'[m] = "pending"
               PROVE  (reading[t] = "queue" /\ Latest(t, m)') \/ Queued(t, m)' \/ hand'[t] = m
    BY <1>2 DEF Somewhere
  <2>1. m # h /\ fate[m] = "pending"
    BY <1>5
  <2>2. (reading[t] = "queue" /\ Latest(t, m)) \/ Queued(t, m) \/ hand[t] = m
    BY <2>1 DEF FInv, Somewhere
  <2>3. Queued(t, m)' <=> Queued(t, m)
    BY <1>2 DEF Queued
  <2>4. QED
    BY <1>0, <1>2, <1>5, <2>1, <2>2, <2>3, SameLatest
<1>11. QED
  BY <1>4, <1>6, <1>7, <1>8, <1>9, <1>10 DEF FInv

-----------------------------------------------------------------------------
(* The inductive invariant of forwarding.                                  *)
THEOREM ForwardingInvariant == Spec => []FInv
<1>1. FInv /\ [Next]_vars => FInv'
  <2> SUFFICES ASSUME FInv, [Next]_vars PROVE FInv'
    OBVIOUS
  <2>1. ASSUME NEW s \in Sources, NEW k \in Keys, Admit(s, k) PROVE FInv'
    BY <2>1, AdmitKeeps
  <2>2. ASSUME NEW s \in Sources, Queue(s) PROVE FInv'
    BY <2>2, QueueRoom, QueueFull
  <2>3. ASSUME NEW s \in Sources, NEW k \in Keys, Refuse(s, k) PROVE FInv'
    BY <2>3, OthersKeep
  <2>4. ASSUME NEW s \in Sources, NEW d \in Dests, Send(s, d) PROVE FInv'
    BY <2>4, OthersKeep
  <2>5. ASSUME NEW s \in Sources, SendDone(s) PROVE FInv'
    BY <2>5, SendDoneKeeps
  <2>6. CASE TakeForNode
    <3>1. "ofr" \in Sources /\ NodeDests \in SUBSET Dests
      BY DEF Sources, NodeDests, Dests
    <3>2. QED
      BY <2>6, <3>1, TakeKeeps DEF TakeForNode, cacheVars
  <2>7. CASE TakeForOFR
    <3>1. "local" \in Sources /\ OFRDests \in SUBSET Dests
      BY <2>7 DEF TakeForOFR, Sources, OFRDests, Dests
    <3>2. CASE registered
      BY <2>7, <3>1, <3>2, TakeKeeps DEF TakeForOFR, cacheVars
    <3>3. CASE ~registered
      BY <2>7, <3>1, <3>3, DropKeeps DEF TakeForOFR, cacheVars
    <3>4. QED
      BY <3>2, <3>3
  <2>8. CASE Cleanup
    BY <2>8, CleanupKeeps
  <2>9. CASE Unregister \/ Publish
    BY <2>9, OthersKeep
  <2>10. CASE UNCHANGED vars
    <3>1. UNCHANGED <<life, ret, todo, registered, era, reading, chan, hand, log, fate>>
      BY <2>10 DEF vars, cacheVars
    <3>2. Types' /\ Window'
      BY <3>1, SameWindow DEF FInv, Types
    <3>3. QED
      BY <3>1, <3>2, ShredsUnmoved
  <2>11. QED
    BY <2>1, <2>2, <2>3, <2>4, <2>5, <2>6, <2>7, <2>8, <2>9, <2>10
       DEF Next, SourceStep, BroadcastStep
<1>2. QED
  BY InitFInv, <1>1, PTL DEF Spec

(* The values stay in their ranges: channels are bounded, what is queued   *)
(* or in hand was admitted.                                                *)
THEOREM ForwardingTypes == Spec => []TypeOK
<1>1. FInv => TypeOK
  <2> SUFFICES ASSUME FInv PROVE TypeOK
    OBVIOUS
  <2>1. Types
    BY DEF FInv
  <2>2. Cache!TypeOK
    BY <2>1 DEF Types, Cache!TypeOK, Cache!Phases
  <2>3. \A s \in Sources : Len(chan[s]) <= Cap /\ \A i \in DOMAIN chan[s] : chan[s][i] \in DOMAIN log
    BY DEF FInv, Channels
  <2>4. hand \in [Sources -> 0..Len(log)]
    <3>1. \A s \in Sources : hand[s] \in 0..Len(log)
      BY <2>1 DEF FInv, InHand, Types
    <3>2. QED
      BY <2>1, <3>1 DEF Types
  <2>5. fate \in [DOMAIN log -> Fates]
    BY <2>1 DEF Types
  <2>6. \A n \in DOMAIN log : log[n] \in Admissions
    BY <2>1 DEF Types
  <2>7. QED
    BY <2>1, <2>2, <2>3, <2>4, <2>5, <2>6, Zenon DEF Types, TypeOK, Admissions
<1>2. QED
  BY ForwardingInvariant, <1>1, PTL

(* Two clean-ups lie between two admissions of a key, from either side.    *)
THEOREM ShredsTravelOnce == Spec => []NoEcho
<1>1. Init => NoEcho
  BY DEF Init, NoEcho
<1>2. FInv /\ NoEcho /\ [Next]_vars => NoEcho'
  <2> SUFFICES ASSUME FInv, NoEcho, [Next]_vars PROVE NoEcho'
    OBVIOUS
  <2>1. ASSUME NEW s \in Sources, NEW k \in Keys, Admit(s, k) PROVE NoEcho'
    <3> SUFFICES ASSUME NEW m \in DOMAIN log', NEW n \in DOMAIN log',
                        m < n, log'[m].key = log'[n].key
                 PROVE  log'[n].era >= log'[m].era + 2
      BY DEF NoEcho, Cache!Phases
    <3>1. /\ Len(log) \in Nat /\ DOMAIN log = 1..Len(log) /\ DOMAIN log' = 1..Len(log) + 1
          /\ \A i \in DOMAIN log : log'[i] = log[i]
          /\ log'[Len(log) + 1] = [key |-> k, src |-> s, era |-> era]
      BY <2>1, Appended DEF FInv
    <3>2. m \in DOMAIN log /\ log'[m] = log[m]
      BY <3>1
    <3>3. CASE n \in DOMAIN log
      BY <3>1, <3>2, <3>3 DEF NoEcho, Cache!Phases
    <3>4. CASE n = Len(log) + 1
      <4>1. log[m].key = k /\ log'[n].era = era
        BY <3>1, <3>2, <3>4
      <4>2. life[k] = 0
        BY <2>1 DEF Admit, Cache!Admit
      <4>3. life[log[m].key] + era >= log[m].era + 2
        BY <3>2 DEF FInv, Window
      <4>4. era \in Nat /\ log[m].era \in Nat
        BY <3>2, EntryType DEF FInv, Types
      <4>5. QED
        BY <3>2, <4>1, <4>2, <4>3, <4>4
    <3>5. QED
      BY <3>1, <3>3, <3>4
  <2>2. CASE UNCHANGED log
    BY <2>2 DEF NoEcho
  <2>3. QED
    BY <2>1, <2>2 DEF Next, SourceStep, BroadcastStep, vars, Queue, Refuse, Send, SendDone,
       TakeForNode, TakeForOFR, Cleanup, Unregister, Publish
<1>3. QED
  BY ForwardingInvariant, <1>1, <1>2, PTL DEF Spec

(* No admitted shred is lost or duplicated on the way.                     *)
THEOREM NothingLostOrDuplicated == Spec => []Accounted
<1>1. FInv => Accounted
  <2> SUFFICES ASSUME FInv, NEW n \in DOMAIN log, NEW s \in Sources, s = log[n].src,
                      NEW P, P = {p \in {"source", "channel", "broadcaster"} :
                                   \/ p = "source" /\ Held(s, n)
                                   \/ p = "channel" /\ Queued(s, n)
                                   \/ p = "broadcaster" /\ hand[s] = n}
               PROVE  Cardinality(P) = (IF fate[n] = "pending" THEN 1 ELSE 0)
    BY EntryType DEF Accounted, FInv
  <2>1. Types /\ n \in Nat /\ n # 0
    BY DEF FInv, Types
  <2>2. Held(s, n) <=> reading[s] = "queue" /\ Latest(s, n)
    <3>1. CASE reading[s] = "queue"
      <4>1. PICK m \in DOMAIN log : Latest(s, m)
        BY <3>1 DEF FInv, HasLatest
      <4>2. Mine(s) = m
        BY <2>1, <4>1, LatestIsMine
      <4>3. Latest(s, n) => Mine(s) = n
        BY <2>1, LatestIsMine
      <4>4. QED
        BY <3>1, <4>1, <4>2, <4>3 DEF Held
    <3>2. QED
      BY <3>1 DEF Held
  <2>3. Held(s, n) => fate[n] = "pending" /\ ~Queued(s, n) /\ hand[s] # n
    BY <2>1, <2>2 DEF FInv, AtSource, Queued
  <2>4. Queued(s, n) => fate[n] = "pending" /\ hand[s] # n
    BY <2>1 DEF FInv, Channels, InHand, Queued
  <2>5. hand[s] = n => fate[n] = "pending"
    BY <2>1 DEF FInv, InHand
  <2>6. CASE fate[n] = "pending"
    <3>1. Held(s, n) \/ Queued(s, n) \/ hand[s] = n
      BY <2>2, <2>6 DEF FInv, Somewhere
    <3>2. P = {"source"} \/ P = {"channel"} \/ P = {"broadcaster"}
      BY <2>3, <2>4, <3>1
    <3>3. QED
      BY <2>6, <3>2, FS_Singleton
  <2>7. CASE fate[n] # "pending"
    <3>1. P = {}
      BY <2>3, <2>4, <2>5, <2>7
    <3>2. QED
      BY <2>7, <3>1, FS_EmptySet
  <2>8. QED
    BY <2>6, <2>7
<1>2. QED
  BY ForwardingInvariant, <1>1, PTL
=============================================================================
