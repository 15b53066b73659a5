------------------------------- MODULE Stats -------------------------------
(***************************************************************************)
(* Shred statistics (pkg/ofr/stats.go): the recorders of all and of unseen *)
(* shreds by source, the recorder of the first shred of a slot, the        *)
(* goroutine that flushes and logs them, and printUnseenStats              *)
(* (gateway.go), which it offers the records of unseen shreds.  (What is   *)
(* logged and printed of a flushed record is left out.)                    *)
(*                                                                         *)
(* A recorder is a bounded channel, a goroutine that takes what arrives in *)
(* it and a map under a mutex.  Sources are the addresses shreds are       *)
(* recorded under; each has a goroutine that records.                      *)
(***************************************************************************)
EXTENDS Naturals, Sequences, FiniteSets

CONSTANTS
  Sources,    \* addresses: relays and the local one
  Slots,      \* slot and type of a shred, which buildKey makes a key of
  None,       \* nothing in hand
  Cap,        \* shredsRecorderChanBuf
  MaxCalls    \* bound: calls of RecordNewShred by each source

ASSUME StatsAssumption ==
  /\ None \notin Sources \cup Slots
  /\ Cap \in Nat \ {0} /\ MaxCalls \in Nat

Recorders == {"total", "unseen"}

VARIABLES
  caller,    \* [Sources -> "idle" | "set"]: cache.Set comes between two records
  ch,        \* [Recorders -> Seq(Sources)]
  hand,      \* [Recorders -> Sources or None]: what run received
  mp,        \* [Recorders -> [Sources -> Nat]]: Shreds by source
  flusher,   \* the flushing goroutine
  printer,   \* printUnseenStats: "busy" with a record, or "parked" at the channel
  fch,       \* firstShredRecorder: its channel, Seq(Slots)
  fhand,     \* what its goroutine received
  fmp,       \* [Slots -> "absent", "young" or "old"]: record times, old being over a minute
  reported,  \* history: slots whose FIRST line is less than a minute old
  calls,     \* history: [Recorders -> [Sources -> Nat]], calls of record
  dropped,   \* history: of these, the ones that found the channel full
  flushed    \* history: shreds in the records that flush returned

recVars   == <<caller, ch, hand, mp>>
firstVars == <<fch, fhand, fmp, reported>>
vars == <<recVars, flusher, printer, firstVars, calls, dropped, flushed>>

Zeros == [s \in Sources |-> 0]

(* A printer that never comes back from "busy" is also the one that        *)
(* returns at once, without a validator.                                   *)
Init ==
  /\ caller = [s \in Sources |-> "idle"]
  /\ ch = [r \in Recorders |-> << >>]
  /\ hand = [r \in Recorders |-> None]
  /\ mp = [r \in Recorders |-> Zeros]
  /\ flusher = "wait"
  /\ printer = "busy"
  /\ fch = << >> /\ fhand = None
  /\ fmp = [k \in Slots |-> "absent"] /\ reported = {}
  /\ calls = [r \in Recorders |-> Zeros]
  /\ dropped = [r \in Recorders |-> Zeros]
  /\ flushed = [r \in Recorders |-> Zeros]

-----------------------------------------------------------------------------
(* Faulty variant: the channel is unbounded.                               *)
record_Unbounded(r, s) ==
  /\ calls' = [calls EXCEPT ![r][s] = @ + 1]
  /\ ch' = [ch EXCEPT ![r] = Append(@, s)]
  /\ UNCHANGED dropped

(* shredsBySrcRecorder.record: a full channel loses the record.            *)
record(r, s) ==
  /\ calls' = [calls EXCEPT ![r][s] = @ + 1]
  /\ \/ /\ Len(ch[r]) < Cap
        /\ ch' = [ch EXCEPT ![r] = Append(@, s)]
        /\ UNCHANGED dropped
     \/ /\ Len(ch[r]) >= Cap
        /\ dropped' = [dropped EXCEPT ![r][s] = @ + 1]
        /\ UNCHANGED ch

RecordNewShred(s) ==
  /\ caller[s] = "idle" /\ calls["total"][s] < MaxCalls
  /\ record("total", s)
  /\ caller' = [caller EXCEPT ![s] = "set"]
  /\ UNCHANGED <<hand, mp, flusher, printer, firstVars, flushed>>

(* cache.Set refused the shred.                                            *)
SkipUnseen(s) ==
  /\ caller[s] = "set"
  /\ caller' = [caller EXCEPT ![s] = "idle"]
  /\ UNCHANGED <<ch, hand, mp, flusher, printer, firstVars, calls, dropped, flushed>>

(* firstShredRecorder.record.                                              *)
recordFirst(k) == fch' = IF Len(fch) < Cap THEN Append(fch, k) ELSE fch

RecordUnseenShred(s, k) ==
  /\ caller[s] = "set"
  /\ record("unseen", s)
  /\ recordFirst(k)
  /\ caller' = [caller EXCEPT ![s] = "idle"]
  /\ UNCHANGED <<hand, mp, flusher, printer, fhand, fmp, reported, flushed>>

(* shredsBySrcRecorder.run.                                                *)
Receive(r) ==
  /\ hand[r] = None /\ ch[r] # << >>
  /\ hand' = [hand EXCEPT ![r] = Head(ch[r])]
  /\ ch' = [ch EXCEPT ![r] = Tail(@)]
  /\ UNCHANGED <<caller, mp, flusher, printer, firstVars, calls, dropped, flushed>>

Count(r) ==
  /\ hand[r] # None
  /\ mp' = [mp EXCEPT ![r][hand[r]] = @ + 1]
  /\ hand' = [hand EXCEPT ![r] = None]
  /\ UNCHANGED <<caller, ch, flusher, printer, firstVars, calls, dropped, flushed>>

(* firstShredRecorder.run: a slot that is not in the map is reported.      *)
ReceiveFirst ==
  /\ fhand = None /\ fch # << >>
  /\ fhand' = Head(fch) /\ fch' = Tail(fch)
  /\ UNCHANGED <<recVars, flusher, printer, fmp, reported, calls, dropped, flushed>>

ReportFirst ==
  /\ fhand # None
  /\ fhand' = None
  /\ \/ /\ fmp[fhand] = "absent"
        /\ fmp' = [fmp EXCEPT ![fhand] = "young"]
        /\ reported' = reported \cup {fhand}
     \/ fmp[fhand] # "absent" /\ UNCHANGED <<fmp, reported>>
  /\ UNCHANGED <<recVars, flusher, printer, fch, calls, dropped, flushed>>

(* More than a minute has passed since the slot was recorded.              *)
MinutePasses(k) ==
  /\ fmp[k] = "young"
  /\ fmp' = [fmp EXCEPT ![k] = "old"]
  /\ reported' = reported \ {k}
  /\ UNCHANGED <<recVars, flusher, printer, fch, fhand, calls, dropped, flushed>>

-----------------------------------------------------------------------------
(* Faulty variant: the map is copied and not emptied.                      *)
flush_Keep(r) ==
  /\ mp' = mp
  /\ flushed' = [flushed EXCEPT ![r] = [s \in Sources |-> @[s] + mp[r][s]]]

(* shredsBySrcRecorder.flush: the map is emptied under its mutex.  (Its    *)
(* records are returned sorted, which is for the log.)                     *)
flush(r) ==
  /\ mp' = [mp EXCEPT ![r] = Zeros]
  /\ flushed' = [flushed EXCEPT ![r] = [s \in Sources |-> @[s] + mp[r][s]]]

FlushTotal ==
  /\ flusher = "wait"
  /\ flush("total")
  /\ flusher' = "unseen"
  /\ UNCHANGED <<caller, ch, hand, printer, firstVars, calls, dropped>>

FlushUnseen ==
  /\ flusher = "unseen"
  /\ flush("unseen")
  /\ flusher' = "send"
  /\ UNCHANGED <<caller, ch, hand, printer, firstVars, calls, dropped>>

(* Faulty variant: the send waits for printUnseenStats.                    *)
SendUnseen_Blocking ==
  /\ flusher = "send"
  /\ printer = "parked" /\ printer' = "busy"
  /\ flusher' = "log"
  /\ UNCHANGED <<recVars, firstVars, calls, dropped, flushed>>

(* The send on the unbuffered channel succeeds only if printUnseenStats is *)
(* waiting for it.                                                         *)
SendUnseen ==
  /\ flusher = "send"
  /\ \/ printer = "parked" /\ printer' = "busy"
     \/ printer # "parked" /\ UNCHANGED printer
  /\ flusher' = "log"
  /\ UNCHANGED <<recVars, firstVars, calls, dropped, flushed>>

(* logStats.                                                               *)
LogStats ==
  /\ flusher = "log"
  /\ flusher' = "clean"
  /\ UNCHANGED <<recVars, printer, firstVars, calls, dropped, flushed>>

(* Faulty variant: the whole map is emptied.                               *)
Clean_All ==
  /\ flusher = "clean"
  /\ fmp' = [k \in Slots |-> "absent"]
  /\ flusher' = "wait"
  /\ UNCHANGED <<recVars, printer, fch, fhand, reported, calls, dropped, flushed>>

(* firstShredRecorder.clean: entries older than a minute go.               *)
Clean ==
  /\ flusher = "clean"
  /\ fmp' = [k \in Slots |-> IF fmp[k] = "old" THEN "absent" ELSE fmp[k]]
  /\ flusher' = "wait"
  /\ UNCHANGED <<recVars, printer, fch, fhand, reported, calls, dropped, flushed>>

-----------------------------------------------------------------------------
(* printUnseenStats: the share is printed (or it was just started), and    *)
(* the next record is awaited.                                             *)
Park ==
  /\ printer = "busy"
  /\ printer' = "parked"
  /\ UNCHANGED <<recVars, flusher, firstVars, calls, dropped, flushed>>

-----------------------------------------------------------------------------
FlushStep == FlushTotal \/ FlushUnseen \/ SendUnseen \/ LogStats \/ Clean

Next ==
  \/ \E s \in Sources : RecordNewShred(s) \/ SkipUnseen(s)
  \/ \E s \in Sources, k \in Slots : RecordUnseenShred(s, k)
  \/ ReceiveFirst \/ ReportFirst \/ (\E k \in Slots : MinutePasses(k))
  \/ \E r \in Recorders : Receive(r) \/ Count(r)
  \/ FlushStep
  \/ Park

(* The recorders' goroutines run and the flush ticker ticks.  (The printer *)
(* may be slow.)                                                           *)
Fairness ==
  /\ \A r \in Recorders : WF_vars(Receive(r)) /\ WF_vars(Count(r))
  /\ WF_vars(FlushStep)

Spec     == Init /\ [][Next]_vars
FairSpec == Spec /\ Fairness

-----------------------------------------------------------------------------
Counts == [Recorders -> [Sources -> Nat]]

TypeOK ==
  /\ caller \in [Sources -> {"idle", "set"}]
  /\ ch \in [Recorders -> Seq(Sources)] /\ \A r \in Recorders : Len(ch[r]) <= Cap
  /\ hand \in [Recorders -> Sources \cup {None}]
  /\ mp \in Counts
  /\ flusher \in {"wait", "unseen", "send", "log", "clean"}
  /\ fch \in Seq(Slots) /\ Len(fch) <= Cap /\ fhand \in Slots \cup {None}
  /\ fmp \in [Slots -> {"absent", "young", "old"}] /\ reported \subseteq Slots
  /\ printer \in {"busy", "parked"}
  /\ calls \in Counts /\ dropped \in Counts /\ flushed \in Counts

Queued(r, s) == Cardinality({i \in DOMAIN ch[r] : ch[r][i] = s})
InHand(r, s) == IF hand[r] = s THEN 1 ELSE 0

(* Every recorded shred is accounted for: it was dropped at a full channel *)
(* or it is in the channel, with the counting goroutine, in the map or in  *)
(* a flushed record, and in one of them only, although callers, counting   *)
(* goroutine and flush work on them at the same time.                      *)
Conserved ==
  \A r \in Recorders, s \in Sources :
    calls[r][s] = dropped[r][s] + Queued(r, s) + InHand(r, s) + mp[r][s] + flushed[r][s]

(* What was recorded is flushed sooner or later, whether or not            *)
(* printUnseenStats takes the records it is offered.                       *)
AllFlushed ==
  \A r \in Recorders, s \in Sources, n \in 1..MaxCalls :
    calls[r][s] >= n ~> dropped[r][s] + flushed[r][s] >= n

(* "stats: FIRST shred from": a slot is not reported as first again within *)
(* a minute, whatever the recorder and the clean-up of the flush do to the *)
(* map in between.                                                         *)
FirstOnce ==
  [][\A k \in reported : fhand = k /\ fhand' = None => fmp[k] # "absent"]_vars
=============================================================================
