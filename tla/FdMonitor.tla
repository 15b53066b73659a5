----------------------------- MODULE FdMonitor -----------------------------
(***************************************************************************)
(* The Firedancer shred monitor (fd_shred_monitor.c) and the goroutine     *)
(* that polls it (FiredancerSniffer.Recv).                                 *)
(*                                                                         *)
(* The validator publishes batches of shreds in shared memory: the shreds  *)
(* in a chunk of the dcache, then a descriptor in the ring mcache.  The    *)
(* monitor only reads: nothing holds the validator back, and every read of *)
(* the ring or of a batch sees what is in memory at that moment.  A shred  *)
(* is named by the sequence number of its batch and its place in it.  The  *)
(* validator is external and goes at its own pace; the history variable    *)
(* overrun tells whether it was ever more than a ring ahead.               *)
(***************************************************************************)
EXTENDS Naturals, Sequences

CONSTANTS
  Depth,      \* mcache_depth
  NumChunks,  \* batches the dcache has room for
  MaxCount,   \* SHRED34_MAX_COUNT
  MaxSeq,     \* bound: batches published
  Faults,     \* what may be wrong with a batch: subset of AllFaults
  None

(* sz: descriptor size outside 1..FD_SHRED_STORE_MTU; chunk: offset out of *)
(* bounds; empty: shred_cnt is 0; large: it exceeds SHRED34_MAX_COUNT.     *)
AllFaults == {"sz", "chunk", "empty", "large"}

ASSUME FdMonitorAssumption ==
  /\ Depth \in Nat \ {0} /\ NumChunks \in Nat /\ NumChunks > Depth
  /\ MaxCount \in Nat \ {0} /\ MaxSeq \in Nat
  /\ Faults \subseteq AllFaults
  /\ None \notin Nat

(* A batch: its shred_cnt and what is wrong with its descriptor.           *)
Batches ==
  {b \in [cnt : 0 .. MaxCount + 1, fault : {"none", "sz", "chunk"}] :
     \/ b.fault = "none" /\ b.cnt \in 1 .. MaxCount
     \/ b.fault = "none" /\ b.cnt = 0 /\ "empty" \in Faults
     \/ b.fault = "none" /\ b.cnt > MaxCount /\ "large" \in Faults
     \/ b.fault \in Faults /\ b.cnt = 1}

Sound(b) == b.fault = "none" /\ b.cnt \in 1 .. MaxCount

Slots  == 0 .. Depth - 1
Chunks == 0 .. NumChunks - 1

VARIABLES
  mcache,   \* [Slots -> [seq, fault]]: the descriptors (the chunk follows from seq)
  dcache,   \* [Chunks -> [seq, cnt]]: whose shreds are in a chunk, shred_cnt
  pub,      \* sequence number of the newest descriptor
  filled,   \* the chunk of batch pub + 1 is written, its descriptor is not
  published,\* history: what was filled, Seq(Batches)
  overrun,  \* history: a batch was written more than Depth ahead of the monitor
  scan,     \* next slot the loop of shred_monitor_init looks at
  last,     \* last_seq (max_seq while scanning)
  cur,      \* current_batch: a chunk or None
  idx,      \* current_shred_idx
  pc,       \* where NewFiredancerSniffer and then Recv are
  info,     \* shred_info: [seq, idx] of the shred whose header was read
  log,      \* history: what Recv has copied, [seq, idx, payload]
  since,    \* history: newest batch when the monitor was attached
  start,    \* history: last_seq after shred_monitor_init
  ctx       \* the context: "live" or "done"

shared  == <<mcache, dcache, pub, filled, published, overrun>>
monitor == <<last, cur, idx>>
history == <<log, since, start>>
vars == <<shared, monitor, scan, pc, info, history, ctx>>

Attached == {"loop", "get", "load", "copy", "sleep", "exit"}

SlotOf(n)  == n % Depth
ChunkOf(n) == n % NumChunks

Init ==
  /\ mcache = [s \in Slots |-> [seq |-> 0, fault |-> "sz"]]
  /\ dcache = [c \in Chunks |-> [seq |-> 0, cnt |-> 0]]
  /\ pub = 0 /\ filled = FALSE /\ published = << >> /\ overrun = FALSE
  /\ scan = 0 /\ last = 0 /\ cur = None /\ idx = 0
  /\ pc = "attach" /\ info = [seq |-> 0, idx |-> 0]
  /\ log = << >> /\ since = 0 /\ start = 0
  /\ ctx = "live"

-----------------------------------------------------------------------------
(* The validator.                                                          *)

(* The newest batch the monitor is sure to be done with.                   *)
Reader == IF pc \in Attached THEN last ELSE IF pc = "scan" THEN since ELSE pub

(* The shreds of the next batch are written over an old batch.             *)
Fill(b) ==
  /\ ~filled /\ pub < MaxSeq
  /\ dcache' = [dcache EXCEPT ![ChunkOf(pub + 1)] = [seq |-> pub + 1, cnt |-> b.cnt]]
  /\ published' = Append(published, b)
  /\ filled' = TRUE
  /\ overrun' = (overrun \/ pub + 1 > Reader + Depth)
  /\ UNCHANGED <<mcache, pub, monitor, scan, pc, info, history, ctx>>

(* Its descriptor replaces an old one.                                     *)
Publish ==
  /\ filled
  /\ pub' = pub + 1
  /\ mcache' = [mcache EXCEPT ![SlotOf(pub + 1)] =
                  [seq |-> pub + 1, fault |-> published[pub + 1].fault]]
  /\ filled' = FALSE
  /\ UNCHANGED <<dcache, published, overrun, monitor, scan, pc, info, history, ctx>>

Validator == Publish \/ \E b \in Batches : Fill(b)

-----------------------------------------------------------------------------
(* shred_monitor_init.                                                     *)

(* There is no usable workspace: NewFiredancerSniffer returns an error.    *)
AttachFails ==
  /\ pc = "attach"
  /\ pc' = "done"
  /\ UNCHANGED <<shared, monitor, scan, info, history, ctx>>

(* attach_workspace and find_mcache succeed.  (What the batches published  *)
(* before were like is of no interest any more.)                           *)
Attach ==
  /\ pc = "attach"
  /\ pc' = "scan"
  /\ since' = pub
  /\ published' = [n \in DOMAIN published |->
                     IF n <= pub THEN [cnt |-> 1, fault |-> "none"] ELSE published[n]]
  /\ UNCHANGED <<mcache, dcache, pub, filled, overrun, monitor, scan, info, log, start, ctx>>

(* Faulty variant: the last slot is left out.                              *)
ScanSlot_OffByOne ==
  /\ pc = "scan" /\ scan < Depth - 1
  /\ last' = IF mcache[scan].seq > last THEN mcache[scan].seq ELSE last
  /\ scan' = scan + 1
  /\ pc' = IF scan + 1 = Depth - 1 THEN "loop" ELSE "scan"
  /\ start' = last'
  /\ UNCHANGED <<shared, cur, idx, info, log, since, ctx>>

(* One step of the loop that looks for the newest descriptor.              *)
ScanSlot ==
  /\ pc = "scan" /\ scan < Depth
  /\ last' = IF mcache[scan].seq > last THEN mcache[scan].seq ELSE last
  /\ scan' = scan + 1
  /\ pc' = IF scan + 1 = Depth THEN "loop" ELSE "scan"
  /\ start' = last'
  /\ UNCHANGED <<shared, cur, idx, info, log, since, ctx>>

-----------------------------------------------------------------------------
(* Recv and shred_monitor_get_next.                                        *)

(* Faulty variant: the context is not looked at.                           *)
LoopCheck_NoContext ==
  /\ pc = "loop"
  /\ pc' = "get"
  /\ UNCHANGED <<shared, monitor, scan, info, history, ctx>>

(* The head of the loop: the monitor runs (only Recv stops it); is the     *)
(* context done?                                                           *)
LoopCheck ==
  /\ pc = "loop"
  /\ pc' = IF ctx = "done" THEN "exit" ELSE "get"
  /\ UNCHANGED <<shared, monitor, scan, info, history, ctx>>

(* Faulty variant: the index may reach the count.                          *)
InBatch_OffByOne == cur # None /\ idx <= dcache[cur].cnt

(* Faulty variant: a batch is left after its first shred.                  *)
InBatch_First == cur # None /\ idx < 1

InBatch == cur # None /\ idx < dcache[cur].cnt

(* The next shred of the current batch: its header is read.                *)
GetCurrent ==
  /\ pc = "get" /\ InBatch
  /\ info' = [seq |-> dcache[cur].seq, idx |-> idx]
  /\ idx' = idx + 1
  /\ pc' = "copy"
  /\ UNCHANGED <<shared, last, cur, scan, history, ctx>>

(* Faulty variant: the slot of the last batch is looked at, not the next.  *)
NextSlot_OffByOne == mcache[SlotOf(last)]

NextSlot == mcache[SlotOf(last + 1)]

(* The batch is finished; the slot of the next one holds its descriptor.   *)
GetFrag ==
  /\ pc = "get" /\ ~InBatch
  /\ NextSlot.seq = last + 1 /\ NextSlot.fault # "sz"
  /\ pc' = "load"
  /\ UNCHANGED <<shared, monitor, scan, info, history, ctx>>

(* Or it does not: the call returns 0.                                     *)
GetNothing ==
  /\ pc = "get" /\ ~InBatch
  /\ ~(NextSlot.seq = last + 1 /\ NextSlot.fault # "sz")
  /\ pc' = "sleep"
  /\ UNCHANGED <<shared, monitor, scan, info, history, ctx>>

(* load_batch_from_chunk, which reads the descriptor's chunk and then the  *)
(* batch: NULL makes the call return -1; a large batch is written to, but  *)
(* the workspace is mapped PROT_READ.  A loaded batch is current, and the  *)
(* call starts again with it.                                              *)
Load ==
  /\ pc = "load"
  /\ LET chunk == ChunkOf(NextSlot.seq)
         cnt   == dcache[chunk].cnt
     IN  \/ /\ NextSlot.fault = "chunk" \/ cnt = 0
            /\ pc' = "exit"
            /\ UNCHANGED monitor
         \/ /\ NextSlot.fault # "chunk" /\ cnt > MaxCount
            /\ pc' = "crashed"
            /\ UNCHANGED monitor
         \/ /\ NextSlot.fault # "chunk" /\ cnt \in 1 .. MaxCount
            /\ cur' = chunk /\ idx' = 0 /\ last' = last + 1
            /\ pc' = "get"
  /\ UNCHANGED <<shared, scan, info, history, ctx>>

(* Recv copies the payload the call pointed to, then parses and forwards   *)
(* the shred.                                                              *)
CopyShred ==
  /\ pc = "copy"
  /\ log' = Append(log, [seq |-> info.seq, idx |-> info.idx, payload |-> dcache[cur].seq])
  /\ pc' = "loop"
  /\ UNCHANGED <<shared, monitor, scan, info, since, start, ctx>>

SleepEnds ==
  /\ pc = "sleep"
  /\ pc' = "loop"
  /\ UNCHANGED <<shared, monitor, scan, info, history, ctx>>

(* The deferred shred_monitor_stop and shred_monitor_cleanup.              *)
Exit ==
  /\ pc = "exit"
  /\ pc' = "done"
  /\ cur' = None /\ idx' = 0 /\ last' = 0
  /\ UNCHANGED <<shared, scan, info, history, ctx>>

Cancel ==
  /\ ctx = "live"
  /\ ctx' = "done"
  /\ UNCHANGED <<shared, monitor, scan, pc, info, history>>

(* Recv has returned, or the process is gone.                              *)
Terminated == pc \in {"done", "crashed"} /\ UNCHANGED vars

Recv ==
  \/ LoopCheck \/ GetCurrent \/ GetFrag \/ GetNothing \/ Load
  \/ CopyShred \/ SleepEnds \/ Exit

Next ==
  \/ Validator
  \/ AttachFails \/ Attach \/ ScanSlot
  \/ Recv
  \/ Cancel
  \/ Terminated

Spec == Init /\ [][Next]_vars

(* The goroutine runs, and no call of the monitor blocks.                  *)
FairSpec == Spec /\ WF_vars(Recv \/ ScanSlot)

-----------------------------------------------------------------------------
(* Types; the index into the current batch, from which the address of the  *)
(* shred is computed, stays within the batch unless the monitor has been   *)
(* overrun.                                                                *)
TypeOK ==
  /\ mcache \in [Slots -> [seq : Nat, fault : AllFaults \cup {"none"}]]
  /\ dcache \in [Chunks -> [seq : Nat, cnt : 0 .. MaxCount + 1]]
  /\ pub \in 0 .. MaxSeq /\ filled \in BOOLEAN /\ overrun \in BOOLEAN
  /\ published \in Seq([cnt : 0 .. MaxCount + 1, fault : AllFaults \cup {"none"}])
  /\ scan \in 0 .. Depth /\ last \in Nat /\ cur \in Chunks \cup {None}
  /\ idx \in 0 .. MaxCount + 1
  /\ pc \in Attached \cup {"attach", "scan", "done", "crashed"}
  /\ info \in [seq : Nat, idx : Nat]
  /\ log \in Seq([seq : Nat, idx : Nat, payload : Nat])
  /\ since \in Nat /\ start \in Nat /\ ctx \in {"live", "done"}
  /\ ~overrun /\ pc \in Attached /\ cur # None => idx <= dcache[cur].cnt /\ idx <= MaxCount

(* What was copied: each payload with its own header, the shreds of every  *)
(* batch after start once and in order, none left out.                     *)
InOrder ==
  \A k \in 1 .. Len(log) :
    /\ log[k].payload = log[k].seq
    /\ IF log[k].idx = 0
       THEN IF k = 1 THEN log[k].seq = start + 1
                     ELSE /\ log[k].seq = log[k-1].seq + 1
                          /\ log[k-1].idx + 1 = published[log[k-1].seq].cnt
       ELSE k > 1 /\ log[k-1].seq = log[k].seq /\ log[k-1].idx + 1 = log[k].idx

(* As long as the validator has not been more than Depth batches ahead,    *)
(* Recv takes the shreds in order: a ring that is exactly full is read     *)
(* correctly although descriptors and chunks are overwritten all the time. *)
TakenInOrder == ~overrun => InOrder

(* "Find the latest sequence number in mcache and start from there"        *)
(* (shred_monitor_init): the scan is not atomic, yet no batch published    *)
(* before the monitor was attached is replayed, and none is awaited that   *)
(* has not been published.                                                 *)
StartsFromLatest == pc \in Attached => since <= start /\ start <= pub

(* "0 = no new shreds" (shred_monitor_get_next) is not all that 0 means.   *)
(* However fast the validator publishes: there is nothing new, or the next *)
(* batch has a descriptor of impossible size, or the validator is more     *)
(* than a ring ahead and has overwritten the descriptor (it does not come  *)
(* back).  A batch that is still in the ring is never missed.              *)
ZeroHasReason ==
  [][GetNothing => \/ pub = last
                   \/ last < pub /\ published[last + 1].fault = "sz"
                   \/ last + Depth < pub]_vars

Taken(n) == \E k \in 1 .. Len(log) : log[k].seq = n /\ log[k].idx + 1 = published[n].cnt

(* Recv gets to the end of every batch that is published while it runs,    *)
(* unless an earlier one was faulty or the monitor is overrun.             *)
EveryBatchTaken ==
  \A n \in 1 .. MaxSeq :
    (/\ pc \in Attached /\ start < n /\ n <= pub
     /\ \A m \in start + 1 .. n : Sound(published[m])) ~> (Taken(n) \/ ctx = "done" \/ overrun)

(* Once the context is cancelled Recv returns and the monitor is released, *)
(* however fast the validator publishes (or a large batch has ended the    *)
(* process).                                                               *)
Released == (ctx = "done" /\ pc \in Attached) ~> pc \in {"done", "crashed"}
=============================================================================
