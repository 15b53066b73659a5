-------------------------- MODULE FdMonitorProofs --------------------------
(***************************************************************************)
(* Proofs about FdMonitor.                                                 *)
(*                                                                         *)
(* The first half holds however fast the validator publishes: which        *)
(* batches the ring and the dcache still hold, what the scan of            *)
(* shred_monitor_init finds, and when shred_monitor_get_next answers 0.    *)
(* The second half is about what Recv copies until it is overrun.          *)
(***************************************************************************)
EXTENDS FdMonitor, SequenceTheorems, TLAPS

(* The newest batch whose shreds are written.                              *)
Top == IF filled THEN pub + 1 ELSE pub

AnyBatch == [cnt : 0 .. MaxCount + 1, fault : AllFaults \cup {"none"}]

Pcs == Attached \cup {"attach", "scan", "done", "crashed"}

(* Types of what the validator and the scan write.                         *)
RingTypes ==
  /\ mcache \in [Slots -> [seq : Nat, fault : AllFaults \cup {"none"}]]
  /\ dcache \in [Chunks -> [seq : Nat, cnt : 0 .. MaxCount + 1]]
  /\ pub \in Nat /\ pub <= MaxSeq /\ filled \in BOOLEAN
  /\ filled => pub < MaxSeq
  /\ published \in Seq(AnyBatch) /\ Len(published) = Top
  /\ scan \in Nat /\ scan <= Depth /\ last \in Nat /\ since \in Nat /\ start \in Nat
  /\ pc \in Pcs

(* The ring holds the descriptors of the last Depth batches.  (What the    *)
(* batches before the attachment were like is forgotten.)                  *)
Ring ==
  /\ \A s \in Slots : mcache[s].seq <= pub
  /\ \A n \in Nat : 0 < n /\ n <= pub /\ pub < n + Depth =>
       /\ mcache[SlotOf(n)].seq = n
       /\ since < n => mcache[SlotOf(n)].fault = published[n].fault

(* The dcache holds the last NumChunks batches.                            *)
Store ==
  \A n \in Nat : 0 < n /\ n <= Top /\ Top < n + NumChunks =>
    /\ dcache[ChunkOf(n)].seq = n
    /\ since < n => dcache[ChunkOf(n)].cnt = published[n].cnt

(* The slot of the batch that was newest at the attachment never goes back *)
(* behind it, so a scan that is past that slot has seen it or a newer one. *)
Scanned ==
  /\ since <= pub
  /\ pc = "attach" => scan = 0 /\ last = 0 /\ since = 0
  /\ pc = "scan" => /\ scan < Depth /\ last <= pub
                    /\ since <= mcache[SlotOf(since)].seq
                    /\ SlotOf(since) < scan => since <= last
  /\ pc \in Attached => since <= start /\ start <= pub

RingInv == RingTypes /\ Ring /\ Store /\ Scanned

(* The monitor is never ahead of the validator, and behind it while it     *)
(* loads a batch, whatever has become of that batch since.                 *)
Behind ==
  /\ pc \in Attached => start <= last /\ last <= pub
  /\ pc = "load" => last < pub

-----------------------------------------------------------------------------
(* Types of what Recv writes.                                              *)
RecvTypes ==
  /\ cur \in Chunks \cup {None} /\ idx \in Nat /\ idx <= MaxCount + 1
  /\ info \in [seq : Nat, idx : Nat]
  /\ log \in Seq([seq : Nat, idx : Nat, payload : Nat])
  /\ ctx \in {"live", "done"}

(* The validator is at most Depth batches ahead of the monitor.            *)
Ahead ==
  /\ Top <= pub + Depth
  /\ pc = "scan" => Top <= since + Depth
  /\ pc \in Attached => start <= last /\ last <= pub /\ Top <= last + Depth

(* The current batch is batch last, which is still in its chunk.           *)
Current ==
  /\ pc \in {"attach", "scan"} => cur = None /\ idx = 0 /\ log = << >>
  /\ pc \in Attached /\ cur = None => last = start /\ idx = 0 /\ log = << >>
  /\ pc \in Attached /\ cur # None => /\ cur = ChunkOf(last) /\ start < last
                                      /\ 0 < published[last].cnt
                                      /\ published[last].cnt <= MaxCount
                                      /\ idx <= published[last].cnt

(* What is known between the two reads of a descriptor, and between the    *)
(* read of a header and the copy of its payload.                           *)
Between ==
  /\ pc = "load" => /\ last < pub /\ published[last + 1].fault # "sz"
                    /\ cur # None => idx = published[last].cnt
  /\ pc = "copy" => cur # None /\ idx > 0 /\ info.seq = last /\ info.idx + 1 = idx

(* Shreds of the current batch that are copied.                            *)
Copied == IF pc = "copy" THEN idx - 1 ELSE idx

(* The last copied shred is the one before the next shred to copy.         *)
Ended ==
  pc \in Attached /\ cur # None =>
    IF Copied = 0
    THEN IF Len(log) = 0
         THEN last = start + 1
         ELSE /\ log[Len(log)].seq + 1 = last
              /\ log[Len(log)].idx + 1 = published[log[Len(log)].seq].cnt
    ELSE Len(log) > 0 /\ log[Len(log)].seq = last /\ log[Len(log)].idx + 1 = Copied

(* Only published batches are copied.                                      *)
Known == \A k \in 1 .. Len(log) : 0 < log[k].seq /\ log[k].seq <= pub

(* While the monitor has not been overrun.                                 *)
MonInv ==
  RingInv /\ RecvTypes /\ Ahead /\ Current /\ Between /\ Ended /\ Known /\ InOrder

(* What is left of it afterwards.                                          *)
Overrun == RecvTypes /\ overrun \in BOOLEAN /\ (pc = "copy" => cur # None)

FullInv == RingInv /\ Overrun /\ (~overrun => MonInv)

-----------------------------------------------------------------------------
(* The arithmetic of a ring.                                               *)

(* A remainder is less than the divisor.                                   *)
LEMMA ModRange == ASSUME NEW n \in Nat, NEW d \in Nat \ {0} PROVE n % d \in 0 .. d - 1
OBVIOUS

(* Division with remainder.                                                *)
LEMMA Division ==
  ASSUME NEW n \in Nat, NEW d \in Nat \ {0}
  PROVE  \E q \in Nat, r \in Nat : r = n % d /\ n = d * q + r
<1>1. PICK q \in Nat : q = n \div d
  OBVIOUS
<1>2. PICK r \in Nat : r = n % d
  BY ModRange
<1>3. n = d * q + r
  BY <1>1, <1>2
<1>4. QED
  BY <1>2, <1>3

(* Two numbers that are less than d apart differ modulo d.                 *)
LEMMA ModDistinct ==
  ASSUME NEW m \in Nat, NEW n \in Nat, NEW d \in Nat \ {0}, m < n, n < m + d
  PROVE  m % d # n % d
<1> SUFFICES ASSUME m % d = n % d PROVE FALSE
  OBVIOUS
<1>1. PICK p \in Nat, r \in Nat : r = m % d /\ m = d * p + r
  BY Division
<1>2. PICK q \in Nat, t \in Nat : t = n % d /\ n = d * q + t
  BY Division
<1>3. t = r
  BY <1>1, <1>2
<1>4. n - m = d * (q - p)
  BY <1>1, <1>2, <1>3
<1>5. q - p >= 1 => d * (q - p) >= d
  OBVIOUS
<1>6. q - p <= 0 => d * (q - p) <= 0
  OBVIOUS
<1>7. QED
  BY <1>4, <1>5, <1>6

(* Batches less than Depth apart have different slots.                     *)
LEMMA SlotsDiffer ==
  /\ \A n \in Nat : SlotOf(n) \in Slots
  /\ \A m, n \in Nat : m < n /\ n < m + Depth => SlotOf(m) # SlotOf(n)
<1>1. Depth \in Nat \ {0}
  BY FdMonitorAssumption
<1>2. \A n \in Nat : SlotOf(n) \in Slots
  BY <1>1, ModRange DEF SlotOf, Slots
<1>3. \A m, n \in Nat : m < n /\ n < m + Depth => SlotOf(m) # SlotOf(n)
  BY <1>1, ModDistinct DEF SlotOf
<1>4. QED
  BY <1>2, <1>3

(* Batches less than NumChunks apart have different chunks.                *)
LEMMA ChunksDiffer ==
  /\ \A n \in Nat : ChunkOf(n) \in Chunks
  /\ \A m, n \in Nat : m < n /\ n < m + NumChunks => ChunkOf(m) # ChunkOf(n)
<1>1. NumChunks \in Nat \ {0}
  BY FdMonitorAssumption
<1>2. \A n \in Nat : ChunkOf(n) \in Chunks
  BY <1>1, ModRange DEF ChunkOf, Chunks
<1>3. \A m, n \in Nat : m < n /\ n < m + NumChunks => ChunkOf(m) # ChunkOf(n)
  BY <1>1, ModDistinct DEF ChunkOf
<1>4. QED
  BY <1>2, <1>3

-----------------------------------------------------------------------------
(* The validator and the scan.                                             *)

(* The initial state has an empty ring.                                    *)
LEMMA RingInit == Init => RingInv
<1> SUFFICES ASSUME Init PROVE RingInv
  OBVIOUS
<1>1. Top = 0 /\ pub = 0
  BY DEF Init, Top
<1>2. RingTypes
  <2>1. mcache \in [Slots -> [seq : Nat, fault : AllFaults \cup {"none"}]]
    BY DEF Init, AllFaults
  <2>2. dcache \in [Chunks -> [seq : Nat, cnt : 0 .. MaxCount + 1]]
    BY FdMonitorAssumption DEF Init
  <2>3. published \in Seq(AnyBatch) /\ Len(published) = 0
    BY DEF Init
  <2>4. filled \in BOOLEAN /\ (filled => pub < MaxSeq)
    BY Zenon DEF Init
  <2>5. /\ pub \in Nat /\ pub <= MaxSeq /\ scan \in Nat /\ scan <= Depth
        /\ last \in Nat /\ since \in Nat /\ start \in Nat /\ pc \in Pcs
    BY FdMonitorAssumption DEF Init, Pcs
  <2>6. QED
    BY <1>1, <2>1, <2>2, <2>3, <2>4, <2>5 DEF RingTypes
<1>3. Ring /\ Store
  BY <1>1 DEF Init, Ring, Store, Slots
<1>4. Scanned
  BY DEF Init, Scanned, Attached
<1>5. QED
  BY <1>2, <1>3, <1>4 DEF RingInv

(* What Fill does to the batches.                                          *)
LEMMA FillAppends ==
  ASSUME RingTypes, NEW b \in Batches, Fill(b)
  PROVE  /\ Top = pub /\ Top' = pub + 1 /\ b \in AnyBatch
         /\ published' \in Seq(AnyBatch) /\ Len(published') = pub + 1
         /\ published'[pub + 1] = b
         /\ \A n \in Nat : 0 < n /\ n <= pub => published'[n] = published[n]
         /\ \A n \in Nat : 0 < n /\ n <= pub => published[n] \in AnyBatch
<1>1. Top = pub /\ Top' = pub + 1 /\ Len(published) = pub
  BY DEF Fill, Top, RingTypes
<1>2. b \in AnyBatch
  BY DEF Batches, AnyBatch, AllFaults
<1>3. published' = Append(published, b) /\ published \in Seq(AnyBatch)
  BY DEF Fill, RingTypes
<1>4. QED
  BY <1>1, <1>2, <1>3

(* The shreds of a batch are written over the oldest batch of the dcache.  *)
LEMMA FillRing ==
  ASSUME RingInv, NEW b \in Batches, Fill(b)
  PROVE  RingInv'
<1>1. RingTypes /\ Ring /\ Store /\ Scanned
  BY DEF RingInv
<1>2. /\ Top = pub /\ Top' = pub + 1 /\ b \in AnyBatch
      /\ published' \in Seq(AnyBatch) /\ Len(published') = pub + 1
      /\ published'[pub + 1] = b
      /\ \A n \in Nat : 0 < n /\ n <= pub => published'[n] = published[n]
  BY <1>1, FillAppends
<1>3. /\ UNCHANGED <<mcache, pub, last, scan, pc, since, start>>
      /\ dcache' = [dcache EXCEPT ![ChunkOf(pub + 1)] = [seq |-> pub + 1, cnt |-> b.cnt]]
      /\ filled' = TRUE /\ pub < MaxSeq
  BY DEF Fill, monitor, history
<1>4. pub \in Nat /\ pub + 1 \in Nat /\ ChunkOf(pub + 1) \in Chunks
  BY <1>1, ChunksDiffer DEF RingTypes
<1>5. RingTypes'
  BY <1>1, <1>2, <1>3, <1>4 DEF RingTypes, AnyBatch
<1>6. Ring'
  BY <1>1, <1>2, <1>3 DEF Ring
<1>7. Store'
  <2> SUFFICES ASSUME NEW n \in Nat, 0 < n, n <= pub + 1, pub + 1 < n + NumChunks
               PROVE  /\ dcache'[ChunkOf(n)].seq = n
                      /\ since < n => dcache'[ChunkOf(n)].cnt = published'[n].cnt
    BY <1>2, <1>3 DEF Store
  <2>1. dcache \in [Chunks -> [seq : Nat, cnt : 0 .. MaxCount + 1]] /\ ChunkOf(n) \in Chunks
    BY <1>1, ChunksDiffer DEF RingTypes
  <2>2. CASE n = pub + 1
    BY <1>2, <1>3, <2>1, <2>2
  <2>3. CASE n <= pub
    <3>1. ChunkOf(n) # ChunkOf(pub + 1)
      BY <1>4, <2>3, ChunksDiffer
    <3>2. dcache'[ChunkOf(n)] = dcache[ChunkOf(n)]
      BY <1>3, <2>1, <3>1
    <3>3. QED
      BY <1>1, <1>2, <1>4, <2>3, <3>2, FdMonitorAssumption DEF Store
  <2>4. QED
    BY <1>4, <2>2, <2>3
<1>8. Scanned'
  BY <1>1, <1>3 DEF Scanned
<1>9. QED
  BY <1>5, <1>6, <1>7, <1>8 DEF RingInv

(* A descriptor replaces the oldest one of the ring.                       *)
LEMMA PublishRing ==
  ASSUME RingInv, Publish
  PROVE  RingInv'
<1>1. RingTypes /\ Ring /\ Store /\ Scanned
  BY DEF RingInv
<1>2. /\ UNCHANGED <<dcache, published, last, scan, pc, since, start>>
      /\ mcache' = [mcache EXCEPT ![SlotOf(pub + 1)] =
                      [seq |-> pub + 1, fault |-> published[pub + 1].fault]]
      /\ filled /\ filled' = FALSE /\ pub' = pub + 1
  BY DEF Publish, monitor, history
<1>3. Top = pub + 1 /\ Top' = Top /\ pub < MaxSeq
  BY <1>1, <1>2 DEF Top, RingTypes
<1>4. /\ pub \in Nat /\ pub + 1 \in Nat /\ SlotOf(pub + 1) \in Slots
      /\ published[pub + 1] \in AnyBatch
  BY <1>1, <1>3, SlotsDiffer DEF RingTypes
<1>5. mcache' \in [Slots -> [seq : Nat, fault : AllFaults \cup {"none"}]]
  BY <1>1, <1>2, <1>4 DEF RingTypes, AnyBatch
<1>6. filled' \in BOOLEAN /\ ~filled'
  BY <1>2
<1>7. RingTypes'
  BY <1>1, <1>2, <1>3, <1>4, <1>5, <1>6, FdMonitorAssumption DEF RingTypes
<1>8. /\ mcache'[SlotOf(pub + 1)] = [seq |-> pub + 1, fault |-> published[pub + 1].fault]
      /\ \A s \in Slots : s # SlotOf(pub + 1) => mcache'[s] = mcache[s]
  BY <1>1, <1>2, <1>4 DEF RingTypes
<1>9. Ring'
  <2>1. \A s \in Slots : mcache'[s].seq <= pub + 1
    BY <1>1, <1>4, <1>8 DEF Ring, RingTypes
  <2>2. ASSUME NEW n \in Nat, 0 < n, n <= pub + 1, pub + 1 < n + Depth
        PROVE  /\ mcache'[SlotOf(n)].seq = n
               /\ since < n => mcache'[SlotOf(n)].fault = published[n].fault
    <3>1. CASE n = pub + 1
      BY <1>8, <3>1
    <3>2. CASE n <= pub
      <4>1. SlotOf(n) # SlotOf(pub + 1) /\ SlotOf(n) \in Slots
        BY <1>4, <2>2, <3>2, SlotsDiffer
      <4>2. mcache'[SlotOf(n)] = mcache[SlotOf(n)]
        BY <1>8, <4>1
      <4>3. pub < n + Depth
        BY <1>4, <2>2, FdMonitorAssumption
      <4>4. QED
        BY <1>1, <2>2, <3>2, <4>2, <4>3 DEF Ring
    <3>3. QED
      BY <1>4, <2>2, <3>1, <3>2
  <2>3. QED
    BY <1>2, <2>1, <2>2 DEF Ring
<1>10. Store'
  BY <1>1, <1>2, <1>3 DEF Store
<1>11. Scanned'
  <2>1. since \in Nat /\ SlotOf(since) \in Slots
    BY <1>1, SlotsDiffer DEF RingTypes
  <2>2. since <= mcache[SlotOf(since)].seq => since <= mcache'[SlotOf(since)].seq
    BY <1>1, <1>4, <1>8, <2>1 DEF Scanned, RingTypes
  <2>3. QED
    BY <1>1, <1>2, <1>4, <2>1, <2>2 DEF Scanned, RingTypes
<1>12. QED
  BY <1>7, <1>9, <1>10, <1>11 DEF RingInv

(* The monitor attaches: the newest batch is the one of its slot.       *)
LEMMA AttachRing ==
  ASSUME RingInv, Attach
  PROVE  /\ RingInv'
         /\ \A n \in Nat : pub < n /\ n <= Top => published'[n] = published[n]
<1>1. RingTypes /\ Ring /\ Store /\ Scanned
  BY DEF RingInv
<1>2. /\ UNCHANGED <<mcache, dcache, pub, filled, last, scan, start>>
      /\ pc = "attach" /\ pc' = "scan" /\ since' = pub
      /\ published' = [n \in DOMAIN published |->
                         IF n <= pub THEN [cnt |-> 1, fault |-> "none"] ELSE published[n]]
  BY DEF Attach, monitor
<1>3. Top' = Top /\ Top \in Nat /\ pub \in Nat /\ pub <= Top
  BY <1>1, <1>2 DEF Top, RingTypes
<1>4. /\ published' \in Seq(AnyBatch) /\ Len(published') = Top
      /\ \A n \in Nat : pub < n /\ n <= Top => published'[n] = published[n]
  <2>1. [cnt |-> 1, fault |-> "none"] \in AnyBatch
    BY FdMonitorAssumption DEF AnyBatch
  <2>2. DOMAIN published = 1 .. Top /\ \A n \in 1 .. Top : published[n] \in AnyBatch
    BY <1>1 DEF RingTypes
  <2>3. published' \in [1 .. Top -> AnyBatch]
    BY <1>2, <2>1, <2>2
  <2>4. published' \in Seq(AnyBatch) /\ Len(published') = Top
    BY <1>3, <2>3
  <2>5. \A n \in Nat : pub < n /\ n <= Top => published'[n] = published[n]
    BY <1>2, <1>3, <2>2
  <2>6. QED
    BY <2>4, <2>5
<1>5. RingTypes'
  BY <1>1, <1>2, <1>3, <1>4 DEF RingTypes, Pcs
<1>6. Ring'
  BY <1>1, <1>2, <1>3 DEF Ring
<1>7. Store'
  BY <1>1, <1>2, <1>3, <1>4 DEF Store, Scanned
<1>8. SlotOf(pub) \in Slots /\ pub <= mcache[SlotOf(pub)].seq
  <2>1. SlotOf(pub) \in Slots /\ mcache[SlotOf(pub)].seq \in Nat
    BY <1>1, <1>3, SlotsDiffer DEF RingTypes
  <2>2. CASE pub = 0
    BY <2>1, <2>2
  <2>3. CASE pub > 0
    BY <1>1, <1>3, <2>1, <2>3, FdMonitorAssumption DEF Ring
  <2>4. QED
    BY <1>3, <2>1, <2>2, <2>3
<1>9. Scanned'
  BY <1>1, <1>2, <1>3, <1>8, FdMonitorAssumption, SlotsDiffer DEF Scanned, Attached, Slots
<1>10. QED
  BY <1>4, <1>5, <1>6, <1>7, <1>9 DEF RingInv

(* A step of the scan.                                                     *)
LEMMA ScanRing ==
  ASSUME RingInv, ScanSlot
  PROVE  RingInv' /\ last' <= pub /\ (pc' # "scan" => since <= last')
<1>1. RingTypes /\ Ring /\ Store /\ Scanned
  BY DEF RingInv
<1>2. /\ UNCHANGED <<mcache, dcache, pub, filled, published, since>>
      /\ pc = "scan" /\ pc' = IF scan + 1 = Depth THEN "loop" ELSE "scan"
      /\ last' = IF mcache[scan].seq > last THEN mcache[scan].seq ELSE last
      /\ scan' = scan + 1 /\ start' = last'
  BY DEF ScanSlot, shared
<1>3. /\ scan \in Slots /\ scan \in Nat /\ mcache[scan].seq \in Nat /\ mcache[scan].seq <= pub
      /\ scan < Depth /\ pub \in Nat /\ last \in Nat /\ last <= pub /\ since \in Nat
      /\ SlotOf(since) \in Slots /\ SlotOf(since) \in Nat
      /\ since <= mcache[SlotOf(since)].seq /\ (SlotOf(since) < scan => since <= last)
  <2>1. scan \in Nat /\ scan < Depth /\ pub \in Nat /\ last \in Nat /\ since \in Nat
    BY <1>1, <1>2 DEF RingTypes, Scanned
  <2>2. scan \in Slots /\ SlotOf(since) \in Slots /\ SlotOf(since) \in Nat
    BY <2>1, SlotsDiffer, FdMonitorAssumption DEF Slots
  <2>3. mcache[scan].seq \in Nat /\ mcache[scan].seq <= pub
    BY <1>1, <2>2 DEF RingTypes, Ring
  <2>4. /\ last <= pub /\ since <= mcache[SlotOf(since)].seq
        /\ SlotOf(since) < scan => since <= last
    BY <1>1, <1>2 DEF Scanned
  <2>5. QED
    BY <2>1, <2>2, <2>3, <2>4
<1>4. last' \in Nat /\ last' <= pub /\ last <= last' /\ mcache[scan].seq <= last'
  BY <1>2, <1>3
<1>5. SlotOf(since) < scan + 1 => since <= last'
  <2>1. CASE SlotOf(since) = scan
    BY <1>3, <1>4, <2>1
  <2>2. CASE SlotOf(since) < scan
    BY <1>3, <1>4, <2>2
  <2>3. QED
    BY <1>3, <2>1, <2>2
<1>6. scan + 1 = Depth => since <= last'
  BY <1>3, <1>5, FdMonitorAssumption DEF Slots
<1>7. Top' = Top
  BY <1>2 DEF Top
<1>8. RingTypes'
  BY <1>1, <1>2, <1>3, <1>4, <1>7, FdMonitorAssumption DEF RingTypes, Pcs, Attached
<1>9. Ring' /\ Store'
  BY <1>1, <1>2, <1>7 DEF Ring, Store
<1>10. Scanned'
  BY <1>1, <1>2, <1>3, <1>4, <1>5, <1>6, FdMonitorAssumption DEF Scanned, Attached
<1>11. QED
  BY <1>2, <1>4, <1>6, <1>8, <1>9, <1>10 DEF RingInv

(* The steps of Recv leave the ring alone.                                 *)
LEMMA OtherRing ==
  ASSUME RingInv, UNCHANGED <<mcache, dcache, pub, filled, published, since, start, scan>>,
         last' \in Nat, pc' \in Pcs,
         \/ pc' = pc /\ last' = last
         \/ pc' \in {"done", "crashed"}
         \/ pc \in Attached /\ pc' \in Attached
  PROVE  RingInv'
<1>1. RingTypes /\ Ring /\ Store /\ Scanned
  BY DEF RingInv
<1>2. Top' = Top
  BY DEF Top
<1>3. RingTypes'
  BY <1>1, <1>2 DEF RingTypes
<1>4. Ring' /\ Store'
  BY <1>1, <1>2 DEF Ring, Store
<1>5. Scanned'
  BY <1>1 DEF Scanned, Attached
<1>6. QED
  BY <1>3, <1>4, <1>5 DEF RingInv

(* Every step keeps the first half of the invariant.                       *)
LEMMA RingNext == ASSUME RingInv, [Next]_vars PROVE RingInv'
<1>1. last \in Nat /\ pc \in Pcs
  BY DEF RingInv, RingTypes
<1>2. CASE Validator
  BY <1>2, FillRing, PublishRing DEF Validator
<1>3. CASE AttachFails
  BY <1>1, <1>3, OtherRing DEF AttachFails, shared, monitor, history, Pcs
<1>4. CASE Attach
  BY <1>4, AttachRing
<1>5. CASE ScanSlot
  BY <1>5, ScanRing
<1>6. CASE Recv
  <2>1. /\ UNCHANGED <<mcache, dcache, pub, filled, published, since, start, scan>>
        /\ last' \in Nat /\ pc \in Attached /\ pc' \in Attached \cup {"done", "crashed"}
    <3>1. CASE LoopCheck \/ GetCurrent \/ GetFrag \/ GetNothing
      BY <1>1, <3>1 DEF LoopCheck, GetCurrent, GetFrag, GetNothing, shared, monitor, history, Attached
    <3>2. CASE Load
      BY <1>1, <3>2 DEF Load, shared, monitor, history, Attached
    <3>3. CASE CopyShred \/ SleepEnds \/ Exit
      BY <1>1, <3>3 DEF CopyShred, SleepEnds, Exit, shared, monitor, history, Attached
    <3>4. QED
      BY <1>6, <3>1, <3>2, <3>3 DEF Recv
  <2>2. QED
    BY <2>1, OtherRing DEF Pcs
<1>7. CASE Cancel \/ Terminated \/ UNCHANGED vars
  BY <1>1, <1>7, OtherRing DEF Cancel, Terminated, vars, shared, monitor, history
<1>8. QED
  BY <1>2, <1>3, <1>4, <1>5, <1>6, <1>7 DEF Next

(* However fast the validator publishes, shred_monitor_init starts from a  *)
(* batch that is not older than the newest one at the attachment and that  *)
(* has been published, although its scan of the ring is not atomic.        *)
THEOREM ScanFindsTheLatest == Spec => []StartsFromLatest
<1>1. RingInv /\ [Next]_vars => RingInv'
  BY RingNext
<1>2. RingInv => StartsFromLatest
  BY DEF RingInv, Scanned, StartsFromLatest
<1>3. QED
  BY <1>1, <1>2, RingInit, PTL DEF Spec

(* Every step keeps the monitor behind the validator.                      *)
LEMMA BehindNext == ASSUME RingInv, Behind, [Next]_vars PROVE Behind'
<1>1. /\ last \in Nat /\ pub \in Nat /\ start \in Nat
      /\ \A s \in Slots : mcache[s].seq <= pub
  BY DEF RingInv, RingTypes, Ring
<1>2. CASE Validator
  <2>1. UNCHANGED <<last, start, pc>> /\ pub' \in {pub, pub + 1}
    BY <1>2 DEF Validator, Fill, Publish, monitor, history
  <2>2. QED
    BY <1>1, <2>1 DEF Behind
<1>3. CASE AttachFails \/ Attach
  BY <1>3 DEF Behind, AttachFails, Attach, Attached
<1>4. CASE ScanSlot
  <2>1. last' <= pub /\ start' = last' /\ pc' \in {"loop", "scan"} /\ pub' = pub
    BY <1>4, ScanRing DEF ScanSlot, shared
  <2>2. last' \in Nat
    BY <1>4, RingNext DEF RingInv, RingTypes, Next
  <2>3. QED
    BY <2>1, <2>2 DEF Behind
<1>5. CASE LoopCheck \/ GetCurrent \/ GetNothing \/ CopyShred \/ SleepEnds
  <2>1. pc \in Attached /\ pc' # "load" /\ UNCHANGED <<last, start, pub>>
    BY <1>5 DEF LoopCheck, GetCurrent, GetNothing, CopyShred, SleepEnds, shared, monitor, history,
                Attached
  <2>2. QED
    BY <2>1 DEF Behind
<1>6. CASE GetFrag
  <2>1. pc \in Attached /\ NextSlot.seq = last + 1 /\ UNCHANGED <<last, start, pub>>
    BY <1>6 DEF GetFrag, shared, monitor, history, Attached
  <2>2. last + 1 <= pub
    BY <1>1, <2>1, SlotsDiffer DEF NextSlot
  <2>3. QED
    BY <1>1, <2>1, <2>2 DEF Behind
<1>7. CASE Load
  <2>1. /\ pc = "load" /\ pc \in Attached /\ pc' # "load" /\ last' \in {last, last + 1}
        /\ UNCHANGED <<start, pub>>
    BY <1>7 DEF Load, shared, monitor, history, Attached
  <2>2. QED
    BY <1>1, <2>1 DEF Behind
<1>8. CASE Exit
  BY <1>8 DEF Behind, Exit, Attached
<1>9. CASE Cancel \/ Terminated \/ UNCHANGED vars
  BY <1>9 DEF Behind, Cancel, Terminated, vars, shared, monitor, history
<1>10. QED
  BY <1>2, <1>3, <1>4, <1>5, <1>6, <1>7, <1>8, <1>9 DEF Next, Recv

(* However fast the validator publishes and however deep the ring is: when *)
(* shred_monitor_get_next answers 0 there is nothing new, or the size in   *)
(* the next descriptor is impossible, or the validator has gone round the  *)
(* whole ring; a descriptor that is still there is never missed.           *)
THEOREM ZeroIsExplained == Spec => ZeroHasReason
<1>1. Init => RingInv /\ Behind
  BY RingInit DEF Init, Behind, Attached
<1>2. RingInv /\ Behind /\ [Next]_vars => RingInv' /\ Behind'
  BY RingNext, BehindNext
<1>3. RingInv /\ Behind =>
        [GetNothing => \/ pub = last
                       \/ last < pub /\ published[last + 1].fault = "sz"
                       \/ last + Depth < pub]_vars
  <2> SUFFICES ASSUME RingInv, Behind, GetNothing, pub # last, ~(last + Depth < pub)
               PROVE  last < pub /\ published[last + 1].fault = "sz"
    OBVIOUS
  <2>1. /\ pc \in Attached /\ ~(NextSlot.seq = last + 1 /\ NextSlot.fault # "sz")
        /\ last \in Nat /\ pub \in Nat /\ since \in Nat /\ start \in Nat /\ Depth \in Nat
    BY FdMonitorAssumption DEF RingInv, RingTypes, GetNothing, Attached
  <2>2. since <= start /\ start <= last /\ last <= pub
    BY <2>1 DEF RingInv, Scanned, Behind
  <2>3. 0 < last + 1 /\ last + 1 <= pub /\ pub < last + 1 + Depth /\ since < last + 1
    BY <2>1, <2>2
  <2>4. NextSlot.seq = last + 1 /\ NextSlot.fault = published[last + 1].fault
    BY <2>1, <2>3 DEF RingInv, Ring, NextSlot
  <2>5. QED
    BY <2>1, <2>3, <2>4
<1>4. QED
  BY <1>1, <1>2, <1>3, PTL DEF Spec, ZeroHasReason

-----------------------------------------------------------------------------
(* Recv, while the validator is at most Depth batches ahead.               *)

(* Batches the monitor has not finished are where they were written.       *)
LEMMA StillThere ==
  ASSUME RingInv, Ahead, pc \in Attached
  PROVE  /\ since <= start /\ start <= last /\ last <= pub
         /\ last < pub => /\ mcache[SlotOf(last + 1)].seq = last + 1
                          /\ mcache[SlotOf(last + 1)].fault = published[last + 1].fault
                          /\ dcache[ChunkOf(last + 1)].seq = last + 1
                          /\ dcache[ChunkOf(last + 1)].cnt = published[last + 1].cnt
                          /\ published[last + 1] \in AnyBatch
         /\ start < last => /\ dcache[ChunkOf(last)].seq = last
                            /\ dcache[ChunkOf(last)].cnt = published[last].cnt
                            /\ published[last] \in AnyBatch
<1>1. RingTypes /\ Ring /\ Store /\ Scanned
  BY DEF RingInv
<1>2. /\ pub \in Nat /\ last \in Nat /\ last + 1 \in Nat /\ since \in Nat /\ start \in Nat
      /\ Depth \in Nat /\ NumChunks \in Nat /\ Depth < NumChunks
      /\ Top \in Nat /\ pub <= Top
  BY <1>1, FdMonitorAssumption DEF RingTypes, Top
<1>3. since <= start /\ start <= last /\ last <= pub /\ Top <= last + Depth
  BY <1>1, <1>2 DEF Scanned, Ahead
<1>4. \A n \in Nat : 0 < n /\ n <= pub => published[n] \in AnyBatch
  BY <1>1, <1>2 DEF RingTypes
<1>5. ASSUME last < pub
      PROVE  /\ mcache[SlotOf(last + 1)].seq = last + 1
             /\ mcache[SlotOf(last + 1)].fault = published[last + 1].fault
             /\ dcache[ChunkOf(last + 1)].seq = last + 1
             /\ dcache[ChunkOf(last + 1)].cnt = published[last + 1].cnt
             /\ published[last + 1] \in AnyBatch
  <2>1. /\ 0 < last + 1 /\ last + 1 <= pub /\ pub < last + 1 + Depth /\ since < last + 1
        /\ last + 1 <= Top /\ Top < last + 1 + NumChunks
    BY <1>2, <1>3, <1>5
  <2>2. QED
    BY <1>1, <1>2, <1>4, <2>1 DEF Ring, Store
<1>6. ASSUME start < last
      PROVE  /\ dcache[ChunkOf(last)].seq = last
             /\ dcache[ChunkOf(last)].cnt = published[last].cnt
             /\ published[last] \in AnyBatch
  <2>1. 0 < last /\ last <= Top /\ Top < last + NumChunks /\ since < last /\ last <= pub
    BY <1>2, <1>3, <1>6
  <2>2. QED
    BY <1>1, <1>2, <1>4, <2>1 DEF Store
<1>7. QED
  BY <1>3, <1>5, <1>6

(* The current batch, as Recv finds it.                                    *)
LEMMA CurrentIsLast ==
  ASSUME MonInv, pc \in Attached, cur # None
  PROVE  /\ dcache[cur].seq = last /\ dcache[cur].cnt = published[last].cnt
         /\ published[last].cnt \in Nat /\ 0 < last
         /\ InBatch <=> idx < published[last].cnt
<1>1. cur = ChunkOf(last) /\ start < last /\ start \in Nat /\ last \in Nat
  BY DEF MonInv, Current, RingInv, RingTypes
<1>2. /\ dcache[ChunkOf(last)].seq = last /\ dcache[ChunkOf(last)].cnt = published[last].cnt
      /\ published[last] \in AnyBatch
  BY <1>1, StillThere DEF MonInv
<1>3. QED
  BY <1>1, <1>2, FdMonitorAssumption DEF AnyBatch, InBatch

(* Nothing is copied and nobody is ahead at the beginning.                 *)
LEMMA MonInit == Init => MonInv
<1> SUFFICES ASSUME Init PROVE MonInv
  OBVIOUS
<1>1. RingInv /\ Top = 0
  BY RingInit DEF Init, Top
<1>2. RecvTypes
  BY FdMonitorAssumption DEF Init, RecvTypes
<1>3. Ahead /\ Current /\ Between /\ Ended
  BY <1>1, FdMonitorAssumption DEF Init, Ahead, Current, Between, Ended, Attached
<1>4. Known /\ InOrder
  BY DEF Init, Known, InOrder
<1>5. QED
  BY <1>1, <1>2, <1>3, <1>4 DEF MonInv

(* The entries of a log are records of numbers.                            *)
LEMMA Entries ==
  ASSUME NEW l \in Seq([seq : Nat, idx : Nat, payload : Nat]), NEW k \in 1 .. Len(l)
  PROVE  l[k].seq \in Nat /\ l[k].idx \in Nat /\ l[k].payload \in Nat
<1>1. l[k] \in [seq : Nat, idx : Nat, payload : Nat]
  BY ElementOfSeq
<1>2. QED
  BY <1>1

(* What is copied is in order as long as the batches stay what they are.   *)
LEMMA OrderStays ==
  ASSUME InOrder, Known, UNCHANGED <<log, start>>, pub \in Nat, pub' \in Nat, pub <= pub',
         log \in Seq([seq : Nat, idx : Nat, payload : Nat]),
         \A n \in Nat : 0 < n /\ n <= pub => published'[n] = published[n]
  PROVE  InOrder' /\ Known'
<1>1. Known'
  <2>1. \A k \in 1 .. Len(log) : log[k].seq \in Nat
    BY Entries
  <2>2. QED
    BY <2>1 DEF Known
<1>2. ASSUME NEW k \in 1 .. Len(log), k # 1
      PROVE  published'[log[k-1].seq] = published[log[k-1].seq]
  <2>1. k - 1 \in 1 .. Len(log)
    BY <1>2
  <2>2. log[k-1].seq \in Nat
    BY <2>1, Entries
  <2>3. QED
    BY <2>1, <2>2 DEF Known
<1>3. InOrder'
  BY <1>2 DEF InOrder
<1>4. QED
  BY <1>1, <1>3

(* The validator goes on: nothing the monitor knows is disturbed.          *)
LEMMA ValidatorMon ==
  ASSUME MonInv, RingInv', UNCHANGED <<last, cur, idx, scan, pc, info, log, since, start, ctx>>,
         pub <= pub', \A n \in Nat : 0 < n /\ n <= pub => published'[n] = published[n],
         Ahead'
  PROVE  MonInv'
<1>1. /\ RingInv /\ RecvTypes /\ Ahead /\ Current /\ Between /\ Ended /\ Known /\ InOrder
      /\ pub \in Nat /\ pub' \in Nat /\ last \in Nat /\ start \in Nat
  BY DEF MonInv, RingInv, RingTypes
<1>2. RecvTypes'
  BY <1>1 DEF RecvTypes
<1>3. pc \in Attached /\ cur # None => published'[last] = published[last]
  BY <1>1 DEF Current, Ahead
<1>4. Current'
  BY <1>1, <1>3 DEF Current
<1>5. pc = "load" => published'[last + 1] = published[last + 1] /\ pc \in Attached
  BY <1>1 DEF Between, Attached
<1>6. Between'
  BY <1>1, <1>3, <1>5 DEF Between
<1>7. Ended'
  <2> SUFFICES ASSUME pc \in Attached, cur # None
               PROVE  Ended'
    BY DEF Ended
  <2>1. Copied' = Copied
    BY DEF Copied
  <2>2. Len(log) # 0 => published'[log[Len(log)].seq] = published[log[Len(log)].seq]
    <3>1. Len(log) # 0 => Len(log) \in 1 .. Len(log)
      BY <1>1 DEF RecvTypes
    <3>2. Len(log) # 0 => log[Len(log)].seq \in Nat
      BY <1>1, <3>1, Entries DEF RecvTypes
    <3>3. QED
      BY <1>1, <3>1, <3>2 DEF Known
  <2>3. QED
    BY <1>1, <2>1, <2>2 DEF Ended
<1>8. InOrder' /\ Known'
  BY <1>1, OrderStays DEF RecvTypes
<1>9. QED
  BY <1>1, <1>2, <1>4, <1>6, <1>7, <1>8 DEF MonInv

(* The shreds of a batch are written, and the monitor is not overrun.      *)
LEMMA FillMon == ASSUME MonInv, NEW b \in Batches, Fill(b), ~overrun' PROVE MonInv'
<1>1. RingInv /\ RingTypes /\ Ahead /\ RingInv'
  BY FillRing DEF MonInv, RingInv
<1>2. /\ Top = pub /\ Top' = pub + 1
      /\ \A n \in Nat : 0 < n /\ n <= pub => published'[n] = published[n]
  BY <1>1, FillAppends
<1>3. /\ UNCHANGED <<pub, last, cur, idx, scan, pc, info, log, since, start, ctx>>
      /\ ~(pub + 1 > Reader + Depth)
  BY DEF Fill, monitor, history
<1>4. pub \in Nat /\ last \in Nat /\ since \in Nat /\ Depth \in Nat /\ since <= pub
  BY <1>1, FdMonitorAssumption DEF RingTypes, RingInv, Scanned
<1>5. Ahead'
  <2>1. pc \in Attached => last <= pub /\ start <= last /\ pub + 1 <= last + Depth
    BY <1>1, <1>3, <1>4 DEF Ahead, Reader
  <2>2. pc = "scan" => pub + 1 <= since + Depth
    BY <1>3, <1>4 DEF Reader, Attached
  <2>3. pub + 1 <= pub + Depth
    BY <1>4, FdMonitorAssumption
  <2>4. QED
    BY <1>2, <1>3, <2>1, <2>2, <2>3 DEF Ahead
<1>6. QED
  BY <1>1, <1>2, <1>3, <1>4, <1>5, ValidatorMon

(* A descriptor is published.                                              *)
LEMMA PublishMon == ASSUME MonInv, Publish PROVE MonInv'
<1>1. RingInv /\ RingTypes /\ Ahead /\ RingInv'
  BY PublishRing DEF MonInv, RingInv
<1>2. /\ UNCHANGED <<published, last, cur, idx, scan, pc, info, log, since, start, ctx>>
      /\ pub' = pub + 1 /\ filled /\ filled' = FALSE
  BY DEF Publish, monitor, history
<1>3. Top' = Top /\ pub \in Nat /\ last \in Nat /\ since \in Nat /\ Depth \in Nat /\ Top \in Nat
  BY <1>1, <1>2, FdMonitorAssumption DEF Top, RingTypes
<1>4. Ahead'
  BY <1>1, <1>2, <1>3 DEF Ahead
<1>5. QED
  BY <1>1, <1>2, <1>3, <1>4, ValidatorMon

(* Recv goes from one place to another and writes nothing.                 *)
LEMMA MoveMon ==
  ASSUME MonInv, RingInv', ctx' \in {"live", "done"},
         UNCHANGED <<shared, last, cur, idx, scan, info, log, since, start>>,
         \/ pc' = pc
         \/ /\ pc \in Attached /\ pc' \in Attached /\ pc # "copy" /\ pc' # "copy"
            /\ pc' = "load" => /\ last < pub /\ published[last + 1].fault # "sz"
                               /\ cur # None => idx = published[last].cnt
  PROVE  MonInv'
<1>1. /\ RingInv /\ RecvTypes /\ Ahead /\ Current /\ Between /\ Ended /\ Known /\ InOrder
      /\ UNCHANGED <<pub, filled, published>> /\ pub \in Nat
  BY DEF MonInv, shared, RingInv, RingTypes
<1>2. RecvTypes'
  BY <1>1 DEF RecvTypes
<1>3. Top' = Top
  BY <1>1 DEF Top
<1>4. Ahead'
  BY <1>1, <1>3 DEF Ahead, Attached
<1>5. Current'
  BY <1>1 DEF Current, Attached
<1>6. Between'
  BY <1>1 DEF Between
<1>7. Ended'
  BY <1>1 DEF Ended, Copied, Attached
<1>8. Known' /\ InOrder'
  BY <1>1 DEF Known, InOrder
<1>9. QED
  BY <1>1, <1>2, <1>4, <1>5, <1>6, <1>7, <1>8 DEF MonInv

(* Recv returns, or the process ends.                                      *)
LEMMA EndMon ==
  ASSUME MonInv, RingInv', pc' \in {"done", "crashed"},
         UNCHANGED <<shared, info, log, since, start, ctx>>,
         (UNCHANGED <<cur, idx>>) \/ (cur' = None /\ idx' = 0)
  PROVE  MonInv'
<1>1. /\ RingInv /\ RecvTypes /\ Ahead /\ Known /\ InOrder
      /\ UNCHANGED <<pub, filled, published>>
  BY DEF MonInv, shared
<1>2. RecvTypes'
  BY <1>1, FdMonitorAssumption DEF RecvTypes
<1>3. Top' = Top /\ pc' \notin Attached
  BY <1>1 DEF Top, Attached
<1>4. Ahead' /\ Current' /\ Between' /\ Ended'
  BY <1>1, <1>3 DEF Ahead, Current, Between, Ended
<1>5. Known' /\ InOrder'
  BY <1>1 DEF Known, InOrder
<1>6. QED
  BY <1>1, <1>2, <1>4, <1>5 DEF MonInv

(* The monitor attaches.                                                   *)
LEMMA AttachMon == ASSUME MonInv, Attach PROVE MonInv'
<1>1. RingInv /\ RecvTypes /\ Ahead /\ Current /\ RingInv'
  BY AttachRing DEF MonInv
<1>2. /\ UNCHANGED <<pub, filled, cur, idx, info, log, ctx>>
      /\ pc = "attach" /\ pc' = "scan" /\ since' = pub
  BY DEF Attach, monitor
<1>3. Top' = Top /\ RecvTypes'
  BY <1>1, <1>2 DEF Top, RecvTypes
<1>4. cur' = None /\ idx' = 0 /\ log' = << >> /\ pc' \notin Attached
  BY <1>1, <1>2 DEF Current, Attached
<1>5. Ahead' /\ Current' /\ Between' /\ Ended'
  BY <1>1, <1>2, <1>3, <1>4 DEF Ahead, Current, Between, Ended
<1>6. Known' /\ InOrder'
  BY <1>4 DEF Known, InOrder
<1>7. QED
  BY <1>1, <1>3, <1>5, <1>6 DEF MonInv

(* A step of the scan; after the last one Recv starts behind start.        *)
LEMMA ScanMon == ASSUME MonInv, ScanSlot PROVE MonInv'
<1>1. /\ RingInv /\ RecvTypes /\ Ahead /\ Current /\ RingInv'
      /\ last' <= pub /\ (pc' # "scan" => since <= last')
  BY ScanRing DEF MonInv
<1>2. /\ UNCHANGED <<pub, filled, published, cur, idx, info, log, since, ctx>>
      /\ pc = "scan" /\ pc' \in {"scan", "loop"} /\ start' = last'
  BY DEF ScanSlot, shared
<1>3. Top' = Top /\ RecvTypes'
  BY <1>1, <1>2 DEF Top, RecvTypes
<1>4. cur' = None /\ idx' = 0 /\ log' = << >>
  BY <1>1, <1>2 DEF Current
<1>5. since \in Nat /\ last' \in Nat /\ Depth \in Nat /\ Top \in Nat
  BY <1>1, FdMonitorAssumption DEF RingInv, RingTypes, Top
<1>6. Ahead'
  <2>1. Top <= pub + Depth /\ Top <= since + Depth
    BY <1>1, <1>2 DEF Ahead
  <2>2. pc' # "scan" => since <= last'
    BY <1>1
  <2>3. pc' # "scan" => start' <= last' /\ last' <= pub' /\ Top' <= last' + Depth
    <3> SUFFICES ASSUME pc' # "scan"
                 PROVE  start' <= last' /\ last' <= pub' /\ Top' <= last' + Depth
      OBVIOUS
    <3>1. since <= last' /\ last' <= pub
      BY <1>1, <2>2
    <3>2. \A t, u, v, w \in Nat : t <= u + w /\ u <= v => t <= v + w
      OBVIOUS
    <3>3. Top <= last' + Depth
      BY <1>5, <2>1, <3>1, <3>2, Zenon
    <3>4. start' <= last'
      BY <1>2, <1>5
    <3>5. last' <= pub' /\ Top' <= last' + Depth
      BY <1>2, <1>3, <3>1, <3>3
    <3>6. QED
      BY <3>4, <3>5
  <2>4. "scan" \notin Attached
    BY DEF Attached
  <2>5. QED
    BY <1>2, <1>3, <2>1, <2>3, <2>4 DEF Ahead
<1>7. Current' /\ Between' /\ Ended'
  BY <1>2, <1>4 DEF Current, Between, Ended
<1>8. Known' /\ InOrder'
  BY <1>4 DEF Known, InOrder
<1>9. QED
  BY <1>1, <1>3, <1>6, <1>7, <1>8 DEF MonInv

(* The header of the next shred of the current batch is read.              *)
LEMMA GetCurrentMon == ASSUME MonInv, GetCurrent PROVE MonInv'
<1>1. /\ RingInv /\ RecvTypes /\ Ahead /\ Current /\ Ended /\ Known /\ InOrder
      /\ last \in Nat /\ pc = "get" /\ pc \in Attached /\ cur # None /\ InBatch
  BY DEF MonInv, RingInv, RingTypes, GetCurrent, InBatch, Attached
<1>2. /\ UNCHANGED <<mcache, dcache, pub, filled, published, last, cur, scan, log, since, start, ctx>>
      /\ info' = [seq |-> dcache[cur].seq, idx |-> idx] /\ idx' = idx + 1
      /\ pc' = "copy" /\ pc' \in Attached
  BY DEF GetCurrent, shared, history, Attached
<1>3. RingInv'
  BY <1>1, <1>2, OtherRing DEF Pcs
<1>4. /\ dcache[cur].seq = last /\ published[last].cnt \in Nat
      /\ idx < published[last].cnt /\ published[last].cnt <= MaxCount /\ idx \in Nat
  BY <1>1, CurrentIsLast DEF Current, RecvTypes
<1>5. RecvTypes'
  BY <1>1, <1>2, <1>4, FdMonitorAssumption DEF RecvTypes
<1>6. Top' = Top
  BY <1>2 DEF Top
<1>7. Ahead'
  BY <1>1, <1>2, <1>6 DEF Ahead
<1>8. Current' /\ Between'
  BY <1>1, <1>2, <1>4 DEF Current, Between
<1>9. Copied' = Copied
  BY <1>1, <1>2, <1>4 DEF Copied
<1>10. Ended'
  BY <1>1, <1>2, <1>9 DEF Ended
<1>11. Known' /\ InOrder'
  BY <1>1, <1>2 DEF Known, InOrder
<1>12. QED
  BY <1>3, <1>5, <1>7, <1>8, <1>10, <1>11 DEF MonInv

(* The descriptor of the next batch is found: the current one is finished. *)
LEMMA GetFragMon == ASSUME MonInv, GetFrag PROVE MonInv'
<1>1. /\ RingInv /\ RingTypes /\ Ring /\ RecvTypes /\ Ahead /\ Current
      /\ last \in Nat /\ pub \in Nat /\ ctx \in {"live", "done"}
  BY DEF MonInv, RingInv, RingTypes, RecvTypes
<1>2. /\ UNCHANGED <<shared, last, cur, idx, scan, info, log, since, start, ctx>>
      /\ pc = "get" /\ pc' = "load" /\ pc \in Attached /\ pc' \in Attached /\ ~InBatch
      /\ NextSlot.seq = last + 1 /\ NextSlot.fault # "sz"
  BY DEF GetFrag, monitor, history, Attached
<1>3. RingInv'
  BY <1>1, <1>2, OtherRing DEF Pcs, shared
<1>4. last < pub
  <2>1. mcache[SlotOf(last + 1)].seq <= pub
    BY <1>1, SlotsDiffer DEF Ring
  <2>2. QED
    BY <1>1, <1>2, <2>1 DEF NextSlot
<1>5. published[last + 1].fault # "sz"
  BY <1>1, <1>2, <1>4, StillThere DEF NextSlot
<1>6. cur # None => idx = published[last].cnt
  <2> SUFFICES ASSUME cur # None PROVE idx = published[last].cnt
    OBVIOUS
  <2>1. published[last].cnt \in Nat /\ (InBatch <=> idx < published[last].cnt)
    BY <1>2, CurrentIsLast
  <2>2. idx \in Nat /\ idx <= published[last].cnt
    BY <1>1, <1>2 DEF Current, RecvTypes
  <2>3. QED
    BY <1>2, <2>1, <2>2
<1>7. QED
  BY <1>1, <1>2, <1>3, <1>4, <1>5, <1>6, MoveMon

(* The next batch is loaded, or Recv ends.                                 *)
LEMMA LoadMon == ASSUME MonInv, Load PROVE MonInv'
<1>1. /\ RingInv /\ RecvTypes /\ Ahead /\ Current /\ Between /\ Ended /\ Known /\ InOrder
      /\ last \in Nat /\ pub \in Nat /\ start \in Nat /\ pc = "load" /\ pc \in Attached
      /\ ctx \in {"live", "done"}
  BY DEF MonInv, RingInv, RingTypes, RecvTypes, Load, Attached
<1>2. UNCHANGED <<mcache, dcache, pub, filled, published, overrun, scan, info, log, since, start, ctx>>
  BY DEF Load, shared, history
<1>3. last < pub /\ (cur # None => idx = published[last].cnt)
  BY <1>1 DEF Between
<1>4. /\ NextSlot.seq = last + 1 /\ start <= last
      /\ dcache[ChunkOf(last + 1)].cnt = published[last + 1].cnt
      /\ published[last + 1] \in AnyBatch
  BY <1>1, <1>3, StillThere DEF NextSlot
<1>5. CASE pc' = "exit" /\ UNCHANGED monitor
  <2>1. pc' \in Attached /\ UNCHANGED <<last, cur, idx, shared>>
    BY <1>2, <1>5 DEF Attached, monitor, shared
  <2>2. RingInv'
    BY <1>1, <1>2, <2>1, OtherRing DEF Pcs
  <2>3. QED
    BY <1>1, <1>2, <1>5, <2>1, <2>2, MoveMon
<1>6. CASE pc' = "crashed" /\ UNCHANGED monitor
  <2>1. UNCHANGED <<last, cur, idx, shared>>
    BY <1>2, <1>6 DEF monitor, shared
  <2>2. RingInv'
    BY <1>1, <1>2, <1>6, <2>1, OtherRing DEF Pcs
  <2>3. QED
    BY <1>1, <1>2, <1>6, <2>1, <2>2, EndMon
<1>7. CASE /\ dcache[ChunkOf(NextSlot.seq)].cnt \in 1 .. MaxCount
           /\ cur' = ChunkOf(NextSlot.seq) /\ idx' = 0 /\ last' = last + 1 /\ pc' = "get"
  <2>1. /\ cur' = ChunkOf(last + 1) /\ cur' \in Chunks /\ cur' # None /\ last' \in Nat
        /\ pc' \in Attached /\ last + 1 <= pub
    BY <1>1, <1>3, <1>4, <1>7, ChunksDiffer, FdMonitorAssumption DEF Attached, Chunks
  <2>2. 0 < published[last + 1].cnt /\ published[last + 1].cnt <= MaxCount
    BY <1>4, <1>7 DEF AnyBatch
  <2>3. RingInv'
    BY <1>1, <1>2, <2>1, OtherRing DEF Pcs
  <2>4. RecvTypes'
    BY <1>1, <1>2, <1>7, <2>1, FdMonitorAssumption DEF RecvTypes
  <2>5. Top' = Top /\ Top \in Nat /\ Depth \in Nat
    BY <1>1, <1>2, FdMonitorAssumption DEF Top
  <2>6. Ahead'
    BY <1>1, <1>2, <1>4, <1>7, <2>1, <2>5 DEF Ahead, Attached
  <2>7. Current'
    BY <1>1, <1>2, <1>4, <1>7, <2>1, <2>2, FdMonitorAssumption DEF Current, AnyBatch
  <2>8. Between'
    BY <1>7 DEF Between
  <2>9. Copied' = 0 /\ Copied = idx
    BY <1>1, <1>7 DEF Copied
  <2>10. Ended'
    <3>1. CASE cur = None
      BY <1>1, <1>2, <1>7, <2>1, <2>9, <3>1 DEF Ended, Current
    <3>2. CASE cur # None
      <4>1. idx = published[last].cnt /\ idx # 0
        BY <1>1, <1>3, <3>2 DEF Current, RecvTypes
      <4>2. Len(log) > 0 /\ log[Len(log)].seq = last /\ log[Len(log)].idx + 1 = idx
        BY <1>1, <2>9, <3>2, <4>1 DEF Ended
      <4>3. log[Len(log)].idx + 1 = published[log[Len(log)].seq].cnt
        BY <4>1, <4>2
      <4>4. QED
        BY <1>2, <1>7, <2>9, <4>2, <4>3 DEF Ended
    <3>3. QED
      BY <3>1, <3>2
  <2>11. Known' /\ InOrder'
    BY <1>1, <1>2 DEF Known, InOrder
  <2>12. QED
    BY <2>3, <2>4, <2>6, <2>7, <2>8, <2>10, <2>11 DEF MonInv
<1>8. QED
  BY <1>5, <1>6, <1>7 DEF Load

(* The payload is copied: it is the one that belongs to the header.        *)
LEMMA CopyMon == ASSUME MonInv, CopyShred PROVE MonInv'
<1>1. /\ RingInv /\ RecvTypes /\ Ahead /\ Current /\ Between /\ Ended /\ Known /\ InOrder
      /\ last \in Nat /\ pub \in Nat /\ start \in Nat /\ pc = "copy" /\ pc \in Attached
  BY DEF MonInv, RingInv, RingTypes, CopyShred, Attached
<1>2. /\ UNCHANGED <<mcache, dcache, pub, filled, published, last, cur, idx, scan, info,
                     since, start, ctx>>
      /\ log' = Append(log, [seq |-> info.seq, idx |-> info.idx, payload |-> dcache[cur].seq])
      /\ pc' = "loop" /\ pc' \in Attached
  BY DEF CopyShred, shared, monitor, Attached
<1>3. /\ cur # None /\ idx \in Nat /\ idx > 0 /\ info.seq = last /\ info.idx \in Nat
      /\ info.idx + 1 = idx /\ dcache[cur].seq = last /\ 0 < last /\ last <= pub
  BY <1>1, CurrentIsLast DEF Between, RecvTypes, Ahead
<1>4. PICK e \in [seq : Nat, idx : Nat, payload : Nat] :
        e = [seq |-> info.seq, idx |-> info.idx, payload |-> dcache[cur].seq]
  BY <1>1, <1>3
<1>5. e.seq = last /\ e.payload = last /\ e.idx + 1 = idx /\ e.idx \in Nat
  BY <1>3, <1>4
<1>6. log \in Seq([seq : Nat, idx : Nat, payload : Nat]) /\ Len(log) \in Nat
  BY <1>1 DEF RecvTypes
<1>7. /\ log' = Append(log, e) /\ log' \in Seq([seq : Nat, idx : Nat, payload : Nat])
      /\ Len(log') = Len(log) + 1 /\ log'[Len(log) + 1] = e
      /\ \A k \in 1 .. Len(log) : log'[k] = log[k]
  BY <1>2, <1>4, <1>6
<1>8. RingInv'
  BY <1>1, <1>2, OtherRing DEF Pcs
<1>9. RecvTypes'
  BY <1>1, <1>2, <1>7 DEF RecvTypes
<1>10. Top' = Top
  BY <1>2 DEF Top
<1>11. Ahead'
  BY <1>1, <1>2, <1>10 DEF Ahead
<1>12. Current' /\ Between'
  BY <1>1, <1>2, <1>3 DEF Current, Between
<1>13. Copied' = idx /\ Copied = e.idx
  BY <1>1, <1>2, <1>3, <1>5 DEF Copied
<1>14. Ended'
  BY <1>2, <1>3, <1>5, <1>6, <1>7, <1>13 DEF Ended
<1>15. Known'
  BY <1>1, <1>2, <1>3, <1>5, <1>6, <1>7 DEF Known
<1>16. InOrder'
  <2> SUFFICES ASSUME NEW k \in 1 .. Len(log')
               PROVE  /\ log'[k].payload = log'[k].seq
                      /\ IF log'[k].idx = 0
                         THEN IF k = 1 THEN log'[k].seq = start' + 1
                                       ELSE /\ log'[k].seq = log'[k-1].seq + 1
                                            /\ log'[k-1].idx + 1 = published'[log'[k-1].seq].cnt
                         ELSE /\ k > 1 /\ log'[k-1].seq = log'[k].seq
                              /\ log'[k-1].idx + 1 = log'[k].idx
    BY DEF InOrder
  <2>1. CASE k <= Len(log)
    <3>1. k \in 1 .. Len(log) /\ log'[k] = log[k] /\ (k # 1 => log'[k-1] = log[k-1])
      BY <1>6, <1>7, <2>1
    <3>2. QED
      BY <1>1, <1>2, <3>1 DEF InOrder
  <2>2. CASE k = Len(log) + 1
    <3>1. log'[k] = e /\ (k # 1 => log'[k-1] = log[Len(log)] /\ k > 1) /\ (k = 1 <=> Len(log) = 0)
      BY <1>6, <1>7, <2>2
    <3>2. /\ e.idx = 0 => IF Len(log) = 0
                          THEN last = start + 1
                          ELSE /\ log[Len(log)].seq + 1 = last
                               /\ log[Len(log)].idx + 1 = published[log[Len(log)].seq].cnt
          /\ e.idx # 0 => /\ Len(log) # 0 /\ log[Len(log)].seq = last
                          /\ log[Len(log)].idx + 1 = e.idx
      BY <1>1, <1>3, <1>13 DEF Ended
    <3>3. QED
      BY <1>2, <1>5, <3>1, <3>2
  <2>3. k <= Len(log) \/ k = Len(log) + 1
    BY <1>6, <1>7
  <2>4. QED
    BY <2>1, <2>2, <2>3
<1>17. QED
  BY <1>8, <1>9, <1>11, <1>12, <1>14, <1>15, <1>16 DEF MonInv

(* Every step that does not overrun the monitor keeps the second half.     *)
LEMMA MonNext == ASSUME MonInv, [Next]_vars, ~overrun' PROVE MonInv'
<1>1. RingInv /\ RingInv' /\ last \in Nat /\ pc \in Pcs /\ ctx \in {"live", "done"}
  BY RingNext DEF MonInv, RingInv, RingTypes, RecvTypes
<1>2. CASE Validator
  BY <1>2, FillMon, PublishMon DEF Validator
<1>3. CASE AttachFails
  BY <1>1, <1>3, EndMon DEF AttachFails, monitor, history
<1>4. CASE Attach
  BY <1>4, AttachMon
<1>5. CASE ScanSlot
  BY <1>5, ScanMon
<1>6. CASE LoopCheck \/ GetNothing \/ SleepEnds
  <2>1. /\ UNCHANGED <<shared, last, cur, idx, scan, info, log, since, start, ctx>>
        /\ pc \in Attached /\ pc' \in Attached /\ pc # "copy" /\ pc' # "copy" /\ pc' # "load"
    BY <1>6 DEF LoopCheck, GetNothing, SleepEnds, monitor, history, Attached
  <2>2. QED
    BY <1>1, <2>1, MoveMon
<1>7. CASE GetCurrent \/ GetFrag \/ Load \/ CopyShred
  BY <1>7, GetCurrentMon, GetFragMon, LoadMon, CopyMon
<1>8. CASE Exit
  BY <1>1, <1>8, EndMon DEF Exit, history
<1>9. CASE Cancel
  BY <1>1, <1>9, MoveMon DEF Cancel, monitor, history
<1>10. CASE Terminated \/ UNCHANGED vars
  BY <1>1, <1>10, MoveMon DEF Terminated, vars, monitor, history
<1>11. QED
  BY <1>2, <1>3, <1>4, <1>5, <1>6, <1>7, <1>8, <1>9, <1>10 DEF Next, Recv

(* An overrun monitor keeps its types, and stays overrun.                  *)
LEMMA RecvNext ==
  ASSUME RingTypes, Overrun, [Next]_vars
  PROVE  Overrun' /\ (~overrun' => ~overrun)
<1>1. /\ cur \in Chunks \cup {None} /\ idx \in Nat /\ idx <= MaxCount + 1
      /\ info \in [seq : Nat, idx : Nat] /\ ctx \in {"live", "done"} /\ MaxCount \in Nat
      /\ log \in Seq([seq : Nat, idx : Nat, payload : Nat])
  BY FdMonitorAssumption DEF Overrun, RecvTypes
<1>2. /\ \A c \in Chunks : dcache[c].seq \in Nat /\ dcache[c].cnt \in Nat
                           /\ dcache[c].cnt <= MaxCount + 1
      /\ last \in Nat /\ \A n \in Nat : mcache[SlotOf(n)].seq \in Nat
  <2>1. \A c \in Chunks : dcache[c] \in [seq : Nat, cnt : 0 .. MaxCount + 1]
    BY DEF RingTypes
  <2>2. last \in Nat /\ \A s \in Slots : mcache[s].seq \in Nat
    BY DEF RingTypes
  <2>3. \A n \in Nat : SlotOf(n) \in Slots
    BY SlotsDiffer
  <2>4. QED
    BY <1>1, <2>1, <2>2, <2>3
<1>3. overrun' \in BOOLEAN /\ (~overrun' => ~overrun)
  <2>1. CASE \E b \in Batches : Fill(b)
    BY <2>1 DEF Fill
  <2>2. CASE UNCHANGED overrun
    BY <2>2 DEF Overrun
  <2>3. (\E b \in Batches : Fill(b)) \/ UNCHANGED overrun
    BY DEF Next, Validator, Publish, AttachFails, Attach, ScanSlot, Recv, LoopCheck, GetCurrent,
           GetFrag, GetNothing, Load, CopyShred, SleepEnds, Exit, Cancel, Terminated, vars, shared
  <2>4. QED
    BY <2>1, <2>2, <2>3
<1>4. ASSUME UNCHANGED <<cur, idx, info, log>>, ctx' \in {ctx, "done"} PROVE RecvTypes'
  BY <1>1, <1>4 DEF RecvTypes
<1>5. ASSUME GetCurrent PROVE RecvTypes'
  <2>1. /\ cur \in Chunks /\ idx < dcache[cur].cnt /\ idx' = idx + 1
        /\ info' = [seq |-> dcache[cur].seq, idx |-> idx] /\ UNCHANGED <<cur, log, ctx>>
    BY <1>1, <1>5 DEF GetCurrent, InBatch, history
  <2>2. idx' \in Nat /\ idx' <= MaxCount + 1 /\ info' \in [seq : Nat, idx : Nat]
    BY <1>1, <1>2, <2>1
  <2>3. QED
    BY <1>1, <2>1, <2>2 DEF RecvTypes
<1>6. ASSUME Load PROVE RecvTypes'
  <2>1. /\ UNCHANGED <<info, log, ctx>>
        /\ UNCHANGED <<cur, idx>> \/ (cur' = ChunkOf(NextSlot.seq) /\ idx' = 0)
    BY <1>6 DEF Load, history, monitor
  <2>2. ChunkOf(NextSlot.seq) \in Chunks
    BY <1>2, ChunksDiffer DEF NextSlot
  <2>3. QED
    BY <1>1, <2>1, <2>2 DEF RecvTypes
<1>7. ASSUME CopyShred PROVE RecvTypes'
  <2>1. /\ UNCHANGED <<cur, idx, info, ctx>> /\ cur \in Chunks
        /\ log' = Append(log, [seq |-> info.seq, idx |-> info.idx, payload |-> dcache[cur].seq])
    BY <1>1, <1>7 DEF CopyShred, monitor, Overrun
  <2>2. [seq |-> info.seq, idx |-> info.idx, payload |-> dcache[cur].seq]
          \in [seq : Nat, idx : Nat, payload : Nat]
    BY <1>1, <1>2, <2>1
  <2>3. log' \in Seq([seq : Nat, idx : Nat, payload : Nat])
    BY <1>1, <2>1, <2>2
  <2>4. QED
    BY <1>1, <2>1, <2>3 DEF RecvTypes
<1>8. ASSUME Exit PROVE RecvTypes'
  BY <1>1, <1>8 DEF Exit, history, RecvTypes
<1>9. RecvTypes'
  <2>1. CASE Validator \/ AttachFails \/ Attach \/ ScanSlot
    BY <1>4, <2>1 DEF Validator, Fill, Publish, AttachFails, Attach, ScanSlot, monitor, history
  <2>2. CASE LoopCheck \/ GetFrag \/ GetNothing \/ SleepEnds
    BY <1>4, <2>2 DEF LoopCheck, GetFrag, GetNothing, SleepEnds, monitor, history
  <2>3. CASE Cancel \/ Terminated \/ UNCHANGED vars
    BY <1>4, <2>3 DEF Cancel, Terminated, vars, monitor, history
  <2>4. QED
    BY <1>5, <1>6, <1>7, <1>8, <2>1, <2>2, <2>3 DEF Next, Recv
<1>10. pc' = "copy" => cur' # None
  <2>1. CASE GetCurrent
    BY <2>1 DEF GetCurrent, InBatch
  <2>2. pc' = "copy" => GetCurrent \/ (pc = "copy" /\ cur' = cur)
    BY DEF Next, Validator, Fill, Publish, AttachFails, Attach, ScanSlot, Recv, LoopCheck,
           GetFrag, GetNothing, Load, CopyShred, SleepEnds, Exit, Cancel, Terminated, vars, monitor
  <2>3. QED
    BY <2>1, <2>2 DEF Overrun
<1>11. QED
  BY <1>3, <1>9, <1>10 DEF Overrun

(* Every step keeps the whole invariant.                                   *)
LEMMA FullNext == ASSUME FullInv, [Next]_vars PROVE FullInv'
<1>1. RingInv' /\ Overrun' /\ (~overrun' => ~overrun)
  BY RingNext, RecvNext DEF FullInv, RingInv
<1>2. ~overrun' => MonInv'
  BY <1>1, MonNext DEF FullInv
<1>3. QED
  BY <1>1, <1>2 DEF FullInv

(* The invariant of the monitor, for any ring, any number of chunks above  *)
(* its depth and any batch size: what ring and dcache hold whatever the    *)
(* pace of the validator, and what Recv relies on until it is overrun.     *)
THEOREM MonitorInvariant == Spec => []FullInv
<1>1. Init => FullInv
  <2>1. Init => Overrun
    BY MonInit DEF MonInv, Overrun, Init
  <2>2. QED
    BY <2>1, RingInit, MonInit DEF FullInv
<1>2. FullInv /\ [Next]_vars => FullInv'
  BY FullNext
<1>3. QED
  BY <1>1, <1>2, PTL DEF Spec

(* The types are kept whatever the pace of the validator; the index from   *)
(* which the address of a shred is computed stays within its batch until   *)
(* the monitor is overrun, although chunks are written over all the time.  *)
THEOREM MonitorTypes == Spec => []TypeOK
<1>1. FullInv => TypeOK
  <2> SUFFICES ASSUME FullInv PROVE TypeOK
    OBVIOUS
  <2>1. RingTypes /\ RecvTypes /\ overrun \in BOOLEAN
    BY DEF FullInv, RingInv, Overrun
  <2>2. ~overrun /\ pc \in Attached /\ cur # None => idx <= dcache[cur].cnt /\ idx <= MaxCount
    <3> SUFFICES ASSUME MonInv, pc \in Attached, cur # None
                 PROVE  idx <= dcache[cur].cnt /\ idx <= MaxCount
      BY DEF FullInv
    <3>1. /\ idx <= published[last].cnt /\ published[last].cnt <= MaxCount /\ idx \in Nat
          /\ MaxCount \in Nat
      BY FdMonitorAssumption DEF MonInv, Current, RecvTypes
    <3>2. QED
      BY <3>1, CurrentIsLast
  <2>3. /\ pub \in 0 .. MaxSeq /\ scan \in 0 .. Depth /\ idx \in 0 .. MaxCount + 1
        /\ published \in Seq([cnt : 0 .. MaxCount + 1, fault : AllFaults \cup {"none"}])
    BY <2>1, FdMonitorAssumption DEF RingTypes, RecvTypes, AnyBatch
  <2>4. QED
    BY <2>1, <2>2, <2>3 DEF TypeOK, RingTypes, RecvTypes, Pcs
<1>2. QED
  BY <1>1, MonitorInvariant, PTL

(* Until the monitor is overrun, a ring that may be exactly full is read   *)
(* correctly: Recv copies the shreds of the batches after start, each      *)
(* once, in order, none left out, each payload with its own header,        *)
(* whatever the depth of the ring.                                         *)
THEOREM FullRingIsReadInOrder == Spec => []TakenInOrder
<1>1. FullInv => TakenInOrder
  BY DEF FullInv, MonInv, TakenInOrder
<1>2. QED
  BY <1>1, MonitorInvariant, PTL
=============================================================================
