---------------------------- MODULE ShredProofs ----------------------------
(***************************************************************************)
(* Proofs about shreds.  For every packet: what ParseShredPartial lets     *)
(* through fits the fields of the key, and the key tells apart what it     *)
(* should.  For every set of sources: what is recorded of the shreds that  *)
(* pass is neither lost nor counted twice by the statistics.               *)
(***************************************************************************)
EXTENDS Shred, Stats, FiniteSetTheorems, FunctionTheorems, SequenceTheorems, TLAPS

(* An index that is not above 32768 has no bit above bit 15.               *)
LEMMA IndexBits ==
  ASSUME NEW i \in SUBSET (0..31), ~Less(maxDataShredsPerSlot, i)
  PROVE  i \subseteq 0..19
<1> SUFFICES ASSUME NEW b \in i, b > 19 PROVE FALSE
  OBVIOUS
<1>1. \E m \in i \ {15} : \A j \in ({15} \ i) \cup (i \ {15}) : j <= m
  <2> DEFINE M(n) == n \in i /\ n > 15 /\ \A j \in i : j <= n
  <2>1. \E n \in 16..31 : M(n)
    BY SMTT(60)
  <2>2. QED
    BY <2>1
<1>2. QED
  BY <1>1 DEF Less, maxDataShredsPerSlot

(* A bit of a key is a bit of exactly one field.                           *)
LEMMA ShiftedBit ==
  ASSUME NEW w \in SUBSET Nat, NEW n \in Nat, NEW b \in Nat
  PROVE  b \in Shl(w, n) <=> b \in Word /\ b >= n /\ b - n \in w
BY DEF Shl, Word

(* The three fields of a key can be read back from it.                     *)
LEMMA KeyFields ==
  ASSUME NEW s \in SUBSET Word, NEW i \in SUBSET (0..19), NEW v \in SUBSET (4..7)
  PROVE  /\ \A b \in 0..7  : b \in v <=> b \in ShredKey(s, i, v)
         /\ \A b \in 0..19 : b \in i <=> b + 8 \in ShredKey(s, i, v)
         /\ \A b \in 0..35 : b \in s <=> b + 28 \in ShredKey(s, i, v)
<1>0. s \in SUBSET Nat /\ i \in SUBSET Nat /\ v \in SUBSET Nat
  BY DEF Word
<1>1. \A b \in Nat : b \in ShredKey(s, i, v) <=>
         \/ b \in Word /\ b >= 28 /\ b - 28 \in s
         \/ b \in Word /\ b >= 8 /\ b - 8 \in i
         \/ b \in v
  BY <1>0, ShiftedBit DEF ShredKey
<1>2. \A b \in 0..7 : b \in v <=> b \in ShredKey(s, i, v)
  BY <1>1
<1>3. ASSUME NEW b \in 0..19 PROVE b \in i <=> b + 8 \in ShredKey(s, i, v)
  <2>1. b + 8 \in Word /\ b + 8 >= 8 /\ (b + 8) - 8 = b /\ b + 8 < 28 /\ b + 8 \notin v
    BY DEF Word
  <2>2. QED
    BY <1>1, <2>1
<1>4. ASSUME NEW b \in 0..35 PROVE b \in s <=> b + 28 \in ShredKey(s, i, v)
  <2>1. b + 28 \in Word /\ b + 28 >= 28 /\ (b + 28) - 28 = b /\ (b + 28) - 8 \notin i /\ b + 28 \notin v
    BY DEF Word
  <2>2. QED
    BY <1>1, <2>1
<1>5. QED
  BY <1>2, <1>3, <1>4

(* Bits of the slot above the 36 kept ones are shifted out of the key.     *)
LEMMA KeyLowSlot ==
  ASSUME NEW s \in SUBSET Word, NEW t \in SUBSET Word,
         s \cap (0..35) = t \cap (0..35)
  PROVE  Shl(s, 28) = Shl(t, 28)
<1>1. ASSUME NEW w \in SUBSET Word, NEW b \in Word
      PROVE  b \in Shl(w, 28) <=> b >= 28 /\ b - 28 \in w \cap (0..35)
  BY ShiftedBit DEF Word
<1>2. Shl(s, 28) \subseteq Word /\ Shl(t, 28) \subseteq Word
  BY DEF Shl
<1>3. QED
  BY <1>1, <1>2

(* What ParseShredPartial accepts has the ranges the key relies on.        *)
LEMMA ParsedRanges ==
  ASSUME NEW p \in Packet, ParseShredPartial(p).ok
  PROVE  LET s == ParseShredPartial(p)
         IN  /\ s = [ok |-> TRUE, slot |-> p.slot, index |-> p.index, variant |-> Variant(p.variant)]
             /\ s.slot \in SUBSET Word
             /\ s.index \in SUBSET (0..19)
             /\ s.variant \in SUBSET (4..7)
             /\ s.variant \in Legacy \cup Merkle
             /\ validateShredSize(p.size, s.variant)
<1> DEFINE s == ParseShredPartial(p)
           v == Variant(p.variant)
           P == [ok |-> TRUE, slot |-> p.slot, index |-> p.index, variant |-> v]
<1>1. /\ s = P
      /\ v \in Legacy \cup Merkle
      /\ validateShredSize(p.size, v)
      /\ ~Less(maxDataShredsPerSlot, p.index)
  BY DEF ParseShredPartial, Rejected
<1>2. p.slot \in SUBSET Word /\ p.index \in SUBSET (0..31)
  BY DEF Packet
<1>3. p.index \in SUBSET (0..19)
  BY <1>1, <1>2, IndexBits
<1>4. v \in SUBSET (4..7)
  BY DEF Variant
<1>5. QED
  BY <1>1, <1>2, <1>3, <1>4

(* The key of a parsed shred determines its index, its variant and the 36  *)
(* low bits of its slot, and is determined by them.                        *)
LEMMA KeyDetermines ==
  ASSUME NEW s \in SUBSET Word, NEW i \in SUBSET (0..19), NEW v \in SUBSET (4..7),
         NEW t \in SUBSET Word, NEW j \in SUBSET (0..19), NEW w \in SUBSET (4..7)
  PROVE  ShredKey(s, i, v) = ShredKey(t, j, w) <=>
           j = i /\ w = v /\ t \cap (0..35) = s \cap (0..35)
<1>1. ASSUME ShredKey(s, i, v) = ShredKey(t, j, w)
      PROVE  j = i /\ w = v /\ t \cap (0..35) = s \cap (0..35)
  <2>1. /\ \A b \in 0..7  : b \in v <=> b \in w
        /\ \A b \in 0..19 : b \in i <=> b \in j
        /\ \A b \in 0..35 : b \in s <=> b \in t
    BY <1>1, KeyFields
  <2>2. v \subseteq 0..7 /\ w \subseteq 0..7
    OBVIOUS
  <2>3. QED
    BY <2>1, <2>2
<1>2. ASSUME j = i, w = v, t \cap (0..35) = s \cap (0..35)
      PROVE  ShredKey(s, i, v) = ShredKey(t, j, w)
  BY <1>2, KeyLowSlot DEF ShredKey
<1>3. QED
  BY <1>1, <1>2

-----------------------------------------------------------------------------
(* The state is the packet and nothing, or what the parser makes of it.    *)
Outcome == pkt \in Packets /\ out \in {Rejected, ParseShredPartial(pkt)}

(* The result always belongs to the packet.                                *)
LEMMA AlwaysOutcome == ParseSpec => []Outcome
<1>1. ParseInit => Outcome
  BY DEF ParseInit, Outcome
<1>2. Outcome /\ [Parse]_packetVars => Outcome'
  BY DEF Outcome, Parse, packetVars
<1>3. QED
  BY <1>1, <1>2, PTL DEF ParseSpec

(* Parsed shreds satisfy what the gateway assumes of them, whatever was    *)
(* received.                                                               *)
THEOREM ParsingIsSound == ParseSpec => []ParseSound
<1>1. Outcome => ParseSound
  <2> SUFFICES ASSUME Outcome, out.ok PROVE ParseSound
    BY DEF ParseSound
  <2>1. out = ParseShredPartial(pkt) /\ pkt \in Packet
    BY PacketsAssumption DEF Outcome, Rejected
  <2>2. /\ out.index \subseteq 0..19
        /\ out.variant \in Legacy \cup Merkle
        /\ validateShredSize(pkt.size, out.variant)
    BY <2>1, ParsedRanges
  <2>3. IsCode(out.variant) /= IsData(out.variant)
    BY <2>2 DEF IsCode, IsData, shredMask, Legacy, Merkle, LegacyCode, LegacyData, MerkleCode,
       MerkleCodeChained, MerkleCodeResigned, MerkleData, MerkleDataChained, MerkleDataResigned
  <2>4. ValidateShredSizeSimple(pkt.size)
    BY <2>2 DEF validateShredSize, ValidateShredSizeSimple, sizeOfMerkleDataShredPayload,
       sizeOfLegacyCodeShredPayload
  <2>5. QED
    BY <2>2, <2>3, <2>4 DEF ParseSound
<1>2. QED
  BY <1>1, AlwaysOutcome, PTL

(* Two parsed shreds share a key exactly when index, variant and the low   *)
(* 36 bits of the slot agree, for any two packets.                         *)
THEOREM KeysIdentifyShreds == ParseSpec => []KeyIdentity
<1>1. Outcome => KeyIdentity
  <2> SUFFICES ASSUME Outcome, out.ok, NEW p \in Packets, ParseShredPartial(p).ok
               PROVE  LET s == ParseShredPartial(p)
                      IN  Key(s) = Key(out) <=>
                            /\ s.index = out.index
                            /\ s.variant = out.variant
                            /\ s.slot \cap (0..35) = out.slot \cap (0..35)
    BY DEF KeyIdentity
  <2>1. out = ParseShredPartial(pkt) /\ pkt \in Packet /\ p \in Packet
    BY PacketsAssumption DEF Outcome, Rejected
  <2> DEFINE s == ParseShredPartial(p)
  <2>2. s.slot \in SUBSET Word /\ s.index \in SUBSET (0..19) /\ s.variant \in SUBSET (4..7)
    BY <2>1, ParsedRanges
  <2>3. out.slot \in SUBSET Word /\ out.index \in SUBSET (0..19) /\ out.variant \in SUBSET (4..7)
    BY <2>1, ParsedRanges
  <2> HIDE DEF s
  <2>4. QED
    BY <2>2, <2>3, KeyDetermines DEF Key, s
<1>2. QED
  BY <1>1, AlwaysOutcome, PTL

(* The two parsers agree on every packet, of all sizes and field values.   *)
THEOREM ParsersAgreeAlways == ParseSpec => []ParsersAgree
<1>1. Outcome => ParsersAgree
  <2> SUFFICES ASSUME Outcome PROVE ParsersAgree
    OBVIOUS
  <2>1. pkt \in Packet
    BY PacketsAssumption DEF Outcome
  <2>2. pkt.size \in Nat
    BY <2>1 DEF Packet
  <2> DEFINE v == Variant(pkt.variant)
             full == ParseShred(pkt)
             shred == [ok |-> TRUE, slot |-> pkt.slot, index |-> pkt.index, variant |-> v]
             valid == v \in Legacy \cup Merkle /\ validateShredSize(pkt.size, v)
  <2>3. validateShredSize(pkt.size, v) => pkt.size >= sizeOfParent
    BY <2>2 DEF validateShredSize, sizeOfParent, sizeOfMerkleDataShredPayload, sizeOfLegacyCodeShredPayload
  <2>4. full = IF pkt.size = sizeOfSignature THEN Panic ELSE IF valid THEN shred ELSE Rejected
    BY <2>2, <2>3 DEF ParseShred, sizeOfSignature, sizeOfParent
  <2>5. ParseShredPartial(pkt) =
          IF valid /\ ~Less(maxDataShredsPerSlot, pkt.index) /\ (IsData(v) => ~Less(pkt.slot, pkt.offset))
          THEN shred ELSE Rejected
    BY <2>3 DEF ParseShredPartial
  <2>6. Panic # Rejected /\ Panic # shred /\ shred # Rejected
        /\ shred.ok = TRUE /\ Panic.ok = FALSE /\ Rejected.ok = FALSE
    BY DEF Panic, Rejected
  <2>7. out = ParseShredPartial(pkt) \/ out = Rejected
    BY DEF Outcome
  <2>8. valid => pkt.size # sizeOfSignature
    BY <2>2, <2>3 DEF sizeOfSignature, sizeOfParent
  <2> HIDE DEF v, full, shred, valid
  <2>9. out.ok => full = out
    BY <2>4, <2>5, <2>6, <2>7, <2>8
  <2>10. full.ok => \/ ParseShredPartial(pkt) = full
                    \/ Less(maxDataShredsPerSlot, pkt.index)
                    \/ Less(pkt.slot, pkt.offset)
    BY <2>4, <2>5, <2>6
  <2>11. full = Panic <=> pkt.size = sizeOfSignature
    BY <2>4, <2>6
  <2>12. QED
    BY <2>9, <2>10, <2>11 DEF ParsersAgree, full
<1>2. QED
  BY <1>1, AlwaysOutcome, PTL

-----------------------------------------------------------------------------
(* The statistics.                                                         *)

(* A slot reported less than a minute ago is in the map, and young.        *)
Reported == \A k \in reported : fmp[k] = "young"

(* The types, recorder by recorder and goroutine by goroutine.             *)
RecTypes ==
  /\ caller \in [Sources -> {"idle", "set"}]
  /\ ch \in [Recorders -> Seq(Sources)] /\ \A r \in Recorders : Len(ch[r]) <= Cap
  /\ hand \in [Recorders -> Sources \cup {None}]
  /\ mp \in Counts /\ calls \in Counts /\ dropped \in Counts /\ flushed \in Counts

FlushTypes == flusher \in {"wait", "unseen", "send", "log", "clean"}

PrintTypes == printer \in {"busy", "parked"}

FirstTypes ==
  /\ fch \in Seq(Slots) /\ Len(fch) <= Cap /\ fhand \in Slots \cup {None}
  /\ fmp \in [Slots -> {"absent", "young", "old"}] /\ reported \subseteq Slots

RecInv   == RecTypes /\ Conserved
FirstInv == FirstTypes /\ Reported
StatsInv == RecInv /\ FlushTypes /\ PrintTypes /\ FirstInv

-----------------------------------------------------------------------------
(* Counting in a channel.                                                  *)

Positions(q, e) == {i \in DOMAIN q : q[i] = e}

(* A channel has finitely many positions.                                  *)
LEMMA PositionsFinite ==
  ASSUME NEW S, NEW q \in Seq(S), NEW e
  PROVE  IsFiniteSet(Positions(q, e)) /\ Cardinality(Positions(q, e)) \in Nat
<1>1. Len(q) \in Nat /\ DOMAIN q = 1 .. Len(q)
  BY LenProperties
<1>2. IsFiniteSet(1 .. Len(q))
  BY <1>1, FS_Interval
<1>3. Positions(q, e) \in SUBSET (1 .. Len(q))
  BY <1>1 DEF Positions
<1>4. IsFiniteSet(Positions(q, e))
  BY <1>2, <1>3, FS_Subset
<1>5. QED
  BY <1>4, FS_CardinalityType

(* Appending an element adds one occurrence of it.                         *)
LEMMA PositionsAppend ==
  ASSUME NEW S, NEW q \in Seq(S), NEW a \in S, NEW e
  PROVE  Cardinality(Positions(Append(q, a), e))
           = Cardinality(Positions(q, e)) + (IF a = e THEN 1 ELSE 0)
<1>1. /\ Len(q) \in Nat /\ DOMAIN q = 1 .. Len(q)
      /\ DOMAIN Append(q, a) = 1 .. Len(q) + 1
      /\ Append(q, a)[Len(q) + 1] = a
      /\ \A i \in 1 .. Len(q) : Append(q, a)[i] = q[i]
  BY LenProperties, AppendProperties
<1>2. IsFiniteSet(Positions(q, e)) /\ Cardinality(Positions(q, e)) \in Nat
  BY PositionsFinite
<1>3. CASE a = e
  <2>1. Positions(Append(q, a), e) = Positions(q, e) \cup {Len(q) + 1}
    BY <1>1, <1>3 DEF Positions
  <2>2. Len(q) + 1 \notin Positions(q, e)
    BY <1>1 DEF Positions
  <2>3. QED
    BY <1>2, <1>3, <2>1, <2>2, FS_AddElement
<1>4. CASE a # e
  <2>1. Positions(Append(q, a), e) = Positions(q, e)
    BY <1>1, <1>4 DEF Positions
  <2>2. QED
    BY <1>2, <1>4, <2>1
<1>5. QED
  BY <1>3, <1>4

(* Taking the first element off takes one occurrence of it off.            *)
LEMMA PositionsTail ==
  ASSUME NEW S, NEW q \in Seq(S), q # << >>, NEW e
  PROVE  Cardinality(Positions(q, e))
           = Cardinality(Positions(Tail(q), e)) + (IF Head(q) = e THEN 1 ELSE 0)
<1>1. /\ Len(q) \in Nat /\ Len(q) > 0 /\ DOMAIN q = 1 .. Len(q) /\ Head(q) = q[1]
      /\ Tail(q) \in Seq(S) /\ DOMAIN Tail(q) = 1 .. Len(q) - 1
      /\ \A i \in 1 .. Len(q) - 1 : Tail(q)[i] = q[i + 1]
  BY LenProperties, HeadTailProperties, EmptySeq
<1> DEFINE A == Positions(q, e)
           B == Positions(Tail(q), e)
           f == [i \in B |-> i + 1]
<1>2. IsFiniteSet(A) /\ IsFiniteSet(B) /\ Cardinality(A) \in Nat /\ Cardinality(B) \in Nat
  BY <1>1, PositionsFinite
<1>3. \A i : i \in B <=> i \in 1 .. Len(q) - 1 /\ q[i + 1] = e
  BY <1>1 DEF Positions
<1>4. \A i : i \in A \ {1} <=> i \in 1 .. Len(q) /\ i # 1 /\ q[i] = e
  BY <1>1 DEF Positions
<1>5. f \in Bijection(B, A \ {1})
  <2>1. f \in [B -> A \ {1}]
    BY <1>1, <1>3, <1>4
  <2>2. \A i, j \in B : f[i] = f[j] => i = j
    BY <1>1, <1>3
  <2>3. \A t \in A \ {1} : \E i \in B : f[i] = t
    <3>1. SUFFICES ASSUME NEW t \in A \ {1} PROVE \E i \in B : f[i] = t
      OBVIOUS
    <3>2. t \in 2 .. Len(q) /\ q[t] = e
      BY <1>1, <1>4
    <3>3. t - 1 \in 1 .. Len(q) - 1 /\ (t - 1) + 1 = t
      BY <1>1, <3>2
    <3>4. t - 1 \in B
      BY <1>3, <3>2, <3>3
    <3>5. QED
      BY <3>3, <3>4
  <2>4. QED
    BY <2>1, <2>2, <2>3, Fun_IsBij
<1>6. Cardinality(A \ {1}) = Cardinality(B)
  <2>1. ExistsBijection(B, A \ {1})
    BY <1>5, Fun_ExistsBij
  <2>2. QED
    BY <1>2, <2>1, FS_Bijection
<1>7. Cardinality(A \ {1}) = IF 1 \in A THEN Cardinality(A) - 1 ELSE Cardinality(A)
  BY <1>2, FS_RemoveElement
<1>8. 1 \in A <=> Head(q) = e
  BY <1>1 DEF Positions
<1> HIDE DEF A, B
<1>9. Cardinality(A) = Cardinality(B) + (IF Head(q) = e THEN 1 ELSE 0)
  BY <1>2, <1>6, <1>7, <1>8
<1>10. QED
  BY <1>9 DEF A, B

-----------------------------------------------------------------------------
(* The recorders by source.                                                *)

(* The terms of the balance are numbers.                                   *)
LEMMA TermTypes ==
  ASSUME RecTypes, NEW r \in Recorders, NEW s \in Sources
  PROVE  /\ calls[r][s] \in Nat /\ dropped[r][s] \in Nat /\ mp[r][s] \in Nat
         /\ flushed[r][s] \in Nat /\ Queued(r, s) \in Nat /\ InHand(r, s) \in Nat
         /\ Queued(r, s) = Cardinality(Positions(ch[r], s))
<1>1. /\ calls[r][s] \in Nat /\ dropped[r][s] \in Nat /\ mp[r][s] \in Nat
      /\ flushed[r][s] \in Nat /\ ch[r] \in Seq(Sources)
  BY DEF RecTypes, Counts
<1>2. Queued(r, s) = Cardinality(Positions(ch[r], s))
  BY DEF Queued, Positions
<1>3. InHand(r, s) \in Nat
  BY DEF InHand
<1>4. QED
  BY <1>1, <1>2, <1>3, PositionsFinite

(* A call of record is in the channel or dropped.                          *)
LEMMA RecordKeeps ==
  ASSUME RecInv, NEW r \in Recorders, NEW s \in Sources, record(r, s),
         UNCHANGED <<hand, mp, flushed>>, caller' \in [Sources -> {"idle", "set"}]
  PROVE  RecInv'
<1>1. RecTypes /\ Conserved
  BY DEF RecInv
<1>2. calls' = [calls EXCEPT ![r][s] = @ + 1]
  BY DEF record
<1>3. \/ /\ Len(ch[r]) < Cap /\ ch' = [ch EXCEPT ![r] = Append(ch[r], s)] /\ dropped' = dropped
      \/ dropped' = [dropped EXCEPT ![r][s] = @ + 1] /\ ch' = ch
  BY DEF record
<1>4. /\ calls' \in Counts
      /\ \A p \in Recorders, t \in Sources :
           calls'[p][t] = calls[p][t] + (IF p = r /\ t = s THEN 1 ELSE 0)
  <2>1. calls \in Counts
    BY <1>1 DEF RecTypes
  <2>2. QED
    BY <1>2, <2>1 DEF Counts
<1>5. CASE Len(ch[r]) < Cap /\ ch' = [ch EXCEPT ![r] = Append(ch[r], s)] /\ dropped' = dropped
  <2>1. /\ ch[r] \in Seq(Sources) /\ Append(ch[r], s) \in Seq(Sources)
        /\ Len(Append(ch[r], s)) = Len(ch[r]) + 1 /\ Len(ch[r]) \in Nat
    BY <1>1, AppendProperties, LenProperties DEF RecTypes
  <2>2. ch' \in [Recorders -> Seq(Sources)] /\ \A p \in Recorders : Len(ch'[p]) <= Cap
    BY <1>1, <1>5, <2>1, StatsAssumption DEF RecTypes
  <2>3. RecTypes'
    BY <1>1, <1>4, <1>5, <2>2 DEF RecTypes
  <2>4. ASSUME NEW p \in Recorders, NEW t \in Sources
        PROVE  Queued(p, t)' = Queued(p, t) + (IF p = r /\ t = s THEN 1 ELSE 0)
    <3>1. ch'[p] = IF p = r THEN Append(ch[r], s) ELSE ch[p]
      BY <1>1, <1>5 DEF RecTypes
    <3>2. Queued(p, t)' = Cardinality(Positions(ch'[p], t))
      BY DEF Queued, Positions
    <3>3. Queued(p, t) = Cardinality(Positions(ch[p], t)) /\ Queued(p, t) \in Nat
      BY <1>1, TermTypes
    <3>4. Cardinality(Positions(Append(ch[r], s), t))
            = Cardinality(Positions(ch[r], t)) + (IF s = t THEN 1 ELSE 0)
      BY <2>1, PositionsAppend
    <3>5. QED
      BY <3>1, <3>2, <3>3, <3>4
  <2>5. Conserved'
    <3> SUFFICES ASSUME NEW p \in Recorders, NEW t \in Sources
                 PROVE  calls'[p][t] = dropped'[p][t] + Queued(p, t)' + InHand(p, t)' + mp'[p][t]
                                         + flushed'[p][t]
      BY DEF Conserved
    <3>1. calls[p][t] = dropped[p][t] + Queued(p, t) + InHand(p, t) + mp[p][t] + flushed[p][t]
      BY <1>1 DEF Conserved
    <3>2. InHand(p, t)' = InHand(p, t)
      BY DEF InHand
    <3>3. /\ calls'[p][t] = calls[p][t] + (IF p = r /\ t = s THEN 1 ELSE 0)
          /\ Queued(p, t)' = Queued(p, t) + (IF p = r /\ t = s THEN 1 ELSE 0)
          /\ dropped'[p][t] = dropped[p][t] /\ mp'[p][t] = mp[p][t] /\ flushed'[p][t] = flushed[p][t]
      BY <1>4, <1>5, <2>4
    <3>4. QED
      BY <1>1, <3>1, <3>2, <3>3, TermTypes
  <2>6. QED
    BY <2>3, <2>5 DEF RecInv
<1>6. CASE dropped' = [dropped EXCEPT ![r][s] = @ + 1] /\ ch' = ch
  <2>1. /\ dropped' \in Counts
        /\ \A p \in Recorders, t \in Sources :
             dropped'[p][t] = dropped[p][t] + (IF p = r /\ t = s THEN 1 ELSE 0)
    <3>1. dropped \in Counts
      BY <1>1 DEF RecTypes
    <3>2. QED
      BY <1>6, <3>1 DEF Counts
  <2>2. RecTypes'
    BY <1>1, <1>4, <1>6, <2>1 DEF RecTypes
  <2>3. Conserved'
    <3> SUFFICES ASSUME NEW p \in Recorders, NEW t \in Sources
                 PROVE  calls'[p][t] = dropped'[p][t] + Queued(p, t)' + InHand(p, t)' + mp'[p][t]
                                         + flushed'[p][t]
      BY DEF Conserved
    <3>1. calls[p][t] = dropped[p][t] + Queued(p, t) + InHand(p, t) + mp[p][t] + flushed[p][t]
      BY <1>1 DEF Conserved
    <3>2. InHand(p, t)' = InHand(p, t) /\ Queued(p, t)' = Queued(p, t)
      BY <1>6 DEF InHand, Queued
    <3>3. QED
      BY <1>1, <1>4, <2>1, <3>1, <3>2, TermTypes
  <2>4. QED
    BY <2>2, <2>3 DEF RecInv
<1>7. QED
  BY <1>3, <1>5, <1>6

(* What the counting goroutine receives goes from the channel to its hand. *)
LEMMA ReceiveKeeps ==
  ASSUME RecInv, NEW r \in Recorders, Receive(r)
  PROVE  RecInv'
<1>1. RecTypes /\ Conserved
  BY DEF RecInv
<1>2. /\ hand[r] = None /\ ch[r] # << >> /\ hand' = [hand EXCEPT ![r] = Head(ch[r])]
      /\ ch' = [ch EXCEPT ![r] = Tail(ch[r])] /\ caller' = caller /\ mp' = mp
      /\ calls' = calls /\ dropped' = dropped /\ flushed' = flushed
  BY DEF Receive
<1>3. /\ ch[r] \in Seq(Sources) /\ Len(ch[r]) \in Nat /\ Len(ch[r]) <= Cap
  BY <1>1, LenProperties DEF RecTypes
<1>4. /\ Head(ch[r]) \in Sources /\ Tail(ch[r]) \in Seq(Sources)
      /\ Len(Tail(ch[r])) = Len(ch[r]) - 1
  BY <1>2, <1>3, HeadTailProperties
<1>5. RecTypes'
  <2>1. ch' \in [Recorders -> Seq(Sources)] /\ \A p \in Recorders : Len(ch'[p]) <= Cap
    BY <1>1, <1>2, <1>3, <1>4, StatsAssumption DEF RecTypes
  <2>2. hand' \in [Recorders -> Sources \cup {None}]
    BY <1>1, <1>2, <1>4 DEF RecTypes
  <2>3. QED
    BY <1>1, <1>2, <2>1, <2>2 DEF RecTypes
<1>6. ASSUME NEW p \in Recorders, NEW t \in Sources
      PROVE  Queued(p, t)' + InHand(p, t)' = Queued(p, t) + InHand(p, t)
  <2>1. Queued(p, t)' = Cardinality(Positions(ch'[p], t))
    BY DEF Queued, Positions
  <2>2. /\ Queued(p, t) = Cardinality(Positions(ch[p], t))
        /\ Queued(p, t) \in Nat /\ InHand(p, t) \in Nat
    BY <1>1, TermTypes
  <2>3. CASE p = r
    <3>1. ch'[p] = Tail(ch[r]) /\ hand'[p] = Head(ch[r])
      BY <1>1, <1>2, <2>3 DEF RecTypes
    <3>2. Cardinality(Positions(ch[r], t))
            = Cardinality(Positions(Tail(ch[r]), t)) + (IF Head(ch[r]) = t THEN 1 ELSE 0)
      BY <1>2, <1>3, PositionsTail
    <3>3. Cardinality(Positions(Tail(ch[r]), t)) \in Nat
      BY <1>4, PositionsFinite
    <3>4. InHand(p, t) = 0 /\ InHand(p, t)' = IF Head(ch[r]) = t THEN 1 ELSE 0
      BY <1>2, <2>3, <3>1, StatsAssumption DEF InHand
    <3>5. QED
      BY <2>1, <2>2, <2>3, <3>1, <3>2, <3>3, <3>4
  <2>4. CASE p # r
    <3>1. ch'[p] = ch[p] /\ hand'[p] = hand[p]
      BY <1>1, <1>2, <2>4 DEF RecTypes
    <3>2. QED
      BY <2>1, <2>2, <3>1 DEF InHand
  <2>5. QED
    BY <2>3, <2>4
<1>7. Conserved'
  <2> SUFFICES ASSUME NEW p \in Recorders, NEW t \in Sources
               PROVE  calls'[p][t] = dropped'[p][t] + Queued(p, t)' + InHand(p, t)' + mp'[p][t]
                                       + flushed'[p][t]
    BY DEF Conserved
  <2>1. calls[p][t] = dropped[p][t] + Queued(p, t) + InHand(p, t) + mp[p][t] + flushed[p][t]
    BY <1>1 DEF Conserved
  <2>2. Queued(p, t)' \in Nat /\ InHand(p, t)' \in Nat
    <3>1. ch'[p] \in Seq(Sources)
      BY <1>5 DEF RecTypes
    <3>2. Queued(p, t)' = Cardinality(Positions(ch'[p], t))
      BY DEF Queued, Positions
    <3>3. QED
      BY <3>1, <3>2, PositionsFinite DEF InHand
  <2>3. Queued(p, t)' + InHand(p, t)' = Queued(p, t) + InHand(p, t)
    BY <1>6
  <2>4. /\ calls'[p][t] = calls[p][t] /\ dropped'[p][t] = dropped[p][t] /\ mp'[p][t] = mp[p][t]
        /\ flushed'[p][t] = flushed[p][t]
    BY <1>2
  <2>5. /\ dropped[p][t] \in Nat /\ mp[p][t] \in Nat /\ flushed[p][t] \in Nat
        /\ Queued(p, t) \in Nat /\ InHand(p, t) \in Nat
    BY <1>1, TermTypes
  <2>6. QED
    BY <2>1, <2>2, <2>3, <2>4, <2>5
<1>8. QED
  BY <1>5, <1>7 DEF RecInv

(* What the goroutine counts goes from its hand to the map.                *)
LEMMA CountKeeps ==
  ASSUME RecInv, NEW r \in Recorders, Count(r)
  PROVE  RecInv'
<1>1. RecTypes /\ Conserved
  BY DEF RecInv
<1>2. /\ hand[r] # None /\ mp' = [mp EXCEPT ![r][hand[r]] = @ + 1]
      /\ hand' = [hand EXCEPT ![r] = None] /\ caller' = caller /\ ch' = ch
      /\ calls' = calls /\ dropped' = dropped /\ flushed' = flushed
  BY DEF Count
<1>3. PICK h \in Sources : h = hand[r]
  BY <1>1, <1>2 DEF RecTypes
<1>4. /\ mp' \in Counts
      /\ \A p \in Recorders, t \in Sources :
           mp'[p][t] = mp[p][t] + (IF p = r /\ t = h THEN 1 ELSE 0)
  <2>1. mp \in Counts /\ mp' = [mp EXCEPT ![r][h] = @ + 1]
    BY <1>1, <1>2, <1>3 DEF RecTypes
  <2>2. QED
    BY <2>1 DEF Counts
<1>5. RecTypes'
  <2>1. hand' \in [Recorders -> Sources \cup {None}]
    BY <1>1, <1>2 DEF RecTypes
  <2>2. QED
    BY <1>1, <1>2, <1>4, <2>1 DEF RecTypes
<1>6. Conserved'
  <2> SUFFICES ASSUME NEW p \in Recorders, NEW t \in Sources
               PROVE  calls'[p][t] = dropped'[p][t] + Queued(p, t)' + InHand(p, t)' + mp'[p][t]
                                       + flushed'[p][t]
    BY DEF Conserved
  <2>1. calls[p][t] = dropped[p][t] + Queued(p, t) + InHand(p, t) + mp[p][t] + flushed[p][t]
    BY <1>1 DEF Conserved
  <2>2. Queued(p, t)' = Queued(p, t)
    BY <1>2 DEF Queued
  <2>3. InHand(p, t) = InHand(p, t)' + (IF p = r /\ t = h THEN 1 ELSE 0) /\ InHand(p, t)' \in Nat
    <3>1. hand'[p] = IF p = r THEN None ELSE hand[p]
      BY <1>1, <1>2 DEF RecTypes
    <3>2. t # None
      BY StatsAssumption
    <3>3. QED
      BY <1>3, <3>1, <3>2 DEF InHand
  <2>4. mp'[p][t] = mp[p][t] + (IF p = r /\ t = h THEN 1 ELSE 0)
    BY <1>4
  <2>5. QED
    BY <1>1, <1>2, <2>1, <2>2, <2>3, <2>4, TermTypes
<1>7. QED
  BY <1>5, <1>6 DEF RecInv

(* What is flushed leaves the map.                                         *)
LEMMA FlushKeeps ==
  ASSUME RecInv, NEW r \in Recorders, flush(r),
         UNCHANGED <<caller, ch, hand, calls, dropped>>
  PROVE  RecInv'
<1>1. RecTypes /\ Conserved
  BY DEF RecInv
<1>2. mp \in Counts /\ flushed \in Counts
  BY <1>1 DEF RecTypes
<1>3. PICK z : z = [s \in Sources |-> flushed[r][s] + mp[r][s]]
  OBVIOUS
<1>4. mp' = [mp EXCEPT ![r] = Zeros] /\ flushed' = [flushed EXCEPT ![r] = z]
  BY <1>3 DEF flush
<1>5. mp' \in Counts /\ flushed' \in Counts
  <2>1. z \in [Sources -> Nat]
    BY <1>2, <1>3 DEF Counts
  <2>2. QED
    BY <1>2, <1>4, <2>1 DEF Counts, Zeros
<1>6. ASSUME NEW p \in Recorders, NEW t \in Sources
      PROVE  mp'[p][t] + flushed'[p][t] = mp[p][t] + flushed[p][t]
  <2>1. mp[p][t] \in Nat /\ flushed[p][t] \in Nat
    BY <1>2 DEF Counts
  <2>2. CASE p = r
    <3>1. mp'[p] = Zeros /\ flushed'[p] = z
      BY <1>2, <1>4, <2>2 DEF Counts
    <3>2. mp'[p][t] = 0 /\ flushed'[p][t] = flushed[p][t] + mp[p][t]
      BY <1>3, <2>2, <3>1 DEF Zeros
    <3>3. QED
      BY <2>1, <3>2
  <2>3. CASE p # r
    BY <1>2, <1>4, <2>3 DEF Counts
  <2>4. QED
    BY <2>2, <2>3
<1>7. RecTypes'
  BY <1>1, <1>5 DEF RecTypes
<1>8. Conserved'
  <2> SUFFICES ASSUME NEW p \in Recorders, NEW t \in Sources
               PROVE  calls'[p][t] = dropped'[p][t] + Queued(p, t)' + InHand(p, t)' + mp'[p][t]
                                       + flushed'[p][t]
    BY DEF Conserved
  <2>1. calls[p][t] = dropped[p][t] + Queued(p, t) + InHand(p, t) + mp[p][t] + flushed[p][t]
    BY <1>1 DEF Conserved
  <2>2. Queued(p, t)' = Queued(p, t) /\ InHand(p, t)' = InHand(p, t)
    BY DEF Queued, InHand
  <2>3. mp'[p][t] \in Nat /\ flushed'[p][t] \in Nat
    BY <1>5 DEF Counts
  <2>4. mp'[p][t] + flushed'[p][t] = mp[p][t] + flushed[p][t]
    BY <1>6
  <2>5. QED
    BY <1>1, <2>1, <2>2, <2>3, <2>4, TermTypes
<1>9. QED
  BY <1>5, <1>7, <1>8 DEF RecInv

-----------------------------------------------------------------------------
(* The recorder of first shreds.                                           *)

(* A slot that is recorded only makes the channel longer, up to its bound. *)
LEMMA RecordFirstKeeps ==
  ASSUME FirstInv, NEW k \in Slots, recordFirst(k), UNCHANGED <<fhand, fmp, reported>>
  PROVE  FirstInv'
<1>1. fch \in Seq(Slots) /\ Len(fch) <= Cap /\ Len(fch) \in Nat /\ Cap \in Nat
  BY LenProperties, StatsAssumption DEF FirstInv, FirstTypes
<1>2. Append(fch, k) \in Seq(Slots) /\ Len(Append(fch, k)) = Len(fch) + 1
  BY <1>1, AppendProperties
<1>3. fch' \in Seq(Slots) /\ Len(fch') <= Cap
  BY <1>1, <1>2 DEF recordFirst
<1>4. QED
  BY <1>3 DEF FirstInv, FirstTypes, Reported

(* What its goroutine does keeps the slots reported lately in the map.     *)
LEMMA FirstStepKeeps ==
  ASSUME FirstInv, ReceiveFirst \/ ReportFirst \/ (\E k \in Slots : MinutePasses(k))
  PROVE  FirstInv'
<1>1. /\ fch \in Seq(Slots) /\ Len(fch) <= Cap /\ Len(fch) \in Nat /\ Cap \in Nat
      /\ fhand \in Slots \cup {None} /\ fmp \in [Slots -> {"absent", "young", "old"}]
      /\ reported \subseteq Slots /\ \A k \in reported : fmp[k] = "young"
  BY LenProperties, StatsAssumption DEF FirstInv, FirstTypes, Reported
<1>2. CASE ReceiveFirst
  <2>1. Head(fch) \in Slots /\ Tail(fch) \in Seq(Slots) /\ Len(Tail(fch)) = Len(fch) - 1
    BY <1>1, <1>2, HeadTailProperties DEF ReceiveFirst
  <2>2. fch' \in Seq(Slots) /\ Len(fch') <= Cap /\ fhand' \in Slots \cup {None}
    BY <1>1, <1>2, <2>1 DEF ReceiveFirst
  <2>3. QED
    BY <1>1, <1>2, <2>2 DEF ReceiveFirst, FirstInv, FirstTypes, Reported
<1>3. CASE ReportFirst
  <2>1. fhand \in Slots /\ fch' = fch /\ fhand' = None
    BY <1>1, <1>3 DEF ReportFirst
  <2>2. /\ fmp' \in [Slots -> {"absent", "young", "old"}] /\ reported' \subseteq Slots
        /\ \A k \in reported' : fmp'[k] = "young"
    BY <1>1, <1>3, <2>1 DEF ReportFirst
  <2>3. QED
    BY <1>1, <2>1, <2>2 DEF FirstInv, FirstTypes, Reported
<1>4. CASE \E k \in Slots : MinutePasses(k)
  <2>1. PICK k \in Slots : MinutePasses(k)
    BY <1>4
  <2>2. /\ fmp' \in [Slots -> {"absent", "young", "old"}] /\ reported' \subseteq Slots
        /\ \A j \in reported' : fmp'[j] = "young"
    BY <1>1, <2>1 DEF MinutePasses
  <2>3. fch' = fch /\ fhand' = fhand
    BY <2>1 DEF MinutePasses
  <2>4. QED
    BY <1>1, <2>2, <2>3 DEF FirstInv, FirstTypes, Reported
<1>5. QED
  BY <1>2, <1>3, <1>4

(* The clean-up takes none of these slots out of the map.                  *)
LEMMA CleanKeeps ==
  ASSUME FirstInv, Clean
  PROVE  FirstInv'
<1>1. /\ fmp \in [Slots -> {"absent", "young", "old"}] /\ reported \subseteq Slots
      /\ \A k \in reported : fmp[k] = "young"
  BY DEF FirstInv, FirstTypes, Reported
<1>2. /\ fmp' = [k \in Slots |-> IF fmp[k] = "old" THEN "absent" ELSE fmp[k]]
      /\ fch' = fch /\ fhand' = fhand /\ reported' = reported
  BY DEF Clean
<1>3. fmp' \in [Slots -> {"absent", "young", "old"}] /\ \A k \in reported : fmp'[k] = "young"
  BY <1>1, <1>2
<1>4. QED
  BY <1>2, <1>3 DEF FirstInv, FirstTypes, Reported

-----------------------------------------------------------------------------
(* The steps of all of them together.                                      *)

FirstStep == ReceiveFirst \/ ReportFirst \/ (\E k \in Slots : MinutePasses(k))

(* Only the send and printUnseenStats itself change where it is.           *)
LEMMA PrinterTypes ==
  ASSUME PrintTypes, [Next]_vars
  PROVE  PrintTypes'
<1>1. CASE \E s \in Sources : RecordNewShred(s) \/ SkipUnseen(s)
  BY <1>1 DEF RecordNewShred, SkipUnseen, PrintTypes
<1>2. CASE \E s \in Sources, k \in Slots : RecordUnseenShred(s, k)
  BY <1>2 DEF RecordUnseenShred, PrintTypes
<1>3. CASE FirstStep
  BY <1>3 DEF FirstStep, ReceiveFirst, ReportFirst, MinutePasses, PrintTypes
<1>4. CASE \E r \in Recorders : Receive(r) \/ Count(r)
  BY <1>4 DEF Receive, Count, PrintTypes
<1>5. CASE FlushTotal \/ FlushUnseen \/ LogStats \/ Clean
  BY <1>5 DEF FlushTotal, FlushUnseen, LogStats, Clean, PrintTypes
<1>6. CASE SendUnseen \/ Park
  BY <1>6 DEF SendUnseen, Park, PrintTypes
<1>7. CASE UNCHANGED vars
  BY <1>7 DEF vars, PrintTypes
<1>8. QED
  BY <1>1, <1>2, <1>3, <1>4, <1>5, <1>6, <1>7 DEF Next, FlushStep, FirstStep

(* A step of any of the goroutines, by the part of the invariant that it   *)
(* is about.                                                               *)
LEMMA StatsStep ==
  ASSUME StatsInv, [Next]_vars
  PROVE  StatsInv'
<1>1. RecInv /\ FlushTypes /\ PrintTypes /\ FirstInv
  BY DEF StatsInv
<1>2. PrintTypes'
  BY <1>1, PrinterTypes
<1>3. ASSUME UNCHANGED <<recVars, calls, dropped, flushed>> PROVE RecInv'
  BY <1>1, <1>3 DEF recVars, RecInv, RecTypes, Conserved, Queued, InHand
<1>4. ASSUME UNCHANGED firstVars PROVE FirstInv'
  BY <1>1, <1>4 DEF firstVars, FirstInv, FirstTypes, Reported
<1>5. ASSUME UNCHANGED flusher PROVE FlushTypes'
  BY <1>1, <1>5 DEF FlushTypes
<1>6. caller \in [Sources -> {"idle", "set"}]
  BY <1>1 DEF RecInv, RecTypes
<1>7. CASE \E s \in Sources : RecordNewShred(s) \/ SkipUnseen(s)
  <2>1. PICK s \in Sources : RecordNewShred(s) \/ SkipUnseen(s)
    BY <1>7
  <2>2. CASE RecordNewShred(s)
    <3>1. /\ record("total", s) /\ caller' \in [Sources -> {"idle", "set"}]
          /\ UNCHANGED <<hand, mp, flushed>> /\ UNCHANGED flusher /\ UNCHANGED firstVars
      BY <1>6, <2>2 DEF RecordNewShred
    <3>2. RecInv'
      BY <1>1, <3>1, RecordKeeps DEF Recorders
    <3>3. QED
      BY <1>2, <1>4, <1>5, <3>1, <3>2 DEF StatsInv
  <2>3. CASE SkipUnseen(s)
    <3>1. /\ caller' \in [Sources -> {"idle", "set"}]
          /\ UNCHANGED <<ch, hand, mp, calls, dropped, flushed>>
          /\ UNCHANGED flusher /\ UNCHANGED firstVars
      BY <1>6, <2>3 DEF SkipUnseen
    <3>2. RecInv'
      BY <1>1, <3>1 DEF RecInv, RecTypes, Conserved, Queued, InHand
    <3>3. QED
      BY <1>2, <1>4, <1>5, <3>1, <3>2 DEF StatsInv
  <2>4. QED
    BY <2>1, <2>2, <2>3
<1>8. CASE \E s \in Sources, k \in Slots : RecordUnseenShred(s, k)
  <2>1. PICK s \in Sources, k \in Slots : RecordUnseenShred(s, k)
    BY <1>8
  <2>2. /\ record("unseen", s) /\ caller' \in [Sources -> {"idle", "set"}]
        /\ UNCHANGED <<hand, mp, flushed>> /\ UNCHANGED flusher
        /\ recordFirst(k) /\ UNCHANGED <<fhand, fmp, reported>>
    BY <1>6, <2>1 DEF RecordUnseenShred
  <2>3. RecInv'
    BY <1>1, <2>2, RecordKeeps DEF Recorders
  <2>4. FirstInv'
    BY <1>1, <2>2, RecordFirstKeeps
  <2>5. QED
    BY <1>2, <1>5, <2>2, <2>3, <2>4 DEF StatsInv
<1>9. CASE FirstStep
  <2>1. UNCHANGED <<recVars, calls, dropped, flushed>> /\ UNCHANGED flusher
    BY <1>9 DEF FirstStep, ReceiveFirst, ReportFirst, MinutePasses
  <2>2. FirstInv'
    BY <1>1, <1>9, FirstStepKeeps DEF FirstStep
  <2>3. QED
    BY <1>2, <1>3, <1>5, <2>1, <2>2 DEF StatsInv
<1>10. CASE \E r \in Recorders : Receive(r) \/ Count(r)
  <2>1. UNCHANGED flusher /\ UNCHANGED firstVars
    BY <1>10 DEF Receive, Count
  <2>2. RecInv'
    BY <1>1, <1>10, ReceiveKeeps, CountKeeps
  <2>3. QED
    BY <1>2, <1>4, <1>5, <2>1, <2>2 DEF StatsInv
<1>11. CASE FlushTotal \/ FlushUnseen
  <2>1. PICK r \in Recorders : flush(r)
    BY <1>11 DEF FlushTotal, FlushUnseen, Recorders
  <2>2. /\ UNCHANGED <<caller, ch, hand, calls, dropped>> /\ UNCHANGED firstVars
        /\ flusher' \in {"unseen", "send"}
    BY <1>11 DEF FlushTotal, FlushUnseen
  <2>3. RecInv'
    BY <1>1, <2>1, <2>2, FlushKeeps
  <2>4. QED
    BY <1>2, <1>4, <2>2, <2>3 DEF StatsInv, FlushTypes
<1>12. CASE SendUnseen \/ LogStats
  <2>1. /\ UNCHANGED <<recVars, calls, dropped, flushed>> /\ UNCHANGED firstVars
        /\ flusher' \in {"log", "clean"}
    BY <1>12 DEF SendUnseen, LogStats
  <2>2. QED
    BY <1>2, <1>3, <1>4, <2>1 DEF StatsInv, FlushTypes
<1>13. CASE Clean
  <2>1. /\ UNCHANGED <<recVars, calls, dropped, flushed>> /\ flusher' = "wait"
    BY <1>13 DEF Clean
  <2>2. FirstInv'
    BY <1>1, <1>13, CleanKeeps
  <2>3. QED
    BY <1>1, <1>2, <1>3, <2>1, <2>2 DEF StatsInv, FlushTypes
<1>14. CASE Park
  <2>1. /\ UNCHANGED <<recVars, calls, dropped, flushed>> /\ UNCHANGED flusher
        /\ UNCHANGED firstVars
    BY <1>14 DEF Park
  <2>2. QED
    BY <1>2, <1>3, <1>4, <1>5, <2>1 DEF StatsInv
<1>15. CASE UNCHANGED vars
  <2>1. /\ UNCHANGED <<recVars, calls, dropped, flushed>> /\ UNCHANGED flusher
        /\ UNCHANGED firstVars
    BY <1>15 DEF vars
  <2>2. QED
    BY <1>2, <1>3, <1>4, <1>5, <2>1 DEF StatsInv
<1>16. QED
  BY <1>7, <1>8, <1>9, <1>10, <1>11, <1>12, <1>13, <1>14, <1>15 DEF Next, FlushStep, FirstStep

(* The invariant holds when the process starts: nothing is recorded yet.   *)
LEMMA StatsStart == ASSUME Init PROVE StatsInv
<1>1. RecTypes /\ FirstInv
  <2>1. << >> \in Seq(Sources) /\ << >> \in Seq(Slots) /\ Len(<< >>) = 0
    OBVIOUS
  <2>2. Cap \in Nat
    BY StatsAssumption
  <2>3. QED
    BY <2>1, <2>2 DEF Init, RecTypes, Counts, Zeros, FirstInv, FirstTypes, Reported
<1>2. Conserved
  <2> SUFFICES ASSUME NEW r \in Recorders, NEW s \in Sources
               PROVE  calls[r][s] = dropped[r][s] + Queued(r, s) + InHand(r, s) + mp[r][s]
                                      + flushed[r][s]
    BY DEF Conserved
  <2>1. {i \in DOMAIN ch[r] : ch[r][i] = s} = {}
    BY DEF Init
  <2>2. Queued(r, s) = 0
    BY <2>1, FS_EmptySet DEF Queued
  <2>3. InHand(r, s) = 0
    BY StatsAssumption DEF Init, InHand
  <2>4. /\ calls[r][s] = 0 /\ dropped[r][s] = 0 /\ mp[r][s] = 0 /\ flushed[r][s] = 0
    BY DEF Init, Zeros
  <2>5. QED
    BY <2>2, <2>3, <2>4
<1>3. FlushTypes /\ PrintTypes
  BY DEF Init, FlushTypes, PrintTypes
<1>4. QED
  BY <1>1, <1>2, <1>3 DEF StatsInv, RecInv

(* The invariant of the statistics, of which the theorems below are parts: *)
(* types, balance of every recorder and source, and the map of first       *)
(* shreds.                                                                 *)
THEOREM StatsInvariant == Spec => []StatsInv
<1>1. Init => StatsInv
  BY StatsStart
<1>2. StatsInv /\ [Next]_vars => StatsInv'
  BY StatsStep
<1>3. QED
  BY <1>1, <1>2, PTL DEF Spec

(* The variables keep their types; above all, no channel ever holds more   *)
(* than its capacity, since record drops what finds it full.               *)
THEOREM StatsTypes == Spec => []TypeOK
<1>1. StatsInv => TypeOK
  BY DEF StatsInv, RecInv, RecTypes, FlushTypes, PrintTypes, FirstInv, FirstTypes, TypeOK
<1>2. QED
  BY <1>1, StatsInvariant, PTL

(* Every call of record is in one place and one only (dropped, queued, in  *)
(* the goroutine's hand, in the map or flushed), for any number of sources *)
(* and calls and any capacity.                                             *)
THEOREM RecordsAreConserved == Spec => []Conserved
<1>1. StatsInv => Conserved
  BY DEF StatsInv, RecInv
<1>2. QED
  BY <1>1, StatsInvariant, PTL

(* A slot reported as first is not reported again within a minute: until   *)
(* then neither the recorder nor the clean-up takes it out of the map.     *)
THEOREM FirstIsReportedOnce == Spec => FirstOnce
<1>1. StatsInv => \A k \in reported : fmp[k] # "absent"
  BY DEF StatsInv, FirstInv, Reported
<1>2. StatsInv => [\A k \in reported : fhand = k /\ fhand' = None => fmp[k] # "absent"]_vars
  BY <1>1
<1>3. QED
  BY <1>2, StatsInvariant, PTL DEF FirstOnce
=============================================================================
