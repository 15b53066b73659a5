------------------------------- MODULE Shred -------------------------------
(***************************************************************************)
(* Shred parsing and de-duplication keys (pkg/solana/shred.go), at the     *)
(* real integer widths.  An unsigned integer is the set of its one-bits:   *)
(* | is union, a left shift moves the bits up and drops those past the     *)
(* word, a mask is an intersection.  A packet is the header fields the     *)
(* parser reads; the rest of the payload plays no part.                    *)
(***************************************************************************)
EXTENDS Naturals

CONSTANT Packets   \* the packets that may be received

VARIABLES
  pkt,   \* the packet to parse
  out    \* result of ParseShredPartial, once it has been called

packetVars == <<pkt, out>>

Byte == 0..7
Word == 0..63

Packet == [size    : Nat,                \* bytes received
           variant : SUBSET Byte,        \* byte 64
           slot    : SUBSET Word,        \* uint64 at byte 65
           index   : SUBSET (0..31),     \* uint32 at byte 73
           offset  : SUBSET (0..15)]     \* uint16 at byte 83, data shreds only

ASSUME PacketsAssumption == Packets \subseteq Packet

(* a < b, for unsigned integers given by their bits.                       *)
Less(a, b) == \E i \in b \ a : \A j \in (a \ b) \cup (b \ a) : j <= i

Shl(w, n) == {i + n : i \in w} \cap Word

-----------------------------------------------------------------------------
LegacyCode         == {6, 4}
LegacyData         == {7, 5}
MerkleCode         == {6}
MerkleCodeChained  == {6, 5}
MerkleCodeResigned == {6, 5, 4}
MerkleData         == {7}
MerkleDataChained  == {7, 4}
MerkleDataResigned == {7, 5, 4}

Legacy == {LegacyCode, LegacyData}
Merkle == {MerkleCode, MerkleCodeChained, MerkleCodeResigned,
           MerkleData, MerkleDataChained, MerkleDataResigned}

shredMask == {7, 6}

IsCode(v) == v \cap shredMask = {6}
IsData(v) == v \cap shredMask = {7}

(* The variant is the high nibble; the low one, the proof size, is not     *)
(* part of it.                                                             *)
Variant(b) == b \cap (4..7)

sizeOfSignature              == 64
sizeOfParent                 == 85
sizeOfMerkleDataShredPayload == 1203
sizeOfLegacyCodeShredPayload == 1228

validateShredSize(sz, v) ==
  \/ v \in Legacy /\ sz = sizeOfLegacyCodeShredPayload
  \/ v \in Merkle /\ sz \in sizeOfMerkleDataShredPayload..sizeOfLegacyCodeShredPayload

ValidateShredSizeSimple(sz) ==
  sz \in sizeOfMerkleDataShredPayload..sizeOfLegacyCodeShredPayload

maxDataShredsPerSlot == {15}   \* 32768

Rejected == [ok |-> FALSE]

(* Faulty variant: the index is not bounded.                               *)
ParseShredPartial_AnyIndex(p) ==
  LET v == Variant(p.variant)
  IN  IF /\ p.size >= sizeOfParent
         /\ v \in Legacy \cup Merkle
         /\ validateShredSize(p.size, v)
         /\ IsData(v) => ~Less(p.slot, p.offset)
      THEN [ok |-> TRUE, slot |-> p.slot, index |-> p.index, variant |-> v]
      ELSE Rejected

(* The code's last test, slot against slot - offset, cannot fail once slot *)
(* is at least offset: the subtraction does not wrap.                      *)
ParseShredPartial(p) ==
  LET v == Variant(p.variant)
  IN  IF /\ p.size >= sizeOfParent
         /\ v \in Legacy \cup Merkle
         /\ validateShredSize(p.size, v)
         /\ ~Less(maxDataShredsPerSlot, p.index)
         /\ IsData(v) => ~Less(p.slot, p.offset)
      THEN [ok |-> TRUE, slot |-> p.slot, index |-> p.index, variant |-> v]
      ELSE Rejected

Panic == [ok |-> FALSE, panic |-> TRUE]

(* Faulty variant: the size is not validated.                              *)
ParseShred_AnySize(p) ==
  LET v == Variant(p.variant)
  IN  IF p.size = sizeOfSignature THEN Panic
      ELSE IF /\ p.size > sizeOfSignature
              /\ v \in Legacy \cup Merkle
      THEN [ok |-> TRUE, slot |-> p.slot, index |-> p.index, variant |-> v]
      ELSE Rejected

(* The full parser.  It reads byte 64 of anything that is not shorter than *)
(* 64 bytes, and bounds neither index nor parent.  The further fields it   *)
(* reads lie within what validateShredSize lets through.                   *)
ParseShred(p) ==
  LET v == Variant(p.variant)
  IN  IF p.size = sizeOfSignature THEN Panic
      ELSE IF /\ p.size > sizeOfSignature
              /\ v \in Legacy \cup Merkle
              /\ validateShredSize(p.size, v)
      THEN [ok |-> TRUE, slot |-> p.slot, index |-> p.index, variant |-> v]
      ELSE Rejected

(* Faulty variant: the index is shifted over the variant's bits only half. *)
ShredKey_Overlap(slot, index, variant) == Shl(slot, 28) \cup Shl(index, 6) \cup variant

ShredKey(slot, index, variant) == Shl(slot, 28) \cup Shl(index, 8) \cup variant

Key(s) == ShredKey(s.slot, s.index, s.variant)

-----------------------------------------------------------------------------
ParseInit == pkt \in Packets /\ out = Rejected

Parse ==
  /\ out' = ParseShredPartial(pkt)
  /\ UNCHANGED pkt

ParseSpec == ParseInit /\ [][Parse]_packetVars

-----------------------------------------------------------------------------
(* A parsed shred is what the rest of the gateway takes it for: exactly    *)
(* one of data and code, of a size the port discovery also accepts, with   *)
(* an index that fits the 20 bits ShredKey keeps for it.                   *)
ParseSound ==
  out.ok =>
    /\ IsCode(out.variant) /= IsData(out.variant)
    /\ ValidateShredSizeSimple(pkt.size)
    /\ out.index \subseteq 0..19

(* What a key stands for: two parsed shreds have the same key exactly when *)
(* index and variant are the same and the slots agree in their 36 low      *)
(* bits.  So no live shred is dropped as the duplicate of another one (the *)
(* slots of the chain are below 2^36), but the parser does not enforce     *)
(* that, and the proof size is not told apart.                             *)
KeyIdentity ==
  out.ok =>
    \A p \in Packets :
      LET s == ParseShredPartial(p)
      IN  s.ok => (Key(s) = Key(out) <=>
                     /\ s.index = out.index
                     /\ s.variant = out.variant
                     /\ s.slot \cap (0..35) = out.slot \cap (0..35))

(* The two parsers agree: what ParseShredPartial accepts ParseShred reads  *)
(* as the same shred, and ParseShred accepts in addition only what exceeds *)
(* the bounds on index and parent.  It panics for packets of 64 bytes and  *)
(* for no others.                                                          *)
ParsersAgree ==
  LET full == ParseShred(pkt)
  IN  /\ out.ok => full = out
      /\ full.ok => \/ ParseShredPartial(pkt) = full
                    \/ Less(maxDataShredsPerSlot, pkt.index)
                    \/ Less(pkt.slot, pkt.offset)
      /\ full = Panic <=> pkt.size = sizeOfSignature
=============================================================================
