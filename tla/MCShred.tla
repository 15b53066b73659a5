------------------------------ MODULE MCShred ------------------------------
(* Instances of Shred for TLC: headers at the edges of every test.         *)
EXTENDS Shred

(* Sizes around every limit, every high nibble with and without a proof    *)
(* size, values around the index limit, slots around the parent offset.    *)
LimitPackets ==
  [size    : {63, 64, 65, 84, 85, 1202, 1203, 1227, 1228, 1229},
   variant : {v \cup low : v \in SUBSET (4..7), low \in {{}, {0, 3}}},
   slot    : {{}, {1}},
   index   : {{15}, {15, 0}, {20}},
   offset  : {{}, {0, 1}}]

(* Full-size shreds of every variant, values on both sides of the field    *)
(* boundaries of the key.                                                  *)
KeyPackets ==
  [size    : {1228},
   variant : SUBSET (4..7),
   slot    : SUBSET {0, 35, 36},
   index   : SUBSET {0, 14, 15},
   offset  : {{}}]

EdgePackets == LimitPackets \cup KeyPackets
=============================================================================
