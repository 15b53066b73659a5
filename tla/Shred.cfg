CONSTANT Packets <- EdgePackets
SPECIFICATION ParseSpec
INVARIANT ParseSound
INVARIANT KeyIdentity
INVARIANT ParsersAgree
