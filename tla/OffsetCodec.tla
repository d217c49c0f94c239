----------------------------- MODULE OffsetCodec -----------------------------
(***************************************************************************)
(* The four-byte offsets of HotTier (offset_codec.hpp): a block number     *)
(* relative to the base of its region, a page number and a slot, packed    *)
(* into one word, or nothing if a field does not fit.  Every key is in     *)
(* region 0 (route_to_region_default).                                     *)
(***************************************************************************)
EXTENDS Integers

CONSTANTS
    kBlockLow, kPage, kDataOff,    \* how many values each field has: 2^21, 2^3, 2^8
    Base                           \* base_map[0] << kBlockLowBits

ASSUME FieldAssumption == kBlockLow \in Nat \ {0} /\ kPage \in Nat \ {0} /\ kDataOff \in Nat \ {0}
ASSUME BaseAssumption  == Base \in Nat

kInvalidCompactOffset == kBlockLow * (kPage * kDataOff) - 1
nullopt == -1

Packed(low, page, slot) == low * (kPage * kDataOff) + (page * kDataOff + slot)

\* Mutant: a slot beyond its field runs into the page number.
FitsAnySlot(block, page, slot) ==
    /\ block >= Base /\ block - Base < kBlockLow
    /\ page < kPage

Fits(block, page, slot) ==
    /\ block >= Base /\ block - Base < kBlockLow
    /\ page < kPage
    /\ slot < kDataOff

encode(block, page, slot) ==
    IF Fits(block, page, slot) /\ Packed(block - Base, page, slot) # kInvalidCompactOffset
    THEN Packed(block - Base, page, slot)
    ELSE nullopt

decode(packed) ==
    [block |-> Base + ((packed \div (kPage * kDataOff)) % kBlockLow),
     page  |-> (packed \div kDataOff) % kPage,
     slot  |-> packed % kDataOff]
=============================================================================
