--------------------------- MODULE MCGatherReverse ---------------------------
(* Instantiates GatherReverse with 4-bit words: sizes 0..9 put d at, just  *)
(* below and just above word boundaries, over up to three words.           *)
EXTENDS GatherReverse

MCSizes == 0..9
MCKindsBig == {"bigmatpoly"}
=============================================================================
