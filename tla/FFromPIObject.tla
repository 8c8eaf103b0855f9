---------------------------- MODULE FFromPIObject ----------------------------
(***************************************************************************)
(* The life of one lingen_F_from_PI object (src/linalg/bwc/                *)
(* lingen_io_wrappers.cpp): the constructor (FSolutions) collects the      *)
(* solutions, reads lookback_needed coefficients of the reversed generator *)
(* into the cache, computes and reorders the right-hand sides; write_rhs   *)
(* is called; then pipe reads F through read_to_matpoly (FFromPI), whose   *)
(* shifts are those of the solutions in their final order.                 *)
(*                                                                         *)
(* The generator's guessed_length G is the length of the stream that       *)
(* lingen_gather_reverse delivers.                                         *)
(***************************************************************************)
EXTENDS Naturals, Sequences, FiniteSets

CONSTANTS M, N, P, SIMD, T0s, G, Windows

VARIABLES
    t0, nrhs, fdesc, lucky, delta, data, sols, lookback, rhs, srhs, pc,
    L,          \* the length of the generator stream, G (never changes)
    rawPos, cacheK0, cacheK1, out, ended, lastReq, lastCount

ctorVars   == <<lucky, delta, data, sols, lookback, rhs, srhs, pc>>
streamVars == <<L, rawPos, cacheK0, cacheK1, out, ended, lastReq, lastCount>>
vars       == <<t0, nrhs, fdesc, ctorVars, streamVars>>

FS == INSTANCE FSolutions

\* sols[jF].shift, for the columns jF of F in the final order
SolShift == [jF \in 0..(N - 1) |-> sols[jF + 1][2]]

FP == INSTANCE FFromPI WITH Lengths <- {G}, solShift <- SolShift

-----------------------------------------------------------------------------

Init ==
    /\ FS!Init
    /\ L = G
    /\ rawPos = 0 /\ cacheK0 = 0 /\ cacheK1 = 0
    /\ out = <<>> /\ ended = FALSE /\ lastReq = 0 /\ lastCount = 0

\* The loop over the columns of pi and, unless too few solutions throw,
\* "pi.read_to_matpoly(cache, 0, lookback_needed); cache_k0 = 0;
\* cache_k1 = lookback_needed" (the count read is not checked).
Construct ==
    /\ FS!CollectSolutions
    /\ IF pc' = "throw"
       THEN UNCHANGED <<rawPos, cacheK1>>
       ELSE /\ rawPos' = FP!NRead(0, lookback') /\ cacheK1' = lookback'
    /\ UNCHANGED <<L, cacheK0, out, ended, lastReq, lastCount>>

\* The rest of the constructor, and write_rhs.
Finish ==
    /\ FS!ComputeRhs \/ FS!ReorderSolutions \/ FS!RecomputeRhsAgain
         \/ FS!WriteRhs
    /\ UNCHANGED streamVars

\* read_to_matpoly, once the object is built.
Read(k1) ==
    /\ pc = "written"
    /\ FP!ReadCached(k1) \/ FP!ReadDrained(k1)
    /\ UNCHANGED <<L, t0, nrhs, fdesc, ctorVars>>

Next == Construct \/ Finish \/ \E k1 \in Windows : Read(k1)

Spec == Init /\ [][Next]_vars

-----------------------------------------------------------------------------
(* Properties: those of the two components, on the composed behaviours.   *)

TypeOK == FS!TypeOK /\ (pc = "written" => FP!TypeOK)

\* See FSolutions.
RhsFollowsSols == FS!RhsFollowsSols
OrderedByWeight == FS!OrderedByWeight
ReadsInCache == FS!ReadsInCache

\* See FFromPI: F is read from what the constructor put in the cache and
\* from the generator, with the shifts of the reordered solutions.
OutputFaithful == pc = "written" => FP!OutputFaithful
StreamComplete == FP!StreamComplete
==============================================================================
