------------------------- MODULE MCSequentialKernels -------------------------
(***************************************************************************)
(* Four parts of the program that keep no state shared with one another   *)
(* and are checked for safety only, in one pass:                           *)
(*   - "gather": the reversed gather of the lingen generator pi            *)
(*     (GatherReverse; variables and constants with a prefix g / G);       *)
(*   - "F": one F-from-pi object (FFromPIObject), which reads the reversed *)
(*     generator and produces F;                                           *)
(*   - "ecm": the ECM curve parameterizations of the cofactorization       *)
(*     (ECParameterization);                                               *)
(*   - "norm": the norm initialisation of the function-field siever (Norm; *)
(*     its pc is nPc).                                                     *)
(* A behaviour is one life of one of them, chosen by kernel among Kernels, *)
(* while the others' variables stay at one fixed initial state.            *)
(***************************************************************************)
EXTENDS Naturals

CONSTANT Kernels    \* the parts this run checks
CONSTANTS W, GWindows
CONSTANTS M, N, P, SIMD, T0s, G, Windows
CONSTANTS Moduli, Sigmas, Ks, Coords
CONSTANTS D, Coeffs, Qs, I, J, Rows, MarkedSets

ASSUME Kernels \subseteq {"gather", "F", "ecm", "norm"}

VARIABLES gd, gPiBits, gNextSrcK, gOut, gDstTail, gEnded, gKind, gAborted
VARIABLES t0, nrhs, fdesc, lucky, delta, data, sols, lookback, rhs, srhs, pc,
          L, rawPos, cacheK0, cacheK1, out, ended, lastReq, lastCount
VARIABLES m, fn, param, coord, wantB, T, ret, b, P0, aborted
VARIABLES f, ql, sqside, fij, degq, S, i, j, nPc
VARIABLE kernel

\* 4-bit words: sizes 0..9 put d at, just below and just above word
\* boundaries, over up to three words; both endpoints.
MCSizes == 0..9
MCKindsAll == {"matpoly", "bigmatpoly"}

\* The primes 7, 11, 13 and the composite 77 = 7 * 11, every point of the
\* two curves, and one coordinate type that Z6 does not accept; S marked
\* 255 nowhere or at (1, 1).
MCModuli == {7, 11, 13, 77}
MCCoords == {"MONTGOMERY_xz", "TWISTED_EDWARDS_ext", "TWISTED_EDWARDS_proj",
             "SHORT_WEIERSTRASS_proj"}
MCMarkedSets == {{}, {<<1, 1>>}}

GR == INSTANCE GatherReverse
        WITH Sizes <- MCSizes, Windows <- GWindows, Kinds <- MCKindsAll,
             d <- gd, piBits <- gPiBits, nextSrcK <- gNextSrcK, out <- gOut,
             dstTail <- gDstTail, ended <- gEnded, kind <- gKind,
             aborted <- gAborted
FO == INSTANCE FFromPIObject
EC == INSTANCE ECParameterization
NM == INSTANCE Norm WITH pc <- nPc

gVars == <<gd, gPiBits, gNextSrcK, gOut, gDstTail, gEnded, gKind, gAborted>>
fVars == <<t0, nrhs, fdesc, lucky, delta, data, sols, lookback, rhs, srhs,
           pc, L, rawPos, cacheK0, cacheK1, out, ended, lastReq, lastCount>>
ecVars == <<m, fn, param, coord, wantB, T, ret, b, P0, aborted>>
nmVars == <<f, ql, sqside, fij, degq, S, i, j, nPc>>
allVars == <<gVars, fVars, ecVars, nmVars, kernel>>

\* the parts not run rest in one of their initial states (the equalities
\* first, so that the initial states are not enumerated)
GAtRest == gKind = "matpoly" /\ gd = 0 /\ GR!Init
FAtRest == /\ t0 = 1 /\ nrhs = 0 /\ fdesc = [x \in {0} |-> <<0, 0>>]
           /\ lucky = [c \in 0..(M + N - 1) |-> FALSE]
           /\ delta = [c \in 0..(M + N - 1) |-> 1]
           /\ FO!Init
ECAtRest == m = 7 /\ EC!Init
NMAtRest == /\ f = [k \in 0..D |-> IF k = D THEN 1 ELSE 0]
            /\ sqside = FALSE /\ ql = NM!QLattice(2, 0) /\ S = [p \in NM!Pos |-> 0]
            /\ NM!Init

Init ==
    \/ kernel = "gather" /\ kernel \in Kernels
       /\ GR!Init /\ FAtRest /\ ECAtRest /\ NMAtRest
    \/ kernel = "F" /\ kernel \in Kernels
       /\ FO!Init /\ GAtRest /\ ECAtRest /\ NMAtRest
    \/ kernel = "ecm" /\ kernel \in Kernels
       /\ EC!Init /\ GAtRest /\ FAtRest /\ NMAtRest
    \/ kernel = "norm" /\ kernel \in Kernels
       /\ NM!Init /\ GAtRest /\ FAtRest /\ ECAtRest

Next ==
    \/ kernel = "gather" /\ GR!Next /\ UNCHANGED <<fVars, ecVars, nmVars, kernel>>
    \/ kernel = "F" /\ FO!Next /\ UNCHANGED <<gVars, ecVars, nmVars, kernel>>
    \/ kernel = "ecm" /\ EC!Next /\ UNCHANGED <<gVars, fVars, nmVars, kernel>>
    \/ kernel = "norm" /\ NM!Next /\ UNCHANGED <<gVars, fVars, ecVars, kernel>>

\* All stop: the gather after a short count, F once its stream ended, the
\* kernels of the sievers when their call returns.
Spec == Init /\ [][Next]_allVars

-----------------------------------------------------------------------------
(* The properties of the four parts, stated in their modules.             *)

GTypeOK == GR!TypeOK
LocalReverseFaithful == GR!LocalReverseFaithful
ReverseComplete == GR!ReverseComplete
DstTailZero == GR!DstTailZero
FTypeOK == FO!TypeOK
RhsFollowsSols == FO!RhsFollowsSols
OrderedByWeight == FO!OrderedByWeight
ReadsInCache == FO!ReadsInCache
OutputFaithful == FO!OutputFaithful
StreamComplete == FO!StreamComplete
ECTypeOK == EC!TypeOK
CurveOK == EC!CurveOK
Z6IsBrentSuyama == EC!Z6IsBrentSuyama
EdwardsOnCurve == EC!EdwardsOnCurve
NormTypeOK == NM!TypeOK
TransformPreservesNorm == NM!TransformPreservesNorm
NormDegree == NM!NormDegree
=============================================================================
