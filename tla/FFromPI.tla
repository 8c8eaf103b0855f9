------------------------------- MODULE FFromPI -------------------------------
(***************************************************************************)
(* The stream transform lingen_F_from_PI (src/linalg/bwc/lingen_io_wrappers *)
(* .cpp): its constructor, which sets the solution shifts and fills the     *)
(* lookback cache from the reversed generator, and read_to_matpoly, which   *)
(* adds into coefficient k of column jF of F the coefficients k + s of the  *)
(* reversed generator, for every pair (ipi, jF) with s = get_shift_ij.      *)
(*                                                                          *)
(* As in EFromA, data is abstracted to positions: an emitted coefficient    *)
(* of F is recorded as its index b in the stream of F, and it sums the      *)
(* coefficients b + s of the reversed generator, which exist when           *)
(* b + s < L, the length of the generator.                                  *)
(***************************************************************************)
EXTENDS Naturals, Sequences, FiniteSets, FiniteSetsExt

CONSTANTS
    M,          \* bw_dimensions m
    N,          \* bw_dimensions n (the number of solutions)
    SIMD,       \* packing width: ULONG_BITS over GF(2), 1 otherwise
    T0s,        \* the shifts t0 the bootstrap may have found
    Lengths,    \* the lengths G of the generator stream
    Windows     \* the window sizes k1 - k0 a caller may ask for (k0 = 0)

ASSUME /\ M \in Nat \ {0} /\ N \in Nat \ {0} /\ SIMD \in Nat \ {0}
       /\ T0s \subseteq Nat \ {0} /\ Lengths \subseteq Nat
       /\ \A w \in Windows : w > 0 /\ w % SIMD = 0

IPI == 0..(M + N - 1)       \* rows of pi (columns of F0)
JF  == 0..(N - 1)           \* columns of F

VARIABLES
    L,          \* length of the generator stream, also its guessed_length G
    t0,         \* the bootstrap's shift
    nrhs,       \* bw_dimensions nrhs
    fdesc,      \* F0 descriptors of the last m columns: <<kA, jA>>
    solShift,   \* sols[jF].shift = G - 1 - delta[j]
    rawPos,     \* read cursor of the reversed-generator stream
    cacheK0,    \* lingen_F_from_PI::cache_k0
    cacheK1,    \* lingen_F_from_PI::cache_k1
    out,        \* history: the index in F of each coefficient emitted
    ended,      \* a call returned less than it was asked for
    lastReq,    \* history: k1 - k0 of the last call
    lastCount   \* history: the value the last call returned

vars == <<L, t0, nrhs, fdesc, solShift, rawPos, cacheK0, cacheK1, out,
          ended, lastReq, lastCount>>

-----------------------------------------------------------------------------
(* Helpers translating the source.                                         *)

AlignUp(k) == SIMD * ((k + SIMD - 1) \div SIMD)

\* Variant reading past the end of the generator, checked to break TypeOK.
NReadUnclamped(k0, k1) == k1 - k0

\* lingen_gather_reverse::read_to_matpoly: what is left of [k0, k1)
NRead(k0, k1) == Min({k1, Max({L, k0})}) - k0

\* lingen_F0::column_data_from_Aprime(ipi) = <<kA, jA>>
ColumnDataFromAprime(ipi) ==
    IF ipi < N THEN <<t0, ipi>> ELSE fdesc[ipi - N]

\* get_shift_ij: the shift s at which row ipi of pi feeds column jF of F
ShiftIJ(ipi, jF) ==
    LET kj == ColumnDataFromAprime(ipi)
    IN  solShift[jF] + (t0 - kj[1]) + (IF kj[2] < nrhs THEN 1 ELSE 0)

Shifts == {ShiftIJ(ipi, jF) : ipi \in IPI, jF \in JF}

\* the constructor: max(s + 1) over the solutions, plus t0, aligned
LookbackNeeded ==
    AlignUp(Max({solShift[jF] + 1 : jF \in JF}) + t0)

\* Variant counting the pairs whose source is exhausted, checked to break
\* StreamComplete.
MaxTailShort(cacheAvail, nread) ==
    Max({0} \cup {cacheAvail - (nread + s) : s \in {x \in Shifts : nread + x + 1 < cacheAvail}})

\* max_tail: the longest run still fed by some pair once the stream ended
MaxTail(cacheAvail, nread) ==
    Max({0} \cup {cacheAvail - (nread + s) : s \in {x \in Shifts : nread + x < cacheAvail}})

-----------------------------------------------------------------------------
(* Actions.                                                                *)

\* The state the constructor leaves: n solutions with t0 <= delta[j] <= G-1
\* (the ASSERTs of the constructor), F0 descriptors as initial_read records
\* them (degree t - 1 of a round t <= t0, the last one of round t0), and
\* the first lookback_needed coefficients read (the count is not checked).
Init ==
    /\ t0 \in T0s
    /\ L \in {l \in Lengths : l >= t0 + 1}
    /\ nrhs \in 0..N
    /\ solShift \in [JF -> 0..(L - 1 - t0)]
    /\ fdesc \in {f \in [0..(M-1) -> (0..(t0-1)) \X JF] :
                     /\ f[M-1][1] = t0 - 1
                     /\ \A a, b \in 0..(M-1) : a < b => f[a][1] <= f[b][1]}
    /\ cacheK0 = 0
    /\ cacheK1 = LookbackNeeded
    /\ rawPos = Min({L, LookbackNeeded})
    /\ out = <<>>
    /\ ended = FALSE
    /\ lastReq = 0
    /\ lastCount = 0

\* read_to_matpoly(dst, 0, k1) with a nonempty cache: top up, add the
\* aligned part of every pair into dst, rotate the cache or, on a short
\* read, stow max_tail coefficients into the tail and clear the cache; the
\* tail is drained into dst in the same call.
ReadCached(k1) ==
    LET lookback   == cacheK1 - cacheK0
        nreadRaw   == NRead(rawPos, rawPos + k1)
        nread      == nreadRaw - (nreadRaw % SIMD)
        cacheAvail == lookback + nreadRaw
        short      == nread < k1
        tailLen    == IF short THEN MaxTail(cacheAvail, nread) ELSE 0
        emitted    == [x \in 1..(nread + tailLen) |-> cacheK0 + x - 1]
    IN
    /\ cacheK1 # cacheK0
    /\ rawPos' = rawPos + nreadRaw
    /\ out' = out \o emitted
    /\ IF short
       THEN /\ cacheK0' = 0 /\ cacheK1' = 0
       ELSE /\ cacheK0' = cacheK0 + nread /\ cacheK1' = cacheK1 + nreadRaw
    /\ ended' = (ended \/ nread + tailLen < k1)
    /\ lastReq' = k1
    /\ lastCount' = nread + tailLen

\* read_to_matpoly once the cache was cleared: the tail is empty too.
ReadDrained(k1) ==
    /\ cacheK1 = cacheK0
    /\ ended' = TRUE
    /\ lastReq' = k1
    /\ lastCount' = 0
    /\ UNCHANGED <<rawPos, cacheK0, cacheK1, out>>

\* The generator and the solutions stay as the constructor left them.
Next == /\ \E k1 \in Windows : ReadCached(k1) \/ ReadDrained(k1)
        /\ UNCHANGED <<L, t0, nrhs, fdesc, solShift>>

Spec == Init /\ [][Next]_vars

-----------------------------------------------------------------------------
(* Properties.                                                             *)

TypeOK ==
    /\ L \in Nat /\ t0 \in Nat \ {0} /\ nrhs \in 0..N
    /\ solShift \in [JF -> Nat]
    /\ rawPos \in 0..L
    /\ cacheK0 \in Nat /\ cacheK1 \in Nat /\ cacheK0 <= cacheK1
    /\ out \in Seq(Nat) /\ ended \in BOOLEAN
    /\ lastReq \in Nat /\ lastCount \in Nat

\* The smallest and largest shifts at which the generator feeds F.
SMin == Min(Shifts)
SMax == Max(Shifts)

\* Chunking invariance and real data: coefficient p of F is coefficient p
\* of the whole transform whatever the windows, at least one pair feeds it
\* from a coefficient the generator really has, and while the cache is
\* live (before the short read), every pair read it from what had been
\* read into the cache.
OutputFaithful ==
    \A p \in 1..Len(out) :
        /\ out[p] = p - 1
        /\ out[p] + SMin < L
        /\ cacheK1 # cacheK0 => out[p] + SMax < rawPos

\* Once a call came back short, F has delivered every coefficient that
\* some pair feeds, and no more: L - min s of them.
StreamComplete ==
    ended => Len(out) = L - SMin

\* A call never produces more than the k1 - k0 coefficients asked for.
CountBound == lastCount <= lastReq
=============================================================================
