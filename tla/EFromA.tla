------------------------------- MODULE EFromA -------------------------------
(***************************************************************************)
(* The stream transform lingen_E_from_A::read_to_matpoly                   *)
(* (src/linalg/bwc/lingen_io_wrappers.cpp): column j of E is               *)
(* X^{-kA} * column jA of A, where kA <= F0_lookback = t0 + (nrhs < n).   *)
(* The transform keeps a cache of raw coefficients A[cache_k0, cache_k1);  *)
(* each call tops the cache up by the requested count, emits the aligned   *)
(* part it can, and on a short read of A drains what is left of the cache *)
(* into the tail and emits it too.                                         *)
(*                                                                         *)
(* The data is abstracted to positions: an emitted coefficient of E is     *)
(* recorded as the degree b of A it was read from, so that its column of   *)
(* offset kA holds A[b + kA].  The coefficients are real data only when    *)
(* b + F0_lookback < the length of A; beyond that the cache holds the      *)
(* zero padding of refresh_cache_upto and zero_pad.                        *)
(***************************************************************************)
EXTENDS Naturals, Sequences, FiniteSets, FiniteSetsExt

CONSTANTS
    N,          \* bw_dimensions n
    SIMD,       \* packing width: ULONG_BITS over GF(2), 1 otherwise
    T0s,        \* the shifts t0 the bootstrap may have found
    Lengths,    \* the lengths of the raw stream A
    Windows     \* the window sizes k1 - k0 a caller may ask for (k0 = 0)

ASSUME /\ N \in Nat \ {0} /\ SIMD \in Nat \ {0}
       /\ T0s \subseteq Nat \ {0} /\ Lengths \subseteq Nat
       /\ \A w \in Windows : w > 0 /\ w % SIMD = 0

VARIABLES
    L,          \* length of the raw stream A (never changes)
    t0,         \* the bootstrap's shift (never changes)
    nrhs,       \* bw_dimensions nrhs (never changes)
    rawPos,     \* read cursor of the input wrapper of A
    cacheK0,    \* lingen_E_from_A::cache_k0
    cacheK1,    \* lingen_E_from_A::cache_k1
    out,        \* history: the degree of A behind each coefficient emitted
    ended,      \* a call returned less than it was asked for
    lastReq,    \* history: k1 - k0 of the last call
    lastCount   \* history: the value the last call returned

vars == <<L, t0, nrhs, rawPos, cacheK0, cacheK1, out, ended, lastReq, lastCount>>

-----------------------------------------------------------------------------
(* Helpers translating the source.                                         *)

AlignUp(k) == SIMD * ((k + SIMD - 1) \div SIMD)

\* Variant reading past the end of A, checked to break TypeOK.
NReadUnclamped(k0, k1) == k1 - k0

\* lingen_random_input / lingen_file_input::read_to_matpoly: what is left of
\* the requested range [k0, k1) in a stream of L coefficients.
NRead(k0, k1) == Min({k1, Max({L, k0})}) - k0

\* Variant forgetting the (nrhs < n) term, checked to break OutputFaithful.
F0LookbackNoRhs == t0

\* the largest kA of any column of E
F0Lookback == t0 + (IF nrhs < N THEN 1 ELSE 0)

\* Variant of the short-read test off by one, checked to break
\* ImplementsStreamSource.
ShortReadLate(nread, k1) == nread + 1 < k1

\* "if (nread + k0 < k1)" with k0 = 0: the input stream has ended
ShortRead(nread, k1) == nread < k1

\* Variant keeping the lookback in the tail, checked to break CountBound.
TailLengthAll(cacheAvail, nread) == cacheAvail - Min({cacheAvail, nread})

\* "tail.zero_pad(cache_avail - MIN(cache_avail, cache_access))": what is
\* left of the cache once the aligned part and the lookback are taken off
TailLength(cacheAvail, nread) ==
    cacheAvail - Min({cacheAvail, nread + F0Lookback})

\* column_data_from_A for the first n columns of E (the identity block of
\* F0): column j reads column j of A at degree t0 + (j >= nrhs).  The
\* columns from fdesc read degrees at most t0.
KAOfColumn(jE) == t0 + (IF jE >= nrhs THEN 1 ELSE 0)
MaxKA == Max({KAOfColumn(jE) : jE \in 0..(N-1)})

\* The bounds that initial_read leaves: the cache was refreshed up to
\* AlignUp(F0_lookback + 1), and the last refresh that read anything checked
\* that A held at least the target of the round that did the read.
RoundTarget(t) == t + (IF nrhs = N THEN 1 ELSE 2)
CheckedTarget ==
    Min({RoundTarget(t) : t \in {u \in 1..t0 :
                                   AlignUp(RoundTarget(u)) = AlignUp(RoundTarget(t0))}})

-----------------------------------------------------------------------------
(* Actions.                                                                *)

Init ==
    /\ t0 \in T0s
    /\ nrhs \in 0..N
    /\ cacheK0 = 0
    /\ cacheK1 = AlignUp(RoundTarget(t0))
    /\ L \in {l \in Lengths : Min({l, cacheK1}) >= CheckedTarget}
    /\ rawPos = Min({L, cacheK1})
    /\ out = <<>>
    /\ ended = FALSE
    /\ lastReq = 0
    /\ lastCount = 0

\* read_to_matpoly(dst, 0, k1) with a nonempty cache: top up, emit the
\* aligned part, rotate the cache or, on a short read, drain it through the
\* tail and clear it.  The tail is emitted in the same call.
ReadCached(k1) ==
    LET lookback   == cacheK1 - cacheK0
        nreadRaw   == NRead(rawPos, rawPos + k1)
        nread      == nreadRaw - (nreadRaw % SIMD)
        cacheAvail == lookback + nreadRaw
        short      == ShortRead(nread, k1)
        tailLen    == IF short THEN TailLength(cacheAvail, nread) ELSE 0
        emitted    == [x \in 1..(nread + tailLen) |-> cacheK0 + x - 1]
    IN
    /\ cacheK1 # cacheK0
    /\ rawPos' = rawPos + nreadRaw
    /\ out' = out \o emitted
    /\ IF short
       THEN /\ cacheK0' = 0 /\ cacheK1' = 0
       ELSE /\ cacheK0' = cacheK0 + nread /\ cacheK1' = cacheK1 + nreadRaw
    /\ ended' = (ended \/ nread + tailLen < k1)
    /\ lastReq' = k1
    /\ lastCount' = nread + tailLen
    /\ UNCHANGED <<L, t0, nrhs>>

\* read_to_matpoly once the cache was cleared: nothing is left (pipe reads
\* once more after a short window whose content was all zero).
ReadDrained(k1) ==
    /\ cacheK1 = cacheK0
    /\ ended' = TRUE
    /\ lastReq' = k1
    /\ lastCount' = 0
    /\ UNCHANGED <<L, t0, nrhs, rawPos, cacheK0, cacheK1, out>>

Next == \E k1 \in Windows : ReadCached(k1) \/ ReadDrained(k1)

\* pipe, the caller, calls read_to_matpoly again until a call comes back
\* short: a read stays possible until then.
Spec == Init /\ [][Next]_vars /\ WF_vars(Next)

-----------------------------------------------------------------------------
(* Properties.                                                             *)

TypeOK ==
    /\ L \in Nat /\ t0 \in Nat \ {0} /\ nrhs \in 0..N
    /\ rawPos \in 0..L
    /\ cacheK0 \in Nat /\ cacheK1 \in Nat /\ cacheK0 <= cacheK1
    /\ out \in Seq(Nat) /\ ended \in BOOLEAN
    /\ lastReq \in Nat /\ lastCount \in Nat

\* Chunking invariance and no fabricated data: whatever the windows asked
\* for, coefficient p of E is read from degree p of A (shifted by kA), and
\* all of its columns come from coefficients that A really has.
OutputFaithful ==
    \A p \in 1..Len(out) :
        out[p] = p - 1 /\ \A jE \in 0..(N-1) : out[p] + KAOfColumn(jE) < L

\* A call never produces more than the k1 - k0 coefficients asked for (the
\* tail is copied into dst without checking k1).
CountBound == lastCount <= lastReq

\* E, seen through the contract of an input endpoint: its positions are
\* the L - max(kA) coefficients of E.
SR == INSTANCE StreamSource
        WITH total <- L - MaxKA, got <- out, done <- ended,
             req <- lastReq, cnt <- lastCount

\* lingen_E_from_A implements the input endpoint contract: every call
\* returns at most what it was asked for, delivers the next coefficients
\* of E in order, comes back short only once E is exhausted (the short
\* final read of A and the drain of the cache through the tail drop
\* nothing), returns nothing after that, and a caller that keeps reading
\* reaches the end.
ImplementsStreamSource == SR!Spec
=============================================================================
