---------------------------- MODULE GatherReverse ----------------------------
(***************************************************************************)
(* The reversed-gather endpoint lingen_gather_reverse<matpoly> and its      *)
(* kernel reverse_matpoly_to_matpoly (src/linalg/bwc/lingen_io_wrappers     *)
(* .cpp), on one entry of pi over GF(2) (the u64k1 layer), where a          *)
(* coefficient is one bit and W coefficients are packed in a word, bit k    *)
(* of the polynomial at bit k % W of word k \div W.                         *)
(*                                                                          *)
(* Each call returns the next nk coefficients of the reversal of pi around  *)
(* its size d: stream coefficient c is pi[d-1-c].  The kernel copies the    *)
(* whole words holding pi[rk0, rk1), shifts them left so that bit rk1 - 1  *)
(* is the top bit of the last word, reverses the bits of those words, and   *)
(* copies ceil(nk / W) words to dst.  The bits of pi's words at and beyond  *)
(* d are storage the kernel may read: their value is not defined, so Init   *)
(* lets them be anything.                                                   *)
(***************************************************************************)
EXTENDS Naturals, Sequences

CONSTANTS
    W,          \* bits per word (ULONG_BITS, the packing width simd)
    Sizes,      \* the sizes d of pi explored
    Windows,    \* the window sizes k1 - k0 a caller may ask for (k0 = 0)
    Kinds       \* the endpoints explored: "matpoly", "bigmatpoly"

ASSUME /\ W \in Nat \ {0} /\ Sizes \subseteq Nat
       /\ \A w \in Windows : w > 0 /\ w % W = 0

Bit == {0, 1}

CeilDiv(a, b) == (a + b - 1) \div b
RoundUp(a) == W * CeilDiv(a, W)         \* the R(x, simd) macro

VARIABLES
    d,          \* pi.get_size()
    piBits,     \* the words of pi, as bits 0 .. RoundUp(d) - 1
    nextSrcK,   \* next_src_k
    out,        \* history: the coefficients returned, in order
    dstTail,    \* the bits dst receives beyond the count of the last call
    ended,      \* a call returned less than it was asked for
    kind,       \* the endpoint: "matpoly" or "bigmatpoly"
    aborted     \* an ASSERT_ALWAYS failed

vars == <<d, piBits, nextSrcK, out, dstTail, ended, kind, aborted>>

-----------------------------------------------------------------------------
(* The kernel, word arithmetic of the #else branch.                        *)

\* Variant of mpn_lshift that rotates instead of shifting in zeros, checked
\* to break DstTailZero.
LShiftRotate(bits, nbits, sh) ==
    [x \in 0..(nbits - 1) |-> bits[(x - sh + nbits) % nbits]]

\* mpn_lshift over the nbits bits of the temp words: bits shifted out of
\* the top are lost, zeros come in at the bottom
LShift(bits, nbits, sh) ==
    [x \in 0..(nbits - 1) |-> IF x >= sh THEN bits[x - sh] ELSE 0]

\* bit_reverse(temp, temp, nq): bit x of nq words goes to nq*W - 1 - x
BitReverse(bits, nbits) == [x \in 0..(nbits - 1) |-> bits[nbits - 1 - x]]

\* Variant rounding the word count down, checked to break ReverseFaithful.
WordCountFloor(nbits) == nbits \div W

\* nq = iceildiv(n_rk + r_rk, simd)
WordCount(nbits) == CeilDiv(nbits, W)

\* Variant without the second MIN (what is left of pi), checked to break TypeOK.
ReadCountUnclamped(dsize, next, k1) == k1
\* Variant dropping the partial last word, checked to break ReverseComplete.
ReadCountWholeWords(dsize, next, k1) ==
    IF k1 <= dsize - next THEN k1 ELSE W * ((dsize - next) \div W)

\* the count: MIN(k1, dst.get_size()) - k0, then what is left of the source
ReadCount(dsize, next, k1) == IF k1 <= dsize - next THEN k1 ELSE dsize - next

\* reverse_matpoly_to_matpoly(dst, 0, k1, src, next) on a source of dsize
\* coefficients: the bits written to dst, positions 0 .. RoundUp(nk) - 1
ReverseWords(src, dsize, next, k1) ==
    LET nk   == ReadCount(dsize, next, k1)
        rk1  == IF dsize >= next THEN dsize - next ELSE 0
        rk0  == IF rk1 >= nk THEN rk1 - nk ELSE 0
        n_rk == rk1 - rk0
        q_rk == rk0 \div W
        r_rk == rk0 % W
        nq   == WordCount(n_rk + r_rk)
        nb   == nq * W
        temp == [x \in 0..(nb - 1) |-> src[q_rk * W + x]]
        shd  == IF rk1 % W # 0 THEN LShift(temp, nb, W - (rk1 % W)) ELSE temp
        rev  == BitReverse(shd, nb)
    IN  IF nq = 0 THEN [x \in 0..(RoundUp(nk) - 1) |-> 0]
        ELSE [x \in 0..(RoundUp(nk) - 1) |-> IF x < nb THEN rev[x] ELSE 0]

\* lingen_gather_reverse<bigmatpoly>: the root computes nk, nq and offset
\* as the kernel would, gathers nk coefficients of pi from offset into tpi
\* (nq words, zero-padded), and runs the kernel on tpi from its start with
\* the window [0, nk).
BigTpi(nk) ==
    LET rk1    == IF d >= nextSrcK THEN d - nextSrcK ELSE 0
        rk0    == IF rk1 >= nk THEN rk1 - nk ELSE 0
        nq     == WordCount(rk1 - rk0 + (rk0 % W))
        offset == (rk0 \div W) * W
    IN  <<nq * W, [x \in 0..(nq * W - 1) |-> IF x < nk THEN piBits[offset + x] ELSE 0]>>

-----------------------------------------------------------------------------
(* Actions.                                                                *)

Init ==
    /\ kind \in Kinds
    /\ d \in Sizes
    /\ piBits \in [0..(RoundUp(d) - 1) -> Bit]
    /\ nextSrcK = 0
    /\ out = <<>>
    /\ dstTail = <<>>
    /\ ended = FALSE
    /\ aborted = FALSE

\* The bits a call delivers: out gets the first nk, dstTail the rest of the
\* last word; the cursor advances and a short count ends the stream.
Deliver(nk, k1, dst) ==
    /\ out' = out \o [c \in 1..nk |-> dst[c - 1]]
    /\ dstTail' = [c \in 1..(RoundUp(nk) - nk) |-> dst[nk + c - 1]]
    /\ nextSrcK' = nextSrcK + nk
    /\ ended' = (nk < k1)

\* lingen_gather_reverse<matpoly>::read_to_matpoly(dst, 0, k1) into a
\* freshly zero-padded window; the caller stops after a short count.
ReadReverse(k1) ==
    /\ kind = "matpoly" /\ ~ended
    /\ Deliver(ReadCount(d, nextSrcK, k1), k1, ReverseWords(piBits, d, nextSrcK, k1))
    /\ UNCHANGED <<kind, d, piBits, aborted>>

\* lingen_gather_reverse<bigmatpoly>::read_to_matpoly(dst, 0, k1): the
\* kernel is called with k1 = nk and asserts k1 % simd == 0.
ReadReverseBig(k1) ==
    LET nk  == ReadCount(d, nextSrcK, k1)
        tpi == BigTpi(nk)
    IN
    /\ kind = "bigmatpoly" /\ ~ended /\ ~aborted
    /\ IF nk % W # 0
       THEN aborted' = TRUE /\ UNCHANGED <<out, dstTail, nextSrcK, ended>>
       ELSE /\ Deliver(nk, k1, ReverseWords(tpi[2], tpi[1], 0, nk))
            /\ UNCHANGED aborted
    /\ UNCHANGED <<kind, d, piBits>>

Next == \E k1 \in Windows : ReadReverse(k1) \/ ReadReverseBig(k1)

Spec == Init /\ [][Next]_vars

-----------------------------------------------------------------------------
(* Properties.                                                             *)

TypeOK ==
    /\ d \in Nat /\ nextSrcK \in 0..d
    /\ out \in Seq(Bit) /\ dstTail \in Seq(Bit) /\ ended \in BOOLEAN

\* Whatever the windows and however d sits against the word boundaries,
\* the stream is the reversal of pi: its coefficient c is pi[d-1-c], and
\* no bit of the undefined storage beyond d is ever returned.
ReverseFaithful ==
    \A c \in 1..Len(out) : out[c] = piBits[d - c]

\* The same for the local endpoint lingen_gather_reverse<matpoly>, which
\* runs the kernel on pi itself.
LocalReverseFaithful == kind = "matpoly" => ReverseFaithful

\* Once a call came back short, all d coefficients have been returned.
ReverseComplete == ended => Len(out) = d

\* The bits dst receives past the returned count, in its last word, are
\* zero: the matpoly invariant that coefficients beyond the size are zero.
DstTailZero == \A c \in 1..Len(dstTail) : dstTail[c] = 0
=============================================================================
