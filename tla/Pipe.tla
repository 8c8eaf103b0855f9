-------------------------------- MODULE Pipe --------------------------------
(***************************************************************************)
(* The generic pipe driver pipe(in, out, action, skip_trailing_zeros) of   *)
(* src/linalg/bwc/lingen_io_wrappers.cpp.  It reads windows of `window`    *)
(* coefficients from the input endpoint, counts whole windows of zero      *)
(* coefficients instead of writing them (with skip_trailing_zeros), writes *)
(* the pending run of zeros, in writes of at most a window, before the     *)
(* next nonzero payload, and stops after a short read.  A short write is   *)
(* fatal.                                                                  *)
(*                                                                         *)
(* A coefficient is abstracted to 0 (the all-zero matrix) or to one of the *)
(* nonzero values of Values.  The endpoints on the input side are the file *)
(* and random inputs (no alignment requirement) and lingen_gather over a   *)
(* matpoly or a bigmatpoly; on the output side the single- and split-file  *)
(* outputs (which may write short), lingen_scatter over a matpoly or a     *)
(* bigmatpoly, and the sha1 sink.  The gather and scatter endpoints        *)
(* ASSERT_ALWAYS cursors and windows aligned on the packing width SIMD; a  *)
(* failed assertion aborts the program.  The sha1 sink hashes whole words  *)
(* of SIMD coefficients (u64k1 layer): `hashed` is the coefficient stream  *)
(* it feeds to the hash.                                                   *)
(***************************************************************************)
EXTENDS Naturals, Sequences, SequencesExt

CONSTANTS
    Values,     \* nonzero coefficient values (0 is the zero coefficient)
    MaxLen,     \* longest input stream explored
    NMats,      \* iceildiv(io_matpoly_block_size, average_matsize()) values
    SIMD,       \* packing width: ULONG_BITS over GF(2), 1 otherwise
    Threads,    \* omp_get_max_threads() values
    MaxMats     \* (1UL << 35) / average_matsize(): the 32GB limit, in coefficients

ASSUME /\ 0 \notin Values /\ MaxLen \in Nat
       /\ NMats \subseteq Nat \ {0} /\ SIMD \in Nat \ {0}
       /\ Threads \subseteq Nat \ {0} /\ MaxMats \in Nat \ {0}

Coeff == {0} \cup Values
InKinds  == {"file", "random", "gather", "biggather"}
OutKinds == {"file", "scatter", "bigscatter", "sha1"}

VARIABLES
    in,             \* the input stream (never changes)
    skip,           \* skip_trailing_zeros (never changes)
    inKind,         \* the input endpoint, one of InKinds
    outKind,        \* the output endpoint, one of OutKinds
    window,         \* the window size (never changes)
    inPos,          \* read cursor of the input endpoint (gather: next_src_k)
    zq,             \* the run of zero coefficients not written yet
    n,              \* count returned by the last read
    n1,             \* its nonzero size (ll)
    out,            \* what the output endpoint has received
    hashed,         \* what the sha1 sink has fed to the hash
    phase           \* "read", "write" (inside the iteration, after the
                    \* read), "done", "aborted" (short write), "assert",
                    \* "exit" (guessed_length gave up)

vars == <<in, skip, inKind, outKind, window, inPos, zq, n, n1, out, hashed, phase>>

-----------------------------------------------------------------------------
(* Helpers.                                                                *)

CeilDiv(a, b) == (a + b - 1) \div b
RoundUp(k) == SIMD * CeilDiv(k, SIMD)

\* Variant of preferred_window without the padding to simd, checked to
\* break AlignedWithoutSkip.
PreferredWindowUnpadded(nmats) == nmats

\* lingen_io_wrapper_base::preferred_window, used by every output and by
\* the gather endpoints: nmats_pad = simd * iceildiv(nmats, simd)
PreferredWindow(nmats) == RoundUp(nmats)

\* the "limit to 32GB" loop: nmats_pad /= 2 while it exceeds the limit
RECURSIVE HalveTo(_)
HalveTo(k) == IF k > MaxMats THEN HalveTo(k \div 2) ELSE k

\* lingen_file_input::preferred_window (OpenMP build, 64-bit longs): the
\* padded count, times t*t/4 (integer division), halved down to the limit
FileInputWindow(nmats, t) == HalveTo(PreferredWindow(nmats) * ((t * t) \div 4))

\* lingen_random_input::preferred_window: the same computation
RandomInputWindow(nmats, t) == FileInputWindow(nmats, t)

\* in.preferred_window() for the input endpoint of kind k
InputWindow(k, nmats, t) ==
    CASE k = "file"   -> FileInputWindow(nmats, t)
      [] k = "random" -> RandomInputWindow(nmats, t)
      [] OTHER        -> PreferredWindow(nmats)

\* lingen_file_input::guessed_length, called by pipe before its loop: with
\* no length hint and a binary file whose size is not a multiple of the
\* coefficient size, it prints an error and exits
GuessedLengthExits(hint, ascii, ragged) == ~hint /\ ~ascii /\ ragged

Aligned(k) == k % SIMD = 0

\* Variant that returns the whole window at the end of the stream too,
\* checked to break InputKeepsContract.
ReadCountUnclamped == window

\* read_to_matpoly(F, 0, window) of the file and random inputs: what is
\* left of the window (random: MIN(length, next_src_k + k1 - k0) - next_src_k)
ReadCount == IF window <= Len(in) - inPos THEN window ELSE Len(in) - inPos

\* the ASSERT_ALWAYS of lingen_gather<matpoly>::read_to_matpoly (k0 = 0)
GatherAsserts == inKind = "gather" => Aligned(window) /\ Aligned(inPos)

\* the ASSERT_ALWAYS of lingen_gather<bigmatpoly>::read_to_matpoly
BigGatherAsserts == inKind = "biggather" => Aligned(inPos) /\ Aligned(window)

\* the ASSERT_ALWAYS of lingen_scatter<matpoly>::write_from_matpoly (k0 = 0)
ScatterAsserts == outKind = "scatter" => Aligned(Len(out))

\* the ASSERT_ALWAYS of lingen_scatter<bigmatpoly>::write_from_matpoly
BigScatterAsserts == outKind = "bigscatter" => Aligned(Len(out))

\* Variant counting the hashed words rounded down, checked to break
\* Sha1Canonical.
HashedWordsFloor(s) == SubSeq(s, 1, SIMD * (Len(s) \div SIMD))

\* lingen_output_to_sha1sum::write_from_matpoly: iceildiv(k1 - k0,
\* ULONG_BITS) whole words of each entry are hashed; the bits past k1 are
\* zero (ASSERT_ALWAYS(src.high_word_is_clear()))
HashedWords(s) == s \o [x \in 1..(RoundUp(Len(s)) - Len(s)) |-> 0]

\* matpoly::get_true_nonzero_size: the size once trailing zero coefficients
\* are stripped.
RECURSIVE TrueNonzeroSize(_)
TrueNonzeroSize(s) ==
    IF s = <<>> \/ Last(s) # 0 THEN Len(s) ELSE TrueNonzeroSize(Front(s))

\* Variant that never strips, checked to break CopyFaithful.
NonzeroSizeNoStrip(cnt, chunk) == cnt

\* "ll = skip_trailing_zeros ? F.get_true_nonzero_size() : n"
NonzeroSize(cnt, chunk) == IF skip THEN TrueNonzeroSize(chunk) ELSE cnt

\* Variant computing the pending zeros from the window, checked to break TypeOK.
PendingZerosFromWindow(cnt, cnt1) == window - cnt1
\* Variant forgetting the zeros after the payload, checked to break OutputPrefix.
PendingZerosDropped(cnt, cnt1) == 0

\* "zq = n - n1": the trailing zeros of a written window stay pending
PendingZeros(cnt, cnt1) == cnt - cnt1

\* Variant of "if (n <= 0) break;" that misses n = 0, checked to break PipeTerminates.
EndOfInputStrict(cnt) == cnt < 0

\* "if (n <= 0) break;"
EndOfInput(cnt) == cnt <= 0

\* Variant ignoring a short read (a dropped "if (is_last) break;"), checked
\* to break AlignedWithoutSkip.
IsLastNever(cnt) == FALSE

\* "bool is_last = n < (ssize_t) window;"
IsLast(cnt) == cnt < window

Zeros(k) == [x \in 1..k |-> 0]

\* the chunk F read by the current iteration
Chunk == SubSeq(in, inPos - n + 1, inPos)

\* what the next write call of the iteration hands to the output endpoint:
\* Z with MIN(zq, window) zeros while zeros are pending, then F[0, n1)
NextWrite == IF zq > 0 THEN Zeros(IF zq <= window THEN zq ELSE window)
             ELSE SubSeq(Chunk, 1, n1)

-----------------------------------------------------------------------------
(* Actions: the read at the head of the loop body, then each write call.   *)

\* window = max(in.preferred_window(), out.preferred_window()); the
\* guessed length is computed (a file input may exit) before the loop.
Init ==
    /\ in \in UNION {[1..l -> Coeff] : l \in 0..MaxLen}
    /\ skip \in BOOLEAN
    /\ inKind \in InKinds /\ outKind \in OutKinds
    /\ \E a, b \in NMats, t \in Threads :
          LET wi == InputWindow(inKind, a, t)
              wo == PreferredWindow(b)
          IN  window = IF wi >= wo THEN wi ELSE wo
    /\ inPos = 0 /\ zq = 0 /\ n = 0 /\ n1 = 0
    /\ out = <<>> /\ hashed = <<>>
    /\ \E hint, ascii, ragged \in BOOLEAN :
          phase = IF inKind = "file" /\ GuessedLengthExits(hint, ascii, ragged)
                  THEN "exit" ELSE "read"

\* Read a window; an empty read leaves the loop.  A window whose nonzero
\* size is 0 only adds to the pending zeros ("continue", which also skips
\* the is_last test).
Read ==
    LET cnt   == ReadCount
        chunk == SubSeq(in, inPos + 1, inPos + cnt)
        cnt1  == NonzeroSize(cnt, chunk)
    IN
    /\ phase = "read"
    /\ IF ~(GatherAsserts /\ BigGatherAsserts)
       THEN phase' = "assert" /\ UNCHANGED <<inPos, zq, n, n1>>
       ELSE /\ inPos' = inPos + cnt /\ n' = cnt /\ n1' = cnt1
            /\ IF EndOfInput(cnt)
               THEN phase' = "done" /\ UNCHANGED zq
               ELSE IF cnt1 = 0
               THEN zq' = zq + cnt /\ UNCHANGED phase
               ELSE phase' = "write" /\ UNCHANGED zq
    /\ UNCHANGED <<in, skip, inKind, outKind, window, out, hashed>>

\* One write_from_matpoly call of the iteration, of the pending zeros or,
\* once they are written, of the payload; after the payload, the trailing
\* zeros of the window become pending and a short read leaves the loop.
Write ==
    /\ phase = "write"
    /\ IF ~(ScatterAsserts /\ BigScatterAsserts)
       THEN phase' = "assert" /\ UNCHANGED <<out, hashed, zq>>
       ELSE /\ out' = out \o NextWrite
            /\ hashed' = IF outKind = "sha1" THEN hashed \o HashedWords(NextWrite)
                         ELSE hashed
            /\ IF zq > 0
               THEN zq' = zq - Len(NextWrite) /\ UNCHANGED phase
               ELSE /\ zq' = PendingZeros(n, n1)
                    /\ phase' = IF IsLast(n) THEN "done" ELSE "read"
    /\ UNCHANGED <<in, skip, inKind, outKind, window, inPos, n, n1>>

\* The same write coming back short from a file output ("short write",
\* exit): the file keeps part of what was handed to it.
ShortWrite ==
    /\ phase = "write" /\ outKind = "file"
    /\ \E k \in 0..(Len(NextWrite) - 1) : out' = out \o SubSeq(NextWrite, 1, k)
    /\ phase' = "aborted"
    /\ UNCHANGED <<in, skip, inKind, outKind, window, inPos, zq, n, n1, hashed>>

Next == Read \/ Write \/ ShortWrite

\* pipe is a sequential loop of one process: it keeps running.
Spec == Init /\ [][Next]_vars /\ WF_vars(Read \/ Write)

-----------------------------------------------------------------------------
(* Properties.                                                             *)

\* what the output must finally hold
Expected == IF skip THEN SubSeq(in, 1, TrueNonzeroSize(in)) ELSE in

TypeOK ==
    /\ in \in Seq(Coeff) /\ skip \in BOOLEAN /\ window \in Nat \ {0}
    /\ inPos \in 0..Len(in) /\ zq \in 0..Len(in)
    /\ n \in 0..Len(in) /\ n1 \in 0..n
    /\ out \in Seq(Coeff) /\ hashed \in Seq(Coeff)
    /\ phase \in {"read", "write", "done", "aborted", "assert", "exit"}

\* Whatever the windows and the runs of zeros, the output is at every moment
\* (a short write or a failed assertion included) a prefix of the faithful
\* copy of the input.
OutputPrefix == IsPrefix(out, Expected)

\* When the loop ends normally, the output is the input, with its trailing
\* zero coefficients dropped exactly when skip_trailing_zeros is set.
CopyFaithful == phase = "done" => out = Expected

\* Without skip_trailing_zeros, and with a window on the packing width,
\* every read and write pipe issues keeps the cursors of the gather and
\* scatter endpoints (matpoly and bigmatpoly) on the packing width: their
\* assertions hold.  (The file and random inputs' 32GB halving can leave
\* the window off the packing width; see the README.)
AlignedWithoutSkip == ~skip /\ Aligned(window) => phase # "assert"

\* the stream of a whole copy, padded once to whole words
PaddedOnce(s) == s \o Zeros(RoundUp(Len(s)) - Len(s))

\* Without skip_trailing_zeros and with a window on the packing width, the
\* sha1 sink hashes the copied stream padded to whole words only at its
\* end, so its checksum does not depend on the window (that is, on the
\* thread count and on io_matpoly_block_size).
Sha1Canonical ==
    phase = "done" /\ outKind = "sha1" /\ ~skip /\ Aligned(window)
        => hashed = PaddedOnce(Expected)

\* The endpoint contract says a caller must not read again after a short
\* count.  pipe does when the short window was all zero: its "continue"
\* skips "if (is_last) break;".  That is the only case, and the extra read
\* ends the loop (or fails the gather assertion on the unaligned cursor).
ReadAfterShortWindow ==
    [][phase = "read" /\ 0 < n /\ n < window
         => n1 = 0 /\ phase' \in {"done", "assert"}]_vars

\* The windows pipe can choose (see Init).
Windows ==
    {IF InputWindow(k, a, t) >= PreferredWindow(b) THEN InputWindow(k, a, t)
     ELSE PreferredWindow(b) : k \in InKinds, a \in NMats, b \in NMats, t \in Threads}

\* A read has happened: the cursor moved, or the first read was empty.
HasRead == inPos > 0 \/ (phase = "done" /\ n = 0)

\* The input endpoint as the contract sees it: the stream, the positions
\* read so far, whether a read came back short, the last request and count.
SR == INSTANCE StreamSource
        WITH total <- Len(in),
             got <- [p \in 1..inPos |-> p - 1],
             done <- HasRead /\ n < window,
             req <- IF HasRead THEN window ELSE 0,
             cnt <- n

\* Every input endpoint pipe reads (file, random, gather over a matpoly or a
\* bigmatpoly), driven by pipe's loop, keeps the input contract: each read
\* returns the next coefficients, at most a window of them, short only at
\* the end of the stream, and nothing after a short read (the extra read
\* of ReadAfterShortWindow returns 0).  Only the safety part: pipe stops
\* reading when a write or an assertion fails.
InputKeepsContract == SR!Init /\ [][SR!Next]_SR!vars

\* The loop always ends.
PipeTerminates == <>(phase \in {"done", "aborted", "assert", "exit"})
=============================================================================
