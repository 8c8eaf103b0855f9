# TLA+ models of the lingen I/O core and three parts of the sievers

This directory holds TLA+ models of five things:

- the coefficient-stream machinery of the block Wiedemann linear generator,
  in `src/linalg/bwc/lingen_io_wrappers.cpp`;
- the collective multiply around it, in `src/linalg/bwc/lingen_bigmatpoly_ft.cpp`;
- the elliptic-curve parameterizations of the ECM cofactorization, in
  `src/sieve/ecm/ec_parameterization.h`;
- the norm initialisation of the function-field siever, in `src/ffs/norm.c`;
- the merge of a special-q's statistics into the siever's totals, in
  `src/sieve/las-auxiliary-data.cpp`.

TLC checks the models. `PROJECT.json` lists every run and what it shows. Its
`map` names the source lines each definition translates.

## The system

Data flows through these parts:

1. **Input endpoints**: `lingen_file_input`, `lingen_random_input`, and
   `lingen_gather` over a `matpoly` or a `bigmatpoly`.
   - `read_to_matpoly(dst, k0, k1)` writes up to `k1 - k0` coefficients and
     returns the count. A short count means the end of the stream.
   - `preferred_window()` is `simd * iceildiv(nmats, simd)`. The packing
     width `simd` is 64 over GF(2) (the u64k1 layer) and 1 otherwise.
   - The file and random inputs also multiply this window by `t*t/4`, where
     t is the number of OpenMP threads. They then halve it until it fits in
     32GB.
2. **Bootstrap** (`lingen_E_from_A::initial_read`). It searches for the shift
   `t0`:
   - For t0 = 1, 2, … it extracts the columns of A at degree
     `t0 - (j < nrhs)`.
   - It reduces each column against those already kept, by degree-0
     elimination (`reduce_column_mod_previous`, then `normalize_column`).
   - It records each column that raises the rank in `fdesc`.
   - `refresh_cache_upto(k + 2)` first extends the cache to a multiple of
     `simd`.
   - Only the root rank reduces. It broadcasts `inc` for each column; the
     other ranks push a dummy pivot when it is set and run the same loops.
     At the end, `share()` broadcasts `fdesc` to them.
3. **E from A** (`lingen_E_from_A::read_to_matpoly`). Column j of E is
   `X^{-kA}` times column jA of A. A call:
   - tops up a lookback cache;
   - emits the aligned part;
   - on a short read, drains the rest through `tail`.
4. **Multiply** (`OP_CTX<bigmatpoly>::doit`). Every rank of the MPI grid runs
   the product under a memory guard. A rank that catches a
   `memory_pool_exception` runs the product again, with no limit.
5. **F from PI** (`lingen_F_from_PI`). The constructor:
   - collects one solution `<<j, shift>>` per lucky column of the generator;
   - computes `rhs` (`recompute_rhs`);
   - reorders the solutions by their count of zero rhs entries;
   - computes `rhs` again.

   `read_to_matpoly` then adds the shifted generator coefficients into F,
   with a cache and a tail shaped like E-from-A's. The generator is read
   reversed, through `lingen_gather_reverse` and its GF(2) kernel
   `reverse_matpoly_to_matpoly`.
6. **Output endpoints**:
   - the single-file and split-file outputs, where a short write is fatal;
   - `lingen_scatter` over a `matpoly` or a `bigmatpoly`;
   - the sha1 sink, which hashes whole words.
7. **`pipe()`**. It copies any input to any output, in windows of
   `max(in.preferred_window(), out.preferred_window())`:
   - With `skip_trailing_zeros`, an all-zero window only adds to a pending
     run `zq`.
   - The pending run is written before the next payload.
   - The trailing zeros of a written window become pending.
   - A short read ends the loop.

8. **ECM curve parameterizations** (a separate part of the siever). Each of
   `ec_parameterization_Brent_Suyama`, `_Montgomery12`, `_Montgomery16` and
   `_Z6` turns a parameter (sigma or k) and a modulus m into b = (A+2)/4 and
   a starting point P0, by a fixed sequence of residue operations. A failed
   modular inverse returns 0, with the non-invertible value in `P0->x`: the
   caller's gcd with m is then a factor.
9. **Function-field norms** (`init_norms`, another separate part). Over
   GF(2)[t], it transforms the polynomial f(a, b) of a side into f_ij(i, j)
   through the special-q lattice (`ffspol_2ij`). Then, for every (i, j) of
   the region that is not already marked 255, it stores in `S` the degree
   of the norm minus deg q, or 255 when that degree is not positive.
   - `deg_norm_ij` takes the largest monomial degree
     `deg f_k + k deg i + (d-k) deg j`.
   - It counts how many monomials reach that degree (`max_special`).
   - It computes the whole norm (`ffspol_norm`) only when an even number
     reach it.
10. **Special-q statistics** (`nfs_aux::~nfs_aux`, a third separate part).
    Threads finish special-qs concurrently, and each special-q's `nfs_aux`
    is destroyed by the thread that drops it.
    - A complete object folds its threads' reports, timers and checksums
      into its own `rt`. It prints the statistics, then merges `rt` into
      the shared `dest_rt` under `dest_rt->mm`.
    - An object that is not complete merges `rt` into `dest_rt` under its
      own `rt.mm`.

Only rank 0 holds payload. Counts are broadcast, so each model is the root's
view of the computation. `MultiplyRetry` is the exception: there the ranks'
separate control is the point.

## Modules

| module | models | state | actions |
|---|---|---|---|
| `Bootstrap` | `initial_read`, `refresh_cache_upto`, `reduce_column_mod_previous` (both mpfq layers), `normalize_column`, `column_data_from_A(prime)` | A, nrhs, t0, j, phase, cache_k1, the m×m matrix `Mx`, `pivots`, `fdesc`; a follower rank's `pivots.size()` (`fPivots`) and `fdesc` (`fFdesc`) | `RefreshCacheUpto` (loop head), `TryColumn` (one j), `EndRound` (break, or t0++) |
| `StreamSource` | the contract of every input endpoint (spec.md): no more than asked, a short count only at the end, nothing after it. Models no code | the stream's length, the positions delivered, done, last request and count | `Fetch(k)`, `Reread(k)` |
| `EFromA` | `lingen_E_from_A::read_to_matpoly` after `initial_read` | L, t0, nrhs, raw cursor, cache_k0/k1, emitted stream, last request and count | `ReadCached(k1)`, `ReadDrained(k1)` |
| `FSolutions` | the body of the `lingen_F_from_PI` constructor, `recompute_rhs`, `reorder_solutions`, `write_rhs` | t0, nrhs, fdesc, lucky, delta, the cache coefficients read, `sols`, `lookback`, `rhs`, the rhs written | `CollectSolutions`, `ComputeRhs`, `ReorderSolutions`, `RecomputeRhsAgain`, `WriteRhs` |
| `FFromPI` | the `lingen_F_from_PI` cache fill and `read_to_matpoly`, with its tail | the same shape as `EFromA`, plus the shifts of `get_shift_ij` | `ReadCached(k1)`, `ReadDrained(k1)` |
| `FFromPIObject` | one `lingen_F_from_PI` object: `FSolutions` composed with `FFromPI` | the variables of both; the shifts `FFromPI` reads are those of the reordered solutions | `Construct`, `Finish`, `Read(k1)` |
| `ECParameterization` | the four parameterizations and `ec_parameter_is_valid` | m, the call (function, parameter, coordinate type, b != NULL, the point [k]P), ret, b, P0, aborted | `BrentSuyama`, `Montgomery12`, `Montgomery16`, `Z6` |
| `NfsAux` | `nfs_aux::~nfs_aux`, `sieve_checksum::update(unsigned)`, one process per object | complete, the reports of rt and of each thread, the checksums, the holders of each `rt.mm` and of `dest_rt->mm`, `dest_rt`'s count, each destructor's loaded value and pc | `Start` (the thread fold and the output), `Lock`, `Load`, `Store` (the two halves of `accumulate_and_clear`), `Unlock` (each per object) |
| `Norm` | `init_norms` over GF(2), `ffspol_2ij`, `ffspol_norm`, `max_special`, `deg_norm_ij` | f, the q-lattice, sqside, f_ij, deg q, `S` by position (i, j), the loop counters i and j, pc | `Begin` (`ffspol_2ij` and deg q), `Row` (head of the j loop, `start >= size`), `Cell` (one i) |
| `GatherReverse` | `lingen_gather_reverse<matpoly>`, `<bigmatpoly>`, and the GF(2) word kernel | d, the bits of pi's words, next_src_k, the bits returned, the bits past the count, ended, aborted | `ReadReverse(k1)`, `ReadReverseBig(k1)` |
| `MultiplyRetry` | `doit` and `do_allgather`, per rank | attempt, step, the collective calls issued and completed, status | `IssueCollective`, `CompleteCollective`, `MemoryPoolException`, `Finish` (each per rank) |
| `Pipe` | `pipe()`, with every endpoint's count, assertions and `preferred_window`, plus `guessed_length` | the input, skip, both endpoint kinds, window, cursor, `zq`, n, n1, the output, the hashed stream, phase | `Read`, `Write` (one write call), `ShortWrite` |

Each `MC*` module gives the constants that a `.cfg` cannot express.

The following notes describe how each model abstracts the code.

- **Bootstrap.** Field elements are `0..P-1`.
  - `P = 2` selects the u64k1 branches of the source. Other primes select
    the generic branches.
  - `EliminateStep` is one `v` step of the reduction. Over GF(2) it is a
    conditional XOR. Otherwise it is the row loop `AddMultipleRows`, which
    reads `M[u,r]` after row u has been updated, as the code does.
  - One follower rank stands for all of them, since they run the same code.
    It moves in step with the root: `TryColumn` is the `MPI_Bcast(&inc)`
    that every rank joins. Its guard also needs the follower's own loop
    condition, `fPivots < M`. `FollowerPivots` is the follower's
    `push_back(0)`.
    Because the follower's count changes in the same step, on the same
    broadcast value, as the root's, the two agree by construction. No
    property is stated about it: a mismatch of collectives cannot arise
    from this code.
- **EFromA and FFromPI.** Coefficients are abstracted to positions. An
  emitted coefficient records the index of the raw or generator coefficient
  it is read from. Init is the state the constructor leaves:
  - EFromA: the cache aligned past `t0 + 1 + (nrhs < n)`, and A at least as
    long as the last refresh checked;
  - FFromPI: the cache filled up to the lookback.
- **FSolutions.** Only the coefficients `recompute_rhs` reads are chosen,
  one field element per row and lucky column. `reorder_solutions` is a
  `SortSeq` by the pair `<<score, index>>`, as `std::sort` orders it.
- **EFromA refines StreamSource.** `EFromA` instantiates `StreamSource` with
  `total` the length of E, `got` the positions emitted, and `done` the
  stream's end flag. `ImplementsStreamSource` is `StreamSource`'s `Spec`,
  fairness included, checked as a temporal property of `EFromA`.
- **Pipe's inputs refine StreamSource.** `Pipe` instantiates `StreamSource`
  with:
  - `total` the length of the input;
  - `got` the positions up to the read cursor;
  - `done` a short count after a read;
  - `req` and `cnt` the window and the last count.

  `InputKeepsContract` checks the safety part only. pipe stops reading
  after a failed write or assertion, so the contract's fairness is not the
  endpoint's to keep.
- **FFromPIObject.** `Construct` is `CollectSolutions` followed by the
  constructor's cache fill (`read_to_matpoly(cache, 0, lookback_needed)`);
  `Finish` the rest of the constructor and `write_rhs`; `Read` is
  `FFromPI`'s read once the rhs is written. `FFromPI` gets the shifts of
  `sols` in their final order, so the composition checks that the reorder
  and the read agree.
- **ECParameterization.** A residue is `0..m-1`. The residue operations
  (`mod_add`, `mod_inv`, `mod_div3`, …) are not in the repository; they are
  arithmetic modulo m, and `mod_inv` succeeds exactly on units. The scalar
  multiplications `weierstrass_aff_smul_ui` and `weierstrass_proj_smul_ui`
  are not either: their result [k]P is any point of the curve (all affine
  points for Z/12Z; all affine points and the point at infinity for Z6).
  After a failed in-place inverse in Z6, `P0->x` is any residue. A failed
  `ASSERT_ALWAYS` aborts. The functions keep no state between calls, so a
  behaviour is one call.
- **Norm.** A polynomial of GF(2)[t] is a natural number, with one bit per
  coefficient. Addition is XOR (`Bitwise`), and multiplication is
  carry-less and recursive.
  - `fppol_deg` is -1 on zero, the convention of the fppol layer.
  - The fppol, ij and qlat layers are not in the repository. They are
    modelled by what they compute.
  - The q-lattice is that of a degree-1 q and a root r of f mod q (on the
    special-q side): a = q i + r j, b = j.
  - `ffspol_2ij` is translated loop for loop. `MulLinear` and `PowStep`
    model the in-place updates, which read their neighbours before
    overwriting them.
  - There is no sublattice: (hat i, hat j) = (i, j).
- **MCSequentialKernels.** Four parts that share nothing, each checked
  for safety only:
  - the reversed gather of pi (`GatherReverse`, its variables prefixed `g`);
  - one `FFromPIObject`;
  - `ECParameterization`;
  - `Norm`, whose `pc` is renamed `nPc`.

  `kernel` picks which one a behaviour runs, from the constant `Kernels`.
  The others' variables stay at one initial state. The state space is the
  sum of the four parts: 885,216 states in all. The `norm_degree` run
  takes `Kernels = {"norm"}`.
- **GatherReverse.** pi is one entry over GF(2), at W bits per word. The
  bits of pi's words at and beyond d are undefined storage, so Init lets
  them be anything. The kernel is modelled word by word:
  - copy the words;
  - `mpn_lshift`;
  - `bit_reverse`;
  - copy `ceil(nk/W)` words.
- **NfsAux.** One process per object being destroyed. A report is its
  count of relations; the timer and the other counters go through the same
  statements. `accumulate_and_clear` adds into plain integers, so it is a
  `Load` of `dest_rt`'s count and a `Store` of the sum, and two destructors
  may interleave between them: that is the outcome of the data race the
  code has when they hold different mutexes. The statistics output is left
  out. `Start` folds the threads' reports and checksums at once, since that
  data is private to the object.
- **MultiplyRetry.** `mp_or_mul` is not in the repository. Following the
  description of the multiply, it is K collective steps, with allocations
  between them. A collective call returns only when every rank has issued
  its call of the same index, which is how MPI matches collectives.
- **Pipe.** A coefficient is 0 or one of two nonzero values, which is enough
  for a lost or moved coefficient to show.
  - The gather and scatter endpoints abort (`assert`) when an
    `ASSERT_ALWAYS` fails.
  - A file output may keep only a proper prefix of a write, which then ends
    the run (`aborted`).
  - The sha1 sink feeds the hash `iceildiv(k1 - k0, simd)` whole words per
    write. The bits past `k1` are zero, as its assertion demands.
  - A file input may exit in `guessed_length`, before the loop.
  - `get_true_nonzero_size` is not in `src/`. It is modelled from its
    description.

## Runs

| run | checks | result |
|---|---|---|
| `bootstrap_gf2` | `TypeOK`; `RankInvariant` (the pivots equal the brute-force rank of the columns examined); `SelectionIndependent` (the columns that `fdesc` names through `column_data_from_A` are independent); `BootstrapDecides` (the search always ends, converged or failed) | pass |
| `bootstrap_prime_rank` | `SelectionIndependent` over GF(3) | **violation**: the generic elimination accepts a dependent column (code bug, line 204) |
| `bootstrap_gf2_lookahead` | `ConstantCoefficientBacked` (on success, A holds what E's constant coefficient needs) | **violation**: the aligned refresh skips the short-read check (code bug, line 307) |
| `e_from_a` | `TypeOK`; `OutputFaithful` (coefficient p of E comes from the right degree of A, never past its end); `ImplementsStreamSource` (E-from-A implements the input contract: never more than asked, a short count only once all of E is out, nothing after, and the end is reached) | pass |
| `e_from_a_gf2_count` | `CountBound` with simd 64 | **violation**: the tail drain returns 65 coefficients for a window of 64 (code bug, line 1080) |
| `f_from_pi_count` | `CountBound` for F | **violation**: `max_tail` counts the lookback, so with a generator of 2 coefficients and t0 = 1 the first read, a window of 1, returns 2 (code bug, line 1245) |
| `norm_degree` | on `MCSequentialKernels`, the norm alone: `NormDegree` (the byte stored at each visited position is the degree of the norm less deg q, or 255 when it is not positive, as `init_norms`' comment says) | **violation**: f = t x^2 at i = 0, j = 1: the norm is 0, and 1 is stored (divergence from the comment, `norm.c` line 517) |
| `sequential_kernels` | on `MCSequentialKernels`. The reversed gather: `GTypeOK`; `LocalReverseFaithful` (the matpoly endpoint returns `pi[d-1-c]`, never an undefined bit); `ReverseComplete` (a short count only after all of pi); `DstTailZero` (the bits written past a count are zero). One `FFromPIObject`: `FTypeOK`; `RhsFollowsSols` (the rhs written is that of the sorted solutions); `OrderedByWeight` (fewest zero rhs entries first); `ReadsInCache` (every coefficient `recompute_rhs` reads is inside the lookback and inside pi); `OutputFaithful` (F is read from the cache and the generator, with the shifts of the reordered solutions); `StreamComplete` (the end of F comes after every fed coefficient). The ECM parameterizations: `ECTypeOK`; `CurveOK` (on success, b = (A+2)/4 and P0 on the curve of the Sage check in each comment); `Z6IsBrentSuyama` (Z6 in Montgomery form is the Brent–Suyama curve of sigma_n/sigma_d, same b, same point); `EdwardsOnCurve` (Z6's Edwards point is on the curve with the d of the paper, and XY = ZT). The norms: `NormTypeOK`; `TransformPreservesNorm` (norm(f_ij, i, j) = norm(f, a0 i + a1 j, b0 i + b1 j) at every position, the claim of `ffspol_2ij`'s comment) | pass |
| `gather_reverse_big` | `ReverseFaithful` for the bigmatpoly endpoint | **violation**: with d = 5, the first read returns 0,0,0,0 instead of 1,0,0,0 (code bug, line 690) |
| `las_aux_race` | `ReportsMerged` (once every `nfs_aux` is destroyed, `dest_rt` holds every relation they handed over) | **violation**: two destructors under different mutexes both load `dest_rt`'s count before either stores, and one relation is lost (code bug, `las-auxiliary-data.cpp` line 37) |
| `multiply_retry` | `CollectivesMatch` (the i-th collective call of every rank is the same step) | **violation**: a rank that restarts after a memory_pool_exception calls step 1 while the others call step 2 (divergence from the description, bigmatpoly_ft line 116) |
| `pipe` | `TypeOK` (the window is never 0); `OutputPrefix` (the output is always a prefix of the faithful copy, short writes and aborts included); `CopyFaithful` (at the end it is the copy, with trailing zeros dropped exactly when asked); `AlignedWithoutSkip` (with no skip and an aligned window, no gather or scatter assertion fails); `Sha1Canonical` (the same conditions make the hashed stream the copy padded once); `ReadAfterShortWindow` (a read after a short count, which the contract forbids, happens only after an all-zero short window, returns 0 and ends the loop); `InputKeepsContract` (the file, random and gather inputs, as pipe drives them, implement the safety part of `StreamSource`); `PipeTerminates` | pass |

`PROJECT.json` records, for every violation, the finding and what it shows.

Every property of a passing run also has a mutant in `PROJECT.json`. A mutant
is a plausible coding error in a mapped definition: a dropped guard, an
off-by-one, a missing strip, a stale value. TLC finds the property violated
once the mutant replaces the definition. Each mutant operator sits just
before the definition it replaces.

## Bounds

- **Bootstrap.** m = n = 2 over GF(2), and m = 2, n = 1 over GF(3).
  - These sizes let a dependent column occur within two rounds.
  - Lengths 3..5 put A shorter than, equal to, and longer than the `k + 2`
    the search needs.
  - The runs set the "bad starting vectors" slack (40 in the code) to 0, so
    that the exit is reachable with m = 2.
- **EFromA.** L ranges over 0..9 and the windows over 1..3, which gives
  short reads at every offset.
  - The GF(2) run uses the real width 64, with L in 60..130 around the first
    two multiples.
- **FFromPI.** m = 2, n = 1, generators of 2..8 coefficients, and windows
  1..3, so that the lookback, whole windows and the short read all fit in
  one stream.
- **FFromPIObject** (`sequential_kernels`). m = 1, n = 2 over GF(2), t0 ∈ {1, 2}, a
  generator of 5 coefficients and windows 1..3.
  - Every choice of lucky columns, deltas, nrhs ∈ 0..2 and F0 descriptors is
    explored.
  - Both solutions can tie on their score or be reordered.
- **ECParameterization.** Moduli 7, 11, 13 and 77 = 7·11: all coprime to
  30, as the divisions of Z/16Z need. The composite makes an inverse fail
  on one factor only, which is how ECM finds it.
  - sigma ∈ 0..12 covers the rejected values 0, 1, 3, 5, and the values
    congruent to 0, ±1, ±3, ±5 modulo 7 and 11.
  - k ∈ 0..2 covers the rejected k of each function. Every point of the
    two curves modulo m stands for [k]P.
  - One coordinate type (`SHORT_WEIERSTRASS_proj`) that Z6 rejects.
- **Norm.** f of degree 2 with coefficients of degree < 2 (every such f),
  q ∈ {t, t+1} with each root, sqside both ways, i of degree < 2, j monic
  of degree < 2, and a region of two of the three rows, so that the
  `start >= size` break occurs.
  - S is marked 255 nowhere, or at (1, 1).
  - Zero coefficients of f_ij, i = 0, ties of two monomials (the full-norm
    branch) and the exact case all occur within these bounds.
- **GatherReverse.** Words of 4 bits, windows of one or two words, and sizes
  0..9.
  - The sizes place d at, just below and just above a word boundary, over up
    to three words.
  - Only whether a count is a multiple of the word size matters, so 4 stands
    for 64.
- **NfsAux.** Two objects of two threads each, complete or not in every
  mix, one relation per report: two destructors are the least that can
  race, and a count of one per report makes a lost update show.
- **MultiplyRetry.** Two ranks (interchangeable, by symmetry) and two
  collective steps, which is the least that can show a mismatch.
- **Pipe.** Streams of up to 5 coefficients, and a packing width of 2.
  - nmats ranges over 1..3, so the padded windows are 2 and 4.
  - Thread counts 1, 2, 3 and 5 make `t*t/4` equal to 0, 1, 2 and 6.
  - A 32GB limit of 4 coefficients makes the halving loop produce both
    aligned windows (8 → 4) and unaligned ones (12 → 6 → 3).

## Fairness

- `Pipe` and `Bootstrap` check liveness.
- `initial_read`'s search is one sequential loop, so `Spec` of `Bootstrap`
  has weak fairness on `Next`. `BootstrapDecides` then says that the loop
  ends.
- `pipe()` is a sequential loop of one process
  that waits on nothing but the endpoint it is calling, so weak fairness of
  `Read` and `Write` is justified. `ShortWrite` is not fair: a write may
  always succeed.
- `e_from_a` checks `StreamSource`'s fairness: E-from-A is called in
  `pipe()`'s loop, which reads until a short count. Hence `Spec` of
  `EFromA` has weak fairness on `Next`.
- The other models check safety only.
  - Most stop (`CHECK_DEADLOCK FALSE`) because the program leaves the
    routine, or because the caller stops reading once a short count came
    back.
  - `e_from_a` checks deadlock: after the end of the stream, a call still
    returns 0.

## Hazards not covered by a property

These are listed in `PROJECT.json` with the reason:

- **Halving can misalign the window.** The file and random inputs' 32GB
  halving can leave the window off the packing width.
  - TLC reaches it, with a file input and the bigmatpoly scatter (t = 5,
    limit 4, window 3). The scatter assertion then fails at the second
    write.
  - `AlignedWithoutSkip` and `Sha1Canonical` therefore assume an aligned
    window.
- **The sha1 checksum depends on the window.** With `skip_trailing_zeros`,
  the sha1 sink pads every unaligned write, so its checksum depends on the
  window.
  - TLC reaches this with in = 1,0,1 and window 2.
- **ECM.** Four hazards of `ec_parameterization.h`:
  - the affine scalar multiplication of Z/12Z can fail (a TODO says so);
  - the in-place inverse of Z6 leaves an unspecified value;
  - Z6 with `b == NULL` returns 0 for a good curve, against its comment;
  - sigma ≡ ±1, ±5 modulo a factor gives a degenerate curve, with a
    success return.

  The first three depend on `mod_inv` and the scalar multiplications,
  which are not in the repository. The last breaks no stated property.
- **Norm.** `ASSERT_ALWAYS(deg < 255)` in `init_norms` is beyond TLC's
  degrees. `deg` can stand above the norm's degree (the `norm_degree` run shows
  it), so the abort can fire on a norm that fits.
- **`lingen_F_from_PI` assumes `delta[j] < G`.** `FSolutions` takes it from
  the constructor's assertions.

## Not modelled

- The MPI broadcasts of scalars that every rank already holds (the
  `share()` of `m`, `n`, `nrhs`, `t0` and the cache bounds), the file encodings (`matpoly_read`, `matpoly_write`),
  the SHA-1 function, and progress reporting.
- The distributed copies `gather_mat_partial` and `scatter_mat_partial`.
  They are not in the repository and are taken to copy nk coefficients.
- The residue arithmetic and the Weierstrass scalar multiplications that
  the ECM parameterizations call. They are not in the repository.
- In `norm.c`, the functions with no caller are not modelled:
  `deg_norm_prec_0`, `to_prec_N`, `deg_norm_prec_N`, `deg_norm_full`,
  `deg_norm_ij_v2` and `fppol64_mul_high`. The one call of
  `deg_norm_ij_v2` is commented out. The sublattices, `WANT_NORM_STATS` and
  `TRACE_POS` are not modelled either.
  - Reading `deg_norm_ij_v2` shows that it is not ready to be called. It
    fills `pow_i[k]` with `pow_j[k - 1] * i` where `pow_i[k - 1] * i` is
    meant (line 489), so `deg_norm_full` sums the wrong monomials.
  - In `deg_norm_prec_N`, a zero coefficient makes the first monomial of
    a group of equal degrees 0, of degree -1. The unsigned `deg_drop` then
    wraps, and the group's sum is thrown away even when it is not zero.
  - When that happens with `tab_size` reaching 0, `tab_size` is left at -1.
    The outer loop then runs again and reads `monomials[-2]`. This was
    found by reading the code; no model checks it.
  - These would be hazards if the call were restored.
- The rest of the siever, the facul strategies and the arithmetic headers
  in `src/`. Among them, `gmp_aux.h` is a set of wrappers over GMP calls,
  and GMP is not in the repository. Its only logic is the sign dispatch of
  `mpz_add_si` and its siblings, which negate through `unsigned long` and
  so stay correct for `LONG_MIN`. `PROJECT.json` lists each with its
  reason. In short, they are declarations of code that is not in the
  repository, or big-integer and floating-point arithmetic with no control
  of its own.

## Next steps

1. `FFromPI` shown to implement `StreamSource`, as `EFromA` and `Pipe`'s
   inputs are. `FFromPI`'s tail drain breaks the count bound
   (`f_from_pi_count`), so its refinement needs that bound dropped.
2. A composition of `EFromA` as the input of `Pipe`, with a scatter output.
3. The guard value in `MultiplyRetry`: whether the first attempt can raise at
   all when `M` is null.
4. A run showing that Z6 with `b == NULL` returns 0 for a good curve,
   against the comment at line 521 of `ec_parameterization.h`.
