------------------------------ MODULE Bootstrap ------------------------------
(***************************************************************************)
(* The rank-revealing prefix search of lingen_E_from_A::initial_read       *)
(* (src/linalg/bwc/lingen_io_wrappers.cpp).  The search increases t0 from  *)
(* 1, refreshes the cache of raw coefficients of A up to degree k+1, and   *)
(* for each of the n columns of A extracts the column of degree            *)
(* t0 - (j < nrhs) into the next free column of an m x m scratch matrix,   *)
(* reduces it against the previously accepted columns (degree-0 Gaussian   *)
(* elimination, reduce_column_mod_previous) and keeps it if it raises the  *)
(* rank, recording (t0-1, j) in fdesc.                                     *)
(*                                                                         *)
(* The raw stream A is a finite sequence of m x n matrices over GF(P),     *)
(* chosen in Init among all sequences of the lengths in Lengths.  Field    *)
(* elements are 0..P-1; P = 2 selects the u64k1 layer (the #else branches  *)
(* of the source), any other prime the generic mpfq layer.                 *)
(*                                                                         *)
(* Only the root holds M and A; the other ranks learn through MPI_Bcast    *)
(* whether each column raised the rank, keep a pivot count of their own    *)
(* (a dummy pivot per accepted column) to run the same loop, and receive   *)
(* fdesc and the cache bounds from share() at the end.  One follower rank  *)
(* stands for all of them: they run the same code.                         *)
(***************************************************************************)
EXTENDS Naturals, Sequences, FiniteSets, FiniteSetsExt, Functions

CONSTANTS
    M,          \* bw_dimensions m: number of independent columns wanted
    N,          \* bw_dimensions n: number of columns of A
    P,          \* field characteristic (2 = u64k1 layer)
    SIMD,       \* packing width: ULONG_BITS over GF(2), 1 otherwise
    Lengths,    \* the lengths of the raw stream A that are explored
    RankSlack   \* the slack of the "bad starting vectors" bound (40 in the code)

ASSUME /\ M \in Nat \ {0} /\ N \in Nat \ {0}
       /\ P \in {2, 3, 5} /\ SIMD \in Nat \ {0}
       /\ Lengths \subseteq Nat /\ RankSlack \in Nat

Rows  == 0..(M-1)
ColsA == 0..(N-1)
F     == 0..(P-1)
GF2   == P = 2

Coeffs == [Rows -> [ColsA -> F]]
ZeroCoeff == [i \in Rows |-> [jj \in ColsA |-> 0]]
ZeroCol == [i \in Rows |-> 0]

VARIABLES
    A,          \* the raw input stream (never changes)
    nrhs,       \* bw_dimensions nrhs (never changes)
    t0,         \* the shift being tried
    j,          \* the column of A examined next in this round
    phase,      \* "refresh" (loop head), "scan" (inner loop), "done", "failed"
    cacheK1,    \* lingen_E_from_A::cache_k1 (cache_k0 stays 0)
    Mx,         \* the m x m scratch matrix, Mx[c][i] = coefficient (i, c)
    pivots,     \* the pivot row of each accepted column
    fdesc,      \* the <<degree, column>> descriptors of accepted columns
    fPivots,    \* a follower rank's pivots.size()
    fFdesc      \* a follower rank's fdesc

vars == <<A, nrhs, t0, j, phase, cacheK1, Mx, pivots, fdesc, fPivots, fFdesc>>

-----------------------------------------------------------------------------
(* Helpers translating the source.                                         *)

\* lingen_file_input / lingen_random_input::read_to_matpoly: the number of
\* coefficients of [k0, k1) the stream still has.
NRead(k0, k1) == IF k1 <= Len(A) THEN k1 - k0
                 ELSE IF k0 <= Len(A) THEN Len(A) - k0 ELSE 0

\* The cache holds A[0 .. cacheK1), zero-padded beyond what was read.
CacheCoeff(d) == IF d < cacheK1 /\ d < Len(A) THEN A[d+1] ELSE ZeroCoeff

\* degree of A from which column jj is taken during round t
ExtractDeg(t, jj) == t - (IF jj < nrhs THEN 1 ELSE 0)

\* One step v of reduce_column_mod_previous, generic layer: the loop on i
\* adds M[i,v]*M[u,r] to M[i,r], and reads M[u,r] after row u was updated.
RECURSIVE AddMultipleRows(_, _, _, _)
AddMultipleRows(col, vcol, u, i) ==
    IF i = M THEN col
    ELSE AddMultipleRows([col EXCEPT ![i] = (@ + vcol[i] * col[u]) % P],
                         vcol, u, i + 1)

\* Variants of EliminateStep checked to be caught: XOR written as a plain
\* sum, and the GF(2) test of M[u,r] dropped.
EliminateStepNoReduce(col, vcol, u) ==
    IF GF2
    THEN IF col[u] = 0 THEN col
         ELSE [i \in Rows |-> col[i] + vcol[i]]
    ELSE [AddMultipleRows(col, vcol, u, 0) EXCEPT ![u] = 0]
EliminateStepAlwaysAdd(col, vcol, u) ==
    IF GF2
    THEN [i \in Rows |-> (col[i] + vcol[i]) % 2]
    ELSE [AddMultipleRows(col, vcol, u, 0) EXCEPT ![u] = 0]

EliminateStep(col, vcol, u) ==
    IF GF2
    THEN IF col[u] = 0 THEN col
         ELSE [i \in Rows |-> (col[i] + vcol[i]) % 2]
    ELSE [AddMultipleRows(col, vcol, u, 0) EXCEPT ![u] = 0]

RECURSIVE ReduceFrom(_, _, _, _)
ReduceFrom(col, v, mx, piv) ==
    IF v = Len(piv) THEN col
    ELSE ReduceFrom(EliminateStep(col, mx[v], piv[v+1]), v + 1, mx, piv)

\* first row where the reduced column is nonzero, M if none
FirstNonzero(col) ==
    IF \E u \in Rows : col[u] # 0
    THEN Min({u \in Rows : col[u] # 0})
    ELSE M

\* normalize_column: scale so that the pivot entry becomes -1
FieldInv(a) == CHOOSE x \in 1..(P-1) : (a * x) % P = 1
NormalizeColumn(col, u) ==
    LET t == (P - FieldInv(col[u])) % P
    IN  [i \in Rows |-> (col[i] * t) % P]

\* lingen_F0::column_data_from_Aprime / column_data_from_A
ColumnDataFromAprime(jE) ==
    IF jE < N THEN <<t0, jE>> ELSE <<fdesc[jE-N+1][1], fdesc[jE-N+1][2]>>
\* Variant forgetting the shift of the non-rhs columns, checked to be caught.
ColumnDataFromANoShift(jE) ==
    LET kj == ColumnDataFromAprime(jE) IN <<kj[1], kj[2]>>
ColumnDataFromA(jE) ==
    LET kj == ColumnDataFromAprime(jE)
    IN  <<kj[1] + (IF kj[2] >= nrhs THEN 1 ELSE 0), kj[2]>>

\* a follower after MPI_Bcast(&inc): "if (inc && mpi_rank())
\* pivots.push_back(0)"
FollowerPivots(n, inc) == IF inc THEN n + 1 ELSE n

\* the F0 lookback that lingen_E_from_A::read_to_matpoly requires
F0Lookback == t0 + (IF nrhs < N THEN 1 ELSE 0)

-----------------------------------------------------------------------------
(* Actions.                                                                *)

Init ==
    /\ A \in UNION {[1..l -> Coeffs] : l \in Lengths}
    /\ nrhs \in 0..N
    /\ t0 = 1
    /\ j = 0
    /\ phase = "refresh"
    /\ cacheK1 = 0
    /\ Mx = [c \in Rows |-> ZeroCol]
    /\ pivots = <<>>
    /\ fdesc = <<>>
    /\ fPivots = 0
    /\ fFdesc = <<>>

\* Variant reading one coefficient less, checked to break ConstantCoefficientBacked.
CacheTargetShort ==
    LET k == t0 - (IF nrhs = N THEN 1 ELSE 0) IN k + 1

\* Head of the t0 loop: with k = t0 - (nrhs == n), the cache must reach
\* degree k + 1 (k + 2 coefficients), for the lookback of E.
CacheTarget ==
    LET k == t0 - (IF nrhs = N THEN 1 ELSE 0) IN k + 2

\* refresh_cache_upto(upto): read up to the next multiple of SIMD; a short
\* read below upto coefficients is fatal.
RefreshCacheUpto(upto) ==
    LET nextK1 == SIMD * ((upto + SIMD - 1) \div SIMD)
    IN
    /\ phase = "refresh"
    /\ nextK1 >= cacheK1
    /\ IF nextK1 = cacheK1
       THEN /\ phase' = "scan" /\ UNCHANGED cacheK1
       ELSE IF NRead(cacheK1, nextK1) < upto - cacheK1
            THEN /\ phase' = "failed" /\ UNCHANGED cacheK1
            ELSE /\ phase' = "scan" /\ cacheK1' = nextK1
    /\ UNCHANGED <<A, nrhs, t0, j, Mx, pivots, fdesc, fPivots, fFdesc>>

\* One iteration of the inner loop on j, on every rank: the root extracts,
\* reduces and broadcasts inc; every rank keeps or discards the column.
\* A follower whose count says it is done does not join the broadcast.
TryColumn ==
    /\ phase = "scan"
    /\ Len(pivots) < M /\ j < N
    /\ fPivots < M
    /\ LET r   == Len(pivots)
           raw == [i \in Rows |-> CacheCoeff(ExtractDeg(t0, j))[i][j]]
           red == ReduceFrom(raw, 0, Mx, pivots)
           u   == FirstNonzero(red)
       IN
       /\ fPivots' = FollowerPivots(fPivots, u # M)
       /\ fFdesc' = IF u # M THEN Append(fFdesc, <<t0 - 1, j>>) ELSE fFdesc
       /\ IF u # M
          THEN /\ pivots' = Append(pivots, u)
               /\ fdesc' = Append(fdesc, <<t0 - 1, j>>)
               /\ Mx' = [Mx EXCEPT ![r] = IF GF2 THEN red ELSE NormalizeColumn(red, u)]
               /\ j' = j + 1
               /\ UNCHANGED phase
          ELSE /\ Mx' = [Mx EXCEPT ![r] = red]
               /\ UNCHANGED <<pivots, fdesc>>
               /\ IF (t0 - 1) * N > M + RankSlack
                  THEN phase' = "failed" /\ UNCHANGED j
                  ELSE j' = j + 1 /\ UNCHANGED phase
    /\ UNCHANGED <<A, nrhs, t0, cacheK1>>

\* Variant that starts the next round at the same t0 (the ++t0 of the
\* loop missing), checked to break BootstrapDecides.
EndRoundNoIncrement ==
    /\ phase = "scan"
    /\ Len(pivots) = M \/ j = N
    /\ IF Len(pivots) = M
       THEN phase' = "done" /\ fFdesc' = fdesc /\ UNCHANGED <<t0, j>>
       ELSE phase' = "refresh" /\ j' = 0 /\ UNCHANGED <<t0, fFdesc>>
    /\ UNCHANGED <<A, nrhs, cacheK1, Mx, pivots, fdesc, fPivots>>

\* End of the inner loop: stop with m pivots, and share() the result (a
\* follower's fdesc is replaced by the root's), otherwise t0++.
EndRound ==
    /\ phase = "scan"
    /\ Len(pivots) = M \/ j = N
    /\ IF Len(pivots) = M
       THEN phase' = "done" /\ fFdesc' = fdesc /\ UNCHANGED <<t0, j>>
       ELSE phase' = "refresh" /\ t0' = t0 + 1 /\ j' = 0 /\ UNCHANGED fFdesc
    /\ UNCHANGED <<A, nrhs, cacheK1, Mx, pivots, fdesc, fPivots>>

\* "done" and "failed" are final: the program goes on with E, or exits.
Next == RefreshCacheUpto(CacheTarget) \/ TryColumn \/ EndRound

\* initial_read is one sequential loop: while it has not stopped, its next
\* step is always taken.
Spec == Init /\ [][Next]_vars /\ WF_vars(Next)

-----------------------------------------------------------------------------
(* Reference definitions: linear algebra over GF(P), by brute force.       *)

\* The column jj of A at degree d (zero past the end of the stream).
ColumnOfA(d, jj) == IF d < Len(A) THEN [i \in Rows |-> A[d+1][i][jj]] ELSE ZeroCol

\* vs is a function from an index set to column vectors
Combination(vs, c) ==
    [i \in Rows |-> SumFunction([x \in DOMAIN vs |-> c[x] * vs[x][i]]) % P]
Independent(vs) ==
    \A c \in [DOMAIN vs -> F] :
        (\E x \in DOMAIN vs : c[x] # 0) => Combination(vs, c) # ZeroCol

\* rank of the columns of A at a set of <<degree, column>> positions
RankOf(S) ==
    Max({Cardinality(T) :
           T \in {T \in SUBSET S : Independent([p \in T |-> ColumnOfA(p[1], p[2])])}})

\* positions examined so far: all of the earlier rounds, and j columns of this one
Processed ==
    {<<ExtractDeg(t, jj), jj>> : t \in 1..(t0-1), jj \in ColsA}
      \cup {<<ExtractDeg(t0, jj), jj>> : jj \in 0..(j-1)}

-----------------------------------------------------------------------------
(* Properties.                                                             *)

TypeOK ==
    /\ t0 \in Nat \ {0} /\ j \in 0..N /\ nrhs \in 0..N
    /\ phase \in {"refresh", "scan", "done", "failed"}
    /\ cacheK1 \in Nat
    /\ Mx \in [Rows -> [Rows -> F]]
    /\ pivots \in Seq(Rows) /\ Len(pivots) <= M
    /\ fdesc \in Seq(Nat \X ColsA) /\ Len(fdesc) = Len(pivots)
    /\ fPivots \in 0..M /\ fFdesc \in Seq(Nat \X ColsA)

\* The number of pivots that reduce_column_mod_previous has accepted equals
\* the true rank of all the columns of A that the loop has examined: the
\* elimination never accepts a dependent column nor rejects an independent one.
RankInvariant ==
    phase # "failed" => Len(pivots) = RankOf(Processed)

\* When the search converges, the m columns that fdesc names, read back
\* through column_data_from_A as lingen_E_from_A::read_to_matpoly does,
\* are linearly independent: E's constant coefficient has full rank.
SelectionIndependent ==
    phase = "done" =>
        Independent([i \in Rows |->
            LET kj == ColumnDataFromA(N + i) IN ColumnOfA(kj[1], kj[2])])

\* The search of initial_read always comes to a verdict: every round either
\* reaches m pivots, or moves on to t0 + 1 until the "bad starting vectors"
\* bound or a short read of refresh_cache_upto ends it.
BootstrapDecides == <>(phase \in {"done", "failed"})

\* The short-read check of refresh_cache_upto promises that when the search
\* succeeds, A really holds the F0_lookback + 1 coefficients that E's
\* constant coefficient is built from (degree up to t0 + (nrhs < n)).
ConstantCoefficientBacked ==
    phase = "done" => Len(A) >= F0Lookback + 1

=============================================================================
