------------------------------ MODULE FSolutions ------------------------------
(***************************************************************************)
(* The solution bookkeeping of lingen_F_from_PI (src/linalg/bwc/           *)
(* lingen_io_wrappers.cpp): the constructor collects one solution <<j,     *)
(* shift>> per lucky column j of pi, computes the right-hand-side matrix   *)
(* rhs from the leading coefficients of the reversed generator             *)
(* (recompute_rhs), reorders the solutions by the number of zero entries   *)
(* of their rhs column (reorder_solutions), broadcasts them, and computes  *)
(* rhs again for the new order.                                            *)
(*                                                                         *)
(* Coefficients of the reversed generator are field elements 0..P-1 (P = 2 *)
(* is the u64k1 layer, where the sum is the XOR of line 782).  Only the    *)
(* coefficients recompute_rhs reads are chosen: coefficient (ipi, j, s) of *)
(* the cache, with s fixed by (ipi, j), is Data[<<ipi, j>>].               *)
(***************************************************************************)
EXTENDS Naturals, Sequences, FiniteSets, SequencesExt, TLC

CONSTANTS
    M, N,       \* bw_dimensions m and n
    P,          \* the field size
    SIMD,       \* packing width
    T0s,        \* the shifts t0 the bootstrap may have found
    G           \* pi.guessed_length()

ASSUME /\ M \in Nat \ {0} /\ N \in Nat \ {0} /\ P \in Nat \ {0, 1}
       /\ SIMD \in Nat \ {0} /\ T0s \subseteq Nat \ {0} /\ G \in Nat

Cols  == 0..(M + N - 1)     \* columns of pi, and rows ipi
Field == 0..(P - 1)

VARIABLES
    t0, nrhs,
    fdesc,      \* F0 descriptors of the last m columns: <<kA, jA>>
    lucky,      \* bm.lucky[j] > 0
    delta,      \* bm.delta[j]
    data,       \* the cache coefficients recompute_rhs reads
    sols,       \* the sequence of solutions <<j, shift>>
    lookback,   \* lookback_needed
    rhs,        \* rhs[iF][jF] (nrhs x n, degree 0)
    srhs,       \* the matrices written to the rhs output endpoint
    pc          \* "collect", "rhs", "reorder", "rhs2", "done", "throw",
                \* "written" (write_rhs was called)

vars == <<t0, nrhs, fdesc, lucky, delta, data, sols, lookback, rhs, srhs, pc>>

-----------------------------------------------------------------------------
(* Helpers translating the source.                                         *)

\* column_data_from_Aprime(ipi) = <<kA, jA>>
ColumnDataFromAprime(ipi) ==
    IF ipi < N THEN <<t0, ipi>> ELSE fdesc[ipi - N]

\* get_shift_ij(ipi, jF) = <<iF, s0>>, for the solution at position jF
\* (1-based) of sols
ShiftIJ(ipi, jF) ==
    LET kj == ColumnDataFromAprime(ipi)
    IN  <<kj[2], sols[jF][2] + (t0 - kj[1]) + (IF kj[2] < nrhs THEN 1 ELSE 0)>>

\* the rows of pi whose F0 column feeds a right-hand-side row iF < nrhs
RhsRows == {ipi \in Cols : ColumnDataFromAprime(ipi)[2] < nrhs}

\* the cache coefficients recompute_rhs reads: <<ipi, jF, degree s0 - 1>>
Reads == {<<ipi, jF, ShiftIJ(ipi, jF)[2] - 1>> : ipi \in RhsRows, jF \in 1..Len(sols)}

\* the field sum of the coefficients the rows contribute to column jF
SumOver(rows, jF) ==
    FoldSet(LAMBDA ipi, acc : (acc + data[<<ipi, sols[jF][1]>>]) % P, 0, rows)

\* recompute_rhs: rhs[iF][jF] sums, over the rows ipi whose F0 column is
\* iF, coefficient (ipi, sols[jF].j, s0 - 1) of the cache
RecomputeRhs ==
    [iF \in 0..(nrhs - 1) |-> [jF \in 1..Len(sols) |->
        SumOver({ipi \in RhsRows : ColumnDataFromAprime(ipi)[2] = iF}, jF)]]

\* reorder_solutions: the score of a solution is its count of zero rhs entries
Score(r, jF) == Cardinality({iF \in 0..(nrhs - 1) : r[iF][jF] = 0})

\* Variant sorting the scores in decreasing order, checked to break
\* OrderedByWeight.
PairGreater(a, b) == a[1] > b[1] \/ (a[1] = b[1] /\ a[2] < b[2])

\* std::sort of the pairs {score, jF}: lexicographic order
PairLess(a, b) == a[1] < b[1] \/ (a[1] = b[1] /\ a[2] < b[2])

\* reorder_solutions: sols2[k] = sols[sol_score[k][1]]
Reordered ==
    LET sc == SortSeq([jF \in 1..Len(sols) |-> <<Score(rhs, jF), jF>>], PairLess)
    IN  [k \in 1..Len(sols) |-> sols[sc[k][2]]]

\* Variant of the shift one short, checked to break TypeOK.
ShiftOfOffByOne(j) == G - 2 - delta[j]

\* s = G - 1 - bm.delta[j]
ShiftOf(j) == G - 1 - delta[j]

AlignUp(k) == SIMD * ((k + SIMD - 1) \div SIMD)

\* Variant of lookback_needed without "+= t0", checked to break ReadsInCache.
LookbackNoT0(ss) == AlignUp(Max({0} \cup {x[2] + 1 : x \in Range(ss)}))

\* lookback_needed: max(s + 1) over the solutions, plus t0, aligned
Lookback(ss) == AlignUp(Max({0} \cup {x[2] + 1 : x \in Range(ss)}) + t0)

\* Variant keeping the rhs of the order before the sort, checked to break
\* RhsFollowsSols.
FinalRhsStale == rhs

\* "recompute rhs. Same algorithm as above."
FinalRhs == RecomputeRhs

-----------------------------------------------------------------------------
(* Actions: the steps of the constructor after initial_read.               *)

\* t0 and the F0 descriptors as initial_read leaves them; delta[j] within
\* the constructor's ASSERTs, short of G (see the hazard at line 894).
Init ==
    /\ t0 \in T0s
    /\ nrhs \in 0..N
    /\ fdesc \in {f \in [0..(M-1) -> (0..(t0-1)) \X (0..(N-1))] :
                     /\ f[M-1][1] = t0 - 1
                     /\ \A a, b \in 0..(M-1) : a < b => f[a][1] <= f[b][1]}
    /\ lucky \in [Cols -> BOOLEAN]
    /\ delta \in [Cols -> t0..(G - 1)]
    /\ data \in [RhsRows \X {j \in Cols : lucky[j]} -> Field]
    /\ sols = <<>> /\ lookback = 0
    /\ rhs = [iF \in 0..(nrhs - 1) |-> <<>>]
    /\ srhs = <<>>
    /\ pc = "collect"

\* The loop over the columns of pi: a solution per lucky column, in order
\* of j, with shift G - 1 - delta[j]; too few solutions throw.
CollectSolutions ==
    LET cs == SetToSortSeq({j \in Cols : lucky[j]}, <)
        ss == [k \in 1..Len(cs) |-> <<cs[k], ShiftOf(cs[k])>>]
    IN
    /\ pc = "collect"
    /\ sols' = ss
    /\ lookback' = Lookback(ss)
    /\ pc' = IF Len(ss) # N THEN "throw" ELSE "rhs"
    /\ UNCHANGED <<t0, nrhs, fdesc, lucky, delta, data, rhs, srhs>>

\* rhs = recompute_rhs()
ComputeRhs ==
    /\ pc = "rhs"
    /\ rhs' = RecomputeRhs
    /\ pc' = "reorder"
    /\ UNCHANGED <<t0, nrhs, fdesc, lucky, delta, data, sols, lookback, srhs>>

\* reorder_solutions(), then the broadcast of sols
ReorderSolutions ==
    /\ pc = "reorder"
    /\ sols' = Reordered
    /\ pc' = "rhs2"
    /\ UNCHANGED <<t0, nrhs, fdesc, lucky, delta, data, lookback, rhs, srhs>>

\* rhs = recompute_rhs() once more, for the new order
RecomputeRhsAgain ==
    /\ pc = "rhs2"
    /\ rhs' = FinalRhs
    /\ pc' = "done"
    /\ UNCHANGED <<t0, nrhs, fdesc, lucky, delta, data, sols, lookback, srhs>>

\* write_rhs(Srhs), called once the object is built: "if (nrhs)
\* Srhs.write_from_matpoly(rhs, 0, 1)"
WriteRhs ==
    /\ pc = "done"
    /\ srhs' = IF nrhs > 0 THEN <<rhs>> ELSE <<>>
    /\ pc' = "written"
    /\ UNCHANGED <<t0, nrhs, fdesc, lucky, delta, data, sols, lookback, rhs>>

Next == CollectSolutions \/ ComputeRhs \/ ReorderSolutions \/ RecomputeRhsAgain
        \/ WriteRhs

Spec == Init /\ [][Next]_vars

-----------------------------------------------------------------------------
(* Properties.                                                             *)

TypeOK ==
    /\ sols \in Seq(Cols \X Nat) /\ lookback \in Nat
    /\ pc \in {"collect", "rhs", "reorder", "rhs2", "done", "throw", "written"}

\* write_rhs writes rhs next to F, whose column jF is solution sols[jF]:
\* every rhs matrix written has, in column jF, the right-hand side of the
\* solution now at position jF, not of the one there before the sort.
RhsFollowsSols == \A i \in 1..Len(srhs) : srhs[i] = RecomputeRhs

\* Spec section 4.5: after the reorder, the solutions come by descending
\* relevance, fewest zero rhs entries first.
OrderedByWeight ==
    pc \in {"rhs2", "done", "written"} =>
        \A a, b \in 1..Len(sols) : a < b => Score(RecomputeRhs, a) <= Score(RecomputeRhs, b)

\* Every coefficient recompute_rhs reads, before and after the reorder, is
\* one the constructor's read put in the cache and that pi has.
ReadsInCache ==
    pc \in {"reorder", "rhs2", "done", "written"} =>
        \A r \in Reads : r[3] < lookback /\ r[3] < G
==============================================================================
