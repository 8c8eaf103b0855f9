---------------------------- MODULE MultiplyRetry ----------------------------
(***************************************************************************)
(* OP_CTX<bigmatpoly>::doit (src/linalg/bwc/lingen_bigmatpoly_ft.cpp): every *)
(* rank of the grid runs the product mp_or_mul under a memory guard; a     *)
(* memory_pool_exception raised at an allocation is caught by the rank that *)
(* raised it, which runs mp_or_mul again from the start under an unlimited *)
(* guard.  An exception in that second run is not caught.                  *)
(*                                                                         *)
(* mp_or_mul itself is not in the repository: following the description of *)
(* the multiply, it is K collective steps (the transforms' all-gathers      *)
(* along rows and columns), with allocations between them.  A collective   *)
(* call blocks until every rank has made its call of the same rank in the  *)
(* sequence of calls on the communicator (MPI matches collectives by order).*)
(***************************************************************************)
EXTENDS Naturals, Sequences

CONSTANTS
    Ranks,      \* the ranks of the grid
    K           \* collective steps in one run of mp_or_mul

ASSUME K \in Nat \ {0}

VARIABLES
    attempt,    \* 1 under the guard "ram", 2 under memory_guard(SIZE_MAX)
    pc,         \* collective steps completed in the current attempt
    calls,      \* the steps of the collective calls a rank has issued, in order
    completed,  \* how many of its collective calls have returned
    status      \* "run", "done", or "fatal" (uncaught exception)

vars == <<attempt, pc, calls, completed, status>>

Waiting(r) == Len(calls[r]) > completed[r]

-----------------------------------------------------------------------------

Init ==
    /\ attempt = [r \in Ranks |-> 1]
    /\ pc = [r \in Ranks |-> 0]
    /\ calls = [r \in Ranks |-> <<>>]
    /\ completed = [r \in Ranks |-> 0]
    /\ status = [r \in Ranks |-> "run"]

\* mp_or_mul reaches its next collective step and calls it.
IssueCollective(r) ==
    /\ status[r] = "run" /\ ~Waiting(r) /\ pc[r] < K
    /\ calls' = [calls EXCEPT ![r] = Append(@, pc[r] + 1)]
    /\ UNCHANGED <<attempt, pc, completed, status>>

\* The call returns once every rank has made its call of the same index.
CompleteCollective(r) ==
    /\ status[r] = "run" /\ Waiting(r)
    /\ \A q \in Ranks : Len(calls[q]) > completed[r]
    /\ completed' = [completed EXCEPT ![r] = @ + 1]
    /\ pc' = [pc EXCEPT ![r] = @ + 1]
    /\ UNCHANGED <<attempt, calls, status>>

\* An allocation between two steps exceeds the guard: under the first
\* guard the catch block runs mp_or_mul again from the start; under the
\* unlimited guard the exception escapes doit.
MemoryPoolException(r) ==
    /\ status[r] = "run" /\ ~Waiting(r) /\ pc[r] < K
    /\ IF attempt[r] = 1
       THEN /\ attempt' = [attempt EXCEPT ![r] = 2]
            /\ pc' = [pc EXCEPT ![r] = 0]
            /\ UNCHANGED status
       ELSE /\ status' = [status EXCEPT ![r] = "fatal"]
            /\ UNCHANGED <<attempt, pc>>
    /\ UNCHANGED <<calls, completed>>

\* mp_or_mul returns: doit is over for this rank.
Finish(r) ==
    /\ status[r] = "run" /\ ~Waiting(r) /\ pc[r] = K
    /\ status' = [status EXCEPT ![r] = "done"]
    /\ UNCHANGED <<attempt, pc, calls, completed>>

Next == \E r \in Ranks :
            \/ IssueCollective(r) \/ CompleteCollective(r)
            \/ MemoryPoolException(r) \/ Finish(r)

Spec == Init /\ [][Next]_vars

-----------------------------------------------------------------------------

\* The description of the multiply: the decision to relax the budget is
\* taken identically at all ranks, so the i-th collective call of every
\* rank is the same step of the product.
CollectivesMatch ==
    \A r, q \in Ranks : \A i \in 1..Len(calls[r]) :
        i <= Len(calls[q]) => calls[r][i] = calls[q][i]
=============================================================================
