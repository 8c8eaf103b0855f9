----------------------------- MODULE StreamSource -----------------------------
(***************************************************************************)
(* The contract common to the input endpoints of the lingen I/O layer      *)
(* (spec.md, "Contract common to all input endpoints"): read(dst, k0, k1)  *)
(* produces the next coefficients of a stream, at most k1 - k0 of them;    *)
(* a count short of the request means the stream is over.  A caller that   *)
(* asks again gets nothing more.                                           *)
(*                                                                         *)
(* The data is abstracted to positions: the coefficient delivered p-th is  *)
(* coefficient p - 1 of the stream, whatever the calls that delivered it.  *)
(***************************************************************************)
EXTENDS Naturals, Sequences

CONSTANT Windows    \* the counts k1 - k0 a caller may ask for

VARIABLES
    total,      \* the length of the stream (never changes)
    got,        \* the positions delivered so far, in order
    done,       \* a read came back short
    req,        \* k1 - k0 of the last read
    cnt         \* the count the last read returned

vars == <<total, got, done, req, cnt>>

\* the first k positions of the stream
Positions(k) == [p \in 1..k |-> p - 1]

Init ==
    /\ total \in Nat
    /\ got = <<>> /\ done = FALSE
    /\ req = 0 /\ cnt = 0

\* A read before the end: the next c <= k positions; a short count only
\* once the whole stream is delivered, and it ends the stream.
Fetch(k) ==
    /\ ~done
    /\ \E c \in 0..k :
          /\ Len(got) + c <= total
          /\ c < k => Len(got) + c = total
          /\ got' = Positions(Len(got) + c)
          /\ done' = (c < k)
          /\ cnt' = c
    /\ req' = k
    /\ UNCHANGED total

\* A read after the end returns nothing.
Reread(k) ==
    /\ done
    /\ req' = k /\ cnt' = 0
    /\ UNCHANGED <<total, got, done>>

Next == \E k \in Windows : Fetch(k) \/ Reread(k)

\* A caller that keeps reading reaches the end of the stream.
Spec == Init /\ [][Next]_vars /\ WF_vars(\E k \in Windows : Fetch(k))
==============================================================================
