-------------------------------- MODULE Norm --------------------------------
(***************************************************************************)
(* The norm initialisation of the function-field siever (src/ffs/norm.c),  *)
(* in characteristic 2 (FP_SIZE == 2).  init_norms transforms the         *)
(* polynomial f(a, b) of the side into f_ij(i, j) through the q-lattice    *)
(* (ffspol_2ij), then for every (i, j) of the region not already marked   *)
(* 255 stores in S the degree of the norm (deg_norm_ij), minus deg q on    *)
(* the special-q side, or 255 when that degree is not positive.           *)
(*                                                                         *)
(* A polynomial of GF(2)[t] is a natural number: bit e is the coefficient  *)
(* of t^e.  fppol_add is XOR, fppol_mul the carry-less product, and        *)
(* fppol_deg (ij_deg) is -1 on the zero polynomial, the convention of the  *)
(* fppol layer, which is not in the repository.  (i, j) is a position of  *)
(* S: ijvec_get_start_pos and ijvec_get_offset are not in the repository  *)
(* either.  There is no sublattice: (hat i, hat j) = (i, j).              *)
(***************************************************************************)
EXTENDS Integers, Bitwise

CONSTANTS
    D,          \* the degree of f
    Coeffs,     \* the coefficients f_k may take
    Qs,         \* the special-q polynomials
    I,          \* i ranges over the polynomials of degree < I
    J,          \* j over the monic ones of degree < J
    Rows,       \* the rows j of S the region holds (start >= size breaks)
    MarkedSets  \* the sets of positions S holds 255 at on entry

VARIABLES
    f,          \* the polynomial of the side: coefficients f_0 .. f_D
    ql,         \* the q-lattice: [q, r, a0, a1, b0, b1]
    sqside,     \* the side of the special q
    fij,        \* ffspol_ij
    degq,       \* deg q on the special-q side, 0 on the other
    S,          \* the norm bytes, by position <<i, j>>
    i, j,       \* the loop counters
    pc          \* "begin", "row", "cell", "done"

vars == <<f, ql, sqside, fij, degq, S, i, j, pc>>

IRange == 0..(2^I - 1)
JRange == 1..(2^J - 1)       \* over GF(2) every nonzero j is monic
Pos == IRange \X JRange

-----------------------------------------------------------------------------
(* Polynomials over GF(2).                                                 *)

PolyAdd(p, c) == p ^^ c

RECURSIVE PolyMul(_, _)
PolyMul(p, c) ==
    IF c = 0 THEN 0
    ELSE PolyAdd(IF c % 2 = 1 THEN p ELSE 0, PolyMul(2 * p, c \div 2))

RECURSIVE PolyDeg(_)
PolyDeg(p) == IF p = 0 THEN -1 ELSE 1 + PolyDeg(p \div 2)

RECURSIVE PolyPow(_, _)
PolyPow(p, e) == IF e = 0 THEN 1 ELSE PolyMul(PolyPow(p, e - 1), p)

\* the remainder of p by c # 0
RECURSIVE PolyMod(_, _)
PolyMod(p, c) ==
    IF PolyDeg(p) < PolyDeg(c) THEN p
    ELSE PolyMod(PolyAdd(p, PolyMul(c, 2^(PolyDeg(p) - PolyDeg(c)))), c)

\* the sum over k of the D + 1 polynomials t[k]
RECURSIVE PolySum(_, _)
PolySum(t, k) == IF k < 0 THEN 0 ELSE PolyAdd(t[k], PolySum(t, k - 1))

-----------------------------------------------------------------------------
(* ffspol_norm: b^D f(a/b) = sum of f_k a^k b^(D-k), with pow_b[k] =       *)
(* b^(D-k) built from pow_b[D] = 1 down, and pow_a multiplied by a.        *)

FFSPolNorm(h, a, b) ==
    PolySum([k \in 0..D |-> PolyMul(PolyMul(h[k], PolyPow(b, D - k)), PolyPow(a, k))], D)

-----------------------------------------------------------------------------
(* ffspol_2ij: step k (from D-1 down to 0) multiplies hh(i, j) by          *)
(* (a0 i + a1 j), raises (b0 i + b1 j)^(D-k-1) to the power D-k, and adds *)
(* f_k (b0 i + b1 j)^(D-k).  The in-place loops read the values of the    *)
(* step before, as the ascending and descending index orders make them.   *)

\* Variant that multiplies by (a1 i + a0 j), checked to break
\* TransformPreservesNorm.
MulLinearSwapped(h, k, lat) ==
    [l \in 0..D |->
        CASE l = k           -> PolyMul(h[k + 1], lat.a0)
          [] k < l /\ l < D  -> PolyAdd(PolyMul(h[l], lat.a1), PolyMul(h[l + 1], lat.a0))
          [] l = D           -> PolyMul(h[D], lat.a1)
          [] OTHER           -> h[l]]

\* hh(i, j) * (a0 i + a1 j), coefficients k .. D
MulLinear(h, k, lat) ==
    [l \in 0..D |->
        CASE l = k           -> PolyMul(h[k + 1], lat.a1)
          [] k < l /\ l < D  -> PolyAdd(PolyMul(h[l], lat.a0), PolyMul(h[l + 1], lat.a1))
          [] l = D           -> PolyMul(h[D], lat.a0)
          [] OTHER           -> h[l]]

\* (b0 i + b1 j)^e from (b0 i + b1 j)^(e-1): powb_ij[0 .. e]
PowStep(g, e, lat) ==
    [l \in 0..D |->
        CASE l = e           -> PolyMul(g[e - 1], lat.b0)
          [] 0 < l /\ l < e  -> PolyAdd(PolyMul(g[l - 1], lat.b0), PolyMul(g[l], lat.b1))
          [] l = 0           -> PolyMul(g[0], lat.b1)
          [] OTHER           -> g[l]]

FFSPol2ij(fab, lat) ==
    LET RECURSIVE Step(_, _, _)
        Step(h, g, k) ==
            IF k < 0 THEN h
            ELSE LET h1 == MulLinear(h, k, lat)
                     g1 == PowStep(g, D - k, lat)
                 IN  Step([l \in 0..D |->
                             IF l >= k THEN PolyAdd(h1[l], PolyMul(g1[l - k], fab[k]))
                             ELSE h1[l]],
                          g1, k - 1)
    IN  Step([l \in 0..D |-> IF l = D THEN fab[D] ELSE 0],
             [l \in 0..D |-> IF l = 0 THEN 1 ELSE 0], D - 1)

-----------------------------------------------------------------------------
(* deg_norm_ij: the largest degree deg f_k + k deg i + (D-k) deg j of the  *)
(* monomials, through max_special, which counts how many reach it; in     *)
(* characteristic 2 an odd count cannot cancel, and the maximum is the    *)
(* degree.  Otherwise the norm is computed (ffspol_norm) and its degree   *)
(* taken.                                                                  *)

\* max_special: <<the maximum, the updated repeated>>
MaxSpecial(prev, x, rep) ==
    IF prev = x THEN <<prev, rep + 1>>
    ELSE IF prev > x THEN <<prev, rep>>
    ELSE <<x, 1>>

MonomialDeg(h, k, degi, degj) == PolyDeg(h[k]) + k * degi + (D - k) * degj

DegNormIJ(h, ii, jj) ==
    LET RECURSIVE Scan(_, _, _)
        Scan(k, mx, rep) ==
            IF k > D THEN <<mx, rep>>
            ELSE LET r == MaxSpecial(mx, MonomialDeg(h, k, PolyDeg(ii), PolyDeg(jj)), rep)
                 IN  Scan(k + 1, r[1], r[2])
        res == Scan(0, -1, 1)
    IN  IF res[2] % 2 = 1 THEN res[1]
        ELSE PolyDeg(FFSPolNorm(h, ii, jj))

-----------------------------------------------------------------------------
(* init_norms                                                              *)

\* Variant that stores deg - deg q whatever the degree, without the test
\* deg > 0, checked to break TypeOK.
NormByteUnguarded(deg, dq) == deg - dq

\* the byte stored for a degree: deg - deg q in a uint8_t, or 255
NormByte(deg, dq) == IF deg > 0 THEN (deg - dq) % 256 ELSE 255

\* the q-lattice of the root r of f modulo q: a = q i + r j, b = j
QLattice(q, r) == [q |-> q, r |-> r, a0 |-> q, a1 |-> r, b0 |-> 0, b1 |-> 1]

\* (a, b) of a position, as ij2ab computes it
AOf(lat, ii, jj) == PolyAdd(PolyMul(lat.a0, ii), PolyMul(lat.a1, jj))
BOf(lat, ii, jj) == PolyAdd(PolyMul(lat.b0, ii), PolyMul(lat.b1, jj))

\* the caller's arguments: f of degree D, a special q of degree 1 with a
\* root r of f modulo q on the special-q side, S marked where asked
Init ==
    /\ f \in {h \in [0..D -> Coeffs] : h[D] # 0}
    /\ sqside \in BOOLEAN
    /\ ql \in UNION {{QLattice(q, r) : r \in 0..(2^PolyDeg(q) - 1)} : q \in Qs}
    /\ sqside => PolyMod(FFSPolNorm(f, ql.r, 1), ql.q) = 0
    /\ S \in {[p \in Pos |-> IF p \in mk THEN 255 ELSE 0] : mk \in MarkedSets}
    /\ fij = [k \in 0..D |-> 0] /\ degq = 0
    /\ i = 0 /\ j = 1 /\ pc = "begin"

\* ffspol_2ij, and deg q when sqside
Begin ==
    /\ pc = "begin"
    /\ fij' = FFSPol2ij(f, ql)
    /\ degq' = IF sqside THEN PolyDeg(ql.q) ELSE 0
    /\ pc' = "row"
    /\ UNCHANGED <<f, ql, sqside, S, i, j>>

\* the head of the j loop: a row outside the region ends it
Row ==
    /\ pc = "row"
    /\ pc' = IF j - 1 >= Rows THEN "done" ELSE "cell"
    /\ i' = 0
    /\ UNCHANGED <<f, ql, sqside, fij, degq, S, j>>

\* one (i, j): the norm byte unless already 255, then ij_set_next, and
\* ij_monic_set_next at the end of a row
Cell ==
    /\ pc = "cell"
    /\ S' = IF S[<<i, j>>] # 255
            THEN [S EXCEPT ![<<i, j>>] = NormByte(DegNormIJ(fij, i, j), degq)]
            ELSE S
    /\ IF i + 1 \in IRange
       THEN i' = i + 1 /\ UNCHANGED <<j, pc>>
       ELSE IF j + 1 \in JRange
       THEN i' = i /\ j' = j + 1 /\ pc' = "row"
       ELSE i' = i /\ j' = j /\ pc' = "done"
    /\ UNCHANGED <<f, ql, sqside, fij, degq>>

Next == Begin \/ Row \/ Cell

\* init_norms returns: every behaviour stops.
Spec == Init /\ [][Next]_vars

-----------------------------------------------------------------------------
(* Properties.                                                             *)

TypeOK ==
    /\ S \in [Pos -> 0..255]
    /\ i \in IRange /\ j \in JRange
    /\ pc \in {"begin", "row", "cell", "done"}

\* The positions the loop has passed.
Visited(p) ==
    \/ pc = "done" /\ p[2] - 1 < Rows
    \/ pc = "row" /\ p[2] < j
    \/ pc = "cell" /\ (p[2] < j \/ (p[2] = j /\ p[1] < i))

\* The comment of ffspol_2ij: norm(f, a, b) = norm(f_ij, i, j) with
\* a = a0 i + a1 j and b = b0 i + b1 j, at every position of the region.
TransformPreservesNorm ==
    pc # "begin" =>
        \A p \in Pos :
            FFSPolNorm(fij, p[1], p[2])
                = FFSPolNorm(f, AOf(ql, p[1], p[2]), BOf(ql, p[1], p[2]))

\* The comment of init_norms: it "computes deg_norm" at every position of
\* the region, and the byte stored, not marked 255 on entry, is that degree
\* less deg q.  Against the degree of the norm of f at (a, b) itself.
NormDegree ==
    \A p \in Pos :
        Visited(p) /\ S[p] # 255 =>
            S[p] = NormByte(PolyDeg(FFSPolNorm(f, AOf(ql, p[1], p[2]),
                                                 BOf(ql, p[1], p[2]))), degq)
=============================================================================
