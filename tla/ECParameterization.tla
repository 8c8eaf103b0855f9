------------------------- MODULE ECParameterization -------------------------
(***************************************************************************)
(* The curve parameterizations of ECM (src/sieve/ecm/                      *)
(* ec_parameterization.h): from a parameter (sigma or k) and a modulus m,  *)
(* each computes the curve coefficient b = (A+2)/4 of a Montgomery curve,  *)
(* or a twisted Edwards curve, and a starting point P0, by a fixed         *)
(* sequence of residue operations; a failed modular inverse returns 0      *)
(* with the non-invertible value in P0->x.                                 *)
(*                                                                         *)
(* The state is the one call a caller made and what it returned.  The      *)
(* residue operations mod_add, mod_sub, mod_mul, mod_sqr, mod_set_ul,      *)
(* mod_2pow_ul, mod_div2/3/5 and mod_inv are not in the repository; they   *)
(* are arithmetic modulo m.  The scalar multiplications                    *)
(* weierstrass_aff_smul_ui and weierstrass_proj_smul_ui are not either:    *)
(* their result [k]P is taken to be any point of the curve.                *)
(***************************************************************************)
EXTENDS Integers

CONSTANTS
    Moduli,     \* the moduli m a caller may pass (odd, coprime to 30)
    Sigmas,     \* the Brent--Suyama parameters a caller may pass
    Ks,         \* the parameters k of the elliptic parameterizations
    Coords      \* the ec_point_coord_type_t values a caller may pass

ASSUME /\ Moduli \subseteq Nat \ {0, 1}
       /\ \A mm \in Moduli : mm % 2 # 0 /\ mm % 3 # 0 /\ mm % 5 # 0
       /\ Sigmas \subseteq Nat /\ Ks \subseteq Nat

Parameterizations == {"BRENT12", "MONTY12", "MONTY16", "MONTYTWED12"}
EdwardsCoords == {"TWISTED_EDWARDS_ext", "TWISTED_EDWARDS_proj"}

\* a coordinate of P0 that the call does not write
NotSet == -1
Unset == [x |-> NotSet, y |-> NotSet, z |-> NotSet, t |-> NotSet]

VARIABLES
    m,          \* the modulus (never changes)
    fn,         \* the parameterization called last, "none" before any call
    param,      \* its parameter, sigma or k
    coord,      \* Z6: the coordinate type asked for
    wantB,      \* Z6: b != NULL
    T,          \* M12, Z6: the point [k]P the smul returned
    ret,        \* the value returned
    b,          \* the residue b
    P0,         \* the starting point: [x, y, z, t]
    aborted     \* an ASSERT_ALWAYS failed

vars == <<m, fn, param, coord, wantB, T, ret, b, P0, aborted>>

-----------------------------------------------------------------------------
(* Residue arithmetic modulo m.                                            *)

Res == 0..(m - 1)

\* Variant of mod_add that forgets to reduce, checked to break TypeOK.
AddMNoReduce(a, c) == a + c

AddM(a, c) == (a + c) % m
SubM(a, c) == (a - c) % m
MulM(a, c) == (a * c) % m
SqrM(a) == MulM(a, a)
CubeM(a) == MulM(SqrM(a), a)
SetUl(c) == c % m
TwoPow(e) == (2 ^ e) % m

\* mod_inv succeeds exactly when a is a unit
Invertible(a) == \E x \in Res : MulM(a, x) = 1
Inv(a) == CHOOSE x \in Res : MulM(a, x) = 1

\* mod_div2, mod_div3, mod_div5 (m coprime to 30)
DivM(a, d) == MulM(a, Inv(SetUl(d)))

-----------------------------------------------------------------------------
(* The parameters each parameterization accepts.                           *)

\* ec_parameter_is_valid and the four _is_valid functions it dispatches to
ParameterIsValid(par, k) ==
    CASE par = "BRENT12"     -> k \notin {0, 1, 3, 5}
      [] par = "MONTY12"     -> k > 1
      [] par = "MONTY16"     -> k = 1
      [] par = "MONTYTWED12" -> k # 0

-----------------------------------------------------------------------------
(* Brent--Suyama: u = sigma^2 - 5, v = 4*sigma, x0 = u^3, z0 = v^3,       *)
(* b = (v-u)^3*(3u+v)/(16*u^3*v).                                          *)

BSU(s) == SubM(SqrM(s), SetUl(5))
BSV(s) == LET v2 == AddM(s, s) IN AddM(v2, v2)

\* b before the division: (3u+v)*(v-u), times (v-u)^2
BSNumerator(s) ==
    LET u == BSU(s)  v == BSV(s)  w == SubM(v, u)
    IN  MulM(MulM(AddM(AddM(AddM(u, u), u), v), w), SqrM(w))

\* Variant with 2^3 for the 2^4 of mod_2pow_ul, checked to break CurveOK.
BSDenominatorBy8(s) == MulM(MulM(CubeM(BSU(s)), BSV(s)), TwoPow(3))

\* t1 = 16*x0*v = 16*u^3*v
BSDenominator(s) == MulM(MulM(CubeM(BSU(s)), BSV(s)), TwoPow(4))

\* ec_parameterization_Brent_Suyama, on the residue s of sigma:
\* [ret, b, x, z]
BrentSuyamaResult(s) ==
    LET t1 == BSDenominator(s)
    IN  IF Invertible(t1)
        THEN [ret |-> 1, b |-> MulM(BSNumerator(s), Inv(t1)),
              x |-> CubeM(BSU(s)), z |-> CubeM(BSV(s))]
        ELSE [ret |-> 0, b |-> BSNumerator(s), x |-> t1, z |-> CubeM(BSV(s))]

-----------------------------------------------------------------------------
(* Montgomery Z/12Z: (u, v) = [k](-2, 4) on y^2 = x^3 - 12x,               *)
(* d1 = v^2+12u^2, d2 = v^2-4u^2, x0 = 2u^2(u^2+12)^2, z0 = 2*d1*d2,       *)
(* b = 1024*v^2*u^6/(d1*d2^3).                                             *)

\* the affine points of y^2 = x^3 - 12x modulo each modulus
Points12 ==
    [mm \in Moduli |-> {pt \in (0..(mm-1)) \X (0..(mm-1)) :
                           (pt[2]^2 - pt[1]^3 + 12 * pt[1]) % mm = 0}]

\* t1 = 4*u^2, by two doublings
M12FourUU(u) == LET t == AddM(SqrM(u), SqrM(u)) IN AddM(t, t)
M12D2(u, v) == SubM(SqrM(v), M12FourUU(u))
M12D1(u, v) == AddM(SqrM(v), AddM(AddM(M12FourUU(u), M12FourUU(u)), M12FourUU(u)))
M12X0(u) == LET x == MulM(SqrM(AddM(SqrM(u), SetUl(12))), SqrM(u)) IN AddM(x, x)
M12Z0(u, v) == LET z == MulM(M12D1(u, v), M12D2(u, v)) IN AddM(z, z)

\* ec_parameterization_Montgomery12 from (u, v): [ret, b, x, z]; after a
\* failed mod_inv(b, t1), b holds whatever mod_inv left in it
Montgomery12Results(u, v) ==
    LET t1 == MulM(CubeM(M12D2(u, v)), M12D1(u, v))
    IN  IF Invertible(t1)
        THEN {[ret |-> 1,
               b |-> MulM(MulM(MulM(Inv(t1), CubeM(SqrM(u))), SqrM(v)), TwoPow(10)),
               x |-> M12X0(u), z |-> M12Z0(u, v)]}
        ELSE {[ret |-> 0, b |-> r, x |-> t1, z |-> M12Z0(u, v)] : r \in Res}

-----------------------------------------------------------------------------
(* Montgomery Z/16Z: the curve (8, 15, 17) of Montgomery's thesis,         *)
(* x0 = 8, z0 = 15, b = (289/240)^2.                                       *)

\* t = 1/3, halved four times (1/48), plus one, over five, plus one
M16T ==
    LET t48 == DivM(DivM(DivM(DivM(DivM(1 % m, 3), 2), 2), 2), 2)
    IN  AddM(DivM(AddM(t48, 1 % m), 5), 1 % m)

Montgomery16Result == [ret |-> 1, b |-> SqrM(M16T), x |-> SetUl(8), z |-> SetUl(15)]

-----------------------------------------------------------------------------
(* Z6 ("Starfish on strike"): from T = [k](15, 378) on                     *)
(* y^2 = x^3 - 9747x + 285714, in projective coordinates,                  *)
(* U = 144(x + 3z), V = y, W = 12^6 z, sigma = (W - 96U)/(96U), and the    *)
(* Brent--Suyama alpha = sigma^2 - 5, beta = 4*sigma as fractions.         *)

\* the points of the curve modulo each modulus: the affine ones (z = 1)
\* and the point at infinity
Points6 ==
    [mm \in Moduli |->
        {<<pt[1], pt[2], 1>> :
           pt \in {q \in (0..(mm-1)) \X (0..(mm-1)) :
                     (q[2]^2 - q[1]^3 + 9747 * q[1] - 285714) % mm = 0}}
        \cup {<<0, 1, 0>>}]

Z6U(pt) == MulM(AddM(AddM(AddM(pt[1], pt[3]), pt[3]), pt[3]), SetUl(144))
Z6V(pt) == pt[2]
Z6W(pt) == MulM(SetUl(2985984), pt[3])
SigmaD(pt) == MulM(SetUl(96), Z6U(pt))
SigmaN(pt) == SubM(Z6W(pt), SigmaD(pt))
AlphaN(pt) == SubM(SqrM(SigmaN(pt)), MulM(SetUl(5), SqrM(SigmaD(pt))))
AlphaD(pt) == SqrM(SigmaD(pt))

\* Variant with a single doubling, checked to break Z6IsBrentSuyama.
BetaNTwice(pt) == AddM(SigmaN(pt), SigmaN(pt))

\* beta_n = 4*sigma_n, by two doublings
BetaN(pt) == LET t == AddM(SigmaN(pt), SigmaN(pt)) IN AddM(t, t)
BetaD(pt) == SigmaD(pt)

\* xM0 = alpha3_n*beta3_d, zM0 = beta3_n*alpha3_d
Z6Montgomery(pt) ==
    [x |-> MulM(CubeM(AlphaN(pt)), CubeM(BetaD(pt))), y |-> NotSet,
     z |-> MulM(CubeM(BetaN(pt)), CubeM(AlphaD(pt))), t |-> NotSet]

\* gamma = (sigma_n - sigma_d)(sigma_n + 5 sigma_d)(sigma_n^2 + 5 sigma_d^2)
Z6Gamma(pt) ==
    LET sn == SigmaN(pt)  sd == SigmaD(pt)  f == MulM(SetUl(5), SqrM(sd))
    IN  MulM(MulM(SubM(sn, sd), AddM(sn, MulM(SetUl(5), sd))), AddM(SqrM(sn), f))
Z6Delta(pt) == CubeM(AlphaN(pt))
Z6Epsilon(pt) == CubeM(MulM(BetaN(pt), SigmaD(pt)))

\* Variant without the final doubling, checked to break EdwardsOnCurve.
Z6T2Once(pt) ==
    MulM(MulM(MulM(MulM(Z6V(pt), Z6W(pt)), SigmaN(pt)), SqrM(SigmaD(pt))), SigmaD(pt))

\* _t2 = 2*V*W*sigma_n*sigma_d^3
Z6T2(pt) ==
    LET t == MulM(MulM(MulM(MulM(Z6V(pt), Z6W(pt)), SigmaN(pt)), SqrM(SigmaD(pt))),
                  SigmaD(pt))
    IN  AddM(t, t)

\* the twisted Edwards point (extended: t is written too)
Z6Edwards(pt, ext) ==
    LET t0 == MulM(SqrM(Z6U(pt)), Z6Gamma(pt))
        sum == AddM(Z6Delta(pt), Z6Epsilon(pt))
        dif == SubM(Z6Delta(pt), Z6Epsilon(pt))
    IN  [x |-> MulM(sum, Z6T2(pt)), y |-> MulM(dif, t0), z |-> MulM(sum, t0),
         t |-> IF ext THEN MulM(dif, Z6T2(pt)) ELSE NotSet]

\* the b != NULL block: 16*alpha3_n*beta_n*alpha_d*beta3_d inverted in
\* place, b = (delta - epsilon)^3*(3 epsilon + delta)/_t0 with
\* delta = beta_n alpha_d, epsilon = alpha_n beta_d.  A failed
\* mod_inv(_t0, _t0) leaves _t0 as mod_inv left it.
Z6BDenominator(pt) ==
    MulM(MulM(MulM(MulM(CubeM(AlphaN(pt)), BetaN(pt)), AlphaD(pt)), CubeM(BetaD(pt))),
         SetUl(16))
Z6B(pt) ==
    LET dl == MulM(BetaN(pt), AlphaD(pt))
        ep == MulM(AlphaN(pt), BetaD(pt))
        gm == AddM(AddM(AddM(ep, ep), ep), dl)
        df == SubM(dl, ep)
    IN  MulM(MulM(CubeM(df), gm), Inv(Z6BDenominator(pt)))

-----------------------------------------------------------------------------
(* Actions: one call of each parameterization.                             *)

Init ==
    /\ m \in Moduli
    /\ fn = "none" /\ param = 0 /\ coord = "none" /\ wantB = TRUE
    /\ T = <<>> /\ ret = 0 /\ b = 0
    /\ P0 = Unset
    /\ aborted = FALSE

\* the call's record, and its ASSERT_ALWAYS: a failed one ends the
\* process, and nothing the call would have written is kept.  The
\* parameterizations keep no state between calls, so a behaviour is one call.
Call(f, k, c, wb, pt, valid) ==
    /\ fn = "none"
    /\ fn' = f /\ param' = k /\ coord' = c /\ wantB' = wb /\ T' = pt
    /\ aborted' = ~valid
    /\ ~valid => ret' = 0 /\ b' = NotSet /\ P0' = Unset

\* the Montgomery point written: x and z
MontPoint(r) == [Unset EXCEPT !.x = r.x, !.z = r.z]

BrentSuyama(sigma) ==
    /\ Call("BRENT12", sigma, "none", TRUE, <<>>, ParameterIsValid("BRENT12", sigma))
    /\ ~aborted' => LET r == BrentSuyamaResult(SetUl(sigma))
            IN  ret' = r.ret /\ b' = r.b /\ P0' = MontPoint(r)
    /\ UNCHANGED m

Montgomery12(k, pt) ==
    /\ Call("MONTY12", k, "none", TRUE, pt, ParameterIsValid("MONTY12", k))
    /\ ~aborted' => \E r \in Montgomery12Results(pt[1], pt[2]) :
               ret' = r.ret /\ b' = r.b /\ P0' = MontPoint(r)
    /\ UNCHANGED m

Montgomery16(k) ==
    /\ Call("MONTY16", k, "none", TRUE, <<>>, ParameterIsValid("MONTY16", k))
    /\ ~aborted' => ret' = 1 /\ b' = Montgomery16Result.b /\ P0' = MontPoint(Montgomery16Result)
    /\ UNCHANGED m

\* ec_parameterization_Z6: the ASSERTs on k and on the coordinate type,
\* the point, then b if asked for (b = NULL returns 0)
Z6(k, c, wb, pt) ==
    LET pnt == IF c = "MONTGOMERY_xz" THEN Z6Montgomery(pt)
               ELSE Z6Edwards(pt, c = "TWISTED_EDWARDS_ext")
    IN
    /\ Call("MONTYTWED12", k, c, wb, pt,
            ParameterIsValid("MONTYTWED12", k) /\ c \in {"MONTGOMERY_xz"} \cup EdwardsCoords)
    /\ ~aborted' =>
          CASE ~wb -> ret' = 0 /\ b' = NotSet /\ P0' = pnt
            [] Invertible(Z6BDenominator(pt)) -> ret' = 1 /\ b' = Z6B(pt) /\ P0' = pnt
            [] OTHER -> ret' = 0 /\ b' = NotSet /\ \E r \in Res : P0' = [pnt EXCEPT !.x = r]
    /\ UNCHANGED m

Next ==
    \/ \E s \in Sigmas : BrentSuyama(s)
    \/ \E k \in Ks, pt \in Points12[m] : Montgomery12(k, pt)
    \/ \E k \in Ks : Montgomery16(k)
    \/ \E k \in Ks, c \in Coords, wb \in BOOLEAN, pt \in Points6[m] :
          Z6(k, c, wb, pt)

\* One call, then nothing: every behaviour stops.
Spec == Init /\ [][Next]_vars

-----------------------------------------------------------------------------
(* Reference definitions: the curves of the Sage checks in the comments.   *)

\* (x : y : z) on the Montgomery curve B y^2 z = x^3 + A x^2 z + x z^2
OnMontgomery(A, B, x, y, z) ==
    MulM(MulM(B, SqrM(y)), z) = AddM(AddM(CubeM(x), MulM(MulM(A, SqrM(x)), z)), MulM(x, SqrM(z)))

\* b = (A+2)/4 and P0 on the curve, for the Brent--Suyama formulas:
\* A = (v-u)^3(3u+v)/(4u^3 v) - 2, B = u/z0,
\* y0 = (sigma^2-1)(sigma^2-25)(sigma^4-25)
BrentSuyamaCurve(s, x0, z0, bb) ==
    LET u == SubM(SqrM(s), 5 % m)  v == MulM(4, s)
        A == SubM(MulM(MulM(CubeM(SubM(v, u)), AddM(MulM(3, u), v)),
                       Inv(MulM(MulM(4, CubeM(u)), v))), 2 % m)
        B == MulM(u, Inv(z0))
        y0 == MulM(MulM(SubM(SqrM(s), 1 % m), SubM(SqrM(s), 25 % m)),
                   SubM(SqrM(SqrM(s)), 25 % m))
    IN  MulM(4, bb) = AddM(A, 2) /\ OnMontgomery(A, B, x0, y0, z0)

\* the same for the Z/12Z formulas: A = (4(32 v u^3)^2 - 2 d1 d2^3)/(d1 d2^3),
\* B = (16 u^2 (v^2 + 4u^2))^2/(d1 d2^3), y0 = d1 u (u^2 + 12)
Montgomery12Curve(u, v, x0, z0, bb) ==
    LET d1 == AddM(SqrM(v), MulM(12, SqrM(u)))
        d2 == SubM(SqrM(v), MulM(4, SqrM(u)))
        den == Inv(MulM(d1, CubeM(d2)))
        A == MulM(SubM(MulM(4, SqrM(MulM(MulM(32, v), CubeM(u)))),
                       MulM(MulM(2, d1), CubeM(d2))), den)
        B == MulM(SqrM(MulM(MulM(16, SqrM(u)), AddM(SqrM(v), MulM(4, SqrM(u))))), den)
        y0 == MulM(MulM(d1, u), AddM(SqrM(u), 12))
    IN  MulM(4, bb) = AddM(A, 2) /\ OnMontgomery(A, B, x0, y0, z0)

\* the Z/16Z curve: b = 83521/57600 (the WANT_ASSERT_EXPENSIVE check)
Montgomery16Curve(bb) == MulM(bb, 57600 % m) = 83521 % m

\* Edwards d = (beta+alpha)^3 (beta-3 alpha)/(r (beta-alpha))^2, r = VW/U^2
EdwardsDenominator(pt) ==
    LET r == MulM(MulM(Z6V(pt), Z6W(pt)), Inv(SqrM(Z6U(pt))))
        al == MulM(AlphaN(pt), Inv(AlphaD(pt)))
        be == MulM(BetaN(pt), Inv(BetaD(pt)))
    IN  MulM(r, SubM(be, al))
EdwardsD(pt) ==
    LET al == MulM(AlphaN(pt), Inv(AlphaD(pt)))
        be == MulM(BetaN(pt), Inv(BetaD(pt)))
    IN  MulM(MulM(CubeM(AddM(be, al)), SubM(be, MulM(3, al))),
             Inv(SqrM(EdwardsDenominator(pt))))

-----------------------------------------------------------------------------
(* Properties.                                                             *)

TypeOK ==
    /\ m \in Moduli /\ fn \in {"none"} \cup Parameterizations
    /\ ret \in {0, 1} /\ b \in Res \cup {NotSet}
    /\ \A f \in {"x", "y", "z", "t"} : P0[f] \in Res \cup {NotSet}
    /\ aborted \in BOOLEAN

\* Whenever a Montgomery-form parameterization (Brent--Suyama, Z/12Z,
\* Z/16Z) returns 1, the b and (x0 :: z0) its residue operations computed
\* are those of the curve in the Sage check of its comment: b = (A+2)/4,
\* and P0 is on B y^2 = x^3 + A x^2 + x.
CurveOK ==
    ~aborted /\ ret = 1 =>
        CASE fn = "BRENT12" -> BrentSuyamaCurve(SetUl(param), P0.x, P0.z, b)
          [] fn = "MONTY12" -> Montgomery12Curve(T[1], T[2], P0.x, P0.z, b)
          [] fn = "MONTY16" -> Montgomery16Curve(b)
          [] OTHER          -> TRUE

\* The comment of ec_parameterization_Z6: its Montgomery curve is the
\* Brent--Suyama curve of sigma = sigma_n / sigma_d.  When Z6 returns 1,
\* Brent--Suyama on that sigma returns 1 too, with the same b and the same
\* starting point (x0 :: z0) up to scaling.
Z6IsBrentSuyama ==
    ~aborted /\ fn = "MONTYTWED12" /\ coord = "MONTGOMERY_xz" /\ ret = 1 =>
        LET r == BrentSuyamaResult(MulM(SigmaN(T), Inv(SigmaD(T))))
        IN  /\ r.ret = 1 /\ r.b = b
            /\ MulM(P0.x, r.z) = MulM(P0.z, r.x)

\* In twisted Edwards coordinates, the point Z6 writes (when b is not
\* asked for, or its inverse succeeded) is on -X^2 Z^2 + Y^2 Z^2 =
\* Z^4 + d X^2 Y^2 with the d of "Starfish on strike" Theorem 5.4, and
\* the extended coordinate satisfies X Y = Z T.
EdwardsOnCurve ==
    ~aborted /\ fn = "MONTYTWED12" /\ coord \in EdwardsCoords /\ (ret = 1 \/ ~wantB)
    /\ Invertible(Z6U(T)) /\ Invertible(EdwardsDenominator(T)) =>
        LET X == P0.x  Y == P0.y  Z == P0.z
        IN  /\ MulM(SubM(SqrM(Y), SqrM(X)), SqrM(Z))
                 = AddM(SqrM(SqrM(Z)), MulM(EdwardsD(T), MulM(SqrM(X), SqrM(Y))))
            /\ coord = "TWISTED_EDWARDS_ext" => MulM(X, Y) = MulM(Z, P0.t)

=============================================================================
