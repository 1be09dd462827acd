-------------------------- MODULE ChanSectionCard --------------------------
(***************************************************************************)
(* The C-channel section card of the 1D structural element               *)
(* (property_cards/solid_1d_chan_section_element_property_card.cpp).     *)
(* DIM1 is the flange width, DIM2 the height, DIM3 the web thickness and  *)
(* DIM4 the flange thickness.  The card's section functions calcA,        *)
(* calcIy, calcIz, calcIp, calcJ and their derivatives calcdA ... calcdJ  *)
(* are operators over exact rationals; init() validates the dimensions    *)
(* and builds the section-property objects, which then evaluate the       *)
(* section functions at the card's dimensions and a parameter direction.  *)
(*                                                                         *)
(* Every number is a dual number <<value, tangent>> of two rationals, so  *)
(* that one transcription of a section function gives both the value the  *)
(* code computes and, in the tangent, the exact derivative of that value  *)
(* along the direction the dimensions were seeded with.  The derivative   *)
(* functions of the code are evaluated with constant (zero-tangent)       *)
(* directions, so only their value part is used.                          *)
(***************************************************************************)
EXTENDS Integers, FiniteSets

CONSTANTS
    DIM1Values,     \* flange widths the card can be configured with
    DIM2Values,     \* heights
    DIM3Values,     \* web thicknesses
    DIM4Values,     \* flange thicknesses
    Directions      \* parameter directions <<dDIM1, dDIM2, dDIM3, dDIM4>>

-----------------------------------------------------------------------------
(* Exact rationals <<numerator, denominator>>, denominator > 0, reduced.  *)

RECURSIVE GCD(_, _)
GCD(a, b) == IF b = 0 THEN a ELSE GCD(b, a % b)

AbsInt(n) == IF n < 0 THEN -n ELSE n

Rat(n, d) ==
    LET g == GCD(AbsInt(n), AbsInt(d))
        s == IF d < 0 THEN -1 ELSE 1
    IN  <<(s * n) \div g, (s * d) \div g>>

RatAdd(p, q) == Rat(p[1] * q[2] + q[1] * p[2], p[2] * q[2])
RatNeg(p)    == <<-p[1], p[2]>>
RatMul(p, q) == Rat(p[1] * q[1], p[2] * q[2])
RatDiv(p, q) == Rat(p[1] * q[2], p[2] * q[1])
RatLess(p, q) == p[1] * q[2] < q[1] * p[2]

(* Dual numbers: the arithmetic of double in the code, with the tangent   *)
(* carried along by the sum, product and quotient rules.                  *)

Const(n) == <<Rat(n, 1), Rat(0, 1)>>
Val(x) == x[1]
Tan(x) == x[2]

x (+) y == <<RatAdd(x[1], y[1]), RatAdd(x[2], y[2])>>
x (-) y == <<RatAdd(x[1], RatNeg(y[1])), RatAdd(x[2], RatNeg(y[2]))>>
x (\X) y == <<RatMul(x[1], y[1]),
              RatAdd(RatMul(x[1], y[2]), RatMul(x[2], y[1]))>>
x (/) y == <<RatDiv(x[1], y[1]),
             RatDiv(RatAdd(RatMul(x[2], y[1]), RatNeg(RatMul(x[1], y[2]))),
                    RatMul(y[1], y[1]))>>

\* pow(x, k) for the integral exponents the card uses
RECURSIVE Pow(_, _)
Pow(x, k) == IF k = 0 THEN Const(1) ELSE x (\X) Pow(x, k - 1)

\* the comparisons of the code read the values only
Greater(x, y) == RatLess(Val(y), Val(x))

-----------------------------------------------------------------------------
(* Section functions of Solid1DChanSectionProperty, term by term as the   *)
(* code writes them (a/1.2E+1 is a (/) Const(12), a*1.0/b is a (/) b).    *)

calcA(DIM1, DIM2, DIM3, DIM4) ==
    DIM2 (\X) DIM3 (+) DIM4 (\X) (DIM1 (-) DIM3) (\X) Const(2)

calcdA(DIM1, DIM2, DIM3, DIM4, dDIM1, dDIM2, dDIM3, dDIM4) ==
    DIM3 (\X) dDIM2 (+) DIM4 (\X) dDIM1 (\X) Const(2)
    (+) dDIM3 (\X) (DIM2 (-) DIM4 (\X) Const(2))
    (+) dDIM4 (\X) (DIM1 (\X) Const(2) (-) DIM3 (\X) Const(2))

\* mutant: the flange term taken at the web height DIM2 - 2 DIM4
calcIzWebHeight(DIM1, DIM2, DIM3, DIM4) ==
    (Pow(DIM2, 3) (\X) DIM3) (/) Const(12)
    (+) (Pow(DIM4, 3) (\X) (DIM1 (-) DIM3)) (/) Const(6)
    (+) (DIM4 (\X) (DIM1 (-) DIM3) (\X) Pow(DIM2 (-) DIM4 (\X) Const(2), 2)) (/) Const(2)

calcIz(DIM1, DIM2, DIM3, DIM4) ==
    (Pow(DIM2, 3) (\X) DIM3) (/) Const(12)
    (+) (Pow(DIM4, 3) (\X) (DIM1 (-) DIM3)) (/) Const(6)
    (+) (DIM4 (\X) (DIM1 (-) DIM3) (\X) Pow(DIM2 (-) DIM4, 2)) (/) Const(2)

calcdIz(DIM1, DIM2, DIM3, DIM4, dDIM1, dDIM2, dDIM3, dDIM4) ==
    (dDIM3 (\X) Pow(DIM2 (-) DIM4 (\X) Const(2), 3)) (/) Const(12)
    (+) dDIM1 (\X) ((DIM4 (\X) Pow(DIM2 (-) DIM4, 2)) (/) Const(2)
                    (+) Pow(DIM4, 3) (/) Const(6))
    (+) dDIM2 (\X) ((Pow(DIM2, 2) (\X) DIM3) (/) Const(4)
                    (+) (DIM4 (\X) (DIM1 (-) DIM3)
                         (\X) (DIM2 (\X) Const(2) (-) DIM4 (\X) Const(2))) (/) Const(2))
    (+) (dDIM4 (\X) (DIM1 (-) DIM3) (\X) Pow(DIM2 (-) DIM4 (\X) Const(2), 2)) (/) Const(2)

calcIy(DIM1, DIM2, DIM3, DIM4) ==
    LET A == DIM2 (\X) DIM3 (+) DIM4 (\X) (DIM1 (-) DIM3) (\X) Const(2)
    IN  (DIM2 (\X) Pow(DIM3, 3)) (/) Const(12)
        (+) (DIM4 (\X) Pow(DIM1 (-) DIM3, 3)) (/) Const(6)
        (+) (Pow(DIM1, 2) (\X) DIM4 (\X) (DIM1 (-) DIM3)) (/) Const(2)
        (-) (Pow(DIM1, 2) (\X) Pow(DIM4, 2) (\X) Pow(DIM1 (-) DIM3, 2)) (/) A

calcdIy(DIM1, DIM2, DIM3, DIM4, dDIM1, dDIM2, dDIM3, dDIM4) ==
    LET A  == DIM2 (\X) DIM3 (+) DIM4 (\X) (DIM1 (-) DIM3) (\X) Const(2)
        \* the dDIM3 and dDIM1 terms write the area as DIM1*DIM4*2+DIM2*DIM3-DIM3*DIM4*2
        A2 == DIM1 (\X) DIM4 (\X) Const(2) (+) DIM2 (\X) DIM3 (-) DIM3 (\X) DIM4 (\X) Const(2)
    IN  dDIM2 (\X) (Pow(DIM3, 3) (/) Const(12)
                    (+) ((Pow(DIM1, 2) (\X) DIM3 (\X) Pow(DIM4, 2)) (/) Pow(A, 2))
                        (\X) Pow(DIM1 (-) DIM3, 2))
        (+) dDIM4 (\X) ((Pow(DIM1, 2) (\X) (DIM1 (-) DIM3)) (/) Const(2)
                        (+) Pow(DIM1 (-) DIM3, 3) (/) Const(6)
                        (-) (Pow(DIM1, 2) (\X) DIM4 (\X) Pow(DIM1 (-) DIM3, 2) (\X) Const(2)) (/) A
                        (+) ((Pow(DIM1, 2) (\X) Pow(DIM4, 2)) (/) Pow(A, 2))
                            (\X) Pow(DIM1 (-) DIM3, 2) (\X) (DIM1 (\X) Const(2) (-) DIM3 (\X) Const(2)))
        (+) (((dDIM3 (\X) (DIM2 (-) DIM4 (\X) Const(2))) (/) Pow(A2, 2))
             (\X) Pow(DIM2 (\X) Pow(DIM3, 2) (-) Pow(DIM1, 2) (\X) DIM4 (\X) Const(2)
                      (-) Pow(DIM3, 2) (\X) DIM4 (\X) Const(2)
                      (+) DIM1 (\X) DIM3 (\X) DIM4 (\X) Const(4), 2)) (/) Const(4)
        (+) (((DIM4 (\X) dDIM1) (/) Pow(A2, 2))
             (\X) Pow(Const(0) (-) DIM2 (\X) Pow(DIM3, 2) (+) Pow(DIM1, 2) (\X) DIM4 (\X) Const(2)
                      (+) Pow(DIM3, 2) (\X) DIM4 (\X) Const(2)
                      (+) DIM1 (\X) DIM2 (\X) DIM3 (\X) Const(2)
                      (-) DIM1 (\X) DIM3 (\X) DIM4 (\X) Const(4), 2)) (/) Const(2)

calcIp(DIM1, DIM2, DIM3, DIM4) ==
    LET A == DIM2 (\X) DIM3 (+) DIM4 (\X) (DIM1 (-) DIM3) (\X) Const(2)
    IN  (DIM2 (\X) Pow(DIM3, 3)) (/) Const(12)
        (+) (Pow(DIM2, 3) (\X) DIM3) (/) Const(12)
        (+) (DIM4 (\X) Pow(DIM1 (-) DIM3, 3)) (/) Const(6)
        (+) (Pow(DIM4, 3) (\X) (DIM1 (-) DIM3)) (/) Const(6)
        (+) (Pow(DIM1, 2) (\X) DIM4 (\X) (DIM1 (-) DIM3)) (/) Const(2)
        (+) (DIM4 (\X) (DIM1 (-) DIM3) (\X) Pow(DIM2 (-) DIM4, 2)) (/) Const(2)
        (-) (Pow(DIM1, 2) (\X) Pow(DIM4, 2) (\X) Pow(DIM1 (-) DIM3, 2)) (/) A

calcdIp(DIM1, DIM2, DIM3, DIM4, dDIM1, dDIM2, dDIM3, dDIM4) ==
    LET A   == DIM2 (\X) DIM3 (+) DIM4 (\X) (DIM1 (-) DIM3) (\X) Const(2)
        \* (DIM1*DIM1)*(DIM4*DIM4)*1.0/pow(A,2.0)*pow(DIM1-DIM3,2.0)
        Sq  == ((Pow(DIM1, 2) (\X) Pow(DIM4, 2)) (/) Pow(A, 2)) (\X) Pow(DIM1 (-) DIM3, 2)
        Twice(x) == x (\X) Const(2)
    IN  dDIM2 (\X) ((Pow(DIM2, 2) (\X) DIM3) (/) Const(4)
                    (+) Pow(DIM3, 3) (/) Const(12)
                    (+) (DIM4 (\X) (DIM1 (-) DIM3) (\X) (Twice(DIM2) (-) Twice(DIM4))) (/) Const(2)
                    (+) ((Pow(DIM1, 2) (\X) DIM3 (\X) Pow(DIM4, 2)) (/) Pow(A, 2))
                        (\X) Pow(DIM1 (-) DIM3, 2))
        (+) dDIM3 (\X) ((DIM2 (\X) Pow(DIM3, 2)) (/) Const(4)
                        (-) (Pow(DIM1, 2) (\X) DIM4) (/) Const(2)
                        (-) (DIM4 (\X) Pow(DIM1 (-) DIM3, 2)) (/) Const(2)
                        (-) (DIM4 (\X) Pow(DIM2 (-) DIM4, 2)) (/) Const(2)
                        (+) Pow(DIM2, 3) (/) Const(12)
                        (-) Pow(DIM4, 3) (/) Const(6)
                        (+) (Pow(DIM1, 2) (\X) Pow(DIM4, 2) (\X) (Twice(DIM1) (-) Twice(DIM3))) (/) A
                        (+) Sq (\X) (DIM2 (-) Twice(DIM4)))
        (+) dDIM1 (\X) ((Pow(DIM1, 2) (\X) DIM4) (/) Const(2)
                        (+) (DIM4 (\X) Pow(DIM1 (-) DIM3, 2)) (/) Const(2)
                        (+) (DIM4 (\X) Pow(DIM2 (-) DIM4, 2)) (/) Const(2)
                        (+) Pow(DIM4, 3) (/) Const(6)
                        (+) DIM1 (\X) DIM4 (\X) (DIM1 (-) DIM3)
                        (-) (DIM1 (\X) Pow(DIM4, 2) (\X) Pow(DIM1 (-) DIM3, 2) (\X) Const(2)) (/) A
                        (-) (Pow(DIM1, 2) (\X) Pow(DIM4, 2) (\X) (Twice(DIM1) (-) Twice(DIM3))) (/) A
                        (+) ((Pow(DIM1, 2) (\X) Pow(DIM4, 3)) (/) Pow(A, 2))
                            (\X) Pow(DIM1 (-) DIM3, 2) (\X) Const(2))
        (+) dDIM4 (\X) ((Pow(DIM1, 2) (\X) (DIM1 (-) DIM3)) (/) Const(2)
                        (+) (Pow(DIM4, 2) (\X) (DIM1 (-) DIM3)) (/) Const(2)
                        (+) ((DIM1 (-) DIM3) (\X) Pow(DIM2 (-) DIM4, 2)) (/) Const(2)
                        (+) Pow(DIM1 (-) DIM3, 3) (/) Const(6)
                        (-) (DIM4 (\X) (DIM1 (-) DIM3) (\X) (Twice(DIM2) (-) Twice(DIM4))) (/) Const(2)
                        (-) (Pow(DIM1, 2) (\X) DIM4 (\X) Pow(DIM1 (-) DIM3, 2) (\X) Const(2)) (/) A
                        (+) Sq (\X) (Twice(DIM1) (-) Twice(DIM3)))

\* the torsion constant of a flange (_f) or of the web (_w) as a thin
\* rectangle whose long side is the width (1) or the thickness (2)
calcJ1_f(DIM1, DIM2, DIM3, DIM4) == DIM1 (\X) Pow(DIM4, 3)
calcdJ1_f(DIM1, DIM2, DIM3, DIM4, dDIM1, dDIM2, dDIM3, dDIM4) ==
    Pow(DIM4, 3) (\X) dDIM1 (+) DIM1 (\X) Pow(DIM4, 2) (\X) dDIM4 (\X) Const(3)
calcJ2_f(DIM1, DIM2, DIM3, DIM4) == Pow(DIM1, 3) (\X) DIM4
calcdJ2_f(DIM1, DIM2, DIM3, DIM4, dDIM1, dDIM2, dDIM3, dDIM4) ==
    Pow(DIM1, 3) (\X) dDIM4 (+) Pow(DIM1, 2) (\X) DIM4 (\X) dDIM1 (\X) Const(3)
calcJ1_w(DIM1, DIM2, DIM3, DIM4) == Pow(DIM3, 3) (\X) (DIM2 (-) DIM4 (\X) Const(2))
calcdJ1_w(DIM1, DIM2, DIM3, DIM4, dDIM1, dDIM2, dDIM3, dDIM4) ==
    Pow(DIM3, 3) (\X) dDIM2 (-) Pow(DIM3, 3) (\X) dDIM4 (\X) Const(2)
    (+) Pow(DIM3, 2) (\X) dDIM3 (\X) (DIM2 (-) DIM4 (\X) Const(2)) (\X) Const(3)
calcJ2_w(DIM1, DIM2, DIM3, DIM4) == DIM3 (\X) Pow(DIM2 (-) DIM4 (\X) Const(2), 3)
\* mutant: the chain-rule factor 2 of h_w = DIM2 - 2 DIM4 dropped
calcdJ2_wNoChain(DIM1, DIM2, DIM3, DIM4, dDIM1, dDIM2, dDIM3, dDIM4) ==
    Pow(DIM2 (-) DIM4 (\X) Const(2), 2)
    (\X) (DIM2 (\X) dDIM3 (+) DIM3 (\X) dDIM2 (\X) Const(3)
          (-) DIM3 (\X) dDIM4 (\X) Const(3) (-) DIM4 (\X) dDIM3 (\X) Const(2))
calcdJ2_w(DIM1, DIM2, DIM3, DIM4, dDIM1, dDIM2, dDIM3, dDIM4) ==
    Pow(DIM2 (-) DIM4 (\X) Const(2), 2)
    (\X) (DIM2 (\X) dDIM3 (+) DIM3 (\X) dDIM2 (\X) Const(3)
          (-) DIM3 (\X) dDIM4 (\X) Const(6) (-) DIM4 (\X) dDIM3 (\X) Const(2))

\* calck1_f, calck2_f, calck1_w and calck2_w all return 1/3; their
\* derivatives calcdk... return 0
calck == Const(1) (/) Const(3)
calcdk == Const(0)

(* calcJ and calcdJ.  For 0.5 < t_w/t_f < 1 the code adds the El Darwish  *)
(* and Johnson correction c = calcJc, dc = calcdJc: a closed form in      *)
(* sqrt(2) and sqrt(DIM3*DIM4) with decimal coefficients that no exact    *)
(* rational represents.  In that branch the torsion constant is kept as  *)
(* its sum of rectangles and marked corrected; the checks that read J     *)
(* exclude it.  (There k_f = k_w = 0.3333333333333333, the double nearest *)
(* to 1/3, as calck returns.)                                            *)

ElDarwish(DIM1, DIM2, DIM3, DIM4) ==
    LET wf == DIM3 (/) DIM4    \* t_w / t_f
    IN  Greater(wf, Const(1) (/) Const(2)) /\ Greater(Const(1), wf)

\* w_f > t_f and h_w > t_w pick the long side of each rectangle
FlangeWide(DIM1, DIM2, DIM3, DIM4) == Greater(DIM1, DIM4)
WebTall(DIM1, DIM2, DIM3, DIM4)    == Greater(DIM2 (-) Const(2) (\X) DIM4, DIM3)

calcJ(DIM1, DIM2, DIM3, DIM4) ==
    LET J_f == IF FlangeWide(DIM1, DIM2, DIM3, DIM4)
               THEN calcJ1_f(DIM1, DIM2, DIM3, DIM4) ELSE calcJ2_f(DIM1, DIM2, DIM3, DIM4)
        J_w == IF WebTall(DIM1, DIM2, DIM3, DIM4)
               THEN calcJ1_w(DIM1, DIM2, DIM3, DIM4) ELSE calcJ2_w(DIM1, DIM2, DIM3, DIM4)
    IN  [corrected |-> ElDarwish(DIM1, DIM2, DIM3, DIM4),
         rect      |-> Const(2) (\X) calck (\X) J_f (+) calck (\X) J_w]

calcdJ(DIM1, DIM2, DIM3, DIM4, dDIM1, dDIM2, dDIM3, dDIM4) ==
    LET wide == FlangeWide(DIM1, DIM2, DIM3, DIM4)
        tall == WebTall(DIM1, DIM2, DIM3, DIM4)
        J_f  == IF wide THEN calcJ1_f(DIM1, DIM2, DIM3, DIM4)
                       ELSE calcJ2_f(DIM1, DIM2, DIM3, DIM4)
        dJ_f == IF wide THEN calcdJ1_f(DIM1, DIM2, DIM3, DIM4, dDIM1, dDIM2, dDIM3, dDIM4)
                       ELSE calcdJ2_f(DIM1, DIM2, DIM3, DIM4, dDIM1, dDIM2, dDIM3, dDIM4)
        J_w  == IF tall THEN calcJ1_w(DIM1, DIM2, DIM3, DIM4)
                       ELSE calcJ2_w(DIM1, DIM2, DIM3, DIM4)
        dJ_w == IF tall THEN calcdJ1_w(DIM1, DIM2, DIM3, DIM4, dDIM1, dDIM2, dDIM3, dDIM4)
                       ELSE calcdJ2_w(DIM1, DIM2, DIM3, DIM4, dDIM1, dDIM2, dDIM3, dDIM4)
    IN  [corrected |-> ElDarwish(DIM1, DIM2, DIM3, DIM4),
         rect      |-> Const(2) (\X) (calcdk (\X) J_f (+) calck (\X) dJ_f)
                       (+) calcdk (\X) J_w (+) calck (\X) dJ_w]

-----------------------------------------------------------------------------
(* Reference: the channel as three rectangles, the web [0,DIM3]x[0,DIM2]  *)
(* and the flanges [DIM3,DIM1]x[0,DIM4] and [DIM3,DIM1]x[DIM2-DIM4,DIM2]; *)
(* x runs along the flange width, y along the height.  The second moments  *)
(* about the centroid are S_xx - S_x^2/A (Iy) and S_yy - S_y^2/A (Iz).     *)

ChannelParts(d) ==
    << [x0 |-> 0,    x1 |-> d[3], y0 |-> 0,           y1 |-> d[2]],
       [x0 |-> d[3], x1 |-> d[1], y0 |-> 0,           y1 |-> d[4]],
       [x0 |-> d[3], x1 |-> d[1], y0 |-> d[2] - d[4], y1 |-> d[2]] >>

RectMoments(r) ==
    LET w == r.x1 - r.x0
        h == r.y1 - r.y0
    IN  [a   |-> Rat(w * h, 1),
         sx  |-> Rat((r.x1^2 - r.x0^2) * h, 2),
         sy  |-> Rat((r.y1^2 - r.y0^2) * w, 2),
         sxx |-> Rat((r.x1^3 - r.x0^3) * h, 3),
         syy |-> Rat((r.y1^3 - r.y0^3) * w, 3)]

ChannelMoments(d) ==
    LET m == [i \in 1..3 |-> RectMoments(ChannelParts(d)[i])]
    IN  [k \in {"a", "sx", "sy", "sxx", "syy"} |->
            RatAdd(RatAdd(m[1][k], m[2][k]), m[3][k])]

Centroidal(second, first, area) == RatAdd(second, RatNeg(RatDiv(RatMul(first, first), area)))

-----------------------------------------------------------------------------
(* init(): the checks of lines 273-290, in the order of the else-if chain *)

InitMessages == <<"DIM1<=0", "DIM2<=0", "DIM3<=0", "DIM4<=0",
                  "2.0*DIM4>=DIM2", "DIM3>=DIM1">>

InitChecks(d) == <<d[1] <= 0, d[2] <= 0, d[3] <= 0, d[4] <= 0,
                   2 * d[4] >= d[2], d[3] >= d[1]>>

NoError == "none"

\* libmesh_error_msg of the first check that fails, or none
FirstFailure(d) ==
    LET failing == {i \in 1..6 : InitChecks(d)[i]}
    IN  IF failing = {} THEN NoError
        ELSE InitMessages[CHOOSE i \in failing : \A j \in failing : i <= j]

None == [none |-> TRUE]

VARIABLES
    dims,         \* the values of the card's DIM1..DIM4 field functions
    debugBuild,   \* whether libmesh_assert is compiled in
    initialized,  \* _initialized
    error,        \* the libmesh_error_msg init threw, or NoError
    aborted,      \* a libmesh_assert failed
    last          \* the last evaluation through the section-property objects

vars == <<dims, debugBuild, initialized, error, aborted, last>>

Init ==
    /\ dims \in DIM1Values \X DIM2Values \X DIM3Values \X DIM4Values
    /\ debugBuild \in BOOLEAN
    /\ initialized = FALSE
    /\ error = NoError
    /\ aborted = FALSE
    /\ last = None

\* init() on an initialized card: libmesh_assert(!_initialized) aborts
InitAsserts ==
    /\ error = NoError /\ ~aborted
    /\ initialized /\ debugBuild
    /\ aborted' = TRUE
    /\ UNCHANGED <<dims, debugBuild, initialized, error, last>>

\* init() whose validation throws: _initialized stays as it was
InitRejects ==
    /\ error = NoError /\ ~aborted
    /\ ~(initialized /\ debugBuild)
    /\ FirstFailure(dims) # NoError
    /\ error' = FirstFailure(dims)
    /\ UNCHANGED <<dims, debugBuild, initialized, aborted, last>>

\* init() whose validation passes: the six section-property objects are
\* (re)built over the field functions and _initialized is set; a release
\* build reaches this also on a second call
InitBuilds ==
    /\ error = NoError /\ ~aborted
    /\ ~(initialized /\ debugBuild)
    /\ FirstFailure(dims) = NoError
    /\ initialized' = TRUE
    /\ UNCHANGED <<dims, debugBuild, error, aborted, last>>

\* the dimensions seeded with the direction s, and s as constants
Seeded(d, s) == [i \in 1..4 |-> <<Rat(d[i], 1), Rat(s[i], 1)>>]
Dir(s) == [i \in 1..4 |-> Const(s[i])]

\* what the objects init built compute: the section functions at the
\* current dimensions and their derivatives along the direction s
Evaluation(d, s) ==
    LET X  == Seeded(d, s)
        dX == Dir(s)
        J  == calcJ(X[1], X[2], X[3], X[4])
        dJ == calcdJ(X[1], X[2], X[3], X[4], dX[1], dX[2], dX[3], dX[4])
    IN  [dir |-> s,
         A   |-> Val(calcA(X[1], X[2], X[3], X[4])),
         dA  |-> Val(calcdA(X[1], X[2], X[3], X[4], dX[1], dX[2], dX[3], dX[4])),
         Iy  |-> Val(calcIy(X[1], X[2], X[3], X[4])),
         dIy |-> Val(calcdIy(X[1], X[2], X[3], X[4], dX[1], dX[2], dX[3], dX[4])),
         Iz  |-> Val(calcIz(X[1], X[2], X[3], X[4])),
         dIz |-> Val(calcdIz(X[1], X[2], X[3], X[4], dX[1], dX[2], dX[3], dX[4])),
         Ip  |-> Val(calcIp(X[1], X[2], X[3], X[4])),
         dIp |-> Val(calcdIp(X[1], X[2], X[3], X[4], dX[1], dX[2], dX[3], dX[4])),
         J   |-> [corrected |-> J.corrected, rect |-> Val(J.rect)],
         dJ  |-> [corrected |-> dJ.corrected, rect |-> Val(dJ.rect)]]

\* a section property evaluated through the objects init built
Evaluate ==
    /\ initialized /\ ~aborted
    /\ \E s \in Directions : last' = Evaluation(dims, s)
    /\ UNCHANGED <<dims, debugBuild, initialized, error, aborted>>

Next ==
    \/ InitAsserts
    \/ InitRejects
    \/ InitBuilds
    \/ Evaluate

Spec == Init /\ [][Next]_vars

-----------------------------------------------------------------------------
(* Properties                                                              *)

\* The area and the inertias calcA, calcIy, calcIz and calcIp hand out are
\* those of the three rectangles the channel is made of, about its centroid
\* (calcIy holds the shift of the centroid along the flanges as the term
\* divided by the area; Ip = Iy + Iz).
SectionMatchesGeometry ==
    last # None =>
        LET m  == ChannelMoments(dims)
            Iy == Centroidal(m.sxx, m.sx, m.a)
            Iz == Centroidal(m.syy, m.sy, m.a)
        IN  /\ last.A = m.a
            /\ last.Iy = Iy
            /\ last.Iz = Iz
            /\ last.Ip = RatAdd(Iy, Iz)

\* The hand-expanded derivatives calcdA, calcdIy, calcdIz, calcdIp and calcdJ
\* are, in every direction of the parameter, the exact derivatives of the
\* section functions they stand beside (calcdJ where the El Darwish
\* correction is not applied); a sensitivity analysis over the card's
\* dimensions reads these values.
SectionSensitivityConsistent ==
    last # None =>
        LET X == Seeded(dims, last.dir)
        IN  /\ last.dA  = Tan(calcA(X[1], X[2], X[3], X[4]))
            /\ last.dIy = Tan(calcIy(X[1], X[2], X[3], X[4]))
            /\ last.dIz = Tan(calcIz(X[1], X[2], X[3], X[4]))
            /\ last.dIp = Tan(calcIp(X[1], X[2], X[3], X[4]))
            /\ ~last.J.corrected =>
                   last.dJ.rect = Tan(calcJ(X[1], X[2], X[3], X[4]).rect)

====
