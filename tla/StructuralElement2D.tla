------------------------- MODULE StructuralElement2D -------------------------
(***************************************************************************)
(* The 2D structural element of MAST (elasticity/structural_element_2d.cpp):*)
(* the per-quadrature-point residual/Jacobian kernel and the load-case     *)
(* assemblers, built on the strain operators of StrainOperators2D, for    *)
(* one element whose context (solution and solution sensitivity) is set   *)
(* by the assembly driver and whose results are accumulated into          *)
(* caller-owned buffers.                                                   *)
(*                                                                         *)
(* Numbers.  Every Real of the code is an exact multiple of 1/2 when the   *)
(* inputs (shape-function gradients, weights JxW, material matrices,      *)
(* degrees of freedom) are integers: the only division is the 1/2 of the  *)
(* von Karman strain.  The model therefore counts every strain, stress,   *)
(* force and stiffness in halves: the integer n stands for n/2.  Inputs   *)
(* and the gradients dw/dx, dw/dy stay plain integers; InHalves converts  *)
(* a plain integer quantity to the half count.  The arithmetic is exact.  *)
(*                                                                         *)
(* The element is constructed with _Tmat = Identity(3,3) (line 47), so the *)
(* transformation to the global system is the identity here.             *)
(***************************************************************************)
EXTENDS Integers, StrainOperators2D

CONSTANTS
    NQp,          \* number of quadrature points of the element FE
    JxW,          \* JxW[qp], quadrature weight times Jacobian
    MatA, MatB, MatD,     \* section stiffness A, B, D (3x3) at each qp
    DMatA, DMatB, DMatD,  \* their derivatives w.r.t. the parameter p
    BendOp,       \* BendOp[qp]: bending strain operator (3 x n2) of the
                  \* bending-operator collaborator
    IfBending,    \* bending_model(...) != NO_BENDING
    IfVk,         \* strain_type() == VON_KARMAN_STRAIN
    DependsOnP,   \* _property.depends_on(p)
    DrillPenalty, \* the 1.0e-8 put on the theta_z diagonal, in halves
    IfPrestressed,        \* _property.if_prestressed()
    PreA, PreB,   \* prestress A and B matrices (2x2), a uniform field
    DPreA, DPreB, \* their derivatives w.r.t. p
    ExpA, ExpB,   \* thermal expansion A and B matrices (3x1, as 3-vectors)
    DExpA, DExpB, \* their derivatives w.r.t. p
    Temp, RefTemp,        \* "temperature", "ref_temperature" (uniform)
    DTemp, DRefTemp,      \* their derivatives w.r.t. p
    SideNQp,      \* number of quadrature points of the loaded side
    SidePhi,      \* SidePhi[i_nd][qp]: side shape function values
    SideJxW,      \* SideJxW[qp]
    SideNormal,   \* SideNormal[qp]: outward normal, a 3-vector
    Press, Thick, \* "pressure" of the boundary condition and "h" (uniform)
    DPress, DThick,       \* their derivatives w.r.t. p
    Solutions,    \* degree-of-freedom vectors the driver may set
    Sensitivities,\* solution-sensitivity vectors the driver may set
    MaxCalls      \* bound on the entry-point calls of one assembly pass

QPs == Idx(NQp)

VARIABLES
    local_sol,       \* _local_sol
    local_sol_sens,  \* _local_sol_sens
    f,               \* caller-owned residual accumulator (halves)
    jac,             \* caller-owned Jacobian accumulator (halves)
    last,            \* the last entry point called, what it returned, and
                     \* whether it added to jac
    ncalls           \* entry-point calls since the caller zeroed f and jac

vars == <<local_sol, local_sol_sens, f, jac, last, ncalls>>

-----------------------------------------------------------------------------
(* _internal_residual_operation: the contribution of one quadrature point *)
(* to local_f and local_jac, for the solution x and stiffness A, B, D.     *)

\* mutant: the membrane - bending block not added
BendingJacobianBlocksNoMemBend(Bmem, Bbend, B, D) ==
    MatAdd(Block(Bbend, Transpose(B), Bmem), Block(Bbend, D, Bbend))

\* Jacobian blocks of the bending strain: bending - membrane,
\* membrane - bending, bending - bending
BendingJacobianBlocks(Bmem, Bbend, B, D) ==
    MatAdd(MatAdd(Block(Bbend, Transpose(B), Bmem), Block(Bmem, B, Bbend)),
           Block(Bbend, D, Bbend))

\* Jacobian blocks of the von Karman strain apart from the stress term:
\* membrane - vk, vk - membrane, vk - vk, bending - vk, vk - bending
VonKarmanJacobianBlocks(Bmem, Bbend, Bvk, vkd, A, B) ==
    LET vkdT == Transpose(vkd)
    IN  MatAdd(MatAdd(MatAdd(Block(Bmem, MatMul(A, vkd), Bvk),
                             Block(Bvk, MatMul(vkdT, A), Bmem)),
                      MatAdd(Block(Bvk, MatMul(MatMul(vkdT, A), vkd), Bvk),
                             Block(Bbend, MatMul(Transpose(B), vkd), Bvk))),
               Block(Bvk, MatMul(vkdT, B), Bbend))

InternalResidualOperation(qp, x, A, B, D, request_jacobian) ==
    LET Bmem   == DirectStrainOperator(qp)
        Bbend  == BendOp[qp]
        vk     == VonKarmanStrainOperator(qp, x)
        Bvk    == vk.Bmat
        ifVk   == IfBending /\ IfVk
        epsMem == InHalves(VectorMult(Bmem, x))
        kappa  == InHalves(VectorMult(Bbend, x))
        epsVk  == IF ifVk THEN vk.strain ELSE ZeroVector(3)
        \* total membrane stress: A eps_mem (+ B kappa + A eps_vk)
        stress == IF IfBending
                  THEN VecAdd(VecAdd(MatVec(A, epsMem), MatVec(B, kappa)),
                              MatVec(A, epsVk))
                  ELSE MatVec(A, epsMem)
        fMem   == VectorMultTranspose(Bmem, stress)
        fVk    == VectorMultTranspose(Bvk, MatVec(Transpose(vk.dwdxi), stress))
        fBend  == VecAdd(VectorMultTranspose(Bbend,
                            MatVec(Transpose(B), VecAdd(epsMem, epsVk))),
                         VectorMultTranspose(Bbend, MatVec(D, kappa)))
        fq     == IF ~IfBending THEN fMem
                  ELSE IF ifVk THEN VecAdd(VecAdd(fMem, fVk), fBend)
                  ELSE VecAdd(fMem, fBend)
        vkd    == vk.dwdxi
        jLinear == BendingJacobianBlocks(Bmem, Bbend, B, D)
        jVk    == VonKarmanJacobianBlocks(Bmem, Bbend, Bvk, vkd, A, B)
        jPlain == IF ~IfBending THEN Block(Bmem, A, Bmem)
                  ELSE IF ifVk THEN MatAdd(MatAdd(Block(Bmem, A, Bmem), jLinear), jVk)
                  ELSE MatAdd(Block(Bmem, A, Bmem), jLinear)
        \* vk - vk with the total stress, already counted in halves
        jq     == IF ifVk THEN MatAdd(MatInHalves(jPlain),
                                      Block(Bvk, StressMatrix(stress), Bvk))
                  ELSE MatInHalves(jPlain)
    IN  [f   |-> VecScale(JxW[qp], fq),
         jac |-> IF request_jacobian THEN MatScale(JxW[qp], jq) ELSE ZeroMatrix(N2, N2)]

\* local_jac(5*n_phi+i, 5*n_phi+i) = 1.0e-8 for the theta_z dofs (assignment)
DrillingStabilized(M) ==
    [r \in DOMAIN M |-> [c \in DOMAIN M[r] |->
        IF r = c /\ r \in {5 * NPhi + i : i \in Idx(NPhi)} THEN DrillPenalty ELSE M[r][c]]]

\* internal_residual: the force and, if requested, the stabilised tangent
InternalResidual(x, request_jacobian) ==
    LET local_f   == QpVecSum([qp \in QPs |-> InternalResidualOperation(qp, x, MatA[qp], MatB[qp], MatD[qp], FALSE).f])
        local_jac == QpMatSum([qp \in QPs |-> InternalResidualOperation(qp, x, MatA[qp], MatB[qp], MatD[qp], TRUE).jac])
    IN  [f   |-> local_f,
         jac |-> IF request_jacobian THEN DrillingStabilized(local_jac) ELSE ZeroMatrix(N2, N2),
         ret |-> request_jacobian]

\* internal_residual_sensitivity: the same kernel driven by dA/dp, dB/dp,
\* dD/dp; no contribution if the property does not depend on p
InternalResidualSensitivity(x, request_jacobian) ==
    IF ~DependsOnP
    THEN [f |-> ZeroVector(N2), jac |-> ZeroMatrix(N2, N2), ret |-> FALSE]
    ELSE [f   |-> QpVecSum([qp \in QPs |-> InternalResidualOperation(qp, x, DMatA[qp], DMatB[qp], DMatD[qp], FALSE).f]),
          jac |-> IF request_jacobian
                  THEN QpMatSum([qp \in QPs |-> InternalResidualOperation(qp, x, DMatA[qp], DMatB[qp], DMatD[qp], TRUE).jac])
                  ELSE ZeroMatrix(N2, N2),
          ret |-> request_jacobian]

\* one quadrature point of internal_residual_jac_dot_state_sensitivity:
\* the derivative of the tangent along the solution sensitivity s.
\* Bmat_bend and Bmat_vk stay as reinit left them (zero) without bending.
JacDotStateOperation(qp, x, s) ==
    LET A      == MatA[qp]
        B      == MatB[qp]
        Bmem   == DirectStrainOperator(qp)
        Bbend  == IF IfBending THEN BendOp[qp] ELSE Reinit(3, NVars, NPhi)
        vk     == VonKarmanStrainOperator(qp, x)
        Bvk    == IF IfBending THEN vk.Bmat ELSE Reinit(2, NVars, NPhi)
        vkd    == IF IfBending THEN vk.dwdxi ELSE ZeroMatrix(3, 2)
        vks    == IF IfBending THEN VonKarmanStrainOperatorSensitivity(qp, s)
                  ELSE ZeroMatrix(3, 2)
        \* sensitivity of the von Karman strain: dw/dx dws/dx, ...
        dvk    == <<vkd[0][0] * vks[0][0], vkd[1][1] * vks[1][1],
                    vkd[0][0] * vks[1][1] + vkd[1][1] * vks[0][0]>>
        dvkv   == [i \in Idx(3) |-> dvk[i + 1]]
        dstress == IF IfBending
                   THEN VecAdd(VecAdd(MatVec(A, VectorMult(Bmem, s)),
                                      MatVec(B, VectorMult(Bbend, s))),
                               MatVec(A, dvkv))
                   ELSE MatVec(A, VectorMult(Bmem, s))
        vksT   == Transpose(vks)
        blocks == MatAdd(MatAdd(MatAdd(
                     Block(Bvk, MatMul(vksT, A), Bmem),                       \* vk - membrane
                     Block(Bvk, MatMul(vksT, B), Bbend)),                     \* vk - bending
                     MatAdd(Block(Bvk, MatMul(MatMul(vksT, A), vkd), Bvk),    \* vk - vk
                            Block(Bvk, MatMul(MatMul(Transpose(vkd), A), vks), Bvk))),
                     MatAdd(Block(Bmem, MatMul(A, vks), Bvk),                 \* membrane - vk
                            Block(Bbend, MatMul(Transpose(B), vks), Bvk)))    \* bending - vk
    IN  MatScale(JxW[qp], MatAdd(MatInHalves(blocks),
                                 Block(Bvk, StressMatrix(InHalves(dstress)), Bvk)))

\* internal_residual_jac_dot_state_sensitivity: zero, and FALSE, without
\* the von Karman strain
JacDotStateSensitivity(x, s) ==
    IF ~IfVk
    THEN [jac |-> ZeroMatrix(N2, N2), ret |-> FALSE]
    ELSE [jac |-> QpMatSum([qp \in QPs |-> JacDotStateOperation(qp, x, s)]), ret |-> TRUE]

-----------------------------------------------------------------------------
(* Prestress and thermal loads: a prescribed membrane stress sA (with its *)
(* 2x2 matrix form SA) and bending stress resultant sB, constant in the    *)
(* solution, against the membrane, von Karman and bending strains.         *)

\* _convert_prestress_A_mat_to_vector / _B_: {sigma_x, sigma_y, tau_xy}
PrestressVector(M) == [i \in Idx(3) |-> CASE i = 0 -> M[0][0]
                                          [] i = 1 -> M[1][1]
                                          [] i = 2 -> M[0][1]]

\* one quadrature point of the loop of prestress_residual (and, with the
\* expansion stresses, thermal_residual): local_f and local_jac
StressLoadOperation(qp, x, sA, SA, sB, request_jacobian) ==
    LET Bmem  == DirectStrainOperator(qp)
        vk    == VonKarmanStrainOperator(qp, x)
        fMem  == VectorMultTranspose(Bmem, sA)
        fVk   == VectorMultTranspose(vk.Bmat, MatVec(Transpose(vk.dwdxi), sA))
        fBend == VectorMultTranspose(BendOp[qp], sB)
        fq    == IF ~IfBending THEN fMem
                 ELSE IF IfVk THEN VecAdd(VecAdd(fMem, fVk), fBend)
                 ELSE VecAdd(fMem, fBend)
    IN  [f   |-> VecScale(JxW[qp], fq),
         jac |-> IF request_jacobian /\ IfBending /\ IfVk
                 THEN MatScale(JxW[qp], Block(vk.Bmat, SA, vk.Bmat))
                 ELSE ZeroMatrix(N2, N2)]

\* the quadrature loop; local_jac is added by the caller only if
\* request_jacobian && if_vk
StressLoad(x, sA, SA, sB, request_jacobian) ==
    [f   |-> InHalves(QpVecSum([qp \in QPs |-> StressLoadOperation(qp, x, sA, SA, sB, request_jacobian).f])),
     jac |-> MatInHalves(QpMatSum([qp \in QPs |-> StressLoadOperation(qp, x, sA, SA, sB, request_jacobian).jac]))]

NoContribution == [f |-> ZeroVector(N2), jac |-> ZeroMatrix(N2, N2), ret |-> FALSE]

\* prestress_residual with the prestress matrices PA, PB: f += local_f;
\* returns request_jacobian
PrestressResidualWith(x, PA, PB, request_jacobian) ==
    IF ~IfPrestressed THEN NoContribution
    ELSE LET r == StressLoad(x, PrestressVector(PA), PA, PrestressVector(PB), request_jacobian)
         IN  [f |-> r.f, jac |-> r.jac, ret |-> request_jacobian]

PrestressResidual(x, request_jacobian) ==
    PrestressResidualWith(x, PreA, PreB, request_jacobian)

\* prestress_residual_sensitivity: the same with the derivatives of the
\* prestress matrices
PrestressResidualSensitivity(x, request_jacobian) ==
    PrestressResidualWith(x, DPreA, DPreB, request_jacobian)

\* mutant: jac += local_jac where the code subtracts
ThermalResidualWithJacAdded(x, EA, EB, dT, request_jacobian) ==
    LET sA == VecScale(dT, EA)
        r  == StressLoad(x, sA, StressMatrix(sA), VecScale(dT, EB), request_jacobian)
    IN  [f |-> VecScale(-1, r.f), jac |-> r.jac, ret |-> request_jacobian]

\* thermal_residual with expansion matrices EA, EB and temperature rise dT:
\* stress [C]{alpha (T - T0)}; f -= local_f, jac -= local_jac
ThermalResidualWith(x, EA, EB, dT, request_jacobian) ==
    LET sA == VecScale(dT, EA)
        r  == StressLoad(x, sA, StressMatrix(sA), VecScale(dT, EB), request_jacobian)
    IN  [f |-> VecScale(-1, r.f), jac |-> MatScale(-1, r.jac), ret |-> request_jacobian]

ThermalResidual(x, request_jacobian) ==
    ThermalResidualWith(x, ExpA, ExpB, Temp - RefTemp, request_jacobian)

\* mutant: the membrane stress without vec1_n1 += vec2_n1 (no d[C]alpha/dp)
ThermalResidualSensitivityNoExpSens(x, request_jacobian) ==
    LET dT  == Temp - RefTemp
        sA  == VecScale(DTemp, ExpA)
        r   == StressLoad(x, sA, StressMatrix(sA),
                          VecAdd(VecScale(DTemp, ExpB), VecScale(dT, DExpB)), request_jacobian)
    IN  [f |-> VecScale(-1, r.f), jac |-> MatScale(-1, r.jac), ret |-> request_jacobian]

\* thermal_residual_sensitivity: the stresses [C]{alpha} dT/dp +
\* d([C]{alpha})/dp (T - T0), with delta_t_sens(0) = t_sens
ThermalResidualSensitivity(x, request_jacobian) ==
    LET dT  == Temp - RefTemp
        sA  == VecAdd(VecScale(DTemp, ExpA), VecScale(dT, DExpA))
        r   == StressLoad(x, sA, StressMatrix(sA),
                          VecAdd(VecScale(DTemp, ExpB), VecScale(dT, DExpB)), request_jacobian)
    IN  [f |-> VecScale(-1, r.f), jac |-> MatScale(-1, r.jac), ret |-> request_jacobian]

-----------------------------------------------------------------------------
(* Surface pressure on a side: f -= sum JxW B^T {press*t*n, 0, 0, 0}, B   *)
(* the 6-row operator of the side shape functions.  No Jacobian.          *)

SurfacePressureWith(pt) ==
    LET Fq(qp) == LET B     == ReinitDiagonal(6, [i \in Idx(NPhi) |-> SidePhi[i][qp]])
                      force == [i \in Idx(6) |-> IF i < 3 THEN pt * SideNormal[qp][i] ELSE 0]
                  IN  VecScale(SideJxW[qp], VectorMultTranspose(B, force))
        acc[k \in -1..(SideNQp - 1)] == IF k < 0 THEN ZeroVector(N2) ELSE VecAdd(acc[k - 1], Fq(k))
    IN  VecScale(-1, InHalves(acc[SideNQp - 1]))

\* surface_pressure_residual: force press*t_val*normal; returns request_jacobian
SurfacePressureResidual(request_jacobian) ==
    [f |-> SurfacePressureWith(Press * Thick), jac |-> ZeroMatrix(N2, N2), ret |-> request_jacobian]

\* surface_pressure_residual_sensitivity: (press*dt_val + dpress*t_val)*normal
SurfacePressureResidualSensitivity(request_jacobian) ==
    [f |-> SurfacePressureWith(Press * DThick + DPress * Thick),
     jac |-> ZeroMatrix(N2, N2), ret |-> request_jacobian]

-----------------------------------------------------------------------------
(* The element as the assembly driver sees it.  The driver sets the       *)
(* element context, zeroes its buffers before a pass, and calls entry      *)
(* points that accumulate into them (spec section 6).                      *)

NoCall == [call |-> "none", ret |-> FALSE, jacAdded |-> FALSE]

Init ==
    /\ local_sol \in Solutions
    /\ local_sol_sens \in Sensitivities
    /\ f = ZeroVector(N2)
    /\ jac = ZeroMatrix(N2, N2)
    /\ last = NoCall
    /\ ncalls = 0

\* set_solution / set_solution_sensitivity of the element base class
SetSolution(u) ==
    /\ local_sol' = u
    /\ UNCHANGED <<local_sol_sens, f, jac, last, ncalls>>

SetSolutionSensitivity(s) ==
    /\ local_sol_sens' = s
    /\ UNCHANGED <<local_sol, f, jac, last, ncalls>>

\* the caller zero-initialises its accumulators before a pass
ZeroAccumulators ==
    /\ f' = ZeroVector(N2)
    /\ jac' = ZeroMatrix(N2, N2)
    /\ last' = NoCall
    /\ ncalls' = 0
    /\ UNCHANGED <<local_sol, local_sol_sens>>

\* an entry point named name that returned r = [f, jac, ret]:
\* f += r.f, and jac += r.jac when the code adds its local Jacobian
Accumulate(name, r, addsJac) ==
    /\ ncalls < MaxCalls
    /\ f' = VecAdd(f, r.f)
    /\ jac' = IF addsJac THEN MatAdd(jac, r.jac) ELSE jac
    /\ last' = [call |-> name, ret |-> r.ret, jacAdded |-> addsJac]
    /\ ncalls' = ncalls + 1
    /\ UNCHANGED <<local_sol, local_sol_sens>>

CallInternalResidual(request_jacobian) ==
    Accumulate("internal_residual", InternalResidual(local_sol, request_jacobian),
               request_jacobian)

CallInternalResidualSensitivity(request_jacobian) ==
    Accumulate("internal_residual_sensitivity",
               InternalResidualSensitivity(local_sol, request_jacobian),
               DependsOnP /\ request_jacobian)

CallJacDotStateSensitivity ==
    LET r == JacDotStateSensitivity(local_sol, local_sol_sens)
    IN  Accumulate("internal_residual_jac_dot_state_sensitivity",
                   [f |-> ZeroVector(N2), jac |-> r.jac, ret |-> r.ret], IfVk)

\* prestress_residual(_sensitivity): jac += local_jac if request_jacobian
\* && if_vk, after the early return of an element without prestress
CallPrestressResidual(request_jacobian) ==
    Accumulate("prestress_residual", PrestressResidual(local_sol, request_jacobian),
               IfPrestressed /\ request_jacobian /\ IfVk)

CallPrestressResidualSensitivity(request_jacobian) ==
    Accumulate("prestress_residual_sensitivity",
               PrestressResidualSensitivity(local_sol, request_jacobian),
               IfPrestressed /\ request_jacobian /\ IfVk)

\* thermal_residual(_sensitivity): jac -= local_jac if request_jacobian && if_vk
CallThermalResidual(request_jacobian) ==
    Accumulate("thermal_residual", ThermalResidual(local_sol, request_jacobian),
               request_jacobian /\ IfVk)

CallThermalResidualSensitivity(request_jacobian) ==
    Accumulate("thermal_residual_sensitivity",
               ThermalResidualSensitivity(local_sol, request_jacobian),
               request_jacobian /\ IfVk)

\* surface_pressure_residual(_sensitivity) never touch jac
CallSurfacePressureResidual(request_jacobian) ==
    Accumulate("surface_pressure_residual", SurfacePressureResidual(request_jacobian), FALSE)

CallSurfacePressureResidualSensitivity(request_jacobian) ==
    Accumulate("surface_pressure_residual_sensitivity",
               SurfacePressureResidualSensitivity(request_jacobian), FALSE)

\* the side versions of piston_theory_residual(_sensitivity) are stubs:
\* libmesh_assert(false), then return request_jacobian.  A debug build
\* aborts there, which ends the behaviour; a release build (NDEBUG) adds
\* nothing to f or jac and still returns request_jacobian.
PistonTheoryResidualSide(request_jacobian) ==
    [NoContribution EXCEPT !.ret = request_jacobian]

CallPistonTheoryResidualSide(request_jacobian) ==
    Accumulate("piston_theory_residual_side",
               PistonTheoryResidualSide(request_jacobian), FALSE)

CallPistonTheoryResidualSensitivitySide(request_jacobian) ==
    Accumulate("piston_theory_residual_sensitivity_side",
               PistonTheoryResidualSide(request_jacobian), FALSE)

Next ==
    \/ \E u \in Solutions : SetSolution(u)
    \/ \E s \in Sensitivities : SetSolutionSensitivity(s)
    \/ ZeroAccumulators
    \/ \E rj \in BOOLEAN : CallInternalResidual(rj)
    \/ \E rj \in BOOLEAN : CallInternalResidualSensitivity(rj)
    \/ CallJacDotStateSensitivity
    \/ \E rj \in BOOLEAN : CallPrestressResidual(rj)
    \/ \E rj \in BOOLEAN : CallPrestressResidualSensitivity(rj)
    \/ \E rj \in BOOLEAN : CallThermalResidual(rj)
    \/ \E rj \in BOOLEAN : CallThermalResidualSensitivity(rj)
    \/ \E rj \in BOOLEAN : CallSurfacePressureResidual(rj)
    \/ \E rj \in BOOLEAN : CallSurfacePressureResidualSensitivity(rj)
    \/ \E rj \in BOOLEAN : CallPistonTheoryResidualSide(rj)
    \/ \E rj \in BOOLEAN : CallPistonTheoryResidualSensitivitySide(rj)

Spec == Init /\ [][Next]_vars

\* the driver only moving the element context: the runs that check the
\* kernel at every solution
ContextNext ==
    \/ \E u \in Solutions : SetSolution(u)
    \/ \E s \in Sensitivities : SetSolutionSensitivity(s)

\* one element context to start from; ContextNext then reaches every other
ContextInit ==
    /\ Init
    /\ local_sol = CHOOSE u \in Solutions : TRUE
    /\ local_sol_sens = CHOOSE s \in Sensitivities : TRUE

ContextSpec == ContextInit /\ [][ContextNext]_vars

-----------------------------------------------------------------------------
(* Properties                                                              *)

DrillDofs == {5 * NPhi + i : i \in Idx(NPhi)}

\* local_sol + t e_i
Shifted(t, i) == VecAdd(local_sol, VecScale(t, Unit(N2, i)))

\* The tangent internal_residual returns is the exact derivative of the
\* residual it returns at the current solution: twelve times column i of
\* the tangent equals the five-point difference of the residual along the
\* unit vector e_i (exact for the cubic von Karman residual), except on the
\* theta_z diagonal, where the code puts the drilling penalty instead.
JacobianConsistent ==
    \* "\A v \in {e}" binds the value of e once for all the entries below
    \A R \in {[p \in {Shifted(t, i) : t \in {-2, -1, 1, 2}, i \in Idx(N2)} |->
                 InternalResidual(p, FALSE).f] @@ <<>>} :
    \A J \in {InternalResidual(local_sol, TRUE).jac} :
    \A i, r \in Idx(N2) :
        12 * J[r][i] = 8 * (R[Shifted(1, i)][r] - R[Shifted(-1, i)][r])
                         - (R[Shifted(2, i)][r] - R[Shifted(-2, i)][r])
                       + (IF r = i /\ i \in DrillDofs THEN 12 * DrillPenalty ELSE 0)

\* internal_residual_jac_dot_state_sensitivity is the derivative of the
\* internal_residual tangent along the solution sensitivity: twice it
\* equals J(x + s) - J(x - s), exact because the tangent is quadratic in
\* the solution.  This checks the seven hand-written coupling blocks of
\* that function against the tangent they are meant to differentiate.
JacDotStateConsistent ==
    \A r \in {JacDotStateSensitivity(local_sol, local_sol_sens).jac} :
    \A Jp \in {InternalResidual(VecAdd(local_sol, local_sol_sens), TRUE).jac} :
    \A Jm \in {InternalResidual(VecSub(local_sol, local_sol_sens), TRUE).jac} :
        MatScale(2, r) = MatSub(Jp, Jm)

\* The tangents of the prestress and thermal loads, and of their
\* sensitivities, are the exact derivatives of the forces they return:
\* column i of the tangent equals f(x + e_i) - f(x) (the forces are linear
\* in the solution through the von Karman term), with the sign the code
\* applies (thermal: f -= local_f, jac -= local_jac).
TangentIsDerivative(L(_)) ==
    LET r0 == L(local_sol)
        FX == StoredMatrix([i \in Idx(N2) |-> L(VecAdd(local_sol, Unit(N2, i))).f])
    IN  \A i, r \in Idx(N2) : r0.jac[r][i] = FX[i][r] - r0.f[r]

LoadJacobianConsistent ==
    /\ TangentIsDerivative(LAMBDA x : PrestressResidual(x, TRUE))
    /\ TangentIsDerivative(LAMBDA x : PrestressResidualSensitivity(x, TRUE))
    /\ TangentIsDerivative(LAMBDA x : ThermalResidual(x, TRUE))
    /\ TangentIsDerivative(LAMBDA x : ThermalResidualSensitivity(x, TRUE))

\* The sensitivity entry points of the prestress, thermal and pressure
\* loads return the exact derivative, w.r.t. the parameter p at fixed
\* solution, of what the residual entry points return when every field
\* depends on p (G(p) = G + p dG/dp): twice the sensitivity equals the
\* residual at p = 1 minus the residual at p = -1, exact because these
\* loads are at most quadratic in p.  Covers the force and the tangent.
PrestressAt(x, t) ==
    PrestressResidualWith(x, MatAdd(PreA, MatScale(t, DPreA)),
                          MatAdd(PreB, MatScale(t, DPreB)), TRUE)
ThermalAt(x, t) ==
    ThermalResidualWith(x, VecAdd(ExpA, VecScale(t, DExpA)), VecAdd(ExpB, VecScale(t, DExpB)),
                        (Temp + t * DTemp) - (RefTemp + t * DRefTemp), TRUE)
PressureAt(t) ==
    [f |-> SurfacePressureWith((Press + t * DPress) * (Thick + t * DThick)),
     jac |-> ZeroMatrix(N2, N2)]

IsPDerivative(sens, R(_)) ==
    /\ VecScale(2, sens.f) = VecSub(R(1).f, R(-1).f)
    /\ MatScale(2, sens.jac) = MatSub(R(1).jac, R(-1).jac)

LoadSensitivityConsistent ==
    /\ IsPDerivative(PrestressResidualSensitivity(local_sol, TRUE), LAMBDA t : PrestressAt(local_sol, t))
    /\ IsPDerivative(ThermalResidualSensitivity(local_sol, TRUE), LAMBDA t : ThermalAt(local_sol, t))
    /\ IsPDerivative(SurfacePressureResidualSensitivity(TRUE), LAMBDA t : PressureAt(t))

\* Spec section 6: the boolean an entry point returns tells the driver
\* whether a Jacobian was actually populated, so that the driver may skip
\* inserting jac otherwise.  An entry point that returned TRUE must have
\* added its local Jacobian to jac.
ReturnMeansJacobianPopulated == last.ret => last.jacAdded

\* Whatever sequence of structural entry points the driver calls in a
\* pass, the accumulated tangent stays symmetric (the section A and D
\* matrices are symmetric): every coupling block the code adds is added
\* together with its transpose.
JacobianSymmetric == IsSymmetric(jac)

=============================================================================
