--------------------------- MODULE PistonTheory2D ---------------------------
(***************************************************************************)
(* The piston-theory load of the 2D structural element                    *)
(* (piston_theory_residual and piston_theory_residual_sensitivity of      *)
(* elasticity/structural_element_2d.cpp, the volume versions; the side    *)
(* versions are libmesh_assert(false)).                                    *)
(*                                                                         *)
(* The surface pressure is a function of the normal slope                 *)
(* dwdx = (dw/dx, dw/dy) . U and of the normal velocity dwdt = w_dot,      *)
(* handed to the code by the PistonTheoryBoundaryCondition collaborator   *)
(* (not in this repository) as the functions pressure, dpdx and dpdxdot.  *)
(* It is modelled as first-order piston theory, p = Cx dwdx + Ct dwdt,    *)
(* so dp/d(dwdx) = Cx and dp/d(dwdt) = Ct; the sensitivity functions are  *)
(* the derivatives DCx, DCt of these coefficients.  The tangent is with   *)
(* respect to two quantities: the solution (jac) and its rate (jac_xdot). *)
(***************************************************************************)
EXTENDS Integers, StrainOperators2D

CONSTANTS
    NQp,          \* number of quadrature points
    JxW,          \* JxW[qp]
    Phi,          \* Phi[i_nd][qp]: shape function values
    VelVec,       \* vel_vec = T^T U_inf (T = I): VelVec[0], VelVec[1]
    Cx, Ct,       \* piston-theory coefficients of dwdx and dwdt
    DCx, DCt,     \* their derivatives w.r.t. the parameter p
    Solutions,    \* values of _local_sol the driver may set
    Velocities,   \* values of _local_vel the driver may set
    MaxCalls      \* bound on the calls of one assembly pass

VARIABLES
    local_sol,    \* _local_sol
    local_vel,    \* _local_vel
    f,            \* caller-owned residual accumulator
    jac,          \* caller-owned tangent w.r.t. the solution
    jac_xdot,     \* caller-owned tangent w.r.t. the solution rate
    ncalls        \* calls since the caller zeroed the accumulators

vars == <<local_sol, local_vel, f, jac, jac_xdot, ncalls>>

\* normal(_elem.dim()) = -1: the pressure acts along -z of a 2D element
Normal2 == -1

Diag2(a, b) == [i \in Idx(2) |-> [j \in Idx(2) |->
                   IF i # j THEN 0 ELSE IF i = 0 THEN a ELSE b]]

\* mutant: local_jac_xdot built with dpdx where the code uses dpdxdot
PistonTheoryOperationRateCoeff(qp, x, xdot, cx, ct, request_jacobian) ==
    LET Bw    == SetShapeFunction(Reinit(2, NVars, NPhi), 0, 2,
                                  [i \in Idx(NPhi) |-> Phi[i][qp]])
        dwdt  == RightMultiply(Bw, xdot)[0]
        vk    == VonKarmanStrainOperator(qp, x)
        dwdx  == vk.dwdxi[0][0] * VelVec[0] + vk.dwdxi[1][1] * VelVec[1]
        force == [i \in Idx(2) |-> IF i = 0 THEN (cx * dwdx + ct * dwdt) * Normal2 ELSE 0]
        jx    == RightMultiplyTranspose(Bw, LeftMultiply(Diag2(VelVec[0], 0), vk.Bmat))
        jy    == RightMultiplyTranspose(Bw, LeftMultiply(Diag2(0, VelVec[1]), vk.Bmat))
    IN  [f        |-> VecScale(JxW[qp], VectorMultTranspose(Bw, force)),
         jac_xdot |-> IF request_jacobian
                      THEN MatScale(JxW[qp] * cx * Normal2, RightMultiplyTranspose(Bw, Bw))
                      ELSE ZeroMatrix(N2, N2),
         jac      |-> IF request_jacobian
                      THEN MatScale(JxW[qp] * cx * Normal2, MatAdd(jx, jy))
                      ELSE ZeroMatrix(N2, N2)]

\* one quadrature point of the loop, for the pressure coefficients cx, ct
\* (the value functions or their p-derivatives)
PistonTheoryOperation(qp, x, xdot, cx, ct, request_jacobian) ==
    LET Bw    == SetShapeFunction(Reinit(2, NVars, NPhi), 0, 2,
                                  [i \in Idx(NPhi) |-> Phi[i][qp]])
        dwdt  == RightMultiply(Bw, xdot)[0]
        vk    == VonKarmanStrainOperator(qp, x)
        dwdx  == vk.dwdxi[0][0] * VelVec[0] + vk.dwdxi[1][1] * VelVec[1]
        force == [i \in Idx(2) |-> IF i = 0 THEN (cx * dwdx + ct * dwdt) * Normal2 ELSE 0]
        \* derivative w.r.t. x, then w.r.t. y: B^T (mat_22 dBmat)
        jx    == RightMultiplyTranspose(Bw, LeftMultiply(Diag2(VelVec[0], 0), vk.Bmat))
        jy    == RightMultiplyTranspose(Bw, LeftMultiply(Diag2(0, VelVec[1]), vk.Bmat))
    IN  [f        |-> VecScale(JxW[qp], VectorMultTranspose(Bw, force)),
         jac_xdot |-> IF request_jacobian
                      THEN MatScale(JxW[qp] * ct * Normal2, RightMultiplyTranspose(Bw, Bw))
                      ELSE ZeroMatrix(N2, N2),
         jac      |-> IF request_jacobian
                      THEN MatScale(JxW[qp] * cx * Normal2, MatAdd(jx, jy))
                      ELSE ZeroMatrix(N2, N2)]

\* f -= local_f; if requested jac_xdot -= local_jac_xdot, jac -= local_jac
PistonTheoryResidualWith(x, xdot, cx, ct, request_jacobian) ==
    LET Op == [qp \in Idx(NQp) |-> PistonTheoryOperation(qp, x, xdot, cx, ct, request_jacobian)]
    IN  [f        |-> VecScale(-1, QpVecSum([qp \in Idx(NQp) |-> Op[qp].f])),
         jac_xdot |-> MatScale(-1, QpMatSum([qp \in Idx(NQp) |-> Op[qp].jac_xdot])),
         jac      |-> MatScale(-1, QpMatSum([qp \in Idx(NQp) |-> Op[qp].jac]))]

PistonTheoryResidual(x, xdot, request_jacobian) ==
    PistonTheoryResidualWith(x, xdot, Cx, Ct, request_jacobian)

PistonTheoryResidualSensitivity(x, xdot, request_jacobian) ==
    PistonTheoryResidualWith(x, xdot, DCx, DCt, request_jacobian)

-----------------------------------------------------------------------------

Init ==
    /\ local_sol \in Solutions
    /\ local_vel \in Velocities
    /\ f = ZeroVector(N2)
    /\ jac = ZeroMatrix(N2, N2)
    /\ jac_xdot = ZeroMatrix(N2, N2)
    /\ ncalls = 0

SetSolution(u) ==
    /\ local_sol' = u
    /\ UNCHANGED <<local_vel, f, jac, jac_xdot, ncalls>>

SetVelocity(v) ==
    /\ local_vel' = v
    /\ UNCHANGED <<local_sol, f, jac, jac_xdot, ncalls>>

ZeroAccumulators ==
    /\ f' = ZeroVector(N2)
    /\ jac' = ZeroMatrix(N2, N2)
    /\ jac_xdot' = ZeroMatrix(N2, N2)
    /\ ncalls' = 0
    /\ UNCHANGED <<local_sol, local_vel>>

Accumulate(r) ==
    /\ ncalls < MaxCalls
    /\ f' = VecAdd(f, r.f)
    /\ jac' = MatAdd(jac, r.jac)
    /\ jac_xdot' = MatAdd(jac_xdot, r.jac_xdot)
    /\ ncalls' = ncalls + 1
    /\ UNCHANGED <<local_sol, local_vel>>

CallPistonTheoryResidual(request_jacobian) ==
    Accumulate(PistonTheoryResidual(local_sol, local_vel, request_jacobian))

CallPistonTheoryResidualSensitivity(request_jacobian) ==
    Accumulate(PistonTheoryResidualSensitivity(local_sol, local_vel, request_jacobian))

Next ==
    \/ \E u \in Solutions : SetSolution(u)
    \/ \E v \in Velocities : SetVelocity(v)
    \/ ZeroAccumulators
    \/ \E rj \in BOOLEAN : CallPistonTheoryResidual(rj)
    \/ \E rj \in BOOLEAN : CallPistonTheoryResidualSensitivity(rj)

Spec == Init /\ [][Next]_vars

-----------------------------------------------------------------------------

\* The two tangents piston_theory_residual returns are the derivatives of
\* the force it returns: column i of jac is f(x + e_i, xdot) - f(x, xdot)
\* and column i of jac_xdot is f(x, xdot + e_i) - f(x, xdot) (the force is
\* linear in both under first-order piston theory), for the flow direction
\* VelVec of the boundary condition.
PistonJacobianConsistent ==
    \* "\A v \in {e}" binds the value of e once for all the entries below
    \A r0 \in {PistonTheoryResidual(local_sol, local_vel, TRUE)} :
    \A FX \in {StoredMatrix([i \in Idx(N2) |->
                 PistonTheoryResidual(VecAdd(local_sol, Unit(N2, i)), local_vel, TRUE).f])} :
    \A FV \in {StoredMatrix([i \in Idx(N2) |->
                 PistonTheoryResidual(local_sol, VecAdd(local_vel, Unit(N2, i)), TRUE).f])} :
    \A i, k \in Idx(N2) :
        /\ r0.jac[k][i] = FX[i][k] - r0.f[k]
        /\ r0.jac_xdot[k][i] = FV[i][k] - r0.f[k]

=============================================================================
