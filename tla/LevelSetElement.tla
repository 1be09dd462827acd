--------------------------- MODULE LevelSetElement ---------------------------
(***************************************************************************)
(* The level-set element (level_set/level_set_elem_base.cpp): the SUPG    *)
(* residuals of the advection equation  phi_t + V . grad(phi) = 0  for a  *)
(* single scalar variable, and their tangents.                             *)
(*                                                                         *)
(* internal_residual adds  int N (V.grad phi) + (V.grad N) tau (V.grad    *)
(* phi)  and its tangent w.r.t. _sol; velocity_residual adds             *)
(* int N phi_t + (V.grad N) tau phi_t  and its tangent w.r.t. _vel (the   *)
(* time derivative of the solution).  The stabilisation parameter of     *)
(* _tau is  tau = 1 / sum_{d, i} |dN_i/dx_d V_d|.                          *)
(*                                                                         *)
(* Numbers.  Residuals and tangents are counted in units of 1/S, where S  *)
(* is the product over the quadrature points of the nonzero sums of      *)
(* _tau, so that tau = TauScaled / S exactly.  A zero sum makes tau =     *)
(* 1/0 = inf, and the SUPG term (V.grad N)^T tau multiplies inf by 0:     *)
(* the residual is NaN, recorded by the flag nan.                        *)
(***************************************************************************)
EXTENDS Integers, FEMOperatorMatrix

CONSTANTS
    Dim,            \* _elem.dim()
    NPhi,           \* n_phi
    NQp,            \* JxW.size()
    Phi,            \* Phi[i][qp]: shape function values
    DPhi,           \* DPhi[i][qp][d]: shape function derivatives dN_i/dx_d
    JxW,            \* JxW[qp]
    VelocityFields, \* values of the _phi_vel field at the points, V[qp][d]
    Solutions,      \* values of _sol
    Rates,          \* values of _vel
    MaxCalls        \* bound on the calls of one assembly pass

VARIABLES
    phi_vel,        \* the velocity field the element was built with
    sol,            \* _sol
    vel,            \* _vel
    f, jac, jac_xdot, \* caller-owned accumulators
    nan,            \* some entry of f, jac or jac_xdot is NaN
    ncalls          \* calls since the caller zeroed the accumulators

vars == <<phi_vel, sol, vel, f, jac, jac_xdot, nan, ncalls>>

QPs == Idx(NQp)

\* _initialize_fem_operators: Bmat.reinit(1, N) and dBmat[d].reinit(1, dN/dx_d)
Bmat(qp) == ReinitDiagonal(1, [i \in Idx(NPhi) |-> Phi[i][qp]])
DBmat(qp, d) == ReinitDiagonal(1, [i \in Idx(NPhi) |-> DPhi[i][qp][d]])

Abs(a) == IF a < 0 THEN -a ELSE a

\* mutant: the loop of _tau over the first dimension only
TauSumFirstDim(qp, V) == LET acc[k \in -1..(NPhi - 1)] ==
                               IF k < 0 THEN 0 ELSE acc[k - 1] + Abs(DPhi[k][qp][0] * V[qp][0])
                         IN  acc[NPhi - 1]

\* the sum "val" of _tau: sum over dimensions and nodes of |dphi . vel|
TauSum(qp, V) == LET acc[k \in -1..(Dim * NPhi - 1)] ==
                       IF k < 0 THEN 0
                       ELSE acc[k - 1] + Abs(DPhi[k % NPhi][qp][k \div NPhi] * V[qp][k \div NPhi])
                 IN  acc[Dim * NPhi - 1]

\* S: the product of the nonzero sums over the points
Scale(V) == LET acc[k \in -1..(NQp - 1)] ==
                  IF k < 0 THEN 1
                  ELSE acc[k - 1] * (IF TauSum(k, V) = 0 THEN 1 ELSE TauSum(k, V))
            IN  acc[NQp - 1]

\* tau(0,0) = 1./val, times S
TauScaled(qp, V) == IF TauSum(qp, V) = 0 THEN 0 ELSE Scale(V) \div TauSum(qp, V)

\* mat2_n1n2 = sum_j dBmat_j V_j: the row V . grad N
VGradN(qp, V) == LET acc[j \in -1..(Dim - 1)] ==
                       IF j < 0 THEN ZeroVector(NPhi)
                       ELSE VecAdd(acc[j - 1], VecScale(V[qp][j], DBmat(qp, j)[0]))
                 IN  acc[Dim - 1]

Outer(a, b) == [r \in DOMAIN a |-> [c \in DOMAIN b |-> a[r] * b[c]]]

\* what the element computes at a point from its velocity field alone:
\* Bmat, mat2_n1n2 = V . grad N and tau (times S); a constant of the
\* element, tabulated once per field
PointData(qp, V) == [B |-> Bmat(qp), m2 |-> VGradN(qp, V), tau |-> TauScaled(qp, V),
                     gal |-> LET acc[j \in -1..(Dim - 1)] ==
                                   IF j < 0 THEN ZeroMatrix(NPhi, NPhi)
                                   ELSE MatAdd(acc[j - 1], MatScale(V[qp][j], RightMultiplyTranspose(Bmat(qp), DBmat(qp, j))))
                             IN  acc[Dim - 1]]
ElementData == [V \in VelocityFields |-> [S |-> Scale(V), pt |-> [qp \in QPs |-> PointData(qp, V)]]]

\* one quadrature point of internal_residual: the flux V . grad(phi) and
\* the Galerkin and SUPG terms of f and of jac (gal = sum_j V_j B^T dB_j)
InternalResidualOperation(qp, x, e) ==
    LET d    == e.pt[qp]
        flux == Dot(d.m2, x)
    IN  [f   |-> VecScale(JxW[qp], VecAdd(VecScale(e.S, VectorMultTranspose(d.B, [i \in Idx(1) |-> flux])),
                                          VecScale(d.tau * flux, d.m2))),
         jac |-> MatScale(JxW[qp], MatAdd(MatScale(e.S, d.gal),
                                          MatScale(d.tau, Outer(d.m2, d.m2))))]

\* mutant: velocity_residual with the SUPG term transposed in jac_xdot
VelocityResidualOperationTransposed(qp, xdot, e) ==
    LET d    == e.pt[qp]
        phit == RightMultiply(d.B, xdot)[0]
    IN  [f        |-> VecScale(JxW[qp], VecAdd(VecScale(e.S * phit, d.B[0]),
                                               VecScale(d.tau * phit, d.m2))),
         jac_xdot |-> MatScale(JxW[qp], MatAdd(MatScale(e.S, RightMultiplyTranspose(d.B, d.B)),
                                               MatScale(d.tau, Outer(d.B[0], d.m2))))]

\* mutant: velocity_residual weighting dphi/dt by the Galerkin term only
VelocityResidualOperationGalerkin(qp, xdot, e) ==
    LET d    == e.pt[qp]
        phit == RightMultiply(d.B, xdot)[0]
    IN  [f        |-> VecScale(JxW[qp], VecScale(e.S * phit, d.B[0])),
         jac_xdot |-> MatScale(JxW[qp], MatScale(e.S, RightMultiplyTranspose(d.B, d.B)))]

\* one quadrature point of velocity_residual: dphi/dt = Bmat _vel
VelocityResidualOperation(qp, xdot, e) ==
    LET d    == e.pt[qp]
        phit == RightMultiply(d.B, xdot)[0]
    IN  [f        |-> VecScale(JxW[qp], VecAdd(VecScale(e.S * phit, d.B[0]),
                                               VecScale(d.tau * phit, d.m2))),
         jac_xdot |-> MatScale(JxW[qp], MatAdd(MatScale(e.S, RightMultiplyTranspose(d.B, d.B)),
                                               MatScale(d.tau, Outer(d.m2, d.B[0]))))]

QpVecSum(F) == LET acc[k \in -1..(NQp - 1)] ==
                     IF k < 0 THEN ZeroVector(NPhi) ELSE VecAdd(acc[k - 1], F[k])
               IN  acc[NQp - 1]
QpMatSum(F) == LET acc[k \in -1..(NQp - 1)] ==
                     IF k < 0 THEN ZeroMatrix(NPhi, NPhi) ELSE MatAdd(acc[k - 1], F[k])
               IN  acc[NQp - 1]

\* some point has tau = inf, and every residual term at it is NaN
TauInfinite(V) == \E qp \in QPs : TauSum(qp, V) = 0

\* internal_residual: f += ..., jac += ... if request_jacobian
InternalResidual(x, V, request_jacobian) ==
    [f        |-> QpVecSum([qp \in QPs |-> InternalResidualOperation(qp, x, ElementData[V]).f]),
     jac      |-> IF request_jacobian
                  THEN QpMatSum([qp \in QPs |-> InternalResidualOperation(qp, x, ElementData[V]).jac])
                  ELSE ZeroMatrix(NPhi, NPhi),
     jac_xdot |-> ZeroMatrix(NPhi, NPhi),
     nan      |-> TauInfinite(V)]

\* velocity_residual: f += ..., jac_xdot += ... if request_jacobian; jac
\* untouched
VelocityResidual(xdot, V, request_jacobian) ==
    [f        |-> QpVecSum([qp \in QPs |-> VelocityResidualOperation(qp, xdot, ElementData[V]).f]),
     jac      |-> ZeroMatrix(NPhi, NPhi),
     jac_xdot |-> IF request_jacobian
                  THEN QpMatSum([qp \in QPs |-> VelocityResidualOperation(qp, xdot, ElementData[V]).jac_xdot])
                  ELSE ZeroMatrix(NPhi, NPhi),
     nan      |-> TauInfinite(V)]

\* internal_residual_sensitivity and velocity_residual_sensitivity add
\* nothing and return request_jacobian
NoContribution == [f |-> ZeroVector(NPhi), jac |-> ZeroMatrix(NPhi, NPhi),
                   jac_xdot |-> ZeroMatrix(NPhi, NPhi), nan |-> FALSE]

\* the external residuals: a DIRICHLET load on a side adds nothing to
\* side_external_residual; any other load there, and any load at all in
\* volume_external_residual and in both sensitivities, reaches
\* libmesh_error() and ends the program.  The actions below are the paths
\* that return.
Loads == {"DIRICHLET", "OTHER"}
SideLoadReturns(loads) == loads \subseteq {"DIRICHLET"}
NoLoadReturns(loads) == loads = {}

-----------------------------------------------------------------------------
(* The driver: it builds the element with a velocity field, sets _sol and  *)
(* _vel, zeroes its accumulators and calls the element's operations.      *)

Init ==
    /\ phi_vel \in VelocityFields
    /\ sol \in Solutions
    /\ vel \in Rates
    /\ f = ZeroVector(NPhi)
    /\ jac = ZeroMatrix(NPhi, NPhi)
    /\ jac_xdot = ZeroMatrix(NPhi, NPhi)
    /\ nan = FALSE
    /\ ncalls = 0

SetSolution(x) ==
    /\ sol' = x
    /\ UNCHANGED <<phi_vel, vel, f, jac, jac_xdot, nan, ncalls>>

SetVelocity(xdot) ==
    /\ vel' = xdot
    /\ UNCHANGED <<phi_vel, sol, f, jac, jac_xdot, nan, ncalls>>

ZeroAccumulators ==
    /\ f' = ZeroVector(NPhi)
    /\ jac' = ZeroMatrix(NPhi, NPhi)
    /\ jac_xdot' = ZeroMatrix(NPhi, NPhi)
    /\ nan' = FALSE
    /\ ncalls' = 0
    /\ UNCHANGED <<phi_vel, sol, vel>>

\* the caller adds the element's contribution into its accumulators
Accumulate(r) ==
    /\ ncalls < MaxCalls
    /\ f' = VecAdd(f, r.f)
    /\ jac' = MatAdd(jac, r.jac)
    /\ jac_xdot' = MatAdd(jac_xdot, r.jac_xdot)
    /\ nan' = (nan \/ r.nan)
    /\ ncalls' = ncalls + 1
    /\ UNCHANGED <<phi_vel, sol, vel>>

CallInternalResidual(request_jacobian) ==
    Accumulate(InternalResidual(sol, phi_vel, request_jacobian))

CallVelocityResidual(request_jacobian) ==
    Accumulate(VelocityResidual(vel, phi_vel, request_jacobian))

\* the sensitivity stubs, and the external residuals on the paths that return
CallNoContribution == Accumulate(NoContribution)

CallSideExternalResidual(loads) ==
    /\ SideLoadReturns(loads)
    /\ Accumulate(NoContribution)

CallVolumeExternalResidual(loads) ==
    /\ NoLoadReturns(loads)
    /\ Accumulate(NoContribution)

CallExternalResidualSensitivity(loads) ==
    /\ NoLoadReturns(loads)
    /\ Accumulate(NoContribution)

Next ==
    \/ \E x \in Solutions : SetSolution(x)
    \/ \E xdot \in Rates : SetVelocity(xdot)
    \/ ZeroAccumulators
    \/ \E rj \in BOOLEAN : CallInternalResidual(rj)
    \/ \E rj \in BOOLEAN : CallVelocityResidual(rj)
    \/ CallNoContribution
    \/ \E loads \in SUBSET Loads : CallSideExternalResidual(loads)
    \/ \E loads \in SUBSET Loads : CallVolumeExternalResidual(loads)
    \/ \E loads \in SUBSET Loads : CallExternalResidualSensitivity(loads)

Spec == Init /\ [][Next]_vars

-----------------------------------------------------------------------------
(* Properties                                                              *)

Column(M, i) == [r \in DOMAIN M |-> M[r][i]]

\* The tangents the two entry points return are the derivatives of their
\* residuals: column i of internal_residual's jac is f(_sol + e_i) - f(_sol),
\* and column i of velocity_residual's jac_xdot is f(_vel + e_i) - f(_vel)
\* (both residuals are linear).  The Galerkin and SUPG terms of each are
\* written twice in the code, once for f and once for the tangent.
TangentConsistent ==
    \/ TauInfinite(phi_vel)
    \/ \A fi \in {InternalResidual(sol, phi_vel, TRUE)} :
       \A fv \in {VelocityResidual(vel, phi_vel, TRUE)} :
         \A i \in Idx(NPhi) :
           /\ Column(fi.jac, i) =
                VecSub(InternalResidual(VecAdd(sol, Unit(NPhi, i)), phi_vel, FALSE).f, fi.f)
           /\ Column(fv.jac_xdot, i) =
                VecSub(VelocityResidual(VecAdd(vel, Unit(NPhi, i)), phi_vel, FALSE).f, fv.f)

\* phi_t + V . grad(phi) at a point, from the nodal _sol and _vel
StrongResidual(qp) ==
    RightMultiply(Bmat(qp), vel)[0] + Dot(VGradN(qp, phi_vel), sol)

\* Consistency of the stabilisation across the two entry points: when _sol
\* and _vel solve the advection equation at every point, internal_residual
\* plus velocity_residual is zero.  It needs velocity_residual to weight
\* dphi/dt with the same Galerkin and SUPG test functions N + tau V.grad N
\* that internal_residual applies to V.grad(phi).
TravellingSolutionResidualZero ==
    (\A qp \in QPs : StrongResidual(qp) = 0)
      => VecAdd(InternalResidual(sol, phi_vel, FALSE).f,
                VelocityResidual(vel, phi_vel, FALSE).f) = ZeroVector(NPhi)

\* The residual and tangents the caller accumulates are numbers: _tau never
\* divides by a zero sum of |dN_i/dx_d V_d| for the velocity fields the
\* element is built with.
ResidualFinite == ~nan

=============================================================================
