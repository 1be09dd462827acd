-------------------------- MODULE StrainOperators2D --------------------------
(***************************************************************************)
(* The strain operator builders of the 2D structural element              *)
(* (elasticity/structural_element_2d.cpp): the direct (membrane) strain   *)
(* operator and the von Karman strain operator and its sensitivity, for   *)
(* an element with NPhi shape functions whose gradients at the quadrature *)
(* points are DPhi.  Shared by the residual assemblers and by stress      *)
(* recovery.  The von Karman strain is counted in halves (the integer n   *)
(* stands for n/2), see StructuralElement2D.                               *)
(***************************************************************************)
EXTENDS Integers, FEMOperatorMatrix

CONSTANTS
    NPhi,         \* number of shape functions (nodes) of the element
    DPhi          \* DPhi[i_nd][qp] = [x |-> dN/dx, y |-> dN/dy]

NVars == 6                 \* _system.n_vars(): u, v, w, theta_x, theta_y, theta_z
N2 == NVars * NPhi         \* n2 = 6*n_phi

\* an integer-valued vector or matrix counted in halves
InHalves(v) == VecScale(2, v)
MatInHalves(M) == MatScale(2, M)

PhiX(qp) == [i \in Idx(NPhi) |-> DPhi[i][qp].x]
PhiY(qp) == [i \in Idx(NPhi) |-> DPhi[i][qp].y]

\* initialize_direct_strain_operator: Bmat u = {eps_xx, eps_yy, gamma_xy}
DirectStrainOperator(qp) ==
    LET B0 == Reinit(3, NVars, NPhi)
        B1 == SetShapeFunction(B0, 0, 0, PhiX(qp))   \* epsilon_xx = du/dx
        B2 == SetShapeFunction(B1, 2, 1, PhiX(qp))   \* gamma_xy = dv/dx + ...
        B3 == SetShapeFunction(B2, 1, 1, PhiY(qp))   \* epsilon_yy = dv/dy
    IN  SetShapeFunction(B3, 2, 0, PhiY(qp))         \* gamma_xy = du/dy + ...

\* dw/dx and dw/dy of the transverse displacement held in dofs 2*n_phi+i
Dw(qp, x) ==
    LET wdofs == [i \in Idx(NPhi) |-> x[2 * NPhi + i]]
    IN  [x |-> Dot(PhiX(qp), wdofs), y |-> Dot(PhiY(qp), wdofs)]

\* the 3x2 vk_dwdxi_mat of a gradient pair
DwdxiMat(dw) == [i \in Idx(3) |->
                    CASE i = 0 -> [j \in Idx(2) |-> IF j = 0 THEN dw.x ELSE 0]
                      [] i = 1 -> [j \in Idx(2) |-> IF j = 1 THEN dw.y ELSE 0]
                      [] i = 2 -> [j \in Idx(2) |-> IF j = 0 THEN dw.y ELSE dw.x]]

\* mutant: vk_strain(2) left at dw/dx, the "*= dw/dy" of the second loop lost
VonKarmanStrainOperatorNoProduct(qp, x) ==
    LET dw == Dw(qp, x)
    IN  [strain |-> [i \in Idx(3) |-> CASE i = 0 -> dw.x * dw.x
                                       [] i = 1 -> dw.y * dw.y
                                       [] i = 2 -> 2 * dw.x],
         dwdxi  |-> DwdxiMat(dw),
         Bmat   |-> SetShapeFunction(SetShapeFunction(Reinit(2, NVars, NPhi),
                                       0, 2, PhiX(qp)), 1, 2, PhiY(qp))]

\* initialize_von_karman_strain_operator: vk_strain (in halves:
\* 1/2 dw_x^2, 1/2 dw_y^2, dw_x dw_y), vk_dwdxi_mat and Bmat_vk
VonKarmanStrainOperator(qp, x) ==
    LET dw == Dw(qp, x)
    IN  [strain |-> [i \in Idx(3) |-> CASE i = 0 -> dw.x * dw.x
                                       [] i = 1 -> dw.y * dw.y
                                       [] i = 2 -> 2 * dw.x * dw.y],
         dwdxi  |-> DwdxiMat(dw),
         Bmat   |-> SetShapeFunction(SetShapeFunction(Reinit(2, NVars, NPhi),
                                       0, 2, PhiX(qp)), 1, 2, PhiY(qp))]

\* mutant: the gamma-xy entry vk_dwdxi_mat_sens(2, 1) = dw/dx not set
VkSensitivityNoShear(qp, s) == [DwdxiMat(Dw(qp, s)) EXCEPT ![2][1] = 0]

\* initialize_von_karman_strain_operator_sensitivity: vk_dwdxi_mat of
\* the solution sensitivity
VonKarmanStrainOperatorSensitivity(qp, s) == DwdxiMat(Dw(qp, s))

\* a 3-vector {s_xx, s_yy, s_xy} copied to the symmetric 2x2 stress matrix
StressMatrix(v) == [i \in Idx(2) |-> [j \in Idx(2) |->
                        IF i = j THEN v[i] ELSE v[2]]]

\* the quadrature loop "for (qp = 0; qp < JxW.size(); qp++)" adding the
\* per-point vectors / matrices F[qp] into local_f / local_jac in order
QpVecSum(F) ==
    LET acc[k \in -1..(Size(F) - 1)] == IF k < 0 THEN ZeroVector(N2) ELSE VecAdd(acc[k - 1], F[k])
    IN  acc[Size(F) - 1]
QpMatSum(F) ==
    LET acc[k \in -1..(Size(F) - 1)] == IF k < 0 THEN ZeroMatrix(N2, N2) ELSE MatAdd(acc[k - 1], F[k])
    IN  acc[Size(F) - 1]

\* Bx^T M By, the bilinear block every Jacobian term is built from:
\* By.left_multiply(mat, M); Bx.right_multiply_transpose(out, mat)
Block(Bx, M, By) == RightMultiplyTranspose(Bx, LeftMultiply(M, By))

=============================================================================
