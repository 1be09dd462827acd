----------------------- MODULE MCStructuralElement2D -----------------------
(***************************************************************************)
(* A one-node, two-point instance of the 2D structural element: every     *)
(* strain, stress and coupling term of the kernel is non-zero for some    *)
(* solution, the two points have different gradients and weights, and the *)
(* section is a symmetric laminate-like A, B, D.                          *)
(***************************************************************************)
EXTENDS StructuralElement2D

MCNPhi == 1
MCNQp == 2

\* dN/dx, dN/dy of the single shape function at the two points
MCDPhi == [i \in Idx(1) |-> [qp \in Idx(2) |->
              IF qp = 0 THEN [x |-> 1, y |-> -1] ELSE [x |-> 2, y |-> 1]]]

MCJxW == [qp \in Idx(2) |-> qp + 1]

Mat3(r0, r1, r2) == [i \in Idx(3) |-> [j \in Idx(3) |-> (<<r0, r1, r2>>[i + 1])[j + 1]]]

MCMatA == [qp \in Idx(2) |-> Mat3(<<2, 1, 0>>, <<1, 2, 0>>, <<0, 0, 1>>)]
MCMatB == [qp \in Idx(2) |-> Mat3(<<1, 0, 0>>, <<0, -1, 0>>, <<0, 0, 1>>)]
MCMatD == [qp \in Idx(2) |-> Mat3(<<3, 1, 0>>, <<1, 2, 0>>, <<0, 0, 1>>)]
MCDMatA == [qp \in Idx(2) |-> Mat3(<<1, 0, 0>>, <<0, 1, 0>>, <<0, 0, 0>>)]
MCDMatB == [qp \in Idx(2) |-> Mat3(<<0, 1, 0>>, <<1, 0, 0>>, <<0, 0, 0>>)]
MCDMatD == [qp \in Idx(2) |-> Mat3(<<1, 0, 0>>, <<0, 1, 0>>, <<0, 0, 1>>)]

\* curvature operator of the bending collaborator, Kirchhoff-type (no
\* transverse shear energy): kappa = {d theta_y/dx, -d theta_x/dy,
\* d theta_y/dy - d theta_x/dx}; theta_x, theta_y are dofs 3, 4
MCBendOp == [qp \in Idx(2) |->
    LET g == MCDPhi[0][qp]
    IN  [r \in Idx(3) |-> [c \in Idx(6) |->
          CASE r = 0 /\ c = 4 -> g.x
            [] r = 1 /\ c = 3 -> -g.y
            [] r = 2 /\ c = 4 -> g.y
            [] r = 2 /\ c = 3 -> -g.x
            [] OTHER -> 0]]]

Mat2(r0, r1) == [i \in Idx(2) |-> [j \in Idx(2) |-> (<<r0, r1>>[i + 1])[j + 1]]]
Vec3(a, b, c) == [i \in Idx(3) |-> <<a, b, c>>[i + 1]]

\* prestress and thermal expansion fields
MCPreA == Mat2(<<2, 1>>, <<1, -1>>)
MCPreB == Mat2(<<1, 0>>, <<0, 1>>)
MCDPreA == Mat2(<<1, 0>>, <<0, 1>>)
MCDPreB == Mat2(<<0, 1>>, <<1, 0>>)
MCExpA == Vec3(1, 1, 0)
MCExpB == Vec3(1, -1, 0)
MCDExpA == Vec3(1, 0, 0)
MCDExpB == Vec3(0, 1, 0)

\* one quadrature point on the loaded side, normal along x
MCSidePhi == [i \in Idx(1) |-> [qp \in Idx(1) |-> 1]]
MCSideJxW == [qp \in Idx(1) |-> 2]
MCSideNormal == [qp \in Idx(1) |-> Vec3(1, 0, 0)]

\* the residual is linear in u, v, theta_x, theta_y and cubic in w; the
\* theta_z dof (5) carries no stiffness and stays at zero
MCSolutions == {x \in [Idx(6) -> -1..1] : x[2] \in -1..1 /\ x[5] = 0
                   /\ \A d \in {0, 1, 3, 4} : x[d] \in 0..1}
MCSmallSolutions == {[i \in Idx(6) |-> 0],
                     [i \in Idx(6) |-> IF i = 2 THEN 1 ELSE 0],
                     [i \in Idx(6) |-> <<1, 0, 2, -1, 1, 0>>[i + 1]]}
MCSensitivities == {[i \in Idx(6) |-> <<0, 0, 1, 0, 0, 0>>[i + 1]],
                    [i \in Idx(6) |-> <<1, -1, 1, 1, 0, 0>>[i + 1]],
                    [i \in Idx(6) |-> <<0, 1, -1, 0, 1, 0>>[i + 1]]}

ASSUME IsSymmetric(MCMatA[0]) /\ IsSymmetric(MCMatD[0]) /\ IsSymmetric(MCDMatA[0])
       /\ IsSymmetric(MCDMatD[0])
=============================================================================
