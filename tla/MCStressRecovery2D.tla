------------------------- MODULE MCStressRecovery2D -------------------------
(***************************************************************************)
(* Stress recovery on the one-node, two-point element of                  *)
(* MCStructuralElement2D: four stress points (two skins per point), a     *)
(* thermal load, bending with the von Karman strain, and every field      *)
(* function depending on the parameter.                                    *)
(***************************************************************************)
EXTENDS StressRecovery2D

MCNPhi == 1
MCNQp == 2

\* dN/dx, dN/dy of the single shape function at the two points
MCDPhi == [i \in Idx(1) |-> [qp \in Idx(2) |->
              IF qp = 0 THEN [x |-> 1, y |-> -1] ELSE [x |-> 2, y |-> 1]]]

\* Kirchhoff curvature operator on theta_x, theta_y (dofs 3, 4)
MCBendOp == [qp \in Idx(2) |->
    LET g == MCDPhi[0][qp]
    IN  [r \in Idx(3) |-> [c \in Idx(6) |->
          CASE r = 0 /\ c = 4 -> g.x
            [] r = 1 /\ c = 3 -> -g.y
            [] r = 2 /\ c = 4 -> g.y
            [] r = 2 /\ c = 3 -> -g.x
            [] OTHER -> 0]]]

Mat3(r0, r1, r2) == [i \in Idx(3) |-> [j \in Idx(3) |-> (<<r0, r1, r2>>[i + 1])[j + 1]]]

MCMat == Mat3(<<2, 1, 0>>, <<1, 2, 0>>, <<0, 0, 1>>)
MCDMat == Mat3(<<1, 0, 0>>, <<0, 1, 0>>, <<0, 0, 1>>)

\* in-plane u, transverse w and rotation theta_x, all other dofs at rest
MCSolutions == {x \in [Idx(6) -> -1..1] :
                  /\ x[0] \in 0..1 /\ x[3] \in 0..1
                  /\ x[1] = 0 /\ x[4] = 0 /\ x[5] = 0}
MCSensitivities == {[i \in Idx(6) |-> <<0, 0, 1, 0, 0, 0>>[i + 1]],
                    [i \in Idx(6) |-> <<1, -1, 1, 1, 0, 0>>[i + 1]],
                    [i \in Idx(6) |-> <<0, 1, -1, 0, 1, 0>>[i + 1]]}

=============================================================================
