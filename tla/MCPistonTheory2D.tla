------------------------- MODULE MCPistonTheory2D -------------------------
(***************************************************************************)
(* A one-node, two-point element under piston theory: the two points have *)
(* different slopes and weights, and the flow VelVec is set by the .cfg   *)
(* (along x, or yawed so that it has a component along y).                *)
(***************************************************************************)
EXTENDS PistonTheory2D

MCDPhi == [i \in Idx(1) |-> [qp \in Idx(2) |->
              IF qp = 0 THEN [x |-> 1, y |-> -1] ELSE [x |-> 2, y |-> 1]]]
MCJxW == [qp \in Idx(2) |-> qp + 1]
MCPhi == [i \in Idx(1) |-> [qp \in Idx(2) |-> 1]]

MCFlowX == [i \in Idx(2) |-> IF i = 0 THEN 2 ELSE 0]
MCFlowYawed == [i \in Idx(2) |-> IF i = 0 THEN 2 ELSE 1]

\* the load depends on the w dof (2) and its rate only; u (0) varies too
MCSolutions == {x \in [Idx(6) -> -2..2] : x[2] \in -2..2 /\ x[0] \in 0..1
                   /\ \A d \in {1, 3, 4, 5} : x[d] = 0}
MCVelocities == {v \in [Idx(6) -> -1..1] : \A d \in {0, 1, 3, 4, 5} : v[d] = 0}
=============================================================================
