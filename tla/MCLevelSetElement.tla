------------------------- MODULE MCLevelSetElement -------------------------
(***************************************************************************)
(* The level-set element on a bilinear QUAD4 over the unit square, nodes   *)
(* (0,0), (1,0), (1,1), (0,1), with the trapezoidal rule: one point at     *)
(* each node, weights counted in quarters (JxW = 1).  The shape functions  *)
(* reproduce linear fields exactly, so a linear _sol with a constant _vel *)
(* = -V . grad(phi) solves the advection equation at every point.          *)
(***************************************************************************)
EXTENDS LevelSetElement

NodeX == <<0, 1, 1, 0>>
NodeY == <<0, 0, 1, 1>>

\* N_i = (x or 1 - x)(y or 1 - y): the factor of node i at coordinate c
Factor(ni, c) == IF ni = 1 THEN c ELSE 1 - c
Sign(ni) == IF ni = 1 THEN 1 ELSE -1

MCPhi == [i \in Idx(4) |-> [qp \in Idx(4) |-> IF i = qp THEN 1 ELSE 0]]

MCDPhi == [i \in Idx(4) |-> [qp \in Idx(4) |-> [d \in Idx(2) |->
             IF d = 0 THEN Sign(NodeX[i + 1]) * Factor(NodeY[i + 1], NodeY[qp + 1])
                      ELSE Sign(NodeY[i + 1]) * Factor(NodeX[i + 1], NodeX[qp + 1])]]]

MCJxW == [qp \in Idx(4) |-> 1]

Uniform(vx, vy) == [qp \in Idx(4) |-> [d \in Idx(2) |-> IF d = 0 THEN vx ELSE vy]]

\* nodal values of a x + b y
Linear(a, b) == [i \in Idx(4) |-> a * NodeX[i + 1] + b * NodeY[i + 1]]

MCVelocityFields == {Uniform(1, 0), Uniform(0, 1), Uniform(1, 1), Uniform(2, -1)}
\* the fields of MCVelocityFields and a level set at rest
MCVelocityFieldsAtRest == MCVelocityFields \cup {Uniform(0, 0)}

MCSolutions == {Linear(a, b) : a, b \in -1..1} \cup
               {[i \in Idx(4) |-> IF i = 2 THEN 1 ELSE 0]}
MCRates == {[i \in Idx(4) |-> c] : c \in -2..2} \cup
           {[i \in Idx(4) |-> IF i = 0 THEN 1 ELSE 0]}

=============================================================================
