------------------------ MODULE MCChanSectionCard ------------------------
(* Channel dimensions that reach every check of init() and every branch   *)
(* of calcJ: zeros for the four positivity checks, DIM4 = 3 with DIM2 <= 6 *)
(* for 2 DIM4 >= DIM2, DIM3 = DIM1 = 2 for DIM3 >= DIM1; among the valid   *)
(* ones w_f = t_f (DIM1 = DIM4 = 3), h_w = t_w (DIM2 = 3, DIM4 = DIM3 = 1) *)
(* and 0.5 < t_w/t_f < 1 (DIM3 = 2, DIM4 = 3).  The directions are the    *)
(* four unit directions and one mixed one.                                 *)
EXTENDS ChanSectionCard

MCDIM1 == {0, 2, 3}
MCDIM2 == {0, 3, 4, 7}
MCDIM3 == {0, 1, 2}
MCDIM4 == {0, 1, 3}
MCDirections == {<<1, 0, 0, 0>>, <<0, 1, 0, 0>>, <<0, 0, 1, 0>>, <<0, 0, 0, 1>>,
                 <<1, -1, 2, -1>>}
==========================================================================
