-------------------------- MODULE StressRecovery2D --------------------------
(***************************************************************************)
(* Stress recovery of the 2D structural element: calculate_stress of      *)
(* elasticity/structural_element_2d.cpp, and the stress-strain output     *)
(* records it fills (StressStrainOutputBase::Data, a collaborator not in  *)
(* this repository, modelled from spec section 2).                        *)
(*                                                                         *)
(* Every quadrature point of the element is sampled at the upper and the  *)
(* lower skin (n_added_qp = 2, qp_loc(2) = +1 / -1), so stress point qp   *)
(* lies at z = qp_loc(2) h/2 + h_off.  The strain there is the membrane   *)
(* strain, minus the thermal strain, plus the von Karman strain and the   *)
(* bending strain at z; the stress is material_mat times the strain.      *)
(* Strains and stresses are counted in halves (see StructuralElement2D).  *)
(*                                                                         *)
(* A call with neither a derivative nor a parameter appends one record    *)
(* per stress point; a call with either looks the records up and attaches *)
(* the derivative w.r.t. the solution and/or the sensitivity w.r.t. the   *)
(* parameter p.  Field functions are constants over the element; each     *)
(* comes with its derivative w.r.t. p.                                     *)
(***************************************************************************)
EXTENDS Integers, Sequences, StrainOperators2D

SeqX == INSTANCE SequencesExt

CONSTANTS
    NQp,            \* qp_loc_fe_size: quadrature points of the element
    BendOp,         \* BendOp[qp]: curvature operator; the bending strain
                    \* operator for z is z * BendOp[qp]
    Mat, DMat,      \* mat_stiff (3x3) and its derivative w.r.t. p
    H, DH,          \* thickness "h" and its derivative
    Off, DOff,      \* offset "off" and its derivative
    ThermalLoad,    \* stress_output.get_thermal_load_for_elem(_elem) # nullptr
    Temp, DTemp,    \* "temperature"
    RefTemp, DRefTemp, \* "ref_temperature"
    Alpha, DAlpha,  \* "alpha_expansion"
    IfBending,      \* bending_model(...) != NO_BENDING
    IfVk,           \* strain_type() == VON_KARMAN_STRAIN
    Solutions,      \* values of _local_sol
    Sensitivities   \* values of _local_sol_sens

VARIABLES
    local_sol,      \* _local_sol
    local_sol_sens, \* _local_sol_sens
    data            \* this element's Data records, in the order added

vars == <<local_sol, local_sol_sens, data>>

\* no derivative / sensitivity data attached yet
Unset == [unset |-> TRUE]

NAddedQp == 2

StressPoints == Idx(NQp * NAddedQp)

\* mutant: the stress point index counted from 1
StressPointIndexOneBased(l, s) == l * NAddedQp + s + 1

\* mutant: the stride n_added_qp of the quadrature point index lost
StressPointIndexNoStride(l, s) == l + s

\* qp = qp_loc_index*n_added_qp + section_qp_index
StressPointIndex(l, s) == l * NAddedQp + s

\* qp_loc[i*2](2) = +1 (upper skin), qp_loc[i*2+1](2) = -1 (lower skin)
Skin(qp) == IF qp % NAddedQp = 0 THEN 1 ELSE -1

\* the field functions evaluated at p = t (t = 0: their values)
Fields(t) == [mat   |-> MatAdd(Mat, MatScale(t, DMat)),
              h     |-> H + t * DH,       off  |-> Off + t * DOff,
              temp  |-> Temp + t * DTemp, ref  |-> RefTemp + t * DRefTemp,
              alpha |-> Alpha + t * DAlpha]

\* 2 z for z = qp_loc(2) * h/2 + h_off
TwiceZ(qp, h, off) == Skin(qp) * h + 2 * off

\* a {xx, yy, 0} vector with the same entry c twice
OnDirect(c) == [i \in Idx(3) |-> IF i < 2 THEN c ELSE 0]

\* strain at stress point qp of quadrature point l, in halves
StrainAt(l, qp, x, F) ==
    LET mem  == InHalves(VectorMult(DirectStrainOperator(l), x))
        th   == IF ThermalLoad THEN OnDirect(2 * F.alpha * (F.temp - F.ref))
                ELSE ZeroVector(3)
        vk   == IF IfBending /\ IfVk THEN VonKarmanStrainOperator(l, x).strain
                ELSE ZeroVector(3)
        bend == IF IfBending
                THEN VecScale(TwiceZ(qp, F.h, F.off), VectorMult(BendOp[l], x))
                ELSE ZeroVector(3)
    IN  VecAdd(VecSub(mem, th), VecAdd(vk, bend))

\* dstrain_dX = Bmat_mem (+ vk_dwdxi_mat Bmat_vk + Bmat_bend), in halves
StrainDerivative(l, qp, x, F) ==
    LET vk   == VonKarmanStrainOperator(l, x)
        lin  == IF IfBending /\ IfVk
                THEN MatAdd(DirectStrainOperator(l), LeftMultiply(vk.dwdxi, vk.Bmat))
                ELSE DirectStrainOperator(l)
        bend == IF IfBending THEN MatScale(TwiceZ(qp, F.h, F.off), BendOp[l])
                ELSE ZeroMatrix(3, N2)
    IN  MatAdd(MatInHalves(lin), bend)

\* the partial dstrain_dp at fixed solution: the thermal strain term and
\* the bending strain at z = qp_loc(2) dh/2 + dh_off, in halves
StrainPartialSensitivity(l, qp, x, F) ==
    LET th   == IF ThermalLoad
                THEN OnDirect(2 * (F.alpha * (DTemp - DRefTemp) - DAlpha * (F.temp - F.ref)))
                ELSE ZeroVector(3)
        bend == IF IfBending
                THEN VecScale(TwiceZ(qp, DH, DOff), VectorMult(BendOp[l], x))
                ELSE ZeroVector(3)
    IN  VecAdd(VecScale(-1, th), bend)

\* mutant: the material sensitivity term dmat * strain left out
StressSensitivityNoMaterial(l, qp, x, s, F) ==
    LET dX      == StrainDerivative(l, qp, x, F)
        dstrain == StrainPartialSensitivity(l, qp, x, F)
    IN  [stress |-> VecAdd(MatVec(F.mat, dstrain), MatVec(MatMul(F.mat, dX), s)),
         strain |-> VecAdd(dstrain, MatVec(dX, s))]

\* ds/dp = partial s/partial p + partial s/partial X dX/dp, for stress
\* and strain
StressSensitivity(l, qp, x, s, F) ==
    LET dX      == StrainDerivative(l, qp, x, F)
        dstrain == StrainPartialSensitivity(l, qp, x, F)
    IN  [stress |-> VecAdd(VecAdd(MatVec(F.mat, dstrain),
                                  MatVec(DMat, StrainAt(l, qp, x, F))),
                           MatVec(MatMul(F.mat, dX), s)),
         strain |-> VecAdd(dstrain, MatVec(dX, s))]

\* the copy of {xx, yy, xy} into entries 0, 1, 3 of the 6-component 3D
\* stress / strain (stress_3D(0) = stress(0), ...); the others stay zero
To3D(v) == [i \in Idx(6) |-> CASE i = 0 -> v[0] [] i = 1 -> v[1]
                                [] i = 3 -> v[2] [] OTHER -> 0]

\* the same copy of the rows of a 3 x n2 derivative (dstress_dX_3D.row(0)
\* = dstress_dX.row(0), ...)
Rows3D(M) == [i \in Idx(6) |-> CASE i = 0 -> M[0] [] i = 1 -> M[1]
                                 [] i = 3 -> M[2] [] OTHER -> ZeroVector(N2)]

-----------------------------------------------------------------------------
(* StressStrainOutputBase::Data records of this element                    *)

\* add_stress_strain_at_qp_location: a new record
NewRecord(qp, stress, strain) ==
    [qp |-> qp, stress |-> To3D(stress), strain |-> To3D(strain),
     derivative |-> Unset, sensitivity |-> Unset]

\* get_stress_strain_data_for_elem_at_qp: the first record of point qp
\* (0 if there is none)
RecordAt(d, qp) == SeqX!SelectInSeq(d, LAMBDA r : r.qp = qp)

\* the ClearOutput of the output object before a new evaluation
ClearOutput ==
    /\ data' = <<>>
    /\ UNCHANGED <<local_sol, local_sol_sens>>

-----------------------------------------------------------------------------

\* the loop nest "for qp_loc_index, for section_qp_index", in its order
Visits == [k \in 1..(NQp * NAddedQp) |-> [l |-> (k - 1) \div NAddedQp,
                                          s |-> (k - 1) % NAddedQp]]

\* one visit of the loop at quadrature point l and stress point qp: the
\* stress and strain, dstress_dX / dstrain_dX if request_derivative, and
\* dstress_dp / dstrain_dp if p
Visit(l, qp, request_derivative, p) ==
    LET F      == Fields(0)
        strain == StrainAt(l, qp, local_sol, F)
        dX     == StrainDerivative(l, qp, local_sol, F)
        sens   == StressSensitivity(l, qp, local_sol, local_sol_sens, F)
    IN  [stress      |-> MatVec(F.mat, strain),
         strain      |-> strain,
         derivative  |-> [stress |-> Rows3D(MatMul(F.mat, dX)), strain |-> Rows3D(dX)],
         sensitivity |-> [stress |-> To3D(sens.stress), strain |-> To3D(sens.strain)]]

\* calculate_stress(request_derivative, p, output).  A call with neither
\* adds a record per stress point; otherwise it looks up the record of each
\* point and sets the derivative (if requested) and the sensitivity (if p).
\* A visit of a later point overwrites what an earlier visit of the same
\* record set.
CalculateStress(request_derivative, p) ==
    LET qpOf(k) == StressPointIndex(Visits[k].l, Visits[k].s)
        V(k)    == Visit(Visits[k].l, qpOf(k), request_derivative, p)
        \* the last visit that looked record j up
        last(j) == SeqX!Max({k \in DOMAIN Visits : RecordAt(data, qpOf(k)) = j})
        Attach(r, v) ==
            [r EXCEPT !.derivative  = IF request_derivative THEN v.derivative ELSE @,
                      !.sensitivity = IF p THEN v.sensitivity ELSE @]
    IN  /\ IF ~request_derivative /\ ~p
           THEN data' = data \o [k \in DOMAIN Visits |->
                                   NewRecord(qpOf(k), V(k).stress, V(k).strain)]
           ELSE /\ \A k \in DOMAIN Visits : RecordAt(data, qpOf(k)) # 0
                /\ data' = [j \in DOMAIN data |->
                              IF \E k \in DOMAIN Visits : RecordAt(data, qpOf(k)) = j
                              THEN Attach(data[j], V(last(j)))
                              ELSE data[j]]
        /\ UNCHANGED <<local_sol, local_sol_sens>>

-----------------------------------------------------------------------------
(* The driver                                                              *)

Init ==
    /\ local_sol \in Solutions
    /\ local_sol_sens \in Sensitivities
    /\ data = <<>>

\* the element context is that of one evaluation: it changes only with a
\* new, cleared output
SetSolution(u) ==
    /\ data = <<>>
    /\ local_sol' = u
    /\ UNCHANGED <<local_sol_sens, data>>

SetSolutionSensitivity(s) ==
    /\ data = <<>>
    /\ local_sol_sens' = s
    /\ UNCHANGED <<local_sol, data>>

\* the stress is evaluated once per output, then its derivative and
\* sensitivities are asked for any number of times
Next ==
    \/ ClearOutput
    \/ \E u \in Solutions : SetSolution(u)
    \/ \E s \in Sensitivities : SetSolutionSensitivity(s)
    \/ data = <<>> /\ CalculateStress(FALSE, FALSE)
    \/ \E rd, p \in BOOLEAN : (rd \/ p) /\ CalculateStress(rd, p)

Spec == Init /\ [][Next]_vars

-----------------------------------------------------------------------------
(* Properties                                                              *)

TypeOK ==
    /\ local_sol \in Solutions
    /\ local_sol_sens \in Sensitivities
    /\ data \in Seq([qp : StressPoints, stress : [Idx(6) -> Int],
                     strain : [Idx(6) -> Int],
                     derivative : {Unset} \cup [stress : [Idx(6) -> [Idx(N2) -> Int]],
                                               strain : [Idx(6) -> [Idx(N2) -> Int]]],
                     sensitivity : {Unset} \cup [stress : [Idx(6) -> Int],
                                                strain : [Idx(6) -> Int]]])

\* After calculate_stress returns, the output holds exactly one record per
\* stress point of the element: the libmesh_assert(qp_loc.size() ==
\* n_stress_strain_data_for_elem) that ends calculate_stress, and spec
\* section 2 ("number of records per element equals number of
\* stress-evaluation points").
RecordsMatchPoints ==
    data # <<>> =>
        /\ Len(data) = Cardinality(StressPoints)
        /\ {data[k].qp : k \in DOMAIN data} = StressPoints

\* the stress and strain at stress point qp for the solution x with every
\* field function at p = t
StressRef(qp, x, t) ==
    LET strain == StrainAt(qp \div NAddedQp, qp, x, Fields(t))
    IN  [stress |-> To3D(MatVec(Fields(t).mat, strain)), strain |-> To3D(strain)]

Column(M, i) == [r \in DOMAIN M |-> M[r][i]]

\* Every record holds the stress and strain of the current solution at its
\* point; the derivative calculate_stress attaches to it is the exact
\* derivative of that stress and strain w.r.t. the solution (central
\* difference, exact for the quadratic von Karman strain); and the
\* sensitivity it attaches is the exact total derivative w.r.t. p, with the
\* solution moving along _local_sol_sens and every field function
\* (material, thickness, offset, temperatures, expansion coefficient) along
\* its p-derivative (five-point difference, exact for the cubic stress).
StressDataConsistent ==
    \A k \in DOMAIN data :
      LET r  == data[k]
          S(x, t) == StressRef(r.qp, x, t)
          Along(c) == VecAdd(local_sol, VecScale(c, local_sol_sens))
      IN  /\ r.stress = S(local_sol, 0).stress
          /\ r.strain = S(local_sol, 0).strain
          /\ r.derivative # Unset =>
               \A i \in Idx(N2) :
                 \A Sp \in {S(VecAdd(local_sol, Unit(N2, i)), 0)} :
                 \A Sm \in {S(VecSub(local_sol, Unit(N2, i)), 0)} :
                   /\ VecScale(2, Column(r.derivative.stress, i)) = VecSub(Sp.stress, Sm.stress)
                   /\ VecScale(2, Column(r.derivative.strain, i)) = VecSub(Sp.strain, Sm.strain)
          /\ r.sensitivity # Unset =>
               \A S1 \in {S(Along(1), 1)} : \A Sm1 \in {S(Along(-1), -1)} :
               \A S2 \in {S(Along(2), 2)} : \A Sm2 \in {S(Along(-2), -2)} :
                 \A q \in {"stress", "strain"} :
                   VecScale(12, r.sensitivity[q])
                     = VecSub(VecScale(8, VecSub(S1[q], Sm1[q])), VecSub(S2[q], Sm2[q]))

=============================================================================
