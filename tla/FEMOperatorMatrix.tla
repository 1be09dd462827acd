-------------------------- MODULE FEMOperatorMatrix --------------------------
(***************************************************************************)
(* Dense linear algebra over the integers and the FEM operator matrix of  *)
(* MAST (numerics/fem_operator_matrix, a collaborator whose source is not *)
(* in this repository; modelled from spec section 4.1).                   *)
(*                                                                         *)
(* A vector of length n is a function on 0..n-1 and an m x n matrix is a   *)
(* function from 0..m-1 to rows, so that indices read exactly as in the    *)
(* C++ code (_local_sol(2*n_phi+i_nd), local_jac(5*n_phi+i, ...)).          *)
(* An operator matrix B with m interpolated rows, nvars variables and      *)
(* nphi shape functions is the m x (nvars*nphi) matrix it stands for:      *)
(* column var*nphi + i holds shape function i of variable var.             *)
(***************************************************************************)
EXTENDS Integers, FiniteSets, TLC

Idx(n) == 0..(n - 1)

Size(v) == Cardinality(DOMAIN v)

ZeroVector(n) == [i \in Idx(n) |-> 0]

ZeroMatrix(m, n) == [i \in Idx(m) |-> ZeroVector(n)]

\* sum_k a[k] * b[k], accumulated left to right as the Eigen products do
Dot(a, b) ==
    LET n == Size(a)
        acc[k \in -1..(n - 1)] == IF k < 0 THEN 0 ELSE acc[k - 1] + a[k] * b[k]
    IN  acc[n - 1]

\* f @@ <<>> is f itself; TLC builds its value once instead of evaluating
\* the defining expression at every application
Stored(v) == v @@ <<>>
StoredMatrix(M) == [i \in DOMAIN M |-> Stored(M[i])] @@ <<>>

Transpose(M) == [j \in DOMAIN M[0] |-> [i \in DOMAIN M |-> M[i][j]]]

MatVec(M, v) == [i \in DOMAIN M |-> Dot(M[i], v)]

MatMul(M, N) ==
    LET NT == Transpose(N)
    IN  StoredMatrix([i \in DOMAIN M |-> [j \in DOMAIN NT |-> Dot(M[i], NT[j])]])

VecAdd(a, b) == [i \in DOMAIN a |-> a[i] + b[i]]
VecSub(a, b) == [i \in DOMAIN a |-> a[i] - b[i]]
VecScale(c, a) == [i \in DOMAIN a |-> c * a[i]]
MatAdd(M, N) == [i \in DOMAIN M |-> VecAdd(M[i], N[i])]
MatSub(M, N) == [i \in DOMAIN M |-> VecSub(M[i], N[i])]
MatScale(c, M) == [i \in DOMAIN M |-> VecScale(c, M[i])]

\* unit vector e_k of length n
Unit(n, k) == [i \in Idx(n) |-> IF i = k THEN 1 ELSE 0]

IsSymmetric(M) == \A i, j \in DOMAIN M : M[i][j] = M[j][i]

-----------------------------------------------------------------------------
(* FEMOperatorMatrix                                                       *)

\* reinit(n_interpolated_vars, n_discrete_vars, n_discrete_dofs_per_var):
\* every (row, variable) slot unset, i.e. zero
Reinit(m, nvars, nphi) == ZeroMatrix(m, nvars * nphi)

\* reinit(n_interpolated_vars, shape_func): row i interpolates variable i
ReinitDiagonal(m, phi) ==
    LET nphi == Size(phi)
    IN  [i \in Idx(m) |-> [j \in Idx(m * nphi) |->
            IF j \div nphi = i THEN phi[j % nphi] ELSE 0]]

\* set_shape_function(row, var, phi): overwrites the slot, never accumulates
SetShapeFunction(B, row, var, phi) ==
    LET nphi == Size(phi)
        r    == B[row]
    IN  [B EXCEPT ![row] = [j \in DOMAIN r |->
            IF j \div nphi = var THEN phi[j % nphi] ELSE r[j]]]

\* vector_mult(out, v): out = B v
VectorMult(B, v) == MatVec(B, v)

\* vector_mult_transpose(out, v): out = B^T v
VectorMultTranspose(B, v) == MatVec(Transpose(B), v)

\* left_multiply(out, M): out = M B
LeftMultiply(M, B) == MatMul(M, B)

\* right_multiply(out, v): out = B v
RightMultiply(B, v) == MatVec(B, v)

\* right_multiply_transpose(out, X): out = B^T X
RightMultiplyTranspose(B, X) == MatMul(Transpose(B), X)

=============================================================================
