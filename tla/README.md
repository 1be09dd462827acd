# TLA+ models of the MAST structural element kernels

This directory holds TLA+ models of the parts of MAST (`src/`) that TLC can
check, the TLC configurations that check them, and `PROJECT.json`. That file
lists the components, the runs, the mutants, the map from every modelled
definition to the source lines it translates, the findings and the hazards.

## The system

The repository holds one large component and a few small ones.

* **`StructuralElement2D`** (`src/elasticity/structural_element_2d.cpp`) is a
  2D plate/shell element. An assembly driver (not in the repository) does
  three things:
  * it sets the element's solution and solution sensitivity;
  * it zeroes its residual vector `f` and Jacobian `jac`;
  * it calls entry points that *accumulate* into them. These are
    `internal_residual`, `internal_residual_sensitivity`,
    `internal_residual_jac_dot_state_sensitivity`,
    `prestress_residual(_sensitivity)`, `thermal_residual(_sensitivity)`,
    `surface_pressure_residual(_sensitivity)` and
    `piston_theory_residual(_sensitivity)`.

  Each entry point returns a boolean. Spec section 6 says it tells the driver
  whether a Jacobian was populated. The entry points are built on:
  * the strain operators (direct, von Karman, and the von Karman
    sensitivity);
  * the FEM operator matrix collaborator.

  `calculate_stress` recovers stresses at quadrature points into an output
  object.
* **`LevelSetElementBase`** (`src/level_set/level_set_elem_base.cpp`) computes
  SUPG residuals for a level-set equation.
* **`Solid1DChanSectionElementPropertyCard`**
  (`src/property_cards/solid_1d_chan_section_element_property_card.cpp`)
  describes a channel cross-section by four dimensions. The static section
  functions `calcA`, `calcIy`, `calcIz`, `calcIp`, `calcJ` and their
  derivatives `calcd...` compute the area, the inertias and the torsion
  constant. `init()` validates the dimensions once, then builds six
  section-property objects (`Solid1D4ParameterSectionProperty`, not in the
  repository) over the field functions and these section functions.
* The rest is a declarations-only header, a LAPACK wrapper and a data struct.

## Modules

| Module | Models |
|---|---|
| `FEMOperatorMatrix` | Exact integer vectors and matrices, and the operator matrix (`reinit`, `set_shape_function`, the products). The operator matrix's source is not in the repository, so it is modelled from spec section 4.1. |
| `StrainOperators2D` | `initialize_direct_strain_operator`, `initialize_von_karman_strain_operator` and `..._sensitivity`. |
| `StructuralElement2D` | The element: `_internal_residual_operation`, the internal-residual entry points, the prestress, thermal and pressure loads, and the driver's view (state and actions). |
| `MCStructuralElement2D` | Constants for TLC: one shape function per variable (6 dofs) and two quadrature points. |
| `PistonTheory2D` | The piston-theory load: `piston_theory_residual(_sensitivity)`, with tangents with respect to the solution and its rate. |
| `MCPistonTheory2D` | Constants for TLC. |
| `StressRecovery2D` | `calculate_stress`, and the Data records of its output object (`StressStrainOutputBase`, modelled from spec section 2). |
| `MCStressRecovery2D` | Constants for TLC: the element of `MCStructuralElement2D`, 12 solutions and 3 sensitivities. |
| `LevelSetElement` | `LevelSetElementBase`: `internal_residual`, `velocity_residual`, `_tau`, `_initialize_fem_operators`, the sensitivity stubs and the external residuals. |
| `ChanSectionCard` | The channel card: every section function and derivative, and `init()` with its assertion, its checks and the objects it builds. |
| `MCChanSectionCard` | Constants for TLC: 108 configurations of the four dimensions and five parameter directions. |
| `MCLevelSetElement` | Constants for TLC: a bilinear QUAD4 on the unit square with one quadrature point per node. |

**Numbers.** With integer inputs, every Real of these functions is an exact
multiple of 1/2. The only division is the 1/2 of the von Karman strain. So the
models count strains, stresses, forces and stiffnesses in halves, and the
arithmetic is exact. The element sets `_Tmat` to the identity (line 46), so the
transformation to global coordinates is the identity. Field functions (material
matrices, temperatures, pressures) are constants over the element. Each one
comes with its derivative with respect to the sensitivity parameter p.

**State and actions.** The element's state has four parts:
* `local_sol` and `local_sol_sens`;
* the caller's accumulators `f` and `jac` (and `jac_xdot` for piston theory);
* `last`, which records the last entry point, its return value and whether it
  added to `jac`;
* `ncalls`, the calls since the last zeroing, bounded by `MaxCalls`.

The kernel runs use `ContextSpec`. It starts from one element context, and the
driver's `SetSolution` and `SetSolutionSensitivity` reach every other.

The actions are of three kinds:
* `SetSolution` and `SetSolutionSensitivity`;
* `ZeroAccumulators`;
* one `Call...` action per entry point, taken for both values of
  `request_jacobian`.

Each call action is the whole function. It runs the quadrature loop, applies
the sign, adds the results to the caller's buffers under the function's own
guard, and returns the function's value. The early returns, such as
`!if_prestressed`, `!depends_on(p)` and `!if_vk`, are part of the call.

The side versions of `piston_theory_residual(_sensitivity)` (lines 2007–2037)
are stubs: `libmesh_assert(false)`, then `return request_jacobian`. A debug
build aborts there, which ends the behaviour. So the model has only the
release-build step, `CallPistonTheoryResidualSide` and
`CallPistonTheoryResidualSensitivitySide`. That step adds nothing and returns
`request_jacobian`.

**Stress recovery.** `calculate_stress(request_derivative, p)` visits every
quadrature point and both skins (z = ±h/2 + offset). It computes the strain
(membrane, thermal, von Karman, bending) and the stress `D·strain`. A primary
call (no derivative, no parameter) adds a Data record per stress point to the
output. A derivative or sensitivity call looks the records up and attaches
`dstress/dX` and `dstrain/dX`, or the total p-sensitivity
(the partial, plus the solution-sensitivity term through `local_sol_sens`).
The state is the element context and the output's records. The driver's
protocol is:
* the output is cleared before an evaluation;
* the context is fixed during the evaluation;
* the one primary call comes first;
* derivative and sensitivity calls follow in any order.

The protocol clears the output before each primary call. A primary call never
looks for an existing record (line 395), so a second primary call on the same
output would add a second record per point. Spec section 2 says a record is
created once, on first visit, and line 532 asserts the count; no run exercises
this driver error. The lookup of a missing record (a derivative call before
any primary call) is a null pointer dereference and is excluded by the
protocol too.

**Channel card.** Every number is a dual number `<<value, tangent>>` of exact
rationals, with the sum, product and quotient rules in `(+)`, `(-)`, `(\X)`
and `(/)`. Each section function is transcribed once, term by term. Its value
is what the code computes. When the dimensions are seeded with a parameter
direction, its tangent is the exact derivative of that value, and
`SectionSensitivityConsistent` compares it with the code's hand-expanded
`calcd...`. `SectionMatchesGeometry` compares the values with an independent
reference: the web and the two flanges as three rectangles, with second
moments about the centroid.

The state is the dimensions, the build (`debugBuild`), `_initialized`, the
error `init()` threw, whether an assertion aborted, and the last evaluation:
* `InitAsserts` is `libmesh_assert(!_initialized)` failing in a debug build.
* `InitRejects` is the first failing check of the else-if chain throwing.
* `InitBuilds` is the path that builds the objects and sets `_initialized`. A
  release build reaches it on a second call too.
* `Evaluate` is a use of the objects.

For 0.5 < t_w/t_f < 1, `calcJ` adds `calcJc`. That correction has square roots
and decimal coefficients, so the model keeps only which branch is taken, and
the checks that read J exclude that branch.

**Level set.** `internal_residual` adds `∫ N (V·∇φ) + (V·∇N) τ (V·∇φ)` and
its tangent with respect to `_sol`. `velocity_residual` adds
`∫ N φ_t + (V·∇N) τ φ_t` and its tangent with respect to `_vel`.
`τ = 1/Σ_{d,i}|∂N_i/∂x_d V_d|` per point. Every quantity is counted in units
of 1/S, where S is the product over the points of the nonzero sums of `_tau`,
so `τ·S` is an integer and the arithmetic stays exact. A zero sum makes
`τ = inf`. The SUPG terms then multiply inf by the zero row `V·∇N`, so they
are NaN; the flag `nan` records that. The velocity field is fixed when the
element is built (`phi_vel`, chosen in `Init`). The sensitivity stubs add
nothing. The external residuals call `libmesh_error()` on any load except a
DIRICHLET one on a side, so their actions are the paths that return.
`ElementData` tabulates, once per velocity field, what the element computes
at a point from the field alone (`Bmat`, `V·∇N`, `τ·S`).

## Runs

| Run | Checks | Shows |
|---|---|---|
| `kernel` (pass) | `JacobianConsistent` | At each of the 48 solutions, the `internal_residual` tangent equals the five-point difference of the residual. That difference is exact for the cubic von Karman residual. The theta_z diagonal is the exception: it holds the drilling penalty. |
| `assembly` (pass) | `JacobianSymmetric` | Any interleaving of up to two entry-point calls per pass leaves `jac` symmetric. The calls include all `request_jacobian` values, solution changes and zeroings. |
| `loads` (pass) | `LoadJacobianConsistent`, `LoadSensitivityConsistent`, `JacDotStateConsistent` | At every state (48 solutions × 3 sensitivities), `jac_dot_state_sensitivity` equals the central difference of the `internal_residual` tangent along the sensitivity. That difference is exact because the tangent is quadratic. The prestress and thermal tangents, and those of their sensitivities, are the derivatives of their forces. The prestress, thermal and pressure sensitivities are the p-derivatives of their residuals (central difference in p, exact because these are at most quadratic in p). |
| `thermal_ref_temp` (violation) | `LoadSensitivityConsistent` | With `dT0/dp = 1`, `thermal_residual_sensitivity` is wrong: it uses `delta_t_sens = dT/dp` (line 1937). |
| `return_flag` (violation) | `ReturnMeansJacobianPopulated` | Without the von Karman strain, `prestress_residual` returns true but adds nothing to `jac`. The release-build piston side stubs do the same. |
| `piston` (pass) | `PistonJacobianConsistent` | For flow along x, both piston-theory tangents (with respect to the solution and its rate) are derivatives of the force. |
| `stress` (pass) | `TypeOK`, `RecordsMatchPoints`, `StressDataConsistent` | Over every evaluation, the output holds exactly one record per stress point. Each stored stress and strain is the reference at the current solution. The attached derivative is their central difference in each solution dof. The attached sensitivity is their five-point difference along `local_sol + c·local_sol_sens` with the fields at p = c. |
| `stress_alpha` (violation) | `StressDataConsistent` | With `dα/dp ≠ 0` the stress sensitivity is wrong: line 464 subtracts `α(dT − dT0) − dα(T − T0)`, so the `dα` term has the wrong sign. |
| `level_set` (pass) | `TangentConsistent`, `TravellingSolutionResidualZero`, `ResidualFinite` | There are four nonzero velocity fields and every `_sol` and `_vel`. Both tangents are the exact derivatives of their residuals. When `_sol` is linear and `_vel = −V·∇φ`, the sum `internal_residual + velocity_residual` is zero, so both entry points use the same SUPG test functions. No accumulated value is NaN. |
| `level_set_at_rest` (violation) | `ResidualFinite` | An element built with a zero velocity field divides by zero in `_tau` (line 457), and its residuals are NaN. |
| `chan_section` (pass) | `SectionMatchesGeometry`, `SectionSensitivityConsistent` | In debug and release builds, after every accepted `init()`, the area and inertias are those of the three rectangles about the centroid. Along five directions, every `calcd...` is the exact derivative of its section function. |
| `piston_yawed` (violation) | `PistonJacobianConsistent` | For flow with a y component, the tangent loses the `dw/dy` term (lines 2192–2194). |

Every property of a passing run has a mutant in `PROJECT.json`. A mutant is a
plausible bug in the mapped code, such as a lost `*= dw/dy`, a missing
coupling block, a sign flip, a dropped term or an off-by-one bound. TLC finds
each one.

Only the stress module has a type invariant (`TypeOK`, whose `qp` range a
wrong stress-point index breaks). The accumulators of the other modules are
integer functions by construction, and the one bound they have, `MaxCalls`,
is the model's own. So a type invariant there would show nothing about the
code.

The stress run checks no refinement of the output's record protocol. Keeping
the other part of a record on a later pass is the work of the `Data` setters
of `StressStrainOutputBase`, which is not in the repository. A refinement
would only restate the model's own update rule.

The model computes each term of the stress sensitivity from its own operand.
So the order in which `calculate_stress` overwrites `z`, `z_off`, `Bmat_bend`
and `material_mat` with their p-derivatives (lines 473–498) is not expressed.
The code re-fetches each of them at the top of every stress point.

## Bounds

* **Shape functions and quadrature points.** One shape function per variable
  gives all six dofs: u, v, w, θx, θy, θz. Two quadrature points with different
  gradients and weights make the quadrature sums non-trivial.
* **Material matrices.** They are chosen with membrane–bending coupling (B ≠ 0).
  The p-derivatives are chosen so that every term of the sensitivities is
  nonzero.
* **Solutions.** They cover the three values of w, so the von Karman terms are
  nonlinear and of both signs, plus in-plane and rotation values.
* **Sensitivities.** The three sensitivity vectors all have a w component.
* **Calls per pass.** Two calls per pass are enough for every pair of entry
  points to be added together.

* **Stress recovery.** One shape function and two points give four stress
  points. Solutions have in-plane, transverse and rotation values. Each field
  (thickness, offset, temperature, reference temperature, material) has a
  nonzero p-derivative, except α in the pass run.
* **Level set.** A QUAD4 with the trapezoidal rule (one point per node, JxW
  counted in quarters). The shape functions reproduce linear fields, so a
  linear `_sol` with a constant `_vel = −V·∇φ` solves the advection equation
  at every point. The run has 10 solutions (9 linear, 1 not) and 6 rates
  (5 constant, 1 not). The velocity fields are along x, along y, diagonal and
  skew, so τ differs between fields and every term of both residuals is
  nonzero. The field along y is the one for which a `_tau` loop over the
  first dimension only gives zero.

* **Channel card.** Each dimension takes a value that fails its check (0) and
  values that pass. DIM4 = 3 with DIM2 ≤ 6 fails `2 DIM4 >= DIM2`, and
  DIM1 = DIM3 = 2 fails `DIM3 >= DIM1`, so every message of the chain is
  reached. The 12 valid configurations (24 with the two build modes) include:
  * both sides of `w_f > t_f`, and `w_f = t_f` (DIM1 = DIM4 = 3);
  * both sides of `h_w > t_w`, and `h_w = t_w`;
  * the El Darwish branch (t_w/t_f = 2/3).

  The directions are the four unit vectors, so every partial derivative is
  compared, and one mixed direction.

The differences in the properties are exact identities for polynomials of the
degree the code computes. So a pass is a proof for these inputs, not a
floating-point tolerance.

## Fairness

None. The element and the card are sequential code that a driver calls, and
every property is a safety property. A failed `init()` check throws, and a
failed assertion aborts. Nothing in the repository catches either, so the
`chan_section` run stops there and does not check deadlock.

## Not modelled

* The transverse shear and bending operators. They are collaborators outside
  the repository, so the bending strain operator is a constant per quadrature
  point.
* `internal_residual_boundary_velocity`. It integrates over a side with the
  weights JxW·Vn of a boundary velocity and the side's shape functions, which
  are collaborators the models do not have. The side pressure runs use one
  side point with a fixed weight, but a boundary-velocity integral checked
  against nothing in the repository would show nothing.
* `_linearized_geometric_stiffness_sensitivity_with_static_solution`. It is
  reached only from commented-out code.
* In the channel card:
  * the value of the El Darwish correction `calcJc`/`calcdJc`. Its jump at
    t_w/t_f = 0.5 and 1 is listed as a hazard, measured outside TLC;
  * what the `Solid1D4ParameterSectionProperty` objects add to the section
    functions (offsets, the inertia matrix). They are not in the repository;
  * design updates of the dimensions after `init()`. They come from outside
    the repository.
* The level-set output-quantity stubs (`volume_output_quantity`,
  `side_output_quantity`). They only return `request_derivative ||
  request_sensitivity` and change no state.
* `build_level_set_fe`. It chooses a finite-element object by dimension, and
  those collaborators are not in the repository.
* In `calculate_stress`, the lookup of a record that was never added.
* The LAPACK `zggev` interface, the flutter root struct, the 8-parameter
  header, the example and the tests.
