CONSTANTS
    DIM1Values <- MCDIM1
    DIM2Values <- MCDIM2
    DIM3Values <- MCDIM3
    DIM4Values <- MCDIM4
    Directions <- MCDirections
SPECIFICATION Spec
\* a failed libmesh_assert aborts and libmesh_error_msg throws out of init()
CHECK_DEADLOCK FALSE
INVARIANT SectionMatchesGeometry
INVARIANT SectionSensitivityConsistent
