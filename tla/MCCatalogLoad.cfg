CONSTANT Disks <- MCDisks
SPECIFICATION Spec
INVARIANTS AppendsLeaveNoHole SchemasInPlace FailureClimbs
PROPERTY LoadEnds
