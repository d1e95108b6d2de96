SPECIFICATION Spec
CONSTANT FaultSets <- SomeFaults
CONSTANT Requests <- RequestBound
INVARIANT GuestContinues StopsOnlyOnFault ParkedDoesNotRun
PROPERTY LadderEnds BothRun
