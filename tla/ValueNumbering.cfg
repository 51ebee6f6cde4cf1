SPECIFICATION Spec
CONSTANTS
    MulOperands <- FourOperands
    Optimism = {TRUE, FALSE}
    Inputs <- SomeInputs
    Modulus = 97
    MaxTrips = 3
CHECK_DEADLOCK FALSE
INVARIANTS CongruentIsEqual EliminationSound
