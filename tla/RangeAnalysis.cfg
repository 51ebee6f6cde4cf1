CONSTANTS
    W = 3
    Checked = {"truncate", "merge", "zero", "divide", "modulo"}
SPECIFICATION Spec
INVARIANTS AgreesWithInterpreter TruncationComplete NoDivideTrap
