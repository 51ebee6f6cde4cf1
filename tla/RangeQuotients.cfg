CONSTANTS
    W = 3
    Checked = {"quotients"}
SPECIFICATION Spec
INVARIANT TruncatedSumOfQuotientsExact
