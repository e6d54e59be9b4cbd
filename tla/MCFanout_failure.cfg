SPECIFICATION Spec
CONSTANT Workers = {w1, w2, w3}
INVARIANT FailureReported
