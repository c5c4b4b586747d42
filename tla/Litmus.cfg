SPECIFICATION MoSpec
CONSTANT Litmus = {1, 2, 6, 7}
INVARIANT AssertionsHold
CHECK_DEADLOCK FALSE
