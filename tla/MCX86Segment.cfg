CONSTANT Inputs <- SegmentInputs
SPECIFICATION Spec
CHECK_DEADLOCK FALSE
INVARIANT LastSegmentCounts
