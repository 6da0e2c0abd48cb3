\* The injector and the program come to an end.
CONSTANT ArgCounts = {2, 3, 4}
SPECIFICATION Spec
CHECK_DEADLOCK FALSE
INVARIANTS LoadedFirst NoneStranded
