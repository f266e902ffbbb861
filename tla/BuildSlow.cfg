\* The script and its compilers alone.
SPECIFICATION BuildSpec
CHECK_DEADLOCK FALSE
INVARIANTS
  FailureHasCause
