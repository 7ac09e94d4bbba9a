SPECIFICATION Spec
CONSTANT
  Kinds = {"request", "response"}
INVARIANT WholeInOneCall
INVARIANT QueryStartSet
INVARIANT HeadComplete
INVARIANT AbortsOnlyAfterEnd
PROPERTY CallbackOrder
CHECK_DEADLOCK FALSE
