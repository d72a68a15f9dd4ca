CONSTANTS
  Locals = {0, 1, 2}
  Params = {0}
  LocalType <- MCLocalType
  AssignKinds = {"Copy", "Move", "Store"}
  MaxCode = 3
SPECIFICATION Spec
INVARIANT MutableRefsOverApproximate
