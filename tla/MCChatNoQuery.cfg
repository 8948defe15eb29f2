SPECIFICATION Spec
SYMMETRY Symmetry
CONSTANTS
  Fd = {f1, f2, f3}
  Token <- MCToken
  Id <- MCId
  Requests <- AnyQuery
  Messages <- MCMessages
INVARIANT StartedByOwnParameter
