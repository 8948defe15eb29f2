SPECIFICATION Spec
SYMMETRY Symmetry
CONSTANTS
  Fd = {f1, f2, f3}
  Token <- MCToken
  Id <- MCId
  Requests <- WithQuery
  Messages <- MCMessages
INVARIANTS DeliveredAsAsked CountsAsAsked StreamsAreOpened
PROPERTIES StreamUndisturbed ImplementsPubSub
