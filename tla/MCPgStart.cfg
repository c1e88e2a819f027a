SPECIFICATION Spec
CONSTANTS
  c1 = c1
  c2 = c2
  c3 = c3
  n1 = n1
  n2 = n2
  Empty = Empty
  NoCall = NoCall
  Clients <- ThreeClients
  Namespaces <- TwoSpaces
  Keys <- OneKey
  Definitions <- Orders
  MaxCalls = 4
SYMMETRY StartSymmetry
INVARIANTS
  TypeOK OneWorkflowPerKey KeysNameWorkflows AnswersAgree NoLateConflict
