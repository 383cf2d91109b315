SPECIFICATION Spec
CONSTANT Tasks <- AllTasks
INVARIANTS
  BlameNeedsSoundReference
  GapsTeachNothing
