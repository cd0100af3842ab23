CONSTANTS
  NoPlan = NoPlan
  NumTasks = 3
  Slots = {architect, builder}
SPECIFICATION FairSpec
INVARIANTS OneWriterAtATime FinalHasEverything ChildrenReaped
PROPERTIES CommandEnds
\* The command ends.
CHECK_DEADLOCK FALSE
