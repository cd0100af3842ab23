CONSTANTS
  Gates = {g1, g2, g3}
  NoGate = NoGate
  Blank = Blank
  MaxValidations = 3
SPECIFICATION FairSpec
INVARIANTS PassIsEarned BuilderKnowsTheGate OneRepair EveryJudgeIsKept
PROPERTIES CommandEnds
