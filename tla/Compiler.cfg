SPECIFICATION Spec
CONSTANTS
  MaxIter = 3
  Sources <- MCSources
  Stacks <- MCStacks
INVARIANTS ReadsBack ExitsOnlyInLoops MeaningKept EffectSound
CHECK_DEADLOCK FALSE
