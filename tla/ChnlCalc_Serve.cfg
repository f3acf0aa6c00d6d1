SPECIFICATION FairChnlSpec
CONSTANTS
  chnl_calc = chnl_calc
  ui_calc = ui_calc
  ChnlA = ChnlA
  ChnlB = ChnlB
  DiffItem = DiffItem
  Executers <- BothExecuters
  Items <- ChnlGroup
  Depends <- ChnlDepends
  MaxRuns = 2
INVARIANTS OnceInOrder FinishIsComplete
PROPERTIES EveryRawCalculated ImplementsExecuter
CHECK_DEADLOCK FALSE
