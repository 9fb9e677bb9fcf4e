CONSTANTS
  Models <- TwoModels
  Tops <- MCTops
  Groups <- MCGroups
  Images <- MCImages
  MaxItems = 5
  MaxChoosing = 3
  Bridge = TRUE
SPECIFICATION Spec
VIEW View
INVARIANTS
  TypeOK
  FaithfulTranscript
  ResultsFollowCalls
  OneName
  ReasoningInTurn
