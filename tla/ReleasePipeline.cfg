CONSTANT Subjects <- EveryFact
SPECIFICATION Spec
CHECK_DEADLOCK FALSE
INVARIANTS
  ValidatedDocumentsAgree
  ValidatedArtifactsAreCurrent
  RoundsSettle
  
PROPERTIES
  GeneratorsKeepWhatIsValidated
