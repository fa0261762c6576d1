SPECIFICATION Spec
CONSTANTS
  None = None
  Torn = Torn
  Stages <- MCStages
  Runs <- MCRuns
  LoraSpec <- MCLoraSpec
  Projections <- MCProjections
  Detected <- MCProjections
INVARIANTS TypeOK WholeHalvesComeBack StartedSavesAreNoticed EqualFingerprintsReassemble
