SPECIFICATION FairSpec
CONSTANTS
  e1 = e1
  e2 = e2
  e3 = e3
  Erd <- Erds
  ProbeList <- ThreeErds
  ClientQueue = 2
  Chunk = 2
  CounterRange = 4
  Buses <- ThreeBuses
INVARIANTS
  PollingNeverStalls
  NoOverlappingCycles
  ProbeIsSequential
  ProbeForgetsNone
  PolledOnceAndAnswered
PROPERTIES
  PollingResumes
  PollSteps
