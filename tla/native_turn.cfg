SPECIFICATION Spec
CONSTANTS
  MaxCalls = 2
  MaxIterations = 2
  MaxParallel = 2
  MaxOverflows = 1
  MaxFeedback = 1
  SnipTrigger = 5
  SnipTail = 2
  MemoryAfter = 4
  MaxNotices = 1
  MaxAnswers = 2
  MaxResumes = 1
INVARIANTS
  TypeOK
  
  ShortPrefixIsPlain
  RepairsAreWellFormed
  
  UnsafeRunsAlone
  AnsweredBlocksSurviveResume
