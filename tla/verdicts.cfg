SPECIFICATION VerdictSpec
CONSTANT Questions <- MCQuestions
INVARIANTS
  
  
  ComparedFairly
  PrunesLeast
  CapacityTrue
  ReadyMeansServing
  
  
  
CHECK_DEADLOCK FALSE
