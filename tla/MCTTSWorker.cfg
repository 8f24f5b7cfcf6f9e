CONSTANTS
  c1 = c1
  c2 = c2
  w1 = w1
  w2 = w2
  w3 = w3
  x1 = x1
  x2 = x2
  x3 = x3
  higgs = higgs
  breeze = breeze
  aceStep = aceStep
  Calls <- CallsV
  Workers <- WorkersV
  Restarters = {user}
  Watchdog = watchdog
  Nobody = nobody
  Call <- CallV
  Kind <- KindV
  Guard <- GuardV
  MayWant <- MayWantV
  Default = higgs
  Llm = Llm
  None = none
SPECIFICATION SidesSpec
INVARIANT TypeOK
INVARIANT OneResident
INVARIANT NobodyStuck
PROPERTY NeverMidRequest
PROPERTY NotClosedInUse
PROPERTY NotOvertaken
PROPERTY EveryRestartEnds
PROPERTY EveryCallReturns
