SPECIFICATION FairSpec
CONSTANTS
  t1 = t1
  t2 = t2
  t3 = t3
  Unlimited = Unlimited
  Nobody = Nobody
  Chargers <- Threads
  Limits <- TwoLimits
  MaxCount = 3
  Amounts <- OneOrTwo
  Cancellers <- Threads
  Registrars <- ThreeRegistrars
  Writers <- Threads
  Modes <- AllModes
  Block = 2
  MaxUnits = 4
  MaxFaults = 1
  CreateRetries = 2
  DeleteRetries = 1
  Calls <- FewCalls
  MaxOutput = 1
  TreeKeys <- FiveKeys
  MaxElements = 6
  Lists <- NearlyAscending
  LimbDigits = 2
  Radix = 2
  WordBits = 5
  Numbers <- BorderNumbers
  Divisors <- FewDivisors
  PerSecond = 2
  TickBits = 20
  Doubles <- FewDoubles
  Starts <- FewStarts
  Texts <- FewTexts
  ConstructorKind <- FourConstructors
  MetaKinds <- FourKinds
  TypesOver <- FewTypes
  GroundTypes <- FewGroundTypes
  MaxAsks = 3
  Declarations = {t1, t2, t3}
  SortLists <- FewLists
  Files <- FewFiles
  CaseCount = 3
  Workers = {t1, t2}
INVARIANTS
  BudgetExact
  CalledOnce
  HandleSound
  TempAccounted
  ProcessSound
  KernelsExact
  UnifierSound
  CyclesFound
  ParsesAsWritten
  LowestFailureReported
PROPERTIES
  RunReturns
CHECK_DEADLOCK FALSE
