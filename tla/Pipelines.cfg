CONSTANTS
  Null = Null
  Blank = Blank
  a = a
  b = b
  Char = {a, b, Blank}
  Degrees = 2
  Faults = {"fail", "hang", "cut"}
  Jobs <- MCJobs
SPECIFICATION FairSpec
INVARIANTS SummaryRight DemoTornDownLast DegreesAreBalls WordsCounted
PROPERTIES PipelinesEnd
CHECK_DEADLOCK FALSE
