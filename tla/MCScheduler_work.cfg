\* Two sources and two threads: every order of jobs, reports, losses and shares.
CONSTANTS
  Sources = {s1, s2}
  Threads = {t1, t2}
  Rates = {r1}
  NoRate = NoRate
  MaxJobs = 2
  MaxShares = 1
SPECIFICATION Spec
SYMMETRY Symmetry
INVARIANTS
  TypeOK
  LookupsSucceed
  TasksCurrent
  EligibleThreadsHaveWork
PROPERTIES
  NoStaleSubmission
CHECK_DEADLOCK FALSE
