\* A thread that is lost while another one registers.
CONSTANTS
  Sources = {s1}
  Threads = {t1, t2}
  Rates = {r1}
  NoRate = NoRate
  MaxJobs = 0
  MaxShares = 0
SPECIFICATION Spec
PROPERTIES
  DisconnectionsNoticed
CHECK_DEADLOCK FALSE
