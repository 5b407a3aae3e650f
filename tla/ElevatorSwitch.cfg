\* Modules come and go, allocations and sysfs fail.
CONSTANTS
  Queues = {q1, q2}
  noop = noop
  sfq1 = sfq1
  sfq2 = sfq2
  zfq = zfq
  Types = {noop, sfq1, sfq2, zfq}
  Name <- MCName
  Builtin = noop
  Default = "sfq"
  NoType = NoType
  MaxLeak = 1
  MaxOverput = 1
SPECIFICATION Spec
SYMMETRY Symm
INVARIANTS
  RefsExact
  InUseIsLoaded
PROPERTIES
  SwitchEndsAttached
