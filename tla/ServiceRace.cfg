\* Two racing requests, two runs, one valid and one invalid configuration, under
\* the fairness of the runtime.
CONSTANTS
  Callers = {a, b}
  Instances = {i1, i2}
  Configs = {good, bad}
  Valid = {good}
  NoInstance = NoInstance
  NoConfig = NoConfig
SPECIFICATION FairSpec
INVARIANTS TypeOK PhaseOwned OnlyValidated ReportedAlive
PROPERTIES ImplementsLifecycle StopConverges
