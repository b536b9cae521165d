\* One request at a time is enough.
CONSTANTS
  Callers = {a}
  Instances = {i1, i2}
  Configs = {good}
  Valid = {good}
  NoInstance = NoInstance
  NoConfig = NoConfig
SPECIFICATION Spec
INVARIANTS StoppedIsQuiet
