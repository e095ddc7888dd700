CONSTANTS
  Threads = {t1, t2}
  Keys = {a}
  Variants = {"d", "t"}
  Default = "d"
  Typed = {"t"}
  Mode = 2
  ScriptOn = TRUE
  SaveNew = 2
  CacheOn = TRUE
  Etag = FALSE
  Pictures = {a}
  MaxFaults = 0
  Role <- AnyRequest
SYMMETRY Workers
SPECIFICATION Spec
INVARIANT OriginalNeverConverted
PROPERTY ImplementsStore
