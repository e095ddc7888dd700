CONSTANTS
  Threads = {t1}
  Keys = {a}
  Variants = {"d"}
  Default = "d"
  Typed = {}
  Mode = 3
  ScriptOn = TRUE
  SaveNew = 0
  CacheOn = TRUE
  Etag = FALSE
  Pictures = {a}
  MaxFaults = 1
  Role <- AnyRequest
SPECIFICATION Spec
INVARIANT SurvivesFailedCalls
