CONSTANTS
  Threads = {t1, t2}
  Keys = {a, b}
  Variants = {"d", "t"}
  Default = "d"
  Typed = {"t"}
  Mode = 3
  ScriptOn = TRUE
  SaveNew = 2
  CacheOn = TRUE
  Etag = TRUE
  Pictures = {a}
  MaxFaults = 1
  Role <- NoDeletes
SYMMETRY Workers
SPECIFICATION Spec
INVARIANT TypeOK UploadStored OriginalVerbatim
