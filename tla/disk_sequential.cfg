CONSTANTS
  t1 = t1
  t2 = t2
  Threads = {t1}
  NoThread = NoThread
  Keys = {a, b}
  Variants = {"d"}
  Default = "d"
  Typed = {}
  Inodes = {1, 2, 3, 4, 5}
  ScriptOn = TRUE
  SaveNew = 0
  CacheOn = TRUE
  Etag = TRUE
  Pictures = {a}
  MaxFaults = 0
  Lvl1 <- Buckets
  Lvl2 <- Buckets
  Role <- AnyRequest
SPECIFICATION Spec
INVARIANT CacheSound NoSpuriousFailure
PROPERTY ImplementsByContent
