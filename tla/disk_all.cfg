CONSTANTS
  t1 = t1
  t2 = t2
  Threads = {t1, t2}
  NoThread = NoThread
  Keys = {a}
  Variants = {"d"}
  Default = "d"
  Typed = {}
  Inodes = {1, 2, 3, 4}
  ScriptOn = TRUE
  SaveNew = 0
  CacheOn = FALSE
  Etag = FALSE
  Pictures = {a}
  MaxFaults = 0
  Lvl1 <- Buckets
  Lvl2 <- Buckets
  Role <- Racing
SPECIFICATION FairSpec
INVARIANT TypeOK OriginalNeverConverted FilesClosed
PROPERTY ImplementsByDirectory Answered
