CONSTANTS
  t1 = t1
  t2 = t2
  Threads = {t1, t2}
  NoThread = NoThread
  Keys = {a}
  Variants = {"d", "t"}
  Default = "d"
  Typed = {"t"}
  Inodes = {1, 2, 3, 4, 5}
  ScriptOn = TRUE
  SaveNew = 2
  CacheOn = TRUE
  Etag = FALSE
  Pictures = {a}
  MaxFaults = 2
  Lvl1 <- Buckets
  Lvl2 <- Buckets
  Role <- OneUploader
SPECIFICATION Spec
INVARIANT UploadStored IncompleteHasWriter NewImgWrote
PROPERTY StoredUntilDeleted
