CONSTANTS
  Letters = {"n", "b"}
  Others = {"0"}
  NoRequest = NoRequest
  Boundary <- Dashes
  Requests <- MCRequests
SPECIFICATION FairSpec
INVARIANT TypeOK ChunkDelimited PartsAnswered CutSavesWholeParts
PROPERTY Answered
CHECK_DEADLOCK FALSE
