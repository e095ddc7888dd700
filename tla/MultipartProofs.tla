--------------------------- MODULE MultipartProofs ---------------------------
(* Proofs about Multipart, for any boundary and any bodies. *)
EXTENDS MultipartForms, SequenceTheorems, WellFoundedInduction, TLAPS

\* No boundary begins in the data before j.
CleanUpTo(j) == \A k \in dmark..(j - 1) : ~DelimiterAt(k)

\* What the parser knows of the bytes behind it, in each state of a part's
\* data: how much of a delimiter it has seen, and that there was none before.
ScanInv ==
  /\ pc = "idle" => i = 1 /\ x_state = "start_boundary"
  /\ In({"part_data"}) => dmark <= i /\ CleanUpTo(i)
  /\ In({"part_data_almost_boundary"}) =>
       /\ i = dbmark + 1 /\ dmark <= dbmark /\ CleanUpTo(dbmark)
       /\ body[dbmark] = CR
  /\ In({"part_data_boundary"}) =>
       /\ index < BoundaryLength /\ i = dbmark + 2 + index
       /\ dmark <= dbmark /\ CleanUpTo(dbmark)
       /\ body[dbmark] = CR /\ body[dbmark + 1] = LF
       /\ \A k \in 1..index : body[dbmark + 1 + k] = Boundary[k]
  /\ ChunkDelimited

Inv == TypeOK /\ ScanInv

LEMMA LengthType == BoundaryLength \in Nat \ {0}
  BY BoundaryAssumption DEF BoundaryLength

LEMMA InitInv == Init => Inv
  <1> SUFFICES ASSUME Init PROVE Inv
    OBVIOUS
  <1>1. TypeOK
    <2>1. BoundaryLength \in Nat \ {0} /\ 0 \in 0..(BoundaryLength + 1)
      BY LengthType
    <2>2. <<>> \in Seq(Told)
      OBVIOUS
    <2>3. i \in Nat \ {0} /\ mark \in Nat /\ dmark \in Nat /\ dbmark \in Nat
          /\ succno \in Nat /\ index \in 0..(BoundaryLength + 1)
      BY <2>1 DEF Init
    <2>4. check_name \in BOOLEAN /\ out \in Seq(Told) /\ x_state \in States
      BY <2>2 DEF Init, States
    <2>5. QED
      BY <2>3, <2>4 DEF Init, TypeOK
  <1>2. ScanInv
    BY DEF Init, ScanInv, In, ChunkDelimited
  <1>3. QED
    BY <1>1, <1>2 DEF Inv

-----------------------------------------------------------------------------
(* The answer *)

LEMMA ResultType ==
  ASSUME NEW msg \in {"ok", "save", "type", "failed"}, NEW from \in Nat, NEW to \in Nat
  PROVE  Result(msg, from, to) \in Told
  BY DEF Result, Told

LEMMA AddType ==
  ASSUME TypeOK, NEW rs \in Seq(Told)
  PROVE  AddResults(rs) \in Seq(Told)
  BY DEF TypeOK, AddResults

LEMMA TellTypeType ==
  ASSUME TypeOK, NEW n \in Nat
  PROVE  TellType(n) \in Seq(Told)
  <1> DEFINE rs == [k \in 1..n |-> Result("type", 0, 0)]
  <1>1. Result("type", 0, 0) \in Told
    BY ResultType
  <1>2. rs \in [1..n -> Told]
    BY <1>1
  <1>3. rs \in Seq(Told)
    BY <1>2
  <1> QED
    BY <1>3, AddType DEF TellType

LEMMA HeaderValueType ==
  ASSUME TypeOK, NEW v, OnHeaderValue(v) \/ OnLastHeaderValue(v)
  PROVE  check_name' \in BOOLEAN /\ succno' \in Nat /\ out' \in Seq(Told)
  BY TellTypeType DEF TypeOK, OnHeaderValue, OnLastHeaderValue

LEMMA ChunkDataType ==
  ASSUME TypeOK, NEW from \in Nat, NEW to \in Int, OnChunkData(from, to)
  PROVE  check_name' \in BOOLEAN /\ succno' \in Nat /\ out' \in Seq(Told)
  <1>1. CASE check_name \/ to < from
    BY <1>1 DEF OnChunkData, TypeOK, mp_arg
  <1>2. CASE ~check_name /\ ~(to < from)
    <2>1. to \in Nat
      BY <1>2
    <2>2. /\ <<Result("ok", from, to)>> \in Seq(Told)
          /\ <<Result("save", from, to)>> \in Seq(Told)
      BY <2>1, ResultType
    <2>3. /\ AddResults(<<Result("ok", from, to)>>) \in Seq(Told)
          /\ AddResults(<<Result("save", from, to)>>) \in Seq(Told)
      BY <2>2, AddType
    <2>4. QED
      BY <1>2, <2>3 DEF OnChunkData, TypeOK, mp_arg
  <1>3. QED
    BY <1>1, <1>2

-----------------------------------------------------------------------------
(* The parser *)

LEMMA RequestStays ==
  ASSUME Execute
  PROVE  pc = "parse" /\ req' = req
  BY DEF Execute, StartBoundary, HeaderField, HeadersAlmostDone, HeaderValueStart,
         HeaderValue, HeaderValueAlmostDone, PartData, PartDataAlmostBoundary,
         PartDataBoundary, PartDataAlmostEnd, PartDataFinalHyphen, PartDataEnd,
         End, In

\* The position stays within the body while the parser runs.
LEMMA MoveType ==
  ASSUME TypeOK, pc = "parse", Advance \/ (i' = i /\ pc' \in {"parse", "parsed"}), req' = req
  PROVE  /\ i' \in Nat \ {0}
         /\ pc' \in {"parse", "parsed"}
         /\ pc' = "parse" => i' <= Len(body)
  <1>1. Len(body) \in Nat /\ i \in Nat \ {0} /\ i <= Len(body)
    BY DEF TypeOK, IsRequest, body
  <1>2. QED
    BY <1>1 DEF Advance, isLast

LEMMA ExecuteType ==
  ASSUME Inv, Execute
  PROVE  TypeOK'
  <1>1. TypeOK /\ ScanInv /\ pc = "parse" /\ req' = req
    BY RequestStays DEF Inv
  <1>2. /\ i \in Nat \ {0} /\ index \in 0..(BoundaryLength + 1)
        /\ mark \in Nat /\ dmark \in Nat /\ dbmark \in Nat
        /\ check_name \in BOOLEAN /\ succno \in Nat /\ out \in Seq(Told)
        /\ x_state \in States /\ BoundaryLength \in Nat \ {0}
        /\ IsRequest(req)
    BY <1>1, LengthType DEF TypeOK
  <1>3. /\ Advance \/ (i' = i /\ pc' \in {"parse", "parsed"})
        /\ x_state' \in States
        /\ mark' \in Nat /\ dmark' \in Nat /\ dbmark' \in Nat
    BY <1>1, <1>2
    DEF Execute, StartBoundary, HeaderField, HeadersAlmostDone, HeaderValueStart,
        HeaderValue, HeaderValueAlmostDone, PartData, PartDataAlmostBoundary,
        PartDataBoundary, PartDataAlmostEnd, PartDataFinalHyphen, PartDataEnd,
        End, In, Stop, Again, Become, States
  <1>4. index' \in 0..(BoundaryLength + 1)
    <2>1. CASE PartDataBoundary
      BY <1>1, <1>2, <2>1 DEF PartDataBoundary, ScanInv, In
    <2>2. CASE StartBoundary
      BY <1>1, <1>2, <2>2 DEF StartBoundary
    <2>3. CASE PartDataAlmostBoundary
      <3>1. index' = 0 \/ index' = index
        BY <2>3 DEF PartDataAlmostBoundary
      <3>2. QED
        BY <1>2, <3>1
    <2>4. CASE ~PartDataBoundary /\ ~StartBoundary /\ ~PartDataAlmostBoundary
      <3>1. index' = index
        BY <2>4
        DEF Execute, HeaderField, HeadersAlmostDone, HeaderValueStart,
            HeaderValue, HeaderValueAlmostDone, PartData,
            PartDataAlmostEnd, PartDataFinalHyphen, PartDataEnd, End
      <3>2. QED
        BY <1>2, <3>1
    <2>5. QED
      BY <2>1, <2>2, <2>3, <2>4
  <1>5. check_name' \in BOOLEAN /\ succno' \in Nat /\ out' \in Seq(Told)
    <2>1. CASE HeaderValue
      <3>1. \/ \E v : OnHeaderValue(v) \/ OnLastHeaderValue(v)
            \/ UNCHANGED <<mp_arg, out>>
        BY <2>1 DEF HeaderValue
      <3>2. QED
        BY <1>1, <1>2, <3>1, HeaderValueType DEF mp_arg
    <2>2. CASE PartDataFinalHyphen \/ PartDataEnd
      <3>1. OnChunkData(dmark, dbmark - 1) \/ UNCHANGED <<mp_arg, out>>
        BY <2>2 DEF PartDataFinalHyphen, PartDataEnd
      <3>2. dbmark - 1 \in Int
        BY <1>2
      <3>3. QED
        BY <1>1, <1>2, <3>1, <3>2, ChunkDataType DEF mp_arg
    <2>3. CASE ~HeaderValue /\ ~PartDataFinalHyphen /\ ~PartDataEnd
      BY <1>2, <2>3
      DEF Execute, StartBoundary, HeaderField, HeadersAlmostDone, HeaderValueStart,
          HeaderValueAlmostDone, PartData, PartDataAlmostBoundary,
          PartDataBoundary, PartDataAlmostEnd, End, mp_arg
    <2>4. QED
      BY <2>1, <2>2, <2>3
  <1>6. QED
    BY <1>1, <1>2, <1>3, <1>4, <1>5, MoveType DEF TypeOK, body

\* The states in which the parser knows something of the data behind it.
DataStates == {"part_data", "part_data_almost_boundary", "part_data_boundary",
               "part_data_almost_end", "part_data_final_hyphen", "part_data_end"}

LEMMA BoundaryLine ==
  ASSUME NEW k \in 1..BoundaryLength
  PROVE  Boundary[k] # CR
  BY BoundaryAssumption DEF BoundaryLength

\* Wherever the parser leaves the data, there is nothing to know.
LEMMA OutsideScan ==
  ASSUME pc' # "idle", pc' = "parse" => x_state' \notin DataStates
  PROVE  ScanInv'
  BY DEF ScanInv, ChunkDelimited, In, DataStates

\* The parser's position is in the body, and the body stays.
LEMMA Behind ==
  ASSUME Inv, Execute
  PROVE  /\ TypeOK /\ ScanInv /\ pc = "parse" /\ body' = body
         /\ i \in Nat /\ i <= Len(body) /\ Len(body) \in Nat
         /\ dmark \in Nat /\ dbmark \in Nat /\ index \in Nat
         /\ BoundaryLength \in Nat \ {0}
         /\ \A j : DelimiterAt(j)' <=> DelimiterAt(j)
  <1>1. TypeOK /\ ScanInv /\ pc = "parse" /\ req' = req
    BY RequestStays DEF Inv
  <1>2. BoundaryLength \in Nat \ {0}
    BY LengthType
  <1>3. Len(body) \in Nat
    BY <1>1 DEF TypeOK, IsRequest, body
  <1>4. i \in Nat /\ i <= Len(body) /\ dmark \in Nat /\ dbmark \in Nat /\ index \in Nat
    BY <1>1, <1>2 DEF TypeOK
  <1>5. body' = body
    BY <1>1 DEF body
  <1>6. \A j : DelimiterAt(j)' <=> DelimiterAt(j)
    BY <1>5 DEF DelimiterAt, BoundaryLength
  <1>7. QED
    BY <1>1, <1>2, <1>3, <1>4, <1>5, <1>6

\* A byte of data.
LEMMA DataScan ==
  ASSUME Inv, Execute, PartData
  PROVE  ScanInv'
  <1>1. CASE pc' # "parse"
    <2>1. pc' = "parsed"
      BY <1>1, Behind DEF PartData, Advance
    <2>2. QED
      BY <2>1, OutsideScan
  <1>2. CASE pc' = "parse"
    <2>1. i' = i + 1 /\ dmark' \in Nat /\ dmark' <= i
      BY Behind DEF PartData, Advance, ScanInv, In
    <2>2. \A k \in dmark'..(i - 1) : ~DelimiterAt(k)
      BY Behind DEF PartData, ScanInv, In, CleanUpTo
    <2>3. CASE c = CR
      <3>1. dbmark' = i /\ x_state' = "part_data_almost_boundary"
        BY <2>3 DEF PartData, Become
      <3>2. CleanUpTo(dbmark)'
        BY <2>2, <3>1, Behind DEF CleanUpTo
      <3>3. body'[dbmark'] = CR
        BY <2>3, <3>1, Behind DEF c
      <3>4. QED
        BY <1>2, <2>1, <3>1, <3>2, <3>3, Behind DEF ScanInv, ChunkDelimited, In
    <2>4. CASE c # CR
      <3>1. x_state' = "part_data"
        BY <2>4 DEF PartData, Become
      <3>2. ~DelimiterAt(i)
        BY <2>4 DEF DelimiterAt, c
      <3>3. \A k \in dmark'..(i' - 1) : ~DelimiterAt(k)
        BY <2>1, <2>2, <3>2, Behind
      <3>4. CleanUpTo(i)'
        BY <3>3, Behind DEF CleanUpTo
      <3>5. QED
        BY <1>2, <2>1, <3>1, <3>4, Behind DEF ScanInv, ChunkDelimited, In
    <2>5. QED
      BY <2>3, <2>4
  <1>3. QED
    BY <1>1, <1>2

\* The byte after a CR.
LEMMA AlmostBoundaryScan ==
  ASSUME Inv, Execute, PartDataAlmostBoundary
  PROVE  ScanInv'
  <1>1. CASE pc' # "parse"
    <2>1. pc' = "parsed"
      BY <1>1, Behind DEF PartDataAlmostBoundary, Advance, Again
    <2>2. QED
      BY <2>1, OutsideScan
  <1>2. CASE pc' = "parse"
    <2>1. /\ i = dbmark + 1 /\ dmark <= dbmark /\ CleanUpTo(dbmark)
          /\ body[dbmark] = CR /\ dmark' = dmark /\ dbmark' = dbmark
      BY Behind DEF PartDataAlmostBoundary, ScanInv, In
    <2>2. CASE c = LF
      <3>1. x_state' = "part_data_boundary" /\ index' = 0 /\ i' = i + 1
        BY <2>2 DEF PartDataAlmostBoundary, Become, Advance
      <3>2. CleanUpTo(dbmark)'
        BY <2>1, Behind DEF CleanUpTo
      <3>3. body'[dbmark'] = CR /\ body'[dbmark' + 1] = LF
        BY <2>1, <2>2, Behind DEF c
      <3>4. /\ index' < BoundaryLength /\ i' = dbmark' + 2 + index'
            /\ 1..index' = {}
        BY <2>1, <3>1, Behind
      <3>5. QED
        BY <1>2, <2>1, <3>1, <3>2, <3>3, <3>4, Behind
        DEF ScanInv, ChunkDelimited, In, BoundaryLength
    <2>3. CASE c # LF
      <3>1. x_state' = "part_data" /\ i' = i
        BY <2>3 DEF PartDataAlmostBoundary, Become, Again
      <3>2. ~DelimiterAt(dbmark)
        BY <2>1, <2>3 DEF DelimiterAt, c
      <3>3. \A k \in dmark'..(i' - 1) : ~DelimiterAt(k)
        BY <2>1, <3>1, <3>2, Behind DEF CleanUpTo
      <3>4. CleanUpTo(i)' /\ dmark' <= i'
        BY <2>1, <3>1, <3>3, Behind DEF CleanUpTo
      <3>5. QED
        BY <1>2, <3>1, <3>4, Behind DEF ScanInv, ChunkDelimited, In
    <2>4. QED
      BY <2>2, <2>3
  <1>3. QED
    BY <1>1, <1>2

\* The bytes after a line end: it begins a delimiter, or no delimiter begins in
\* the bytes that were compared, for a boundary holds no CR.
LEMMA BoundaryScan ==
  ASSUME Inv, Execute, PartDataBoundary
  PROVE  ScanInv'
  <1>1. CASE pc' # "parse"
    <2>1. pc' = "parsed"
      BY <1>1, Behind DEF PartDataBoundary, Advance, Again
    <2>2. QED
      BY <2>1, OutsideScan
  <1>2. CASE pc' = "parse"
    <2>1. /\ index < BoundaryLength /\ i = dbmark + 2 + index
          /\ dmark <= dbmark /\ CleanUpTo(dbmark)
          /\ body[dbmark] = CR /\ body[dbmark + 1] = LF
          /\ \A k \in 1..index : body[dbmark + 1 + k] = Boundary[k]
          /\ dmark' = dmark /\ dbmark' = dbmark
      BY Behind DEF PartDataBoundary, ScanInv, In
    <2>2. CleanUpTo(dbmark)'
      BY <2>1, Behind DEF CleanUpTo
    <2> /\ i \in Nat /\ index \in Nat /\ dbmark \in Nat /\ dmark \in Nat
        /\ BoundaryLength \in Nat
      BY Behind
    <2>3. CASE c = Boundary[index + 1]
      <3>1. index' = index + 1
        BY <2>3 DEF PartDataBoundary
      <3>2. i' = i + 1
        BY <2>3 DEF PartDataBoundary, Advance
      <3>3. \A k \in 1..index' : body[dbmark + 1 + k] = Boundary[k]
        <4>1. body[dbmark + 1 + (index + 1)] = Boundary[index + 1]
          <5>1. i = dbmark + 1 + (index + 1)
            BY <2>1, Behind
          <5>2. QED
            BY <2>3, <5>1 DEF c
        <4>2. \A k \in 1..(index + 1) : k \in 1..index \/ k = index + 1
          BY Behind
        <4>3. QED
          BY <2>1, <3>1, <4>1, <4>2
      <3>4. CASE index' = BoundaryLength
        <4>1. x_state' = "part_data_almost_end"
          BY <2>3, <3>4 DEF PartDataBoundary, Become
        <4>2. dbmark + 1 + BoundaryLength <= Len(body)
          BY <2>1, <3>1, <3>4, Behind
        <4>3. DelimiterAt(dbmark)
          BY <2>1, <3>3, <3>4, <4>2 DEF DelimiterAt
        <4>4. DelimiterAt(dbmark)'
          BY <2>1, <4>3, Behind DEF DelimiterAt, BoundaryLength
        <4>5. QED
          BY <1>2, <2>1, <2>2, <4>1, <4>4, Behind
          DEF ScanInv, ChunkDelimited, In, CleanUpTo
      <3>5. CASE index' # BoundaryLength
        <4>1. x_state' = "part_data_boundary"
          BY <2>3, <3>5 DEF PartDataBoundary, Become
        <4>2. index' < BoundaryLength /\ i' = dbmark' + 2 + index'
          BY <2>1, <3>1, <3>2, <3>5
        <4>3. /\ body'[dbmark'] = CR /\ body'[dbmark' + 1] = LF
              /\ \A k \in 1..index' : body'[dbmark' + 1 + k] = Boundary[k]
          BY <2>1, <3>3, Behind
        <4>4. QED
          BY <1>2, <2>1, <2>2, <4>1, <4>2, <4>3
          DEF ScanInv, ChunkDelimited, In, BoundaryLength
      <3>6. QED
        BY <3>4, <3>5
    <2>4. CASE c # Boundary[index + 1]
      <3>1. x_state' = "part_data" /\ i' = i
        BY <2>4 DEF PartDataBoundary, Become, Again
      <3>2. ~DelimiterAt(dbmark)
        <4>1. i = dbmark + 1 + (index + 1) /\ index + 1 \in 1..BoundaryLength
          BY <2>1, Behind
        <4>2. QED
          BY <2>4, <4>1 DEF DelimiterAt, c
      <3>3. \A k \in (dbmark + 1)..(i - 1) : ~DelimiterAt(k)
        <4>1. SUFFICES ASSUME NEW k \in (dbmark + 1)..(i - 1)
                       PROVE  body[k] # CR
          BY DEF DelimiterAt
        <4>2. CASE k = dbmark + 1
          BY <2>1, <4>2 DEF CR, LF
        <4>3. CASE k # dbmark + 1
          <5>1. k - dbmark - 1 \in 1..index /\ k = dbmark + 1 + (k - dbmark - 1)
            BY <2>1, <4>3
          <5>2. body[k] = Boundary[k - dbmark - 1]
            BY <2>1, <5>1
          <5>3. k - dbmark - 1 \in 1..BoundaryLength
            BY <2>1, <5>1, Behind
          <5>4. QED
            BY <5>2, <5>3, BoundaryLine
        <4>4. QED
          BY <4>2, <4>3
      <3>4. \A k \in dmark..(i - 1) : ~DelimiterAt(k)
        <4>1. \A k \in dmark..(i - 1) :
                k \in dmark..(dbmark - 1) \/ k = dbmark \/ k \in (dbmark + 1)..(i - 1)
          BY <2>1, Behind
        <4>2. QED
          BY <2>1, <3>2, <3>3, <4>1 DEF CleanUpTo
      <3>5. CleanUpTo(i)' /\ dmark' <= i'
        BY <2>1, <3>1, <3>4, Behind DEF CleanUpTo
      <3>6. QED
        BY <1>2, <3>1, <3>5, Behind DEF ScanInv, ChunkDelimited, In
    <2>5. QED
      BY <2>3, <2>4
  <1>3. QED
    BY <1>1, <1>2

\* After the boundary: what was found stays, until the data is handed over.
LEMMA EndScan ==
  ASSUME Inv, Execute, PartDataAlmostEnd \/ PartDataFinalHyphen \/ PartDataEnd
  PROVE  ScanInv'
  <1>1. pc' \in {"parse", "parsed"} /\ dmark' = dmark /\ dbmark' = dbmark
    BY Behind DEF PartDataAlmostEnd, PartDataFinalHyphen, PartDataEnd, Advance, Stop
  <1>2. CASE pc' = "parse" /\ x_state' \in DataStates
    <2>1. /\ In({"part_data_almost_end"})
          /\ x_state' \in {"part_data_final_hyphen", "part_data_end"}
      BY <1>2 DEF PartDataAlmostEnd, PartDataFinalHyphen, PartDataEnd, Become, Stop,
                  DataStates, In
    <2>2. /\ dmark <= dbmark /\ DelimiterAt(dbmark)
          /\ \A j \in dmark..(dbmark - 1) : ~DelimiterAt(j)
      BY <2>1, Behind DEF ScanInv, ChunkDelimited, In
    <2>3. DelimiterAt(dbmark)'
      BY <1>1, <2>2, Behind DEF DelimiterAt, BoundaryLength
    <2>4. ChunkDelimited'
      BY <1>1, <2>2, <2>3, Behind DEF ChunkDelimited
    <2>5. QED
      BY <1>2, <2>1, <2>4 DEF ScanInv, In
  <1>3. QED
    BY <1>1, <1>2, OutsideScan

LEMMA ExecuteScan ==
  ASSUME Inv, Execute
  PROVE  ScanInv'
  <1>1. CASE PartData \/ PartDataAlmostBoundary \/ PartDataBoundary
    BY <1>1, DataScan, AlmostBoundaryScan, BoundaryScan
  <1>2. CASE PartDataAlmostEnd \/ PartDataFinalHyphen \/ PartDataEnd
    BY <1>2, EndScan
  <1>3. CASE \/ StartBoundary \/ HeaderField \/ HeadersAlmostDone \/ HeaderValueStart
             \/ HeaderValue \/ HeaderValueAlmostDone \/ End
    <2>1. pc' \in {"parse", "parsed"} /\ (pc' = "parse" => x_state' \notin DataStates)
      BY <1>3, Behind
      DEF StartBoundary, HeaderField, HeadersAlmostDone, HeaderValueStart,
          HeaderValue, HeaderValueAlmostDone, End, Advance, Stop, Become, In,
          DataStates
    <2>2. QED
      BY <2>1, OutsideScan
  <1>4. QED
    BY <1>1, <1>2, <1>3 DEF Execute

-----------------------------------------------------------------------------
(* The requests *)

LEMMA ReceiveInv ==
  ASSUME Inv, Receive
  PROVE  Inv'
  <1>1. PICK r \in Requests :
          /\ req' = r
          /\ \/ r.kind = "multipart" /\ pc' = "parse" /\ UNCHANGED out
             \/ /\ r.kind = "image" /\ pc' = "reply"
                /\ out' = <<Result("ok", 1, Len(r.body))>>
             \/ r.kind = "fatal" /\ pc' = "dead" /\ UNCHANGED out
             \/ /\ r.kind \notin {"multipart", "fatal"} /\ pc' = "reply"
                /\ out' = ErrorAnswer(r.service)
    BY DEF Receive
  <1>2. TypeOK /\ ScanInv /\ pc = "idle" /\ UNCHANGED <<parser, mp_arg>>
    BY DEF Inv, Receive
  <1>3. x_state' = "start_boundary" /\ pc' \in {"parse", "reply", "dead"}
    BY <1>1, <1>2 DEF ScanInv, parser
  <1>4. ScanInv'
    BY <1>3, OutsideScan DEF DataStates
  <1>5. IsRequest(r) /\ Len(r.body) \in Nat
    BY RequestsAssumption DEF IsRequest
  <1>6. out' \in Seq(Told)
    <2>1. Result("ok", 1, Len(r.body)) \in Told /\ Result("failed", 0, 0) \in Told
      BY <1>5, ResultType
    <2>2. /\ <<Result("ok", 1, Len(r.body))>> \in Seq(Told)
          /\ ErrorAnswer(r.service) \in Seq(Told)
      BY <2>1 DEF ErrorAnswer
    <2>3. QED
      BY <1>1, <1>2, <2>2 DEF TypeOK
  <1>7. TypeOK'
    <2>1. /\ i' \in Nat \ {0} /\ mark' \in Nat /\ dmark' \in Nat /\ dbmark' \in Nat
          /\ index' \in 0..(BoundaryLength + 1) /\ x_state' \in States
          /\ check_name' \in BOOLEAN /\ succno' \in Nat
      BY <1>2 DEF TypeOK, parser, mp_arg
    <2>2. i' = 1 /\ i' <= Len(r.body)
      BY <1>2, <1>5 DEF ScanInv, TypeOK, parser, IsRequest
    <2>3. QED
      BY <1>1, <1>3, <1>5, <1>6, <2>1, <2>2 DEF TypeOK, BoundaryLength, body
  <1>8. QED
    BY <1>4, <1>7 DEF Inv

LEMMA MultipartParsedInv ==
  ASSUME Inv, MultipartParsed
  PROVE  Inv'
  <1>1. TypeOK
    BY DEF Inv
  <1>2. out' \in Seq(Told)
    <2>1. Result("failed", 0, 0) \in Told
      BY ResultType
    <2>2. QED
      BY <1>1, <2>1 DEF MultipartParsed, TypeOK
  <1>3. TypeOK'
    BY <1>1, <1>2 DEF MultipartParsed, TypeOK, parser, mp_arg, BoundaryLength, body
  <1>4. ScanInv'
    BY OutsideScan DEF MultipartParsed
  <1>5. QED
    BY <1>3, <1>4 DEF Inv

LEMMA ReplyInv ==
  ASSUME Inv, Reply
  PROVE  Inv'
  <1>1. TypeOK'
    <2>1. BoundaryLength \in Nat \ {0} /\ 0 \in 0..(BoundaryLength + 1)
      BY LengthType
    <2>2. <<>> \in Seq(Told)
      OBVIOUS
    <2>3. /\ i' \in Nat \ {0} /\ mark' \in Nat /\ dmark' \in Nat /\ dbmark' \in Nat
          /\ succno' \in Nat /\ index' \in 0..(BoundaryLength + 1)
      BY <2>1 DEF Reply
    <2>4. check_name' \in BOOLEAN /\ out' \in Seq(Told) /\ x_state' \in States
      BY <2>2 DEF Reply, States
    <2>5. QED
      BY <2>3, <2>4 DEF Reply, TypeOK, BoundaryLength
  <1>2. ScanInv'
    BY DEF Reply, ScanInv, ChunkDelimited, In
  <1>3. QED
    BY <1>1, <1>2 DEF Inv

LEMMA NextInv == Inv /\ [Next]_vars => Inv'
  <1> SUFFICES ASSUME Inv, [Next]_vars PROVE Inv'
    OBVIOUS
  <1>1. CASE Receive
    BY <1>1, ReceiveInv
  <1>2. CASE Execute
    BY <1>2, ExecuteType, ExecuteScan DEF Inv
  <1>3. CASE MultipartParsed
    BY <1>3, MultipartParsedInv
  <1>4. CASE Reply
    BY <1>4, ReplyInv
  <1>5. CASE UNCHANGED vars
    BY <1>5
    DEF vars, parser, mp_arg, Inv, TypeOK, ScanInv, ChunkDelimited, In, CleanUpTo,
        DelimiterAt, body, BoundaryLength
  <1>6. QED
    BY <1>1, <1>2, <1>3, <1>4, <1>5 DEF Next

\* Whatever bytes a client sends, the worker stays in the states the code
\* knows: x_multipart_parser_execute never reads past the end of the body, and
\* never counts past the boundary and its line end.
THEOREM TypeCorrect == Spec => []TypeOK
  <1>1. Inv => TypeOK
    BY DEF Inv
  <1>2. QED
    BY InitInv, NextInv, <1>1, PTL DEF Spec

\* Whatever bytes a client sends, and whatever the boundary is, the data that
\* the parser hands to on_chunk_data ends at the first line end that is
\* followed by the boundary.
THEOREM ChunksDelimited == Spec => []ChunkDelimited
  <1>1. Inv => ChunkDelimited
    BY DEF Inv, ScanInv
  <1>2. QED
    BY InitInv, NextInv, <1>1, PTL DEF Spec

-----------------------------------------------------------------------------
(* Forms: what stands from a piece on *)

\* Induction, with a set in the place of a property.
LEMMA SetInduction ==
  ASSUME NEW S, 0 \in S, \A n \in Nat : n \in S => n + 1 \in S
  PROVE  \A n \in Nat : n \in S
  <1> DEFINE T == Nat \ S
             R == OpToRel(<, Nat)
  <1>1. SUFFICES ASSUME T # {} PROVE FALSE
    OBVIOUS
  <1>2. IsWellFoundedOn(R, Nat)
    BY NatLessThanWellFounded
  <1>3. PICK x \in T : \A y \in T : ~(<<y, x>> \in R)
    <2>1. T \subseteq Nat
      OBVIOUS
    <2> HIDE DEF R, T
    <2>2. QED
      BY <1>1, <1>2, <2>1, WFMin
  <1>4. x \in Nat /\ x # 0
    OBVIOUS
  <1>5. x - 1 \in T
    <2>1. x - 1 \in Nat /\ (x - 1) + 1 = x
      BY <1>4
    <2>2. QED
      BY <2>1
  <1>6. <<x - 1, x>> \in R
    BY <1>4, <1>5 DEF OpToRel
  <1>7. QED
    BY <1>3, <1>5, <1>6

\* A set of numbers has a least one.
LEMMA LeastExists ==
  ASSUME NEW S \in SUBSET Nat, S # {}
  PROVE  \E x \in S : \A y \in S : x <= y
  <1>1. IsWellFoundedOn(OpToRel(<, Nat), Nat)
    BY NatLessThanWellFounded
  <1>2. PICK x \in S : \A y \in S : ~(<<y, x>> \in OpToRel(<, Nat))
    BY <1>1, WFMin
  <1>3. \A y \in S : x <= y
    <2>1. SUFFICES ASSUME NEW y \in S PROVE ~(y < x)
      OBVIOUS
    <2>2. QED
      BY <1>2 DEF OpToRel
  <1>4. QED
    BY <1>3

\* One turn of From.
FromTurn(pieces, end, from, k) ==
  IF k > Len(pieces) THEN end ELSE pieces[k] \o from[k + 1]

LEMMA FromIs ==
  ASSUME NEW pieces, NEW end
  PROVE  From(pieces, end)
           = CHOOSE from : from = [k \in 1..(Len(pieces) + 1) |-> FromTurn(pieces, end, from, k)]
  BY DEF From, FromTurn

\* There is a function that obeys the recursion: it is built from the end.
LEMMA FromExists ==
  ASSUME NEW T, NEW pieces \in Seq(T), NEW end
  PROVE  \A k \in 1..(Len(pieces) + 1) :
           From(pieces, end)[k] = FromTurn(pieces, end, From(pieces, end), k)
  <1> DEFINE D == 1..(Len(pieces) + 1)
             Turn(f, k) == FromTurn(pieces, end, f, k)
             Obeys(f, m) == \A k \in D : k > Len(pieces) + 1 - m => f[k] = Turn(f, k)
             S == {m \in Nat : \E f : DOMAIN f = D /\ f = [k \in D |-> f[k]] /\ Obeys(f, m)}
  <1>1. Len(pieces) \in Nat
    OBVIOUS
  <1>2. 0 \in S
    <2>1. PICK f : f = [k \in D |-> <<>>]
      OBVIOUS
    <2>2. DOMAIN f = D /\ f = [k \in D |-> f[k]] /\ Obeys(f, 0)
      BY <1>1, <2>1
    <2>3. QED
      BY <2>2
  <1>3. ASSUME NEW m \in Nat, m \in S PROVE m + 1 \in S
    <2>1. PICK f : DOMAIN f = D /\ f = [k \in D |-> f[k]] /\ Obeys(f, m)
      BY <1>3
    <2> DEFINE j == Len(pieces) + 1 - m
    <2>2. CASE j \in D
      <3>1. PICK g : g = [f EXCEPT ![j] = Turn(f, j)]
        OBVIOUS
      <3>2. DOMAIN g = D /\ g = [k \in D |-> g[k]] /\ g[j] = Turn(f, j)
            /\ \A k \in D : k # j => g[k] = f[k]
        BY <2>1, <2>2, <3>1
      <3>3. ASSUME NEW k \in D, k > Len(pieces) + 1 - (m + 1) PROVE g[k] = Turn(g, k)
        <4>1. k >= j
          BY <1>1, <3>3
        <4>2. k <= Len(pieces) => f[k + 1] = g[k + 1]
          BY <1>1, <3>2, <4>1
        <4>3. Turn(f, k) = Turn(g, k)
          BY <1>1, <4>2 DEF FromTurn
        <4>4. g[k] = Turn(f, k)
          <5>1. CASE k = j
            BY <3>2, <5>1
          <5>2. CASE k # j
            <6>1. k > Len(pieces) + 1 - m
              BY <1>1, <4>1, <5>2
            <6>2. f[k] = Turn(f, k)
              BY <2>1, <6>1
            <6>3. QED
              BY <3>2, <5>2, <6>2
          <5>3. QED
            BY <5>1, <5>2
        <4>5. QED
          BY <4>3, <4>4
      <3>4. Obeys(g, m + 1)
        BY <3>3
      <3>5. QED
        <4> HIDE DEF Obeys
        <4>1. DOMAIN g = D /\ g = [k \in D |-> g[k]]
          BY <3>2
        <4>2. QED
          BY <3>4, <4>1
    <2>3. CASE j \notin D
      <3>1. j < 1
        BY <1>1, <2>3
      <3>2. ASSUME NEW k \in D, k > Len(pieces) + 1 - (m + 1) PROVE f[k] = Turn(f, k)
        BY <1>1, <2>1, <3>1
      <3>3. Obeys(f, m + 1)
        BY <3>2
      <3>4. QED
        <4> HIDE DEF Obeys
        <4>1. DOMAIN f = D /\ f = [k \in D |-> f[k]]
          BY <2>1
        <4>2. QED
          BY <3>3, <4>1
    <2>4. QED
      BY <2>2, <2>3
  <1>4. Len(pieces) + 1 \in S
    <2> HIDE DEF S
    <2>1. \A n \in Nat : n \in S
      BY <1>2, <1>3, SetInduction
    <2>2. QED
      BY <1>1, <2>1
  <1>5. PICK f : DOMAIN f = D /\ f = [k \in D |-> f[k]] /\ Obeys(f, Len(pieces) + 1)
    BY <1>4
  <1>6. f = [k \in D |-> Turn(f, k)]
    BY <1>1, <1>5
  <1>7. From(pieces, end) = [k \in D |-> Turn(From(pieces, end), k)]
    BY <1>6, FromIs
  <1>8. QED
    BY <1>7

\* From gives bytes if the pieces are bytes.
LEMMA FromType ==
  ASSUME NEW B, NEW pieces \in Seq(Seq(B)), NEW end \in Seq(B)
  PROVE  \A k \in 1..(Len(pieces) + 1) : From(pieces, end)[k] \in Seq(B)
  <1> DEFINE D == 1..(Len(pieces) + 1)
             from == From(pieces, end)
             S == {m \in Nat : \A k \in D : k > Len(pieces) + 1 - m => from[k] \in Seq(B)}
  <1>1. Len(pieces) \in Nat
    OBVIOUS
  <1>2. \A k \in D : from[k] = IF k > Len(pieces) THEN end ELSE pieces[k] \o from[k + 1]
    BY FromExists DEF FromTurn
  <1> HIDE DEF from
  <1>3. 0 \in S
    BY <1>1
  <1>4. ASSUME NEW m \in Nat, m \in S PROVE m + 1 \in S
    <2>1. ASSUME NEW k \in D, k > Len(pieces) + 1 - (m + 1) PROVE from[k] \in Seq(B)
      <3>1. CASE k > Len(pieces)
        BY <1>2, <3>1
      <3>2. CASE ~(k > Len(pieces))
        <4>1. k + 1 \in D /\ k + 1 > Len(pieces) + 1 - m /\ k \in 1..Len(pieces)
          BY <1>1, <2>1, <3>2
        <4>2. from[k + 1] \in Seq(B) /\ pieces[k] \in Seq(B)
          BY <1>4, <4>1
        <4>3. pieces[k] \o from[k + 1] \in Seq(B)
          BY <4>2, ConcatProperties
        <4>4. QED
          BY <1>2, <2>1, <3>2, <4>3
      <3>3. QED
        BY <3>1, <3>2
    <2>2. QED
      BY <2>1
  <1>5. Len(pieces) + 1 \in S
    <2> HIDE DEF S
    <2>1. \A n \in Nat : n \in S
      BY <1>3, <1>4, SetInduction
    <2>2. QED
      BY <1>1, <2>1
  <1>6. QED
    BY <1>1, <1>5 DEF from

-----------------------------------------------------------------------------
(* Forms: their bytes *)

LEMMA ByteFacts == /\ CR \in Bytes /\ LF \in Bytes /\ "-" \in Bytes
                   /\ ":" \in Bytes /\ SP \in Bytes
                   /\ <<CR, LF>> \in Seq(Bytes) /\ <<":", SP>> \in Seq(Bytes)
                   /\ <<"-", "-", CR, LF>> \in Seq(Bytes)
  <1>1. /\ CR \in Bytes /\ LF \in Bytes /\ "-" \in Bytes
        /\ ":" \in Bytes /\ SP \in Bytes
    BY DEF Bytes, CR, LF
  <1>2. PICK r, l, d, a, b : r = CR /\ l = LF /\ d = "-" /\ a = ":" /\ b = SP
    OBVIOUS
  <1>3. r \in Bytes /\ l \in Bytes /\ d \in Bytes /\ a \in Bytes /\ b \in Bytes
    BY <1>1, <1>2
  <1>4. <<r, l>> \in Seq(Bytes) /\ <<a, b>> \in Seq(Bytes) /\ <<d, d, r, l>> \in Seq(Bytes)
    BY <1>3
  <1>5. QED
    BY <1>1, <1>2, <1>4

LEMMA BoundaryBytes == Boundary \in Seq(Bytes) /\ Len(Boundary) = BoundaryLength
  BY BoundaryAssumption DEF BoundaryLength

\* Two sequences, one after the other.
LEMMA Join ==
  ASSUME NEW S, NEW s \in Seq(S), NEW t \in Seq(S)
  PROVE  /\ s \o t \in Seq(S)
         /\ Len(s) \in Nat /\ Len(t) \in Nat /\ Len(s \o t) = Len(s) + Len(t)
         /\ \A j \in 1..Len(s) : (s \o t)[j] = s[j]
         /\ \A j \in 1..Len(t) : (s \o t)[Len(s) + j] = t[j]
  <1>1. /\ s \o t \in Seq(S) /\ Len(s \o t) = Len(s) + Len(t)
        /\ \A j \in 1..(Len(s) + Len(t)) :
             (s \o t)[j] = IF j <= Len(s) THEN s[j] ELSE t[j - Len(s)]
    BY ConcatProperties
  <1>2. Len(s) \in Nat /\ Len(t) \in Nat
    OBVIOUS
  <1>3. \A j \in 1..Len(s) : (s \o t)[j] = s[j]
    BY <1>1, <1>2
  <1>4. ASSUME NEW j \in 1..Len(t) PROVE (s \o t)[Len(s) + j] = t[j]
    <2>1. Len(s) + j \in 1..(Len(s) + Len(t)) /\ ~(Len(s) + j <= Len(s))
          /\ (Len(s) + j) - Len(s) = j
      BY <1>2
    <2>2. QED
      BY <1>1, <2>1
  <1>5. QED
    BY <1>1, <1>2, <1>3, <1>4

\* A header, byte by byte.
LEMMA HeaderBytes ==
  ASSUME NEW h \in Header
  PROVE  /\ h.name \in Seq(Letters \union {"-"}) /\ h.value \in Seq(Bytes \ {CR})
         /\ Len(h.name) \in Nat /\ Len(h.value) \in Nat
         /\ RenderHeader(h) \in Seq(Bytes)
         /\ Len(RenderHeader(h)) = Len(h.name) + Len(h.value) + 4
         /\ \A j \in 1..Len(h.name) : RenderHeader(h)[j] = h.name[j]
         /\ RenderHeader(h)[Len(h.name) + 1] = ":"
         /\ RenderHeader(h)[Len(h.name) + 2] = SP
         /\ \A j \in 1..Len(h.value) : RenderHeader(h)[Len(h.name) + 2 + j] = h.value[j]
         /\ RenderHeader(h)[Len(h.name) + Len(h.value) + 3] = CR
         /\ RenderHeader(h)[Len(h.name) + Len(h.value) + 4] = LF
  <1>1. h.name \in Seq(Letters \union {"-"}) /\ h.value \in Seq(Bytes \ {CR})
    BY DEF Header
  <1>2. PICK n, v, x, y : n = h.name /\ v = h.value /\ x = <<":", SP>> /\ y = <<CR, LF>>
    OBVIOUS
  <1>3. n \in Seq(Bytes) /\ v \in Seq(Bytes)
    <2>1. Letters \union {"-"} \subseteq Bytes /\ Bytes \ {CR} \subseteq Bytes
      BY DEF Bytes
    <2>2. QED
      BY <1>1, <1>2, <2>1, SeqMonotonic
  <1>4. /\ x \in Seq(Bytes) /\ Len(x) = 2 /\ x[1] = ":" /\ x[2] = SP
        /\ y \in Seq(Bytes) /\ Len(y) = 2 /\ y[1] = CR /\ y[2] = LF
    <2> HIDE DEF CR, LF
    <2>1. QED
      BY <1>2, ByteFacts
  <1>5. Len(n) \in Nat /\ Len(v) \in Nat
    BY <1>3
  <1>6. PICK a : a = n \o x
    OBVIOUS
  <1>7. a \in Seq(Bytes) /\ Len(a) = Len(n) + 2
        /\ (\A j \in 1..Len(n) : a[j] = n[j]) /\ a[Len(n) + 1] = ":" /\ a[Len(n) + 2] = SP
    <2>1. n \in Seq(Bytes) /\ x \in Seq(Bytes)
      BY <1>3, <1>4
    <2>2. /\ n \o x \in Seq(Bytes) /\ Len(n \o x) = Len(n) + Len(x)
          /\ \A j \in 1..Len(n) : (n \o x)[j] = n[j]
          /\ \A j \in 1..Len(x) : (n \o x)[Len(n) + j] = x[j]
      BY <2>1, Join
    <2>3. 1 \in 1..Len(x) /\ 2 \in 1..Len(x)
      BY <1>4
    <2>4. QED
      BY <1>4, <1>6, <2>2, <2>3
  <1>8. PICK b : b = a \o v
    OBVIOUS
  <1>9. b \in Seq(Bytes) /\ Len(b) = Len(n) + 2 + Len(v)
        /\ (\A j \in 1..(Len(n) + 2) : b[j] = a[j])
        /\ (\A j \in 1..Len(v) : b[Len(n) + 2 + j] = v[j])
    <2>1. a \in Seq(Bytes) /\ v \in Seq(Bytes)
      BY <1>3, <1>7
    <2>2. /\ a \o v \in Seq(Bytes) /\ Len(a \o v) = Len(a) + Len(v)
          /\ \A j \in 1..Len(a) : (a \o v)[j] = a[j]
          /\ \A j \in 1..Len(v) : (a \o v)[Len(a) + j] = v[j]
      BY <2>1, Join
    <2>3. QED
      BY <1>7, <1>8, <2>2
  <1>10. PICK d : d = b \o y
    OBVIOUS
  <1>11. d \in Seq(Bytes) /\ Len(d) = Len(n) + Len(v) + 4
         /\ (\A j \in 1..(Len(n) + 2 + Len(v)) : d[j] = b[j])
         /\ d[Len(n) + Len(v) + 3] = CR /\ d[Len(n) + Len(v) + 4] = LF
    <2>1. b \in Seq(Bytes) /\ y \in Seq(Bytes)
      BY <1>4, <1>9
    <2>2. /\ b \o y \in Seq(Bytes) /\ Len(b \o y) = Len(b) + Len(y)
          /\ \A j \in 1..Len(b) : (b \o y)[j] = b[j]
          /\ \A j \in 1..Len(y) : (b \o y)[Len(b) + j] = y[j]
      BY <2>1, Join
    <2>3. /\ d \in Seq(Bytes) /\ Len(d) = Len(b) + 2
          /\ \A j \in 1..Len(b) : d[j] = b[j]
          /\ \A j \in 1..2 : d[Len(b) + j] = y[j]
      BY <1>4, <1>10, <2>2
    <2>4. d[Len(b) + 1] = CR /\ d[Len(b) + 2] = LF
      BY <1>4, <2>3
    <2>5. Len(b) = Len(n) + 2 + Len(v) /\ Len(b) + 1 = Len(n) + Len(v) + 3
          /\ Len(b) + 2 = Len(n) + Len(v) + 4
      BY <1>5, <1>9
    <2>6. QED
      BY <2>3, <2>4, <2>5
  <1>12. RenderHeader(h) = d
    BY <1>2, <1>6, <1>8, <1>10 DEF RenderHeader
  <1>13. /\ \A j \in 1..Len(n) : d[j] = n[j]
         /\ d[Len(n) + 1] = ":" /\ d[Len(n) + 2] = SP
         /\ \A j \in 1..Len(v) : d[Len(n) + 2 + j] = v[j]
    BY SMTT(40), <1>5, <1>7, <1>9, <1>11
  <1>14. QED
    BY <1>1, <1>2, <1>5, <1>11, <1>12, <1>13

\* The headers of a part of a form.
headers(k) == req.parts[k].headers
data(k) == req.parts[k].data
LastPart == Len(req.parts)

LEMMA PartTypes ==
  ASSUME IsForm(req)
  PROVE  /\ LastPart \in Nat \ {0} /\ DOMAIN req.parts = 1..LastPart
         /\ \A k \in 1..LastPart :
              /\ headers(k) \in Seq(Header) /\ Len(headers(k)) \in Nat
              /\ DOMAIN headers(k) = 1..Len(headers(k))
              /\ data(k) \in Seq(Bytes) /\ Len(data(k)) \in Nat
              /\ \A h \in 1..Len(headers(k)) : headers(k)[h] \in Header
  <1>1. req.parts \in Seq(Part) /\ Len(req.parts) > 0
    BY DEF IsForm
  <1>2. LastPart \in Nat \ {0} /\ DOMAIN req.parts = 1..LastPart
    BY <1>1 DEF LastPart
  <1>3. ASSUME NEW k \in 1..LastPart
        PROVE  headers(k) \in Seq(Header) /\ data(k) \in Seq(Bytes)
    <2>1. req.parts[k] \in Part
      BY <1>1, <1>2, <1>3
    <2>2. QED
      BY <2>1 DEF Part, headers, data
  <1>4. QED
    BY <1>2, <1>3

\* The pieces that a form is made of are bytes, and stand one after the other.
LEMMA HeaderPieces ==
  ASSUME IsForm(req), NEW k \in 1..LastPart
  PROVE  /\ DataAndBoundary(req.parts[k]) \in Seq(Bytes)
         /\ \A h \in 1..(Len(headers(k)) + 1) : FromHeader(req.parts[k])[h] \in Seq(Bytes)
         /\ \A h \in 1..Len(headers(k)) :
              FromHeader(req.parts[k])[h]
                = RenderHeader(headers(k)[h]) \o FromHeader(req.parts[k])[h + 1]
         /\ FromHeader(req.parts[k])[Len(headers(k)) + 1] = DataAndBoundary(req.parts[k])
  <1>1. /\ headers(k) \in Seq(Header) /\ Len(headers(k)) \in Nat
        /\ DOMAIN headers(k) = 1..Len(headers(k)) /\ data(k) \in Seq(Bytes)
        /\ \A h \in 1..Len(headers(k)) : headers(k)[h] \in Header
    BY PartTypes
  <1>2. DataAndBoundary(req.parts[k]) \in Seq(Bytes)
    BY <1>1, ByteFacts, BoundaryBytes, ConcatProperties DEF DataAndBoundary, data
  <1>3. PICK pieces : pieces = [h \in 1..Len(headers(k)) |-> RenderHeader(headers(k)[h])]
    OBVIOUS
  <1>4. /\ pieces \in Seq(Seq(Bytes)) /\ Len(pieces) = Len(headers(k))
        /\ \A h \in 1..Len(headers(k)) : pieces[h] = RenderHeader(headers(k)[h])
    <2>1. \A h \in 1..Len(headers(k)) : RenderHeader(headers(k)[h]) \in Seq(Bytes)
      BY <1>1, HeaderBytes
    <2>2. pieces \in [1..Len(headers(k)) -> Seq(Bytes)]
      BY <1>3, <2>1
    <2>3. QED
      BY <1>1, <1>3, <2>2
  <1>5. FromHeader(req.parts[k]) = From(pieces, DataAndBoundary(req.parts[k]))
    BY <1>1, <1>3 DEF FromHeader, headers
  <1>6. \A h \in 1..(Len(headers(k)) + 1) : FromHeader(req.parts[k])[h] \in Seq(Bytes)
    BY <1>2, <1>4, <1>5, FromType
  <1>7. \A h \in 1..(Len(headers(k)) + 1) :
          FromHeader(req.parts[k])[h]
            = FromTurn(pieces, DataAndBoundary(req.parts[k]), FromHeader(req.parts[k]), h)
    BY <1>4, <1>5, FromExists
  <1>8. ASSUME NEW h \in 1..Len(headers(k))
        PROVE  FromHeader(req.parts[k])[h]
                 = RenderHeader(headers(k)[h]) \o FromHeader(req.parts[k])[h + 1]
    <2>1. h \in 1..(Len(headers(k)) + 1) /\ ~(h > Len(pieces))
      BY <1>1, <1>4
    <2>2. FromHeader(req.parts[k])[h] = pieces[h] \o FromHeader(req.parts[k])[h + 1]
      BY <1>7, <2>1 DEF FromTurn
    <2>3. QED
      BY <1>4, <2>2
  <1>9. FromHeader(req.parts[k])[Len(headers(k)) + 1] = DataAndBoundary(req.parts[k])
    <2>1. /\ Len(headers(k)) + 1 \in 1..(Len(headers(k)) + 1)
          /\ Len(headers(k)) + 1 > Len(pieces)
      BY <1>1, <1>4
    <2>2. QED
      BY <1>7, <2>1 DEF FromTurn
  <1>10. QED
    BY <1>2, <1>6, <1>8, <1>9

LEMMA PartPieces ==
  ASSUME IsForm(req)
  PROVE  /\ \A k \in 1..(LastPart + 1) : FromPart(req.parts)[k] \in Seq(Bytes)
         /\ \A k \in 1..LastPart :
              FromPart(req.parts)[k]
                = (<<CR, LF>> \o FromHeader(req.parts[k])[1]) \o FromPart(req.parts)[k + 1]
         /\ FromPart(req.parts)[LastPart + 1] = <<"-", "-", CR, LF>>
  <1>1. LastPart \in Nat \ {0} /\ DOMAIN req.parts = 1..LastPart
    BY PartTypes
  <1>2. PICK pieces : pieces = [k \in 1..LastPart |-> RenderPart(req.parts[k])]
    OBVIOUS
  <1>3. /\ pieces \in Seq(Seq(Bytes)) /\ Len(pieces) = LastPart
        /\ \A k \in 1..LastPart : pieces[k] = <<CR, LF>> \o FromHeader(req.parts[k])[1]
    <2>1. ASSUME NEW k \in 1..LastPart PROVE RenderPart(req.parts[k]) \in Seq(Bytes)
      <3>1. \A h \in 1..(Len(headers(k)) + 1) : FromHeader(req.parts[k])[h] \in Seq(Bytes)
        BY <2>1, HeaderPieces
      <3>2. 1 \in 1..(Len(headers(k)) + 1)
        BY <2>1, PartTypes
      <3>3. FromHeader(req.parts[k])[1] \in Seq(Bytes)
        BY <3>1, <3>2
      <3>4. <<CR, LF>> \in Seq(Bytes)
        BY ByteFacts
      <3>5. QED
        BY <3>3, <3>4, ConcatProperties DEF RenderPart
    <2>2. pieces \in [1..LastPart -> Seq(Bytes)]
      BY <1>2, <2>1
    <2>3. \A k \in 1..LastPart : pieces[k] = RenderPart(req.parts[k])
      BY <1>2
    <2>4. pieces \in Seq(Seq(Bytes)) /\ Len(pieces) = LastPart
      BY <1>1, <1>2, <2>2
    <2>5. QED
      BY <2>3, <2>4 DEF RenderPart
  <1>4. PICK end : end = <<"-", "-", CR, LF>>
    OBVIOUS
  <1>5. FromPart(req.parts) = From(pieces, end) /\ end \in Seq(Bytes)
    BY <1>1, <1>2, <1>4, ByteFacts DEF FromPart
  <1>6. \A k \in 1..(LastPart + 1) : FromPart(req.parts)[k] \in Seq(Bytes)
    BY <1>3, <1>5, FromType
  <1>7. \A k \in 1..(LastPart + 1) :
          FromPart(req.parts)[k] = FromTurn(pieces, end, FromPart(req.parts), k)
    BY <1>3, <1>5, FromExists
  <1>8. ASSUME NEW k \in 1..LastPart
        PROVE  FromPart(req.parts)[k]
                 = (<<CR, LF>> \o FromHeader(req.parts[k])[1]) \o FromPart(req.parts)[k + 1]
    <2>1. k \in 1..(LastPart + 1) /\ ~(k > LastPart)
      BY <1>1
    <2>2. FromPart(req.parts)[k] = pieces[k] \o FromPart(req.parts)[k + 1]
      BY <1>3, <1>7, <2>1 DEF FromTurn
    <2>3. QED
      BY <1>3, <2>2
  <1>9. FromPart(req.parts)[LastPart + 1] = end
    <2>1. LastPart + 1 \in 1..(LastPart + 1) /\ LastPart + 1 > LastPart
      BY <1>1
    <2>2. QED
      BY <1>3, <1>7, <2>1 DEF FromTurn
  <1>10. QED
    BY <1>4, <1>6, <1>8, <1>9

-----------------------------------------------------------------------------
(* Forms: where a body stands in one *)

\* The bytes of s are found in the body at a position, as far as they arrived.
Stands(at, s) == \A j \in 1..Len(s) : at + j - 1 <= Len(body) => body[at + j - 1] = s[j]

\* All of the body from a position on is s, or what arrived of it.
Rest(at, s) == Stands(at, s) /\ (req.arrives = "whole" => Len(body) = (at - 1) + Len(s))

\* At a position begins the h-th header of the k-th part, or the blank line
\* after the last one; or the data of the part.
AtHeader(k, h, at) ==
  /\ k \in 1..LastPart /\ h \in 1..(Len(headers(k)) + 1) /\ at \in Nat \ {0}
  /\ Rest(at, FromHeader(req.parts[k])[h] \o FromPart(req.parts)[k + 1])
AtData(k, at) ==
  /\ k \in 1..LastPart /\ at \in Nat \ {0}
  /\ Rest(at, data(k) \o (<<CR, LF>> \o (Boundary \o FromPart(req.parts)[k + 1])))

LEMMA RestSplit ==
  ASSUME NEW B, NEW s \in Seq(B), NEW t \in Seq(B), NEW at \in Nat, Rest(at, s \o t)
  PROVE  /\ Stands(at, s) /\ Rest(at + Len(s), t)
         /\ Len(s) \in Nat /\ Len(t) \in Nat
         /\ req.arrives = "whole" => Len(body) = (at - 1) + Len(s) + Len(t)
  <1>1. /\ Len(s) \in Nat /\ Len(t) \in Nat /\ Len(s \o t) = Len(s) + Len(t)
        /\ \A j \in 1..Len(s) : (s \o t)[j] = s[j]
        /\ \A j \in 1..Len(t) : (s \o t)[Len(s) + j] = t[j]
    BY Join
  <1>2. \A j \in 1..Len(s \o t) : at + j - 1 <= Len(body) => body[at + j - 1] = (s \o t)[j]
    BY DEF Rest, Stands
  <1>3. req.arrives = "whole" => Len(body) = (at - 1) + Len(s \o t)
    BY DEF Rest
  <1>4. Stands(at, s)
    <2>1. \A j \in 1..Len(s) : j \in 1..Len(s \o t)
      BY <1>1
    <2>2. QED
      BY <1>1, <1>2, <2>1 DEF Stands
  <1>5. ASSUME NEW j \in 1..Len(t), (at + Len(s)) + j - 1 <= Len(body)
        PROVE  body[(at + Len(s)) + j - 1] = t[j]
    <2>1. Len(s) + j \in 1..Len(s \o t) /\ at + (Len(s) + j) - 1 = (at + Len(s)) + j - 1
      BY <1>1
    <2>2. body[at + (Len(s) + j) - 1] = (s \o t)[Len(s) + j]
      BY <1>2, <1>5, <2>1
    <2>3. QED
      BY <1>1, <2>1, <2>2
  <1>6. req.arrives = "whole" =>
          /\ Len(body) = (at - 1) + Len(s) + Len(t)
          /\ Len(body) = ((at + Len(s)) - 1) + Len(t)
    BY <1>1, <1>3
  <1>7. Rest(at + Len(s), t)
    BY <1>5, <1>6 DEF Rest, Stands
  <1>8. QED
    BY <1>1, <1>4, <1>6, <1>7

\* A line end.
LEMMA LineEnd ==
  ASSUME NEW at \in Nat, Stands(at, <<CR, LF>>)
  PROVE  /\ at <= Len(body) => body[at] = CR
         /\ at + 1 <= Len(body) => body[at + 1] = LF
  <1>1. PICK s : s = <<CR, LF>>
    OBVIOUS
  <1>2. Len(s) = 2 /\ s[1] = CR /\ s[2] = LF
    BY <1>1
  <1>3. at + 1 - 1 = at /\ at + 2 - 1 = at + 1 /\ 1 \in 1..2 /\ 2 \in 1..2
    OBVIOUS
  <1>4. \A j \in 1..2 : at + j - 1 <= Len(body) => body[at + j - 1] = s[j]
    BY <1>1, <1>2 DEF Stands
  <1>5. QED
    BY <1>2, <1>3, <1>4

\* After a part something follows, at least the end of the form.
LEMMA PartsFollow ==
  ASSUME IsForm(req), NEW k \in 1..(LastPart + 1)
  PROVE  FromPart(req.parts)[k] \in Seq(Bytes) /\ Len(FromPart(req.parts)[k]) \in Nat
         /\ Len(FromPart(req.parts)[k]) >= 2
  <1>1. LastPart \in Nat
    BY PartTypes
  <1>2. FromPart(req.parts)[k] \in Seq(Bytes)
    BY PartPieces
  <1>3. CASE k = LastPart + 1
    <2>1. FromPart(req.parts)[k] = <<"-", "-", CR, LF>>
      BY <1>3, PartPieces
    <2>2. Len(FromPart(req.parts)[k]) = 4
      BY <2>1
    <2>3. QED
      BY <1>2, <2>2
  <1>4. CASE k # LastPart + 1
    <2>1. k \in 1..LastPart /\ k + 1 \in 1..(LastPart + 1)
      BY <1>1, <1>4
    <2>2. FromPart(req.parts)[k]
            = (<<CR, LF>> \o FromHeader(req.parts[k])[1]) \o FromPart(req.parts)[k + 1]
      BY <2>1, PartPieces
    <2>3. FromPart(req.parts)[k + 1] \in Seq(Bytes)
      BY <2>1, PartPieces
    <2>4. 1 \in 1..(Len(headers(k)) + 1)
      BY <2>1, PartTypes
    <2>5. FromHeader(req.parts[k])[1] \in Seq(Bytes)
      BY <2>1, <2>4, HeaderPieces
    <2>6. PICK l, h, r : /\ l = <<CR, LF>> /\ h = FromHeader(req.parts[k])[1]
                         /\ r = FromPart(req.parts)[k + 1]
      OBVIOUS
    <2>7. l \in Seq(Bytes) /\ Len(l) = 2 /\ h \in Seq(Bytes) /\ r \in Seq(Bytes)
      BY <2>3, <2>5, <2>6, ByteFacts
    <2>8. l \o h \in Seq(Bytes) /\ Len(l \o h) = Len(l) + Len(h) /\ Len(h) \in Nat
      BY <2>7, Join
    <2>9. Len((l \o h) \o r) = Len(l \o h) + Len(r) /\ Len(r) \in Nat
      BY <2>7, <2>8, Join
    <2>10. Len((l \o h) \o r) >= 2 /\ Len((l \o h) \o r) \in Nat
      BY <2>7, <2>8, <2>9
    <2>11. FromPart(req.parts)[k] = (l \o h) \o r
      BY <2>2, <2>6
    <2>12. QED
      BY <1>2, <2>10, <2>11
  <1>5. QED
    BY <1>3, <1>4

\* The form begins with the boundary, and then its first part.
LEMMA FormBegins ==
  ASSUME IsForm(req), Rest(1, RenderForm(req.parts))
  PROVE  /\ \A j \in 1..BoundaryLength : j <= Len(body) => body[j] = Boundary[j]
         /\ BoundaryLength + 1 <= Len(body) => body[BoundaryLength + 1] = CR
         /\ BoundaryLength + 2 <= Len(body) => body[BoundaryLength + 2] = LF
         /\ AtHeader(1, 1, BoundaryLength + 3)
         /\ req.arrives = "whole" => Len(body) > BoundaryLength + 2
  <1>1. /\ LastPart \in Nat \ {0} /\ 1 \in 1..LastPart
        /\ 1 \in 1..(Len(headers(1)) + 1) /\ BoundaryLength \in Nat
    BY PartTypes, LengthType
  <1>2. PICK l, h, r : /\ l = <<CR, LF>> /\ h = FromHeader(req.parts[1])[1]
                       /\ r = FromPart(req.parts)[1 + 1]
    OBVIOUS
  <1>3. /\ l \in Seq(Bytes) /\ Len(l) = 2 /\ h \in Seq(Bytes) /\ r \in Seq(Bytes)
        /\ Len(r) >= 2 /\ Len(r) \in Nat
    <2>1. 1 + 1 \in 1..(LastPart + 1)
      BY <1>1
    <2>2. QED
      BY <1>1, <1>2, <2>1, ByteFacts, HeaderPieces, PartsFollow
  <1>4. FromPart(req.parts)[1] = (l \o h) \o r
    BY <1>1, <1>2, PartPieces
  <1>5. (l \o h) \o r = l \o (h \o r) /\ h \o r \in Seq(Bytes) /\ l \o (h \o r) \in Seq(Bytes)
    <2>1. l \in Seq(Bytes) /\ h \in Seq(Bytes) /\ r \in Seq(Bytes)
      BY <1>3
    <2>2. (l \o h) \o r = l \o (h \o r)
      BY SMTT(40), <2>1, ConcatAssociative
    <2>3. h \o r \in Seq(Bytes)
      BY <2>1, Join
    <2>4. l \o (h \o r) \in Seq(Bytes)
      BY <2>1, <2>3, Join
    <2>5. QED
      BY <2>2, <2>3, <2>4
  <1>6. Rest(1, Boundary \o (l \o (h \o r)))
    BY <1>4, <1>5 DEF RenderForm
  <1>7. Boundary \in Seq(Bytes) /\ Len(Boundary) = BoundaryLength /\ 1 \in Nat
    BY BoundaryBytes
  <1>8. Stands(1, Boundary) /\ Rest(1 + Len(Boundary), l \o (h \o r))
    BY <1>5, <1>6, <1>7, RestSplit
  <1>9. /\ 1 + Len(Boundary) \in Nat
        /\ Rest(1 + Len(Boundary), l \o (h \o r))
    BY <1>1, <1>7, <1>8
  <1>10. /\ Stands(1 + Len(Boundary), l) /\ Rest((1 + Len(Boundary)) + Len(l), h \o r)
         /\ req.arrives = "whole" =>
              Len(body) = ((1 + Len(Boundary)) - 1) + Len(l) + Len(h \o r)
    BY <1>3, <1>5, <1>9, RestSplit
  <1>11. Len(h \o r) = Len(h) + Len(r) /\ Len(h) \in Nat
    BY <1>3, Join
  <1>12. /\ BoundaryLength + 1 <= Len(body) => body[BoundaryLength + 1] = CR
         /\ BoundaryLength + 2 <= Len(body) => body[BoundaryLength + 2] = LF
    <2>1. Stands(1 + Len(Boundary), <<CR, LF>>)
      BY <1>2, <1>10
    <2>2. /\ 1 + Len(Boundary) <= Len(body) => body[1 + Len(Boundary)] = CR
          /\ (1 + Len(Boundary)) + 1 <= Len(body) => body[(1 + Len(Boundary)) + 1] = LF
      BY <1>9, <2>1, LineEnd
    <2>3. 1 + Len(Boundary) = BoundaryLength + 1 /\ (1 + Len(Boundary)) + 1 = BoundaryLength + 2
      BY <1>1, <1>7
    <2>4. QED
      BY <2>2, <2>3
  <1>13. AtHeader(1, 1, BoundaryLength + 3)
    <2>1. (1 + Len(Boundary)) + Len(l) = BoundaryLength + 3 /\ BoundaryLength + 3 \in Nat \ {0}
      BY <1>1, <1>3, <1>7
    <2>2. Rest(BoundaryLength + 3, h \o r)
      BY <1>10, <2>1
    <2>3. QED
      BY <1>1, <1>2, <2>1, <2>2 DEF AtHeader
  <1>14. \A j \in 1..BoundaryLength : j <= Len(body) => body[j] = Boundary[j]
    <2>1. \A j \in 1..BoundaryLength : 1 + j - 1 = j
      BY <1>1
    <2>2. QED
      BY <1>7, <1>8, <2>1 DEF Stands
  <1>15. req.arrives = "whole" => Len(body) > BoundaryLength + 2
    BY <1>1, <1>3, <1>7, <1>10, <1>11
  <1>16. QED
    BY <1>12, <1>13, <1>14, <1>15

\* What follows a header of a part is the next one, or the blank line.
LEMMA HeaderFollows ==
  ASSUME IsForm(req), NEW k, NEW h, NEW at, AtHeader(k, h, at), h <= Len(headers(k))
  PROVE  LET H == headers(k)[h]
             next == at + Len(H.name) + Len(H.value) + 4
         IN  /\ H \in Header /\ Stands(at, RenderHeader(H))
             /\ AtHeader(k, h + 1, next)
             /\ req.arrives = "whole" => Len(body) > next
  <1> DEFINE H == headers(k)[h]
             next == at + Len(H.name) + Len(H.value) + 4
  <1>1. /\ k \in 1..LastPart /\ h \in 1..Len(headers(k)) /\ at \in Nat \ {0}
        /\ h + 1 \in 1..(Len(headers(k)) + 1) /\ k + 1 \in 1..(LastPart + 1)
        /\ LastPart \in Nat /\ Len(headers(k)) \in Nat /\ at \in Nat
    BY PartTypes DEF AtHeader
  <1>2. H \in Header
    BY <1>1, PartTypes
  <1>3. /\ RenderHeader(H) \in Seq(Bytes) /\ Len(H.name) \in Nat /\ Len(H.value) \in Nat
        /\ Len(RenderHeader(H)) = Len(H.name) + Len(H.value) + 4
    BY <1>2, HeaderBytes
  <1>4. PICK a, b, r : /\ a = RenderHeader(H) /\ b = FromHeader(req.parts[k])[h + 1]
                       /\ r = FromPart(req.parts)[k + 1]
    OBVIOUS
  <1>5. a \in Seq(Bytes) /\ b \in Seq(Bytes) /\ r \in Seq(Bytes)
        /\ Len(r) >= 2 /\ Len(r) \in Nat
    BY <1>1, <1>3, <1>4, HeaderPieces, PartsFollow
  <1>6. Rest(at, (a \o b) \o r)
    <2>1. FromHeader(req.parts[k])[h] = a \o b
      BY <1>1, <1>4, HeaderPieces
    <2>2. QED
      BY <1>4, <2>1 DEF AtHeader
  <1>7. (a \o b) \o r = a \o (b \o r)
    <2>1. a \in Seq(Bytes) /\ b \in Seq(Bytes) /\ r \in Seq(Bytes)
      BY <1>5
    <2>2. QED
      BY <2>1, ConcatAssociative
  <1>8. b \o r \in Seq(Bytes) /\ Len(b \o r) = Len(b) + Len(r) /\ Len(b) \in Nat
    <2>1. b \in Seq(Bytes) /\ r \in Seq(Bytes)
      BY <1>5
    <2>2. QED
      BY <2>1, Join
  <1>9. Rest(at, a \o (b \o r))
    BY <1>6, <1>7
  <1>10. /\ Stands(at, a) /\ Rest(at + Len(a), b \o r)
         /\ req.arrives = "whole" => Len(body) = (at - 1) + Len(a) + Len(b \o r)
    BY <1>1, <1>5, <1>8, <1>9, RestSplit
  <1>11. at + Len(a) = next /\ next \in Nat \ {0}
    <2>1. Len(a) = Len(H.name) + Len(H.value) + 4
      BY <1>3, <1>4
    <2>2. PICK m, n : m = Len(H.name) /\ n = Len(H.value)
      OBVIOUS
    <2>3. m \in Nat /\ n \in Nat
      BY <1>3, <2>2
    <2>4. at + (m + n + 4) = at + m + n + 4 /\ at + m + n + 4 \in Nat \ {0}
      BY <1>1, <2>3
    <2>5. QED
      BY <2>1, <2>2, <2>4
  <1>12. req.arrives = "whole" => Len(body) > next
    <2>1. PICK m, n, o : m = Len(a) /\ n = Len(b) /\ o = Len(r)
      OBVIOUS
    <2>2. m \in Nat /\ n \in Nat /\ o \in Nat /\ o >= 2
      <3>1. Len(a) \in Nat
        BY <1>5
      <3>2. QED
        BY <1>5, <1>8, <2>1, <3>1
    <2>3. req.arrives = "whole" => Len(body) = (at - 1) + m + (n + o)
      BY <1>8, <1>10, <2>1
    <2>4. (at - 1) + m + (n + o) > at + m
      BY <1>1, <2>2
    <2>5. QED
      BY <1>11, <2>1, <2>3, <2>4
  <1>13. AtHeader(k, h + 1, next)
    BY <1>1, <1>4, <1>10, <1>11 DEF AtHeader
  <1> HIDE DEF next
  <1>14. QED
    BY <1>2, <1>4, <1>10, <1>12, <1>13 DEF next

\* After the headers of a part comes a blank line, and then its data.
LEMMA BlankLineFollows ==
  ASSUME IsForm(req), NEW k, NEW at, AtHeader(k, Len(headers(k)) + 1, at)
  PROVE  /\ at <= Len(body) => body[at] = CR
         /\ at + 1 <= Len(body) => body[at + 1] = LF
         /\ AtData(k, at + 2)
         /\ req.arrives = "whole" => Len(body) > at + 2
  <1>1. /\ k \in 1..LastPart /\ at \in Nat \ {0} /\ at \in Nat /\ LastPart \in Nat
        /\ k + 1 \in 1..(LastPart + 1) /\ data(k) \in Seq(Bytes)
    BY PartTypes DEF AtHeader
  <1>2. PICK l, d, b, r : /\ l = <<CR, LF>> /\ d = data(k) /\ b = Boundary
                          /\ r = FromPart(req.parts)[k + 1]
    OBVIOUS
  <1>3. /\ l \in Seq(Bytes) /\ d \in Seq(Bytes) /\ b \in Seq(Bytes) /\ r \in Seq(Bytes)
        /\ Len(l) = 2 /\ Len(r) >= 2 /\ Len(r) \in Nat
    BY <1>1, <1>2, ByteFacts, BoundaryBytes, PartsFollow
  <1>4. FromHeader(req.parts[k])[Len(headers(k)) + 1] = ((l \o d) \o l) \o b
    BY <1>1, <1>2, HeaderPieces DEF DataAndBoundary, data
  <1>5. Rest(at, (((l \o d) \o l) \o b) \o r)
    BY <1>2, <1>4 DEF AtHeader
  <1>6. /\ l \o d \in Seq(Bytes) /\ (l \o d) \o l \in Seq(Bytes)
        /\ b \o r \in Seq(Bytes) /\ l \o (b \o r) \in Seq(Bytes)
        /\ d \o (l \o (b \o r)) \in Seq(Bytes)
    <2>1. l \in Seq(Bytes) /\ d \in Seq(Bytes) /\ b \in Seq(Bytes) /\ r \in Seq(Bytes)
      BY <1>3
    <2>2. l \o d \in Seq(Bytes)
      BY <2>1, ConcatProperties
    <2>3. b \o r \in Seq(Bytes)
      BY <2>1, ConcatProperties
    <2>4. (l \o d) \o l \in Seq(Bytes)
      BY <2>1, <2>2, ConcatProperties
    <2>5. l \o (b \o r) \in Seq(Bytes)
      BY <2>1, <2>3, ConcatProperties
    <2>6. d \o (l \o (b \o r)) \in Seq(Bytes)
      BY <2>1, <2>5, ConcatProperties
    <2>7. QED
      BY <2>2, <2>3, <2>4, <2>5, <2>6
  <1>7. (((l \o d) \o l) \o b) \o r = l \o (d \o (l \o (b \o r)))
    <2>1. PICK x, y, z, w : x = l \o d /\ y = (l \o d) \o l /\ z = b \o r /\ w = l \o (b \o r)
      OBVIOUS
    <2>2. x \in Seq(Bytes) /\ y \in Seq(Bytes) /\ z \in Seq(Bytes) /\ w \in Seq(Bytes)
      BY <1>6, <2>1
    <2>3. (y \o b) \o r = y \o (b \o r)
      <3>1. y \in Seq(Bytes) /\ b \in Seq(Bytes) /\ r \in Seq(Bytes)
        BY <1>3, <2>2
      <3>2. QED
        BY <3>1, ConcatAssociative
    <2>4. (x \o l) \o z = x \o (l \o z)
      <3>1. x \in Seq(Bytes) /\ l \in Seq(Bytes) /\ z \in Seq(Bytes)
        BY <1>3, <2>2
      <3>2. QED
        BY <3>1, ConcatAssociative
    <2>5. (l \o d) \o w = l \o (d \o w)
      <3>1. l \in Seq(Bytes) /\ d \in Seq(Bytes) /\ w \in Seq(Bytes)
        BY <1>3, <2>2
      <3>2. QED
        BY <3>1, ConcatAssociative
    <2>6. QED
      BY <2>1, <2>3, <2>4, <2>5
  <1>8. PICK t : t = d \o (l \o (b \o r))
    OBVIOUS
  <1>9. Rest(at, l \o t) /\ t \in Seq(Bytes)
    BY <1>5, <1>6, <1>7, <1>8
  <1>10. /\ Stands(at, l) /\ Rest(at + Len(l), t)
         /\ req.arrives = "whole" => Len(body) = (at - 1) + Len(l) + Len(t)
    BY <1>1, <1>3, <1>9, RestSplit
  <1>11. Rest(at + 2, t) /\ at + 2 \in Nat \ {0}
    BY <1>1, <1>3, <1>10
  <1>12. AtData(k, at + 2)
    BY <1>1, <1>2, <1>8, <1>11 DEF AtData
  <1>13. /\ at <= Len(body) => body[at] = CR
         /\ at + 1 <= Len(body) => body[at + 1] = LF
    BY <1>1, <1>2, <1>10, LineEnd
  <1>14. Len(t) >= 2 /\ Len(t) \in Nat
    <2>1. Len(t) = Len(d) + Len(l \o (b \o r)) /\ Len(d) \in Nat
      BY <1>3, <1>6, <1>8, Join
    <2>2. Len(l \o (b \o r)) = Len(l) + Len(b \o r) /\ Len(b \o r) \in Nat
      BY ZenonT(40), <1>3, <1>6, Join
    <2>3. QED
      BY <1>3, <2>1, <2>2
  <1>15. req.arrives = "whole" => Len(body) > at + 2
    <2>1. Len(t) >= 4
      <3>1. Len(t) = Len(d) + Len(l \o (b \o r)) /\ Len(d) \in Nat
        BY <1>3, <1>6, <1>8, Join
      <3>2. Len(l \o (b \o r)) = Len(l) + Len(b \o r)
        BY ZenonT(40), <1>3, <1>6, Join
      <3>3. Len(b \o r) = Len(b) + Len(r) /\ Len(b) \in Nat
        BY <1>3, <1>6, Join
      <3>4. QED
        BY <1>3, <3>1, <3>2, <3>3
    <2>2. QED
      BY <1>1, <1>3, <1>10, <1>14, <2>1
  <1>16. QED
    BY <1>12, <1>13, <1>15

\* After the data of a part come a line end and the boundary, and then the next
\* part, or the end of the form.
LEMMA PartEnds ==
  ASSUME IsForm(req), NEW k, NEW at, AtData(k, at)
  PROVE  LET end == at + Len(data(k))
         IN  /\ Stands(at, data(k)) /\ Stands(end, <<CR, LF>>) /\ Stands(end + 2, Boundary)
             /\ Rest(end + 2 + BoundaryLength, FromPart(req.parts)[k + 1])
             /\ req.arrives = "whole" => Len(body) > end + 2 + BoundaryLength
  <1> DEFINE end == at + Len(data(k))
  <1>1. /\ k \in 1..LastPart /\ at \in Nat \ {0} /\ at \in Nat /\ LastPart \in Nat
        /\ k + 1 \in 1..(LastPart + 1) /\ data(k) \in Seq(Bytes) /\ Len(data(k)) \in Nat
        /\ BoundaryLength \in Nat
    BY PartTypes, LengthType DEF AtData
  <1>2. PICK l, d, b, r : /\ l = <<CR, LF>> /\ d = data(k) /\ b = Boundary
                          /\ r = FromPart(req.parts)[k + 1]
    OBVIOUS
  <1>3. /\ l \in Seq(Bytes) /\ d \in Seq(Bytes) /\ b \in Seq(Bytes) /\ r \in Seq(Bytes)
        /\ Len(l) = 2 /\ Len(r) >= 2 /\ Len(r) \in Nat /\ Len(b) = BoundaryLength
        /\ Len(d) = Len(data(k))
    BY <1>1, <1>2, ByteFacts, BoundaryBytes, PartsFollow
  <1>4. b \o r \in Seq(Bytes)
    BY <1>3, Join
  <1>5. l \o (b \o r) \in Seq(Bytes)
    BY <1>3, <1>4, Join
  <1>6. Rest(at, d \o (l \o (b \o r)))
    BY <1>2 DEF AtData
  <1>7. Stands(at, d) /\ Rest(at + Len(d), l \o (b \o r))
    BY <1>1, <1>3, <1>5, <1>6, RestSplit
  <1>8. Rest(end, l \o (b \o r)) /\ end \in Nat
    BY <1>1, <1>3, <1>7
  <1> HIDE DEF end
  <1>9. Stands(end, l) /\ Rest(end + Len(l), b \o r)
    BY <1>3, <1>4, <1>8, RestSplit
  <1>10. Rest(end + 2, b \o r) /\ end + 2 \in Nat
    BY <1>3, <1>8, <1>9
  <1>11. /\ Stands(end + 2, b) /\ Rest((end + 2) + Len(b), r)
         /\ req.arrives = "whole" => Len(body) = ((end + 2) - 1) + Len(b) + Len(r)
    BY <1>3, <1>10, RestSplit
  <1>12. (end + 2) + Len(b) = end + 2 + BoundaryLength
    BY <1>3
  <1>13. req.arrives = "whole" => Len(body) > end + 2 + BoundaryLength
    BY <1>1, <1>3, <1>8, <1>11
  <1>14. QED
    BY <1>2, <1>7, <1>9, <1>11, <1>12, <1>13 DEF end

-----------------------------------------------------------------------------
(* Answers *)

\* A result r is for a part p, and the results ns of an answer are for the parts
\* ks of a form: as in Answers and AnswerParts, of any answer.
IsSaved(r) == r.msg \in {"ok", "save"}
IsFor(r, p, bytes) ==
  IF IsSaved(r) THEN ToSave(p) /\ SubSeq(bytes, r.from, r.to) = p.data
                ELSE r.msg = "type" /\ TypeTold(p)
Tells(answer, parts, bytes, ns, ks) ==
  \E which \in [ns -> ks] :
    /\ \A m, n \in ns : m < n => which[m] < which[n]
    /\ \A k \in ks : \E n \in ns : which[n] = k
    /\ \A n \in ns : IsFor(answer[n], parts[which[n]], bytes)

\* A part that is refused is not saved.
LEMMA RefusedNotSaved ==
  ASSUME NEW p, TypeTold(p)
  PROVE  ~ToSave(p)
  BY DEF TypeTold, ToSave, Refuses

\* Nothing is told of no part.
LEMMA TellsNothing ==
  ASSUME NEW answer, NEW parts, NEW bytes
  PROVE  Tells(answer, parts, bytes, {}, {})
  <1>1. PICK which : which = [n \in {} |-> n]
    OBVIOUS
  <1>2. which \in [{} -> {}]
    BY <1>1
  <1>3. QED
    BY <1>2 DEF Tells

\* One more result for one more part.
LEMMA TellsMore ==
  ASSUME NEW answer, NEW more, NEW parts, NEW bytes, NEW n \in Nat,
         NEW ks \in SUBSET Nat, NEW k \in Nat,
         Tells(answer, parts, bytes, 1..n, ks),
         \A j \in ks : j < k,
         \A m \in 1..n : more[m] = answer[m],
         IsFor(more[n + 1], parts[k], bytes)
  PROVE  Tells(more, parts, bytes, 1..(n + 1), ks \union {k})
  <1>1. PICK which \in [1..n -> ks] :
          /\ \A l, m \in 1..n : l < m => which[l] < which[m]
          /\ \A j \in ks : \E m \in 1..n : which[m] = j
          /\ \A m \in 1..n : IsFor(answer[m], parts[which[m]], bytes)
    BY DEF Tells
  <1>2. PICK w : w = [m \in 1..(n + 1) |-> IF m = n + 1 THEN k ELSE which[m]]
    OBVIOUS
  <1>3. \A m \in 1..(n + 1) : m = n + 1 \/ m \in 1..n
    OBVIOUS
  <1>4. \A m \in 1..n : m \in 1..(n + 1) /\ m # n + 1
    OBVIOUS
  <1>5. n + 1 \in 1..(n + 1)
    OBVIOUS
  <1>6. w[n + 1] = k /\ \A m \in 1..n : w[m] = which[m] /\ which[m] \in ks
    BY <1>1, <1>2, <1>4, <1>5
  <1>7. w \in [1..(n + 1) -> ks \union {k}]
    BY <1>2, <1>3, <1>6
  <1>8. ASSUME NEW l \in 1..(n + 1), NEW m \in 1..(n + 1), l < m PROVE w[l] < w[m]
    <2>1. l \in 1..n
      BY <1>8
    <2>2. CASE m = n + 1
      BY <1>6, <2>1, <2>2
    <2>3. CASE m \in 1..n
      BY <1>1, <1>6, <1>8, <2>1, <2>3
    <2>4. QED
      BY <1>3, <2>2, <2>3
  <1>9. \A j \in ks \union {k} : \E m \in 1..(n + 1) : w[m] = j
    <2>1. ASSUME NEW j \in ks PROVE \E m \in 1..(n + 1) : w[m] = j
      <3>1. PICK m \in 1..n : which[m] = j
        BY <1>1
      <3>2. QED
        BY <1>4, <1>6, <3>1
    <2>2. QED
      BY <1>5, <1>6, <2>1
  <1>10. ASSUME NEW m \in 1..(n + 1) PROVE IsFor(more[m], parts[w[m]], bytes)
    <2>1. CASE m = n + 1
      BY <1>6, <2>1
    <2>2. CASE m \in 1..n
      BY <1>1, <1>6, <2>2
    <2>3. QED
      BY <1>3, <2>1, <2>2
  <1>11. QED
    BY <1>7, <1>8, <1>9, <1>10 DEF Tells

\* Of what is told, what is saved; more may be told that is not.
LEMMA TellsSaved ==
  ASSUME NEW answer, NEW more, NEW parts, NEW bytes, NEW n \in Nat, NEW o \in Nat,
         NEW ks \in SUBSET Nat,
         Tells(answer, parts, bytes, 1..n, ks),
         n <= o,
         \A m \in 1..n : more[m] = answer[m],
         \A m \in 1..o : m > n => more[m].msg = "type"
  PROVE  Tells(more, parts, bytes, {m \in 1..o : IsSaved(more[m])},
               {j \in ks : ToSave(parts[j])})
  <1>1. PICK which \in [1..n -> ks] :
          /\ \A l, m \in 1..n : l < m => which[l] < which[m]
          /\ \A j \in ks : \E m \in 1..n : which[m] = j
          /\ \A m \in 1..n : IsFor(answer[m], parts[which[m]], bytes)
    BY DEF Tells
  <1>2. PICK ns, js : /\ ns = {m \in 1..o : IsSaved(more[m])}
                      /\ js = {j \in ks : ToSave(parts[j])}
    OBVIOUS
  <1>3. ASSUME NEW m \in ns PROVE m \in 1..n /\ IsSaved(answer[m]) /\ IsSaved(more[m])
    <2>1. m \in 1..o /\ IsSaved(more[m])
      BY <1>2
    <2>2. more[m].msg # "type"
      BY <2>1 DEF IsSaved
    <2>3. m \in 1..n
      BY <2>1, <2>2
    <2>4. QED
      BY <2>1, <2>3
  <1>4. ASSUME NEW m \in ns
        PROVE  which[m] \in js /\ IsFor(more[m], parts[which[m]], bytes)
    <2>1. m \in 1..n /\ IsSaved(answer[m]) /\ more[m] = answer[m]
      BY <1>3
    <2>2. IsFor(answer[m], parts[which[m]], bytes) /\ which[m] \in ks
      BY <1>1, <2>1
    <2>3. ToSave(parts[which[m]])
      BY <2>1, <2>2 DEF IsFor
    <2>4. QED
      BY <1>2, <2>1, <2>2, <2>3
  <1>5. PICK w : w = [m \in ns |-> which[m]]
    OBVIOUS
  <1>6. w \in [ns -> js] /\ \A m \in ns : w[m] = which[m]
    BY <1>4, <1>5
  <1>7. \A l, m \in ns : l < m => w[l] < w[m]
    BY <1>1, <1>3, <1>6
  <1>8. ASSUME NEW j \in js PROVE \E m \in ns : w[m] = j
    <2>1. j \in ks /\ ToSave(parts[j])
      BY <1>2
    <2>2. PICK m \in 1..n : which[m] = j
      BY <1>1, <2>1
    <2>3. IsFor(answer[m], parts[j], bytes)
      BY <1>1, <2>2
    <2>4. IsSaved(answer[m])
      BY <2>1, <2>3, RefusedNotSaved DEF IsFor
    <2>5. m \in ns
      <3>1. m \in 1..o
        OBVIOUS
      <3>2. QED
        BY <1>2, <2>4, <3>1
    <2>6. QED
      BY <1>6, <2>2, <2>5
  <1>9. \A m \in ns : IsFor(more[m], parts[w[m]], bytes)
    BY <1>4, <1>6
  <1>10. Tells(more, parts, bytes, ns, js)
    BY <1>6, <1>7, <1>8, <1>9 DEF Tells
  <1>11. QED
    BY <1>2, <1>10

\* The answer in order, when results are added.
LEMMA AddInOrder ==
  ASSUME TypeOK, req' = req, NEW rs \in Seq(Told), out' = AddResults(rs)
  PROVE  /\ Len(InOrder) \in Nat /\ DOMAIN InOrder = 1..Len(InOrder)
         /\ DOMAIN InOrder' = 1..(Len(InOrder) + Len(rs))
         /\ \A n \in 1..Len(InOrder) : InOrder'[n] = InOrder[n]
         /\ \A n \in 1..Len(rs) : \E m \in 1..Len(rs) : InOrder'[Len(InOrder) + n] = rs[m]
  <1>1. PICK o : o = out
    OBVIOUS
  <1>2. o \in Seq(Told)
    BY <1>1 DEF TypeOK
  <1>3. Len(o) \in Nat /\ Len(rs) \in Nat /\ DOMAIN o = 1..Len(o)
    BY <1>2
  <1>4. CASE req.service = "up"
    <2>1. PICK a, z : a = Reverse(o) /\ z = Reverse(rs \o o)
      OBVIOUS
    <2>2. InOrder = a /\ InOrder' = z
      BY <1>1, <1>4, <2>1 DEF InOrder, AddResults
    <2>3. a = [n \in 1..Len(o) |-> o[(Len(o) - n) + 1]]
      BY <2>1 DEF Reverse
    <2>4. Len(rs \o o) = Len(rs) + Len(o)
          /\ (\A j \in 1..Len(rs) : (rs \o o)[j] = rs[j])
          /\ (\A j \in 1..Len(o) : (rs \o o)[Len(rs) + j] = o[j])
      BY <1>2, Join
    <2>5. z = [n \in 1..(Len(rs) + Len(o)) |-> (rs \o o)[((Len(rs) + Len(o)) - n) + 1]]
      BY <2>1, <2>4 DEF Reverse
    <2>6. Len(a) = Len(o) /\ DOMAIN a = 1..Len(o) /\ DOMAIN z = 1..(Len(o) + Len(rs))
      BY <1>3, <2>3, <2>5
    <2>7. ASSUME NEW n \in 1..Len(o) PROVE z[n] = a[n]
      <3>1. /\ n \in 1..(Len(rs) + Len(o)) /\ (Len(o) - n) + 1 \in 1..Len(o)
            /\ ((Len(rs) + Len(o)) - n) + 1 = Len(rs) + ((Len(o) - n) + 1)
        BY <1>3
      <3>2. z[n] = o[(Len(o) - n) + 1]
        BY <2>4, <2>5, <3>1
      <3>3. QED
        BY <2>3, <3>2
    <2>8. ASSUME NEW n \in 1..Len(rs) PROVE \E m \in 1..Len(rs) : z[Len(o) + n] = rs[m]
      <3>1. /\ Len(o) + n \in 1..(Len(rs) + Len(o))
            /\ ((Len(rs) + Len(o)) - (Len(o) + n)) + 1 = (Len(rs) - n) + 1
            /\ (Len(rs) - n) + 1 \in 1..Len(rs)
        BY <1>3
      <3>2. z[Len(o) + n] = rs[(Len(rs) - n) + 1]
        BY <2>4, <2>5, <3>1
      <3>3. QED
        BY <3>1, <3>2
    <2>9. QED
      BY <1>3, <2>2, <2>6, <2>7, <2>8
  <1>5. CASE req.service # "up"
    <2>1. PICK z : z = o \o rs
      OBVIOUS
    <2>2. InOrder = o /\ InOrder' = z
      BY <1>1, <1>5, <2>1 DEF InOrder, AddResults
    <2>3. /\ o \o rs \in Seq(Told) /\ Len(o \o rs) = Len(o) + Len(rs)
          /\ (\A j \in 1..Len(o) : (o \o rs)[j] = o[j])
          /\ (\A j \in 1..Len(rs) : (o \o rs)[Len(o) + j] = rs[j])
      BY <1>2, Join
    <2>4. DOMAIN z = 1..(Len(o) + Len(rs))
      BY <2>1, <2>3
    <2>5. QED
      BY <1>3, <2>1, <2>2, <2>3, <2>4
  <1>6. QED
    BY <1>4, <1>5

-----------------------------------------------------------------------------
(* Forms: what the parser knows of the one it reads *)

\* What is told is told of the parts ks, and what is saved is saved of those of
\* the first parts that are to be saved.
TellsOf(ks) == Tells(InOrder, req.parts, body, DOMAIN InOrder, ks)
SavesFirst(last) ==
  Tells(InOrder, req.parts, body, {n \in DOMAIN InOrder : IsSaved(InOrder[n])},
        {k \in 1..last : ToSave(req.parts[k])})

\* The parts of which something is to be said when the headers before the h-th
\* of the k-th part have been read, and whether that part is to be saved.
MentionedUpTo(k) == {j \in 1..k : Mentioned(req.parts[j])}
TellsType(k, h) == \E g \in 1..(h - 1) : Says(headers(k)[g]) \in {"other", "unclosed"}
RefusedBefore(k, h) == \E g \in 1..(h - 1) : Refuses(Says(headers(k)[g]))
ToldBefore(k, h) == MentionedUpTo(k - 1) \union {j \in {k} : TellsType(k, h)}
Known(k, h) == (check_name <=> RefusedBefore(k, h)) /\ TellsOf(ToldBefore(k, h))
KnownPart(k) == Known(k, Len(headers(k)) + 1)

\* Where the name of a header ends, and the header.
Colon(k, h, at) == at + Len(headers(k)[h].name)
ValueEnd(k, h, at) == Colon(k, h, at) + 2 + Len(headers(k)[h].value)
InHeader(k, h, at) == AtHeader(k, h, at) /\ h <= Len(headers(k))
Blank(from, to) == \A j \in from..to : body[j] = SP

InStart == i = index + 1 /\ Rest(1, RenderForm(req.parts)) /\ Known(1, 1)
InField ==
  \E k, h, at \in Nat :
    /\ AtHeader(k, h, at) /\ Known(k, h) /\ at <= i
    /\ IF h <= Len(headers(k)) THEN i <= Colon(k, h, at) ELSE i = at
InBlankLine ==
  \E k \in Nat : AtHeader(k, Len(headers(k)) + 1, i - 1) /\ KnownPart(k)
InValue(start) ==
  \E k, h, at \in Nat :
    /\ InHeader(k, h, at) /\ Known(k, h)
    /\ Colon(k, h, at) < start /\ start <= i /\ i <= ValueEnd(k, h, at)
    /\ Blank(Colon(k, h, at) + 1, start - 1)
InValueEnd ==
  \E k, h, at \in Nat :
    InHeader(k, h, at) /\ Known(k, h + 1) /\ i = ValueEnd(k, h, at) + 1
InData(start) == \E k \in Nat : AtData(k, start) /\ KnownPart(k)

\* What the parser knows in each of its states, when it reads a form.
FormStates ==
  /\ In({"start_boundary"}) => InStart
  /\ In({"header_field_start", "header_field"}) => InField
  /\ In({"headers_almost_done"}) => InBlankLine
  /\ In({"header_value_start"}) => InValue(i)
  /\ In({"header_value"}) => InValue(mark)
  /\ In({"header_value_almost_done"}) => InValueEnd
  /\ In({"part_data_start"}) => InData(i)
  /\ In(DataStates) => InData(dmark)
  /\ In({"part_data_almost_end"}) => i = dbmark + 2 + BoundaryLength
  /\ In({"part_data_final_hyphen"}) =>
       i = dbmark + 3 + BoundaryLength /\ body[i - 1] = "-"
  /\ In({"part_data_end"}) => i = dbmark + 3 + BoundaryLength /\ body[i - 1] = CR
  /\ In({"end"}) => TellsOf(MentionedUpTo(LastPart))

\* And what has been told when it is done.
FormParsed ==
  /\ pc = "parsed" /\ req.arrives = "whole" => TellsOf(MentionedUpTo(LastPart))
  /\ pc = "parsed" /\ req.arrives = "cut" => \E last \in 0..LastPart : SavesFirst(last)

HoldsForm == req.arrives \in {"whole", "cut"} /\ IsForm(req)
FormInv ==
  /\ pc = "idle" => index = 0 /\ ~check_name /\ out = <<>>
  /\ pc = "parse" /\ req.arrives \in {"whole", "cut"} => IsForm(req) /\ FormStates
  /\ pc = "parsed" /\ req.arrives \in {"whole", "cut"} => IsForm(req) /\ FormParsed

-----------------------------------------------------------------------------
(* Forms: what stays *)

\* The form stays while it is read.
LEMMA FormStays ==
  ASSUME req' = req
  PROVE  /\ body' = body /\ LastPart' = LastPart /\ (IsForm(req) => IsForm(req)')
         /\ \A k : headers(k)' = headers(k) /\ data(k)' = data(k)
         /\ \A k, h, at : AtHeader(k, h, at)' <=> AtHeader(k, h, at)
         /\ \A k, at : AtData(k, at)' <=> AtData(k, at)
         /\ \A from, to : Blank(from, to)' <=> Blank(from, to)
  <1>1. body' = body /\ LastPart' = LastPart /\ (IsForm(req) => IsForm(req)')
    BY DEF body, LastPart, IsForm
  <1>2. \A k : headers(k)' = headers(k) /\ data(k)' = data(k)
    BY DEF headers, data
  <1>3. \A at, s : Rest(at, s)' <=> Rest(at, s)
    BY <1>1 DEF Rest, Stands
  <1>4. \A k, h, at : AtHeader(k, h, at)' <=> AtHeader(k, h, at)
    <2>1. SUFFICES ASSUME NEW k, NEW h, NEW at
                   PROVE  AtHeader(k, h, at)' <=> AtHeader(k, h, at)
      OBVIOUS
    <2>2. PICK s : s = FromHeader(req.parts[k])[h] \o FromPart(req.parts)[k + 1]
      OBVIOUS
    <2>3. s = (FromHeader(req.parts[k])[h] \o FromPart(req.parts)[k + 1])'
      BY <2>2
    <2>4. Rest(at, s)' <=> Rest(at, s)
      BY <1>3
    <2>5. QED
      BY <1>1, <1>2, <2>2, <2>3, <2>4 DEF AtHeader
  <1>5. \A k, at : AtData(k, at)' <=> AtData(k, at)
    <2>1. SUFFICES ASSUME NEW k, NEW at PROVE AtData(k, at)' <=> AtData(k, at)
      OBVIOUS
    <2>2. PICK s : s = data(k) \o (<<CR, LF>> \o (Boundary \o FromPart(req.parts)[k + 1]))
      OBVIOUS
    <2>3. s = (data(k) \o (<<CR, LF>> \o (Boundary \o FromPart(req.parts)[k + 1])))'
      BY <1>2, <2>2
    <2>4. Rest(at, s)' <=> Rest(at, s)
      BY <1>3
    <2>5. QED
      BY <1>1, <2>2, <2>3, <2>4 DEF AtData
  <1>6. \A from, to : Blank(from, to)' <=> Blank(from, to)
    BY <1>1 DEF Blank
  <1>7. QED
    BY <1>1, <1>2, <1>4, <1>5, <1>6

\* What is to be told of it stays, too.
LEMMA MentionStays ==
  ASSUME req' = req
  PROVE  /\ \A k : MentionedUpTo(k)' = MentionedUpTo(k)
         /\ \A k, h : ToldBefore(k, h)' = ToldBefore(k, h)
         /\ \A k, h : RefusedBefore(k, h)' <=> RefusedBefore(k, h)
  <1>1. \A k : headers(k)' = headers(k)
    BY FormStays
  <1>2. \A k : MentionedUpTo(k)' = MentionedUpTo(k)
    BY DEF MentionedUpTo
  <1>3. \A k, h : TellsType(k, h)' <=> TellsType(k, h)
    BY <1>1 DEF TellsType
  <1>4. \A k, h : RefusedBefore(k, h)' <=> RefusedBefore(k, h)
    BY <1>1 DEF RefusedBefore
  <1>5. ASSUME NEW k, NEW h PROVE ToldBefore(k, h)' = ToldBefore(k, h)
    BY <1>2, <1>3 DEF ToldBefore
  <1>6. QED
    BY <1>2, <1>4, <1>5

\* What has been told stays while nothing is told.
LEMMA KnownStays ==
  ASSUME req' = req, out' = out
  PROVE  /\ \A ks : TellsOf(ks)' <=> TellsOf(ks)
         /\ \A k, h : check_name' = check_name => (Known(k, h)' <=> Known(k, h))
  <1>1. InOrder' = InOrder /\ body' = body
    BY DEF InOrder, body
  <1>2. \A ks : TellsOf(ks)' <=> TellsOf(ks)
    <2>1. SUFFICES ASSUME NEW ks PROVE TellsOf(ks)' <=> TellsOf(ks)
      OBVIOUS
    <2>2. QED
      BY <1>1 DEF TellsOf
  <1>3. ASSUME NEW k, NEW h, check_name' = check_name PROVE Known(k, h)' <=> Known(k, h)
    <2>1. PICK ks : ks = ToldBefore(k, h)
      OBVIOUS
    <2>2. ks = ToldBefore(k, h)'
      BY <2>1, MentionStays
    <2>3. TellsOf(ks)' <=> TellsOf(ks)
      BY <1>2
    <2>4. RefusedBefore(k, h)' <=> RefusedBefore(k, h)
      BY MentionStays
    <2>5. Known(k, h)' <=> (check_name' <=> RefusedBefore(k, h)') /\ TellsOf(ks)'
      BY <2>2 DEF Known
    <2>6. Known(k, h) <=> (check_name <=> RefusedBefore(k, h)) /\ TellsOf(ks)
      BY <2>1 DEF Known
    <2>7. QED
      BY <1>3, <2>3, <2>4, <2>5, <2>6
  <1>4. QED
    BY <1>2, <1>3

-----------------------------------------------------------------------------
(* Forms: the boundary behind a part *)

\* Behind the boundary comes the next part.
LEMMA NextPart ==
  ASSUME IsForm(req), NEW k \in 1..LastPart, NEW at \in Nat \ {0},
         Rest(at, FromPart(req.parts)[k])
  PROVE  /\ at <= Len(body) => body[at] = CR
         /\ at + 1 <= Len(body) => body[at + 1] = LF
         /\ AtHeader(k, 1, at + 2)
         /\ req.arrives = "whole" => Len(body) > at + 1
  <1>1. /\ LastPart \in Nat \ {0} /\ 1 \in 1..(Len(headers(k)) + 1) /\ at \in Nat
        /\ k + 1 \in 1..(LastPart + 1)
    BY PartTypes
  <1>2. PICK l, h, r : /\ l = <<CR, LF>> /\ h = FromHeader(req.parts[k])[1]
                       /\ r = FromPart(req.parts)[k + 1]
    OBVIOUS
  <1>3. /\ l \in Seq(Bytes) /\ Len(l) = 2 /\ h \in Seq(Bytes) /\ r \in Seq(Bytes)
        /\ Len(r) >= 2 /\ Len(r) \in Nat
    BY <1>1, <1>2, ByteFacts, HeaderPieces, PartsFollow
  <1>4. Rest(at, (l \o h) \o r)
    BY <1>2, PartPieces
  <1>5. (l \o h) \o r = l \o (h \o r) /\ h \o r \in Seq(Bytes)
    <2>1. l \in Seq(Bytes) /\ h \in Seq(Bytes) /\ r \in Seq(Bytes)
      BY <1>3
    <2>2. (l \o h) \o r = l \o (h \o r)
      BY SMTT(40), <2>1, ConcatAssociative
    <2>3. h \o r \in Seq(Bytes)
      BY <2>1, Join
    <2>4. QED
      BY <2>2, <2>3
  <1>6. PICK t : t = h \o r
    OBVIOUS
  <1>7. Rest(at, l \o t) /\ t \in Seq(Bytes)
    BY <1>4, <1>5, <1>6
  <1>8. /\ Stands(at, l) /\ Rest(at + Len(l), t)
        /\ req.arrives = "whole" => Len(body) = (at - 1) + Len(l) + Len(t)
    BY <1>1, <1>3, <1>7, RestSplit
  <1>9. Len(t) = Len(h) + Len(r) /\ Len(h) \in Nat
    BY <1>3, <1>6, Join
  <1>10. /\ at <= Len(body) => body[at] = CR
         /\ at + 1 <= Len(body) => body[at + 1] = LF
    BY <1>1, <1>2, <1>8, LineEnd
  <1>11. Rest(at + 2, t) /\ at + 2 \in Nat \ {0}
    BY <1>1, <1>3, <1>8
  <1>12. AtHeader(k, 1, at + 2)
    BY <1>1, <1>2, <1>6, <1>11 DEF AtHeader
  <1>13. req.arrives = "whole" => Len(body) > at + 1
    BY <1>1, <1>3, <1>8, <1>9
  <1>14. QED
    BY <1>10, <1>12, <1>13

\* Behind the boundary of the last part the form ends.
LEMMA FormEnds ==
  ASSUME IsForm(req), NEW at \in Nat \ {0}, Rest(at, FromPart(req.parts)[LastPart + 1])
  PROVE  /\ at <= Len(body) => body[at] = "-"
         /\ at + 1 <= Len(body) => body[at + 1] = "-"
         /\ req.arrives = "whole" => Len(body) > at + 1
  <1>1. PICK s : s = <<"-", "-", CR, LF>>
    OBVIOUS
  <1>2. Len(s) = 4 /\ s[1] = "-" /\ s[2] = "-"
    BY <1>1
  <1>3. Rest(at, s)
    BY <1>1, PartPieces
  <1>4. at + 1 - 1 = at /\ at + 2 - 1 = at + 1 /\ 1 \in 1..4 /\ 2 \in 1..4
    OBVIOUS
  <1>5. \A j \in 1..4 : at + j - 1 <= Len(body) => body[at + j - 1] = s[j]
    BY <1>2, <1>3 DEF Rest, Stands
  <1>6. req.arrives = "whole" => Len(body) = (at - 1) + 4
    BY <1>2, <1>3 DEF Rest
  <1>7. req.arrives = "whole" => Len(body) > at + 1
    BY <1>6
  <1>8. QED
    BY <1>2, <1>4, <1>5, <1>7

\* Where the data of a part ends, the boundary begins, once it has arrived.
LEMMA EndIsDelimiter ==
  ASSUME IsForm(req), NEW k, NEW at, AtData(k, at),
         at + Len(data(k)) + 1 + BoundaryLength <= Len(body)
  PROVE  DelimiterAt(at + Len(data(k)))
  <1>1. PICK end : end = at + Len(data(k))
    OBVIOUS
  <1>2. /\ end \in Nat /\ BoundaryLength \in Nat /\ Len(Boundary) = BoundaryLength
        /\ Stands(end, <<CR, LF>>) /\ Stands(end + 2, Boundary)
    <2>1. k \in 1..LastPart /\ at \in Nat
      BY DEF AtData
    <2>2. Len(data(k)) \in Nat
      BY <2>1, PartTypes
    <2>3. Stands(end, <<CR, LF>>) /\ Stands(end + 2, Boundary)
      BY <1>1, PartEnds
    <2>4. QED
      BY <1>1, <2>1, <2>2, <2>3, LengthType, BoundaryBytes
  <1>3. Len(body) \in Int
    BY DEF IsForm, body
  <1>4. body[end] = CR /\ body[end + 1] = LF
    BY <1>1, <1>2, <1>3, LineEnd
  <1>5. ASSUME NEW j \in 1..BoundaryLength PROVE body[end + 1 + j] = Boundary[j]
    <2>1. end + 2 + j - 1 = end + 1 + j /\ end + 1 + j <= Len(body)
      BY <1>1, <1>2, <1>3
    <2>2. QED
      BY <1>2, <2>1 DEF Stands
  <1>6. QED
    BY <1>1, <1>4, <1>5 DEF DelimiterAt

\* The data of a part holds no boundary.
LEMMA DataIsClean ==
  ASSUME IsForm(req), NEW k \in 1..LastPart, NEW o \in 1..Len(data(k)),
         o + 1 + BoundaryLength <= Len(data(k)),
         data(k)[o] = CR, data(k)[o + 1] = LF,
         \A j \in 1..BoundaryLength : data(k)[o + 1 + j] = Boundary[j]
  PROVE  FALSE
  <1>1. PICK d, b, n : d = data(k) /\ b = Boundary /\ n = BoundaryLength
    OBVIOUS
  <1>2. d \in Seq(Bytes) /\ Len(d) \in Nat /\ b \in Seq(Bytes) /\ Len(b) = n /\ n \in Nat \ {0}
    BY <1>1, PartTypes, BoundaryBytes, LengthType
  <1>3. /\ o \in 1..Len(d) /\ o + 1 + n <= Len(d) /\ d[o] = CR /\ d[o + 1] = LF
        /\ \A j \in 1..n : d[o + 1 + j] = b[j]
    BY <1>1
  <1>4. PICK l : l = <<CR, LF>>
    OBVIOUS
  <1>5. l \in Seq(Bytes) /\ Len(l) = 2 /\ l[1] = CR /\ l[2] = LF
    BY <1>4, ByteFacts
  <1>6. /\ l \o b \in Seq(Bytes) /\ Len(l \o b) = 2 + n
        /\ (l \o b)[1] = CR /\ (l \o b)[2] = LF
        /\ \A j \in 1..n : (l \o b)[2 + j] = b[j]
    <2>1. l \in Seq(Bytes) /\ b \in Seq(Bytes)
      BY <1>2, <1>5
    <2>2. /\ l \o b \in Seq(Bytes) /\ Len(l \o b) = Len(l) + Len(b)
          /\ \A j \in 1..Len(l) : (l \o b)[j] = l[j]
          /\ \A j \in 1..Len(b) : (l \o b)[Len(l) + j] = b[j]
      BY <2>1, Join
    <2>3. QED
      BY SMTT(40), <1>2, <1>5, <2>2
  <1>7. PICK s, m : s = SubSeq(d, o, m) /\ m = o + 1 + n
    OBVIOUS
  <1>8. o \in Nat /\ m \in Nat /\ 1 <= o /\ m <= Len(d) /\ (m - o) + 1 = 2 + n
    BY <1>2, <1>3, <1>7
  <1>9. s \in Seq(Bytes) /\ Len(s) = 2 + n /\ \A j \in 1..(2 + n) : s[j] = d[(o + j) - 1]
    BY SMTT(40), <1>2, <1>7, <1>8, SubSeqProperties
  <1>10. ASSUME NEW j \in 1..(2 + n) PROVE s[j] = (l \o b)[j]
    <2>1. s[j] = d[(o + j) - 1]
      BY <1>9
    <2>2. CASE j = 1
      <3>1. (o + j) - 1 = o
        BY <1>8, <2>2
      <3>2. QED
        BY <1>3, <1>6, <2>1, <2>2, <3>1
    <2>3. CASE j = 2
      <3>1. (o + j) - 1 = o + 1
        BY <1>8, <2>3
      <3>2. QED
        BY <1>3, <1>6, <2>1, <2>3, <3>1
    <2>4. CASE j > 2
      <3>1. j - 2 \in 1..n /\ (o + j) - 1 = o + 1 + (j - 2) /\ 2 + (j - 2) = j
        BY <1>2, <1>8, <2>4
      <3>2. QED
        BY <1>3, <1>6, <2>1, <3>1
    <2>5. j = 1 \/ j = 2 \/ j > 2
      BY <1>2
    <2>6. QED
      BY <2>2, <2>3, <2>4, <2>5
  <1>11. s = l \o b
    <2>1. PICK z : z = l \o b
      OBVIOUS
    <2>2. s \in Seq(Bytes) /\ z \in Seq(Bytes) /\ Len(s) = Len(z)
      BY <1>6, <1>9, <2>1
    <2>3. \A j \in 1..Len(s) : s[j] = z[j]
      BY <1>9, <1>10, <2>1
    <2>4. s = z
      BY <2>2, <2>3, SeqEqual
    <2>5. QED
      BY <2>1, <2>4
  <1>12. req.parts[k] \in Part
    BY PartTypes DEF IsForm, LastPart
  <1>13. o \in 1..(Len(d) - n - 1)
    BY <1>2, <1>3
  <1>14. SubSeq(d, o, o + 1 + n) # l \o b
    BY <1>1, <1>4, <1>12, <1>13 DEF Part, data
  <1>15. QED
    BY <1>7, <1>11, <1>14

\* The first boundary behind the beginning of a part's data is where the data
\* ends.
LEMMA DelimiterIsEnd ==
  ASSUME IsForm(req), NEW k, NEW at, AtData(k, at), NEW end \in Nat,
         at <= end, DelimiterAt(end), \A j \in at..(end - 1) : ~DelimiterAt(j)
  PROVE  end = at + Len(data(k))
  <1>1. PICK n, last : n = BoundaryLength /\ last = at + Len(data(k))
    OBVIOUS
  <1>2. k \in 1..LastPart /\ at \in Nat \ {0} /\ n \in Nat \ {0}
    BY <1>1, LengthType DEF AtData
  <1>3. Len(data(k)) \in Nat /\ last \in Nat
    BY <1>1, <1>2, PartTypes
  <1>4. /\ Stands(at, data(k)) /\ Stands(last, <<CR, LF>>)
    BY <1>1, PartEnds
  <1>5. /\ end + 1 + n <= Len(body) /\ body[end] = CR /\ body[end + 1] = LF
        /\ \A j \in 1..n : body[end + 1 + j] = Boundary[j]
    BY <1>1 DEF DelimiterAt
  <1>6. Len(body) \in Int
    BY DEF IsForm, body
  <1>7. ~(end > last)
    <2>1. SUFFICES ASSUME end > last PROVE FALSE
      OBVIOUS
    <2>2. last + 1 + n <= Len(body) /\ last \in at..(end - 1)
      BY <1>1, <1>2, <1>3, <1>5, <1>6, <2>1
    <2>3. DelimiterAt(last)
      BY <1>1, <2>2, EndIsDelimiter
    <2>4. QED
      BY <2>2, <2>3
  <1>8. ~(end < last)
    <2>1. SUFFICES ASSUME end < last PROVE FALSE
      OBVIOUS
    <2>2. PICK o, m : o = (end - at) + 1 /\ m = Len(data(k))
      OBVIOUS
    <2>3. m \in Nat /\ o \in 1..m /\ last = at + m
      BY <1>1, <1>2, <1>3, <2>1, <2>2
    <2>4. ASSUME NEW j \in 1..m, at + j - 1 <= Len(body) PROVE data(k)[j] = body[at + j - 1]
      BY <1>4, <2>2, <2>4 DEF Stands
    <2>5. CASE o + 1 + n <= m
      <3>1. /\ o + 1 \in 1..m /\ at + o - 1 = end /\ at + (o + 1) - 1 = end + 1
            /\ end <= Len(body) /\ end + 1 <= Len(body)
        BY <1>2, <1>5, <1>6, <2>2, <2>3, <2>5
      <3>2. data(k)[o] = CR /\ data(k)[o + 1] = LF
        BY <1>5, <2>3, <2>4, <3>1
      <3>3. ASSUME NEW j \in 1..n PROVE data(k)[o + 1 + j] = Boundary[j]
        <4>1. /\ o + 1 + j \in 1..m /\ at + (o + 1 + j) - 1 = end + 1 + j
              /\ end + 1 + j <= Len(body)
          BY <1>2, <1>5, <1>6, <2>2, <2>3, <2>5
        <4>2. QED
          BY <1>5, <2>4, <4>1
      <3>4. QED
        BY <1>1, <1>2, <2>2, <2>3, <2>5, <3>2, <3>3, DataIsClean
    <2>6. CASE o + 1 + n > m
      <3>1. last <= Len(body) /\ body[last] = CR
        <4>1. last <= Len(body)
          BY <1>2, <1>5, <1>6, <2>2, <2>3, <2>6
        <4>2. QED
          BY <1>3, <1>4, <4>1, LineEnd
      <3>2. CASE last = end + 1
        BY <1>5, <3>1, <3>2 DEF CR, LF
      <3>3. CASE last > end + 1
        <4>1. last - end - 1 \in 1..n /\ end + 1 + (last - end - 1) = last
          BY <1>2, <2>2, <2>3, <2>6, <3>3
        <4>2. body[last] = Boundary[last - end - 1]
          BY <1>5, <4>1
        <4>3. QED
          BY <1>1, <3>1, <4>1, <4>2, BoundaryLine
      <3>4. QED
        BY <1>3, <2>1, <3>2, <3>3
    <2>7. QED
      BY <1>2, <2>3, <2>5, <2>6
  <1>9. QED
    BY <1>1, <1>3, <1>7, <1>8

\* In a form that arrives whole the parser is never at the end of the body while
\* it looks for the boundary behind a part.
LEMMA NotTheEnd ==
  ASSUME IsForm(req), NEW k, NEW at, AtData(k, at), req.arrives = "whole",
         NEW j \in Nat, at <= j, \A m \in at..(j - 1) : ~DelimiterAt(m)
  PROVE  Len(body) > j + 2 + BoundaryLength
  <1>1. PICK n, last : n = BoundaryLength /\ last = at + Len(data(k))
    OBVIOUS
  <1>2. k \in 1..LastPart /\ at \in Nat \ {0} /\ n \in Nat \ {0}
    BY <1>1, LengthType DEF AtData
  <1>3. Len(data(k)) \in Nat /\ last \in Nat /\ at <= last
    BY <1>1, <1>2, PartTypes
  <1>4. Len(body) > last + 2 + n
    BY <1>1, PartEnds
  <1>5. Len(body) \in Int
    BY DEF IsForm, body
  <1>6. DelimiterAt(last)
    <2>1. last + 1 + n <= Len(body)
      BY <1>2, <1>3, <1>4, <1>5
    <2>2. QED
      BY <1>1, <2>1, EndIsDelimiter
  <1>7. j <= last
    BY <1>2, <1>3, <1>6
  <1>8. QED
    BY <1>1, <1>2, <1>3, <1>4, <1>5, <1>7

-----------------------------------------------------------------------------
(* Forms: what is told *)

LEMMA InOrderType ==
  ASSUME TypeOK
  PROVE  Len(InOrder) \in Nat /\ DOMAIN InOrder = 1..Len(InOrder)
  <1>1. PICK o : o = out
    OBVIOUS
  <1>2. o \in Seq(Told) /\ Len(o) \in Nat /\ DOMAIN o = 1..Len(o)
    BY <1>1 DEF TypeOK
  <1>3. PICK a : a = Reverse(o)
    OBVIOUS
  <1>4. a = [n \in 1..Len(o) |-> o[(Len(o) - n) + 1]]
    BY <1>3 DEF Reverse
  <1>5. Len(a) = Len(o) /\ DOMAIN a = 1..Len(o)
    BY <1>2, <1>4
  <1>6. InOrder = a \/ InOrder = o
    BY <1>1, <1>3 DEF InOrder
  <1>7. QED
    BY <1>2, <1>5, <1>6

\* When a body stops, of what has been told the first parts were saved.
LEMMA StopsEarly ==
  ASSUME TypeOK, req' = req, NEW ks \in SUBSET Nat, NEW last, TellsOf(ks),
         {j \in ks : ToSave(req.parts[j])} = {j \in 1..last : ToSave(req.parts[j])},
         out' = out \/ \E n \in Nat : out' = TellType(n)
  PROVE  SavesFirst(last)'
  <1>1. body' = body
    BY DEF body
  <1>2. PICK a, z, m, o : a = InOrder /\ z = InOrder' /\ m = Len(a) /\ o = Len(z)
    OBVIOUS
  <1>3. m \in Nat /\ DOMAIN a = 1..m
    BY <1>2, InOrderType
  <1>4. Tells(a, req.parts, body, 1..m, ks)
    BY <1>2, <1>3 DEF TellsOf
  <1>5. /\ o \in Nat /\ DOMAIN z = 1..o /\ m <= o
        /\ \A j \in 1..m : z[j] = a[j]
        /\ \A j \in 1..o : j > m => z[j].msg = "type"
    <2>1. CASE out' = out
      <3>1. z = a
        BY <1>2, <2>1 DEF InOrder
      <3>2. QED
        BY <1>2, <1>3, <3>1
    <2>2. CASE out' # out
      <3>1. PICK n \in Nat : out' = TellType(n)
        BY <2>2
      <3>2. PICK rs : rs = [j \in 1..n |-> Result("type", 0, 0)]
        OBVIOUS
      <3>3. out' = AddResults(rs)
        BY <3>1, <3>2 DEF TellType
      <3>4. Result("type", 0, 0) \in Told /\ Result("type", 0, 0).msg = "type"
        BY DEF Result, Told
      <3>5. rs \in Seq(Told) /\ Len(rs) = n /\ \A j \in 1..n : rs[j].msg = "type"
        BY <3>2, <3>4
      <3>6. /\ DOMAIN z = 1..(m + n)
            /\ \A j \in 1..m : z[j] = a[j]
            /\ \A j \in 1..n : \E l \in 1..n : z[m + j] = rs[l]
        BY <1>2, <3>3, <3>5, AddInOrder
      <3>7. o = m + n
        <4>1. z = out' \/ z = Reverse(out')
          BY <1>2 DEF InOrder
        <4>2. out' \in Seq(Told)
          BY <3>3, <3>5, AddType DEF TypeOK
        <4>3. DOMAIN z = 1..o /\ o \in Nat
          <5>1. PICK w, x : w = out' /\ x = Reverse(w)
            OBVIOUS
          <5>2. x = [j \in 1..Len(w) |-> w[(Len(w) - j) + 1]]
            BY <5>1 DEF Reverse
          <5>3. Len(w) \in Nat /\ DOMAIN w = 1..Len(w)
            BY <4>2, <5>1
          <5>4. Len(x) = Len(w) /\ DOMAIN x = 1..Len(w)
            BY <5>2, <5>3
          <5>5. QED
            BY <1>2, <4>1, <5>1, <5>3, <5>4
        <4>4. QED
          BY <1>3, <3>6, <4>3
      <3>8. ASSUME NEW j \in 1..o, j > m PROVE z[j].msg = "type"
        <4>1. j - m \in 1..n /\ m + (j - m) = j
          BY <1>3, <3>7, <3>8
        <4>2. PICK l \in 1..n : z[j] = rs[l]
          BY <3>6, <4>1
        <4>3. QED
          BY <3>5, <4>2
      <3>9. QED
        BY <1>3, <3>6, <3>7, <3>8
    <2>3. QED
      BY <2>1, <2>2
  <1>6. Tells(z, req.parts, body, {j \in 1..o : IsSaved(z[j])}, {j \in ks : ToSave(req.parts[j])})
    BY <1>3, <1>4, <1>5, TellsSaved
  <1>7. QED
    BY <1>1, <1>2, <1>5, <1>6 DEF SavesFirst

\* Which parts are mentioned, and which of them are to be saved.
LEMMA MentionedFacts ==
  ASSUME NEW k \in Nat
  PROVE  /\ MentionedUpTo(k) \in SUBSET Nat /\ \A j \in MentionedUpTo(k) : j <= k
         /\ {j \in MentionedUpTo(k) : ToSave(req.parts[j])} = {j \in 1..k : ToSave(req.parts[j])}
         /\ k > 0 => MentionedUpTo(k) =
                      MentionedUpTo(k - 1) \union {j \in {k} : Mentioned(req.parts[k])}
  <1>1. MentionedUpTo(k) \in SUBSET Nat /\ \A j \in MentionedUpTo(k) : j <= k
    BY DEF MentionedUpTo
  <1>2. {j \in MentionedUpTo(k) : ToSave(req.parts[j])} = {j \in 1..k : ToSave(req.parts[j])}
    BY DEF MentionedUpTo, Mentioned
  <1>3. ASSUME k > 0
        PROVE  MentionedUpTo(k) = MentionedUpTo(k - 1) \union {j \in {k} : Mentioned(req.parts[k])}
    <2>1. \A j : j \in 1..k <=> (j \in 1..(k - 1) \/ j = k)
      BY <1>3
    <2>2. QED
      BY <2>1 DEF MentionedUpTo
  <1>4. QED
    BY <1>1, <1>2, <1>3

LEMMA ToldFacts ==
  ASSUME IsForm(req), NEW k \in 1..LastPart, NEW h \in 1..(Len(headers(k)) + 1)
  PROVE  /\ ToldBefore(k, h) \in SUBSET Nat /\ \A j \in ToldBefore(k, h) : j <= k
         /\ ~TellsType(k, h) => \A j \in ToldBefore(k, h) : j < k
         /\ {j \in ToldBefore(k, h) : ToSave(req.parts[j])}
              = {j \in 1..(k - 1) : ToSave(req.parts[j])}
         /\ TellsType(k, h) => TypeTold(req.parts[k])
         /\ RefusedBefore(k, h) => ~ToSave(req.parts[k])
  <1>1. /\ k \in Nat /\ k - 1 \in Nat /\ k > 0 /\ Len(headers(k)) \in Nat
        /\ DOMAIN headers(k) = 1..Len(headers(k))
    BY PartTypes
  <1>2. /\ MentionedUpTo(k - 1) \in SUBSET Nat /\ \A j \in MentionedUpTo(k - 1) : j <= k - 1
        /\ {j \in MentionedUpTo(k - 1) : ToSave(req.parts[j])}
             = {j \in 1..(k - 1) : ToSave(req.parts[j])}
    BY <1>1, MentionedFacts
  <1>3. \A g \in 1..(h - 1) : g \in DOMAIN headers(k)
    BY <1>1
  <1>4. TellsType(k, h) => TypeTold(req.parts[k])
    BY <1>3 DEF TellsType, TypeTold, headers
  <1>5. RefusedBefore(k, h) => ~ToSave(req.parts[k])
    BY <1>3 DEF RefusedBefore, ToSave, headers
  <1>6. \A j \in ToldBefore(k, h) : j \in MentionedUpTo(k - 1) \/ (j = k /\ TellsType(k, h))
    BY DEF ToldBefore
  <1>7. ToldBefore(k, h) \in SUBSET Nat /\ \A j \in ToldBefore(k, h) : j <= k
    <2>1. ASSUME NEW j \in ToldBefore(k, h) PROVE j \in Nat /\ j <= k
      <3>1. CASE j \in MentionedUpTo(k - 1)
        <4>1. j \in Nat /\ j <= k - 1
          BY <1>2, <3>1
        <4>2. QED
          BY <1>1, <4>1
      <3>2. CASE j = k
        BY <1>1, <3>2
      <3>3. QED
        BY <1>6, <3>1, <3>2
    <2>2. QED
      BY <2>1
  <1>8. ASSUME ~TellsType(k, h), NEW j \in ToldBefore(k, h) PROVE j < k
    <2>1. j \in Nat /\ j <= k - 1
      BY <1>2, <1>6, <1>8
    <2>2. QED
      BY <1>1, <2>1
  <1>9. {j \in ToldBefore(k, h) : ToSave(req.parts[j])}
          = {j \in MentionedUpTo(k - 1) : ToSave(req.parts[j])}
    <2>1. TellsType(k, h) => ~ToSave(req.parts[k])
      BY <1>4, RefusedNotSaved
    <2>2. QED
      BY <2>1 DEF ToldBefore
  <1>10. QED
    BY <1>2, <1>4, <1>5, <1>7, <1>8, <1>9

\* When a body stops within a part, the parts before were saved.
LEMMA StopsInPart ==
  ASSUME TypeOK, req' = req, IsForm(req),
         NEW k \in 1..LastPart, NEW h \in 1..(Len(headers(k)) + 1), Known(k, h),
         out' = out \/ \E n \in Nat : out' = TellType(n)
  PROVE  (\E last \in 0..LastPart : SavesFirst(last))'
  <1>1. k - 1 \in 0..LastPart /\ LastPart' = LastPart
    BY PartTypes, FormStays
  <1>2. PICK ks, last : ks = ToldBefore(k, h) /\ last = k - 1
    OBVIOUS
  <1>3. /\ ks \in SUBSET Nat /\ TellsOf(ks)
        /\ {j \in ks : ToSave(req.parts[j])} = {j \in 1..last : ToSave(req.parts[j])}
    BY <1>2, ToldFacts DEF Known
  <1>4. SavesFirst(last)'
    BY <1>3, StopsEarly
  <1>5. QED
    BY <1>1, <1>2, <1>4

\* When it stops behind a part, that part, too.
SavesWhatIsTold ==
  \A k \in 0..LastPart :
    TellsOf(MentionedUpTo(k)) => \E last \in 0..LastPart : SavesFirst(last)

LEMMA StopsBehindPart == TypeOK /\ LastPart \in Nat => SavesWhatIsTold
  <1> SUFFICES ASSUME TypeOK, LastPart \in Nat,
                      NEW k \in 0..LastPart, TellsOf(MentionedUpTo(k))
               PROVE  \E last \in 0..LastPart : SavesFirst(last)
    BY DEF SavesWhatIsTold
  <1>1. k \in Nat
    OBVIOUS
  <1>2. PICK ks : ks = MentionedUpTo(k)
    OBVIOUS
  <1>3. /\ ks \in SUBSET Nat /\ TellsOf(ks)
        /\ {j \in ks : ToSave(req.parts[j])} = {j \in 1..k : ToSave(req.parts[j])}
    BY <1>1, <1>2, MentionedFacts
  <1>4. PICK a, m : a = InOrder /\ m = Len(a)
    OBVIOUS
  <1>5. m \in Nat /\ DOMAIN a = 1..m
    BY <1>4, InOrderType
  <1>6. Tells(a, req.parts, body, 1..m, ks)
    BY <1>3, <1>4, <1>5 DEF TellsOf
  <1>7. \A j \in 1..m : j > m => a[j].msg = "type"
    BY <1>5
  <1>8. Tells(a, req.parts, body, {j \in 1..m : IsSaved(a[j])}, {j \in ks : ToSave(req.parts[j])})
    BY <1>3, <1>5, <1>6, <1>7, TellsSaved
  <1>9. SavesFirst(k)
    BY <1>3, <1>4, <1>5, <1>8 DEF SavesFirst
  <1>10. QED
    BY <1>9

\* One more result is told, for one more part.
LEMMA OneMoreTold ==
  ASSUME TypeOK, req' = req, NEW rs \in Seq(Told), Len(rs) = 1, out' = AddResults(rs),
         NEW ks \in SUBSET Nat, NEW k \in Nat, \A j \in ks : j < k, TellsOf(ks),
         IsFor(rs[1], req.parts[k], body)
  PROVE  TellsOf(ks \union {k})'
  <1>1. body' = body
    BY DEF body
  <1>2. PICK a, z, m : a = InOrder /\ z = InOrder' /\ m = Len(a)
    OBVIOUS
  <1>3. /\ m \in Nat /\ DOMAIN a = 1..m /\ DOMAIN z = 1..(m + Len(rs))
        /\ \A n \in 1..m : z[n] = a[n]
        /\ \A n \in 1..Len(rs) : \E j \in 1..Len(rs) : z[m + n] = rs[j]
    BY <1>2, AddInOrder
  <1>4. z[m + 1] = rs[1] /\ DOMAIN z = 1..(m + 1)
    BY <1>3
  <1>5. Tells(a, req.parts, body, 1..m, ks)
    BY <1>2, <1>3 DEF TellsOf
  <1>6. IsFor(z[m + 1], req.parts[k], body)
    BY <1>4
  <1>7. Tells(z, req.parts, body, 1..(m + 1), ks \union {k})
    BY <1>3, <1>5, <1>6, TellsMore
  <1>8. QED
    BY <1>1, <1>2, <1>4, <1>7 DEF TellsOf

\* The next header of a part.
LEMMA NextHeader ==
  ASSUME IsForm(req), NEW k \in 1..LastPart, NEW h \in 1..Len(headers(k)), NEW v,
         v = Says(headers(k)[h])
  PROVE  /\ RefusedBefore(k, h + 1) <=> RefusedBefore(k, h) \/ Refuses(v)
         /\ TellsType(k, h + 1) <=> TellsType(k, h) \/ v \in {"other", "unclosed"}
         /\ v # "plain" => ~RefusedBefore(k, h) /\ ~TellsType(k, h)
         /\ ToldBefore(k, h + 1)
              = ToldBefore(k, h) \union {j \in {k} : v \in {"other", "unclosed"}}
  <1>1. Len(headers(k)) \in Nat /\ DOMAIN headers(k) = 1..Len(headers(k))
    BY PartTypes
  <1>2. \A g : g \in 1..((h + 1) - 1) <=> (g \in 1..(h - 1) \/ g = h)
    BY <1>1
  <1>3. RefusedBefore(k, h + 1) <=> RefusedBefore(k, h) \/ Refuses(v)
    BY <1>2 DEF RefusedBefore
  <1>4. TellsType(k, h + 1) <=> TellsType(k, h) \/ v \in {"other", "unclosed"}
    BY <1>2 DEF TellsType
  <1>5. ASSUME v # "plain", NEW g \in 1..(h - 1) PROVE Says(headers(k)[g]) = "plain"
    <2>1. g \in DOMAIN headers(k) /\ h \in DOMAIN headers(k) /\ g # h
      BY <1>1
    <2>2. req.parts[k] \in Part
      BY PartTypes DEF IsForm, LastPart
    <2>3. \A f, g_1 \in DOMAIN headers(k) :
            Says(headers(k)[f]) # "plain" /\ Says(headers(k)[g_1]) # "plain" => f = g_1
      BY <2>2 DEF Part, headers
    <2>4. QED
      BY <1>5, <2>1, <2>3
  <1>6. v # "plain" => ~RefusedBefore(k, h) /\ ~TellsType(k, h)
    BY <1>5 DEF RefusedBefore, TellsType, Refuses
  <1>7. ToldBefore(k, h + 1) = ToldBefore(k, h) \union {j \in {k} : v \in {"other", "unclosed"}}
    BY <1>4 DEF ToldBefore
  <1>8. QED
    BY <1>3, <1>4, <1>6, <1>7

\* A header is told as it should be.
LEMMA HeaderTold ==
  ASSUME TypeOK, req' = req, IsForm(req), NEW k \in 1..LastPart,
         NEW h \in 1..Len(headers(k)), Known(k, h), OnHeaderValue(Says(headers(k)[h]))
  PROVE  Known(k, h + 1)'
  <1>1. PICK v : v = Says(headers(k)[h])
    OBVIOUS
  <1>2. /\ check_name' = (check_name \/ Refuses(v))
        /\ out' = IF v \notin {"plain", "empty"} /\ check_name' THEN TellType(1) ELSE out
    BY <1>1 DEF OnHeaderValue
  <1>3. (check_name <=> RefusedBefore(k, h)) /\ TellsOf(ToldBefore(k, h))
    BY DEF Known
  <1>4. /\ RefusedBefore(k, h + 1) <=> RefusedBefore(k, h) \/ Refuses(v)
        /\ TellsType(k, h + 1) <=> TellsType(k, h) \/ v \in {"other", "unclosed"}
        /\ v # "plain" => ~RefusedBefore(k, h) /\ ~TellsType(k, h)
        /\ ToldBefore(k, h + 1)
             = ToldBefore(k, h) \union {j \in {k} : v \in {"other", "unclosed"}}
    BY <1>1, NextHeader
  <1>5. check_name' <=> RefusedBefore(k, h + 1)
    BY <1>2, <1>3, <1>4
  <1>6. h \in 1..(Len(headers(k)) + 1) /\ h + 1 \in 1..(Len(headers(k)) + 1) /\ k \in Nat
    BY PartTypes
  <1>7. PICK ks, all : ks = ToldBefore(k, h) /\ all = ToldBefore(k, h + 1)
    OBVIOUS
  <1>8. TellsOf(all)'
    <2>1. CASE v \in {"other", "unclosed"}
      <3>1. check_name' /\ out' = TellType(1) /\ all = ks \union {k}
        BY <1>2, <1>4, <1>7, <2>1 DEF Refuses
      <3>2. PICK rs : rs = [j \in 1..1 |-> Result("type", 0, 0)]
        OBVIOUS
      <3>3. out' = AddResults(rs)
        BY <3>1, <3>2 DEF TellType
      <3>4. Result("type", 0, 0) \in Told /\ Result("type", 0, 0).msg = "type"
        BY DEF Result, Told
      <3>5. rs \in Seq(Told) /\ Len(rs) = 1 /\ rs[1].msg = "type"
        BY <3>2, <3>4
      <3>6. TypeTold(req.parts[k])
        BY <1>4, <1>6, <2>1, ToldFacts
      <3>7. IsFor(rs[1], req.parts[k], body)
        BY <3>5, <3>6 DEF IsFor, IsSaved
      <3>8. ~TellsType(k, h)
        BY <1>4, <2>1
      <3>9. ks \in SUBSET Nat /\ (\A j \in ks : j < k) /\ TellsOf(ks)
        BY <1>3, <1>6, <1>7, <3>8, ToldFacts
      <3>10. TellsOf(ks \union {k})'
        BY <1>6, <3>3, <3>5, <3>7, <3>9, OneMoreTold
      <3>11. QED
        BY <3>1, <3>10
    <2>2. CASE v \notin {"other", "unclosed"}
      <3>1. all = ks
        BY <1>4, <1>7, <2>2
      <3>2. out' = out
        BY <1>2, <1>3, <1>4, <2>2 DEF Refuses
      <3>3. TellsOf(ks)
        BY <1>3, <1>7
      <3>4. TellsOf(ks)'
        BY <3>2, <3>3, KnownStays
      <3>5. QED
        BY <3>1, <3>4
    <2>3. QED
      BY <2>1, <2>2
  <1>9. all = ToldBefore(k, h + 1)' /\ (RefusedBefore(k, h + 1)' <=> RefusedBefore(k, h + 1))
    BY <1>7, MentionStays
  <1>10. QED
    BY <1>5, <1>8, <1>9 DEF Known

\* When all headers of a part have been read, it is known what is to be told.
LEMMA AllHeaders ==
  ASSUME IsForm(req), NEW k \in 1..LastPart, KnownPart(k)
  PROVE  /\ ToSave(req.parts[k]) <=> data(k) # <<>> /\ ~check_name
         /\ ToSave(req.parts[k]) => TellsOf(MentionedUpTo(k - 1))
         /\ ToSave(req.parts[k]) => MentionedUpTo(k) = MentionedUpTo(k - 1) \union {k}
         /\ ~ToSave(req.parts[k]) => TellsOf(MentionedUpTo(k))
  <1>1. PICK h, p : h = Len(headers(k)) + 1 /\ p = req.parts[k]
    OBVIOUS
  <1>2. /\ Len(headers(k)) \in Nat /\ DOMAIN headers(k) = 1..Len(headers(k))
        /\ h - 1 = Len(headers(k)) /\ k \in Nat /\ k > 0
    BY <1>1, PartTypes
  <1>3. (check_name <=> RefusedBefore(k, h)) /\ TellsOf(ToldBefore(k, h))
    BY <1>1 DEF KnownPart, Known
  <1>4. TellsType(k, h) <=> TypeTold(p)
    BY <1>1, <1>2 DEF TellsType, TypeTold, headers
  <1>5. ToSave(p) <=> data(k) # <<>> /\ ~RefusedBefore(k, h)
    BY <1>1, <1>2 DEF RefusedBefore, ToSave, headers, data
  <1>6. MentionedUpTo(k) = MentionedUpTo(k - 1) \union {j \in {k} : Mentioned(p)}
    BY <1>1, <1>2, MentionedFacts
  <1>7. ToldBefore(k, h) = MentionedUpTo(k - 1) \union {j \in {k} : TypeTold(p)}
    BY <1>4 DEF ToldBefore
  <1>8. TypeTold(p) => ~ToSave(p)
    BY RefusedNotSaved
  <1>9. ToSave(p) => ToldBefore(k, h) = MentionedUpTo(k - 1)
    BY <1>7, <1>8
  <1>10. ToSave(p) => MentionedUpTo(k) = MentionedUpTo(k - 1) \union {k}
    BY <1>6 DEF Mentioned
  <1>11. ~ToSave(p) => ToldBefore(k, h) = MentionedUpTo(k)
    BY <1>6, <1>7 DEF Mentioned
  <1>12. QED
    BY <1>1, <1>3, <1>5, <1>9, <1>10, <1>11

\* The data that is handed over is the part's.
LEMMA ChunkIsData ==
  ASSUME TypeOK, pc = "parse", IsForm(req), NEW k, AtData(k, dmark),
         dbmark = dmark + Len(data(k)), dbmark <= Len(body)
  PROVE  SubSeq(body, dmark, dbmark - 1) = data(k)
  <1>1. k \in 1..LastPart /\ dmark \in Nat \ {0} /\ Stands(dmark, data(k))
    BY PartEnds DEF AtData
  <1>2. PICK b, d, m, n : b = body /\ d = data(k) /\ m = dmark /\ n = Len(data(k))
    OBVIOUS
  <1>3. b \in Seq(Bytes) /\ d \in Seq(Bytes) /\ n \in Nat /\ Len(d) = n /\ m \in Nat \ {0}
    <2>1. IsRequest(req)
      BY DEF TypeOK
    <2>2. QED
      BY <1>1, <1>2, <2>1, PartTypes DEF IsRequest, body
  <1>4. m + n <= Len(b) /\ \A j \in 1..n : m + j - 1 <= Len(b) => b[m + j - 1] = d[j]
    BY <1>1, <1>2 DEF Stands
  <1>5. PICK s, l : s = SubSeq(b, m, l) /\ l = (m + n) - 1
    OBVIOUS
  <1>6. m \in Int /\ l \in Int /\ (l - m) + 1 = n /\ \A j \in m..l : b[j] \in Bytes
    BY <1>3, <1>4, <1>5
  <1>7. s \in Seq(Bytes) /\ Len(s) = n /\ \A j \in 1..n : s[j] = b[(m + j) - 1]
    BY <1>3, <1>4, <1>5, <1>6, SubSeqProperties
  <1>8. \A j \in 1..n : s[j] = d[j]
    <2>1. ASSUME NEW j \in 1..n PROVE s[j] = d[j]
      <3>1. m + j - 1 <= Len(b) /\ m + j - 1 = (m + j) - 1
        BY <1>3, <1>4
      <3>2. QED
        BY <1>4, <1>7, <3>1
    <2>2. QED
      BY <2>1
  <1>9. s = d
    BY <1>3, <1>7, <1>8, SeqEqual
  <1>10. dbmark - 1 = l
    BY <1>2, <1>5
  <1>11. QED
    BY <1>2, <1>5, <1>9, <1>10

\* A part is told as it should be.
LEMMA PartTold ==
  ASSUME TypeOK, pc = "parse", req' = req, IsForm(req), NEW k, AtData(k, dmark), KnownPart(k),
         dbmark = dmark + Len(data(k)), dbmark <= Len(body),
         OnChunkData(dmark, dbmark - 1)
  PROVE  ~check_name' /\ TellsOf(MentionedUpTo(k))'
  <1>1. /\ k \in 1..LastPart /\ k \in Nat /\ k > 0
        /\ dmark \in Nat \ {0} /\ dmark \in Nat /\ dbmark \in Nat
        /\ Len(data(k)) \in Nat /\ data(k) \in Seq(Bytes)
    <2>1. k \in 1..LastPart /\ dmark \in Nat \ {0} /\ dbmark \in Nat
      BY DEF AtData, TypeOK
    <2>2. QED
      BY <2>1, PartTypes
  <1>2. /\ ToSave(req.parts[k]) <=> data(k) # <<>> /\ ~check_name
        /\ ToSave(req.parts[k]) => TellsOf(MentionedUpTo(k - 1))
        /\ ToSave(req.parts[k]) => MentionedUpTo(k) = MentionedUpTo(k - 1) \union {k}
        /\ ~ToSave(req.parts[k]) => TellsOf(MentionedUpTo(k))
    BY <1>1, AllHeaders
  <1>3. data(k) = <<>> <=> dbmark - 1 < dmark
    <2>1. data(k) = <<>> <=> Len(data(k)) = 0
      BY <1>1
    <2>2. QED
      BY <1>1, <2>1
  <1>4. ~check_name'
    BY DEF OnChunkData, mp_arg
  <1>5. MentionedUpTo(k)' = MentionedUpTo(k)
    BY MentionStays
  <1>6. PICK all, ks : all = MentionedUpTo(k) /\ ks = MentionedUpTo(k - 1)
    OBVIOUS
  <1>7. CASE ~ToSave(req.parts[k])
    <2>1. out' = out
      BY <1>2, <1>3, <1>7 DEF OnChunkData
    <2>2. TellsOf(all)
      BY <1>2, <1>6, <1>7
    <2>3. TellsOf(all)'
      BY <2>1, <2>2, KnownStays
    <2>4. QED
      BY <1>4, <1>5, <1>6, <2>3
  <1>8. CASE ToSave(req.parts[k])
    <2>1. PICK msg \in {"ok", "save"} : out' = AddResults(<<Result(msg, dmark, dbmark - 1)>>)
      BY <1>2, <1>3, <1>8 DEF OnChunkData
    <2>2. dbmark - 1 \in Nat
      BY <1>1
    <2>3. PICK r, rs : r = Result(msg, dmark, dbmark - 1) /\ rs = <<r>>
      OBVIOUS
    <2>4. r \in Told
      BY <1>1, <2>2, <2>3, ResultType
    <2>5. rs \in Seq(Told) /\ Len(rs) = 1 /\ rs[1] = r /\ out' = AddResults(rs)
      BY <2>1, <2>3, <2>4
    <2>6. r.msg = msg /\ r.from = dmark /\ r.to = dbmark - 1
      BY <2>3 DEF Result
    <2>7. IsFor(rs[1], req.parts[k], body)
      BY <1>8, <2>1, <2>5, <2>6, ChunkIsData DEF IsFor, IsSaved, data
    <2>8. ks \in SUBSET Nat /\ (\A j \in ks : j < k) /\ TellsOf(ks)
      <3>1. k - 1 \in Nat
        BY <1>1
      <3>2. ks \in SUBSET Nat /\ \A j \in ks : j <= k - 1
        BY <1>6, <3>1, MentionedFacts
      <3>3. \A j \in ks : j < k
        BY <1>1, <3>2
      <3>4. QED
        BY <1>2, <1>6, <1>8, <3>2, <3>3
    <2>9. TellsOf(ks \union {k})'
      BY <1>1, <2>5, <2>7, <2>8, OneMoreTold
    <2>10. all = ks \union {k}
      BY <1>2, <1>6, <1>8
    <2>11. QED
      BY <1>4, <1>5, <1>6, <2>9, <2>10
  <1>9. QED
    BY <1>7, <1>8

-----------------------------------------------------------------------------
(* Forms: headers *)

\* The bytes of a header that begins at a position, and what comes behind it.
HeaderFrom(k, h, at, colon, end, value) ==
  /\ k \in 1..LastPart /\ h \in 1..Len(headers(k)) /\ at \in Nat \ {0}
  /\ value \in Seq(Bytes \ {CR}) /\ Len(value) \in Nat
  /\ colon \in Nat /\ at <= colon /\ end = colon + 2 + Len(value)
  /\ \A j \in at..(colon - 1) : j <= Len(body) => body[j] \in Letters \union {"-"}
  /\ colon <= Len(body) => body[colon] = ":"
  /\ colon + 1 <= Len(body) => body[colon + 1] = SP
  /\ \A j \in 1..Len(value) : colon + 1 + j <= Len(body) => body[colon + 1 + j] = value[j]
  /\ end <= Len(body) => body[end] = CR
  /\ end + 1 <= Len(body) => body[end + 1] = LF
  /\ AtHeader(k, h + 1, end + 2)
  /\ req.arrives = "whole" => Len(body) > end + 2

LEMMA HeaderStands ==
  ASSUME IsForm(req), NEW k, NEW h, NEW at, InHeader(k, h, at)
  PROVE  HeaderFrom(k, h, at, Colon(k, h, at), ValueEnd(k, h, at), headers(k)[h].value)
  <1>1. PICK colon, end, value :
          colon = Colon(k, h, at) /\ end = ValueEnd(k, h, at) /\ value = headers(k)[h].value
    OBVIOUS
  <1>2. PICK H, m, n : H = headers(k)[h] /\ m = Len(H.name) /\ n = Len(H.value)
    OBVIOUS
  <1>3. AtHeader(k, h, at) /\ h <= Len(headers(k))
    BY DEF InHeader
  <1>4. /\ H \in Header /\ Stands(at, RenderHeader(H))
        /\ AtHeader(k, h + 1, at + m + n + 4)
        /\ req.arrives = "whole" => Len(body) > at + m + n + 4
    BY <1>2, <1>3, HeaderFollows
  <1>5. k \in 1..LastPart /\ h \in 1..Len(headers(k)) /\ at \in Nat \ {0}
    BY <1>3, PartTypes DEF AtHeader
  <1>6. /\ H.name \in Seq(Letters \union {"-"}) /\ H.value \in Seq(Bytes \ {CR})
        /\ m \in Nat /\ n \in Nat
        /\ Len(RenderHeader(H)) = m + n + 4
        /\ \A j \in 1..m : RenderHeader(H)[j] = H.name[j]
        /\ RenderHeader(H)[m + 1] = ":"
        /\ RenderHeader(H)[m + 2] = SP
        /\ \A j \in 1..n : RenderHeader(H)[m + 2 + j] = H.value[j]
        /\ RenderHeader(H)[m + n + 3] = CR
        /\ RenderHeader(H)[m + n + 4] = LF
    BY <1>2, <1>4, HeaderBytes
  <1>7. /\ colon = at + m /\ end = colon + 2 + n /\ end + 2 = at + m + n + 4
        /\ colon \in Nat /\ at <= colon
    <2>1. Colon(k, h, at) = at + m
      BY <1>2 DEF Colon
    <2>2. ValueEnd(k, h, at) = Colon(k, h, at) + 2 + n
      BY <1>2 DEF ValueEnd
    <2>3. colon = at + m /\ end = colon + 2 + n
      BY <1>1, <2>1, <2>2
    <2>4. QED
      BY <1>5, <1>6, <2>3
  <1>8. PICK s : s = RenderHeader(H)
    OBVIOUS
  <1>9. \A j \in 1..(m + n + 4) : at + j - 1 <= Len(body) => body[at + j - 1] = s[j]
    BY <1>4, <1>6, <1>8 DEF Stands
  <1>10. ASSUME NEW j \in at..(colon - 1), j <= Len(body) PROVE body[j] \in Letters \union {"-"}
    <2>1. /\ j - at + 1 \in 1..(m + n + 4) /\ at + (j - at + 1) - 1 = j
          /\ j - at + 1 \in 1..m
      BY <1>5, <1>6, <1>7
    <2>2. body[j] = H.name[j - at + 1]
      BY <1>6, <1>8, <1>9, <1>10, <2>1
    <2>3. H.name[j - at + 1] \in Letters \union {"-"}
      BY <1>2, <1>6, <2>1
    <2>4. QED
      BY <2>2, <2>3
  <1>11. colon <= Len(body) => body[colon] = ":"
    <2>1. m + 1 \in 1..(m + n + 4) /\ at + (m + 1) - 1 = colon
      BY <1>5, <1>6, <1>7
    <2>2. QED
      BY <1>6, <1>8, <1>9, <2>1
  <1>12. colon + 1 <= Len(body) => body[colon + 1] = SP
    <2>1. m + 2 \in 1..(m + n + 4) /\ at + (m + 2) - 1 = colon + 1
      BY <1>5, <1>6, <1>7
    <2>2. QED
      BY <1>6, <1>8, <1>9, <2>1
  <1>13. ASSUME NEW j \in 1..n, colon + 1 + j <= Len(body) PROVE body[colon + 1 + j] = H.value[j]
    <2>1. m + 2 + j \in 1..(m + n + 4) /\ at + (m + 2 + j) - 1 = colon + 1 + j
      BY <1>5, <1>6, <1>7
    <2>2. QED
      BY <1>6, <1>8, <1>9, <1>13, <2>1
  <1>14. end <= Len(body) => body[end] = CR
    <2>1. m + n + 3 \in 1..(m + n + 4) /\ at + (m + n + 3) - 1 = end
      BY <1>5, <1>6, <1>7
    <2>2. QED
      BY <1>6, <1>8, <1>9, <2>1
  <1>15. end + 1 <= Len(body) => body[end + 1] = LF
    <2>1. m + n + 4 \in 1..(m + n + 4) /\ at + (m + n + 4) - 1 = end + 1
      BY <1>5, <1>6, <1>7
    <2>2. QED
      BY <1>6, <1>8, <1>9, <2>1
  <1>16. AtHeader(k, h + 1, end + 2) /\ (req.arrives = "whole" => Len(body) > end + 2)
    BY <1>4, <1>7
  <1>17. value = H.value /\ Len(value) = n
    BY <1>2, <1>1
  <1>18. /\ value \in Seq(Bytes \ {CR}) /\ Len(value) \in Nat /\ end = colon + 2 + Len(value)
         /\ \A j \in 1..Len(value) : colon + 1 + j <= Len(body) => body[colon + 1 + j] = value[j]
    BY <1>6, <1>7, <1>13, <1>17
  <1>19. HeaderFrom(k, h, at, colon, end, value)
    BY <1>5, <1>7, <1>10, <1>11, <1>12, <1>14, <1>15, <1>16, <1>18 DEF HeaderFrom
  <1>20. QED
    BY <1>1, <1>19

\* The least of a set of numbers.
LEMMA ChooseLeast ==
  ASSUME NEW S \in SUBSET Nat, NEW x \in S, \A y \in S : x <= y
  PROVE  (CHOOSE j \in S : \A y \in S : j <= y) = x
  <1>1. PICK l : l = CHOOSE j \in S : \A y \in S : j <= y
    OBVIOUS
  <1>2. \E j \in S : \A y \in S : j <= y
    OBVIOUS
  <1>3. l \in S /\ \A y \in S : l <= y
    BY <1>1, <1>2
  <1>4. l <= x /\ x <= l /\ l \in Nat /\ x \in Nat
    BY <1>3
  <1>5. QED
    BY <1>1, <1>4

\* Where the value of a header ends, the callback reads in it what it says.
LEMMA ValueSays ==
  ASSUME IsForm(req), NEW k, NEW h, NEW at, InHeader(k, h, at), NEW start \in Nat,
         Colon(k, h, at) < start, start <= ValueEnd(k, h, at),
         Blank(Colon(k, h, at) + 1, start - 1), ValueEnd(k, h, at) <= Len(body)
  PROVE  FileName(start, ValueEnd(k, h, at) - 1) = Says(headers(k)[h])
  <1>1. PICK colon, end, value :
          colon = Colon(k, h, at) /\ end = ValueEnd(k, h, at) /\ value = headers(k)[h].value
    OBVIOUS
  <1>2. /\ value \in Seq(Bytes \ {CR}) /\ Len(value) \in Nat /\ colon \in Nat
        /\ end = colon + 2 + Len(value)
        /\ colon + 1 <= Len(body) => body[colon + 1] = SP
        /\ \A j \in 1..Len(value) : colon + 1 + j <= Len(body) => body[colon + 1 + j] = value[j]
    <2>1. HeaderFrom(k, h, at, colon, end, value)
      BY <1>1, HeaderStands
    <2>2. QED
      BY <2>1 DEF HeaderFrom
  <1>3. PICK n, d, V, o : n = Len(value) /\ d = colon + 1 /\ V = Values \ {"plain"} /\ o = Len(body)
    OBVIOUS
  <1>4. /\ d <= o => body[d] = SP
        /\ \A j \in 1..n : d + j <= o => body[d + j] = value[j]
        /\ DOMAIN value = 1..n
    BY <1>2, <1>3
  <1>5. o \in Int /\ end <= o
    BY <1>1, <1>3 DEF IsForm, body
  <1>6. n \in Nat /\ colon \in Nat /\ d = colon + 1 /\ end = colon + 2 + n
    BY <1>2, <1>3
  <1>7. colon < start /\ start <= end
    BY <1>1
  <1>8. /\ n \in Nat /\ d \in Nat /\ end \in Nat /\ o \in Int /\ end = d + n + 1 /\ d < end
        /\ d <= start /\ start <= end /\ end <= o
    BY <1>5, <1>6, <1>7
  <1>9. SP \notin V
    BY <1>3 DEF SP, Values
  <1>10. body[d] = SP /\ \A j \in 1..n : body[d + j] = value[j]
    <2>1. body[d] = SP
      BY <1>4, <1>8
    <2>2. ASSUME NEW j \in 1..n PROVE body[d + j] = value[j]
      <3>1. d + j <= o
        BY <1>8
      <3>2. QED
        BY <1>4, <3>1
    <2>3. QED
      BY <2>1, <2>2
  <1>11. PICK S, T : /\ S = {j \in 1..n : value[j] \in V}
                     /\ T = {j \in start..(end - 1) : body[j] \in V}
    OBVIOUS
  <1>12. ASSUME NEW j \in S PROVE d + j \in T
    <2>1. j \in 1..n /\ body[d + j] \in V
      BY <1>10, <1>11
    <2>2. ~(d + j < start)
      <3>1. SUFFICES ASSUME d + j < start PROVE FALSE
        OBVIOUS
      <3>2. d + j \in d..(start - 1)
        BY <1>8, <2>1, <3>1
      <3>3. body[d + j] = SP
        BY <1>1, <1>3, <3>2 DEF Blank
      <3>4. QED
        BY <1>9, <2>1, <3>3
    <2>3. d + j \in start..(end - 1)
      BY <1>8, <2>1, <2>2
    <2>4. QED
      BY <1>11, <2>1, <2>3
  <1>13. ASSUME NEW j \in T PROVE j - d \in S /\ j \in Nat
    <2>1. j \in start..(end - 1) /\ body[j] \in V
      BY <1>11
    <2>2. j # d
      BY <1>9, <1>10, <2>1
    <2>3. j - d \in 1..n /\ d + (j - d) = j /\ j \in Nat
      BY <1>8, <2>1, <2>2
    <2>4. value[j - d] \in V
      BY <1>10, <2>1, <2>3
    <2>5. QED
      BY <1>11, <2>3, <2>4
  <1>14. Says(headers(k)[h]) =
           IF S = {} THEN "plain" ELSE value[CHOOSE j \in S : \A y \in S : j <= y]
    BY <1>1, <1>4, <1>3, <1>11 DEF Says
  <1>15. FileName(start, end - 1) =
           IF T = {} THEN "plain" ELSE body[CHOOSE j \in T : \A y \in T : j <= y]
    BY <1>3, <1>11 DEF FileName
  <1>16. CASE S = {}
    <2>1. T = {}
      BY <1>13, <1>16
    <2>2. QED
      BY <1>1, <1>14, <1>15, <1>16, <2>1
  <1>17. CASE S # {}
    <2>1. S \in SUBSET Nat /\ T \in SUBSET Nat
      BY <1>8, <1>11, <1>13
    <2>2. PICK x \in S : \A y \in S : x <= y
      BY <1>17, <2>1, LeastExists
    <2>3. (CHOOSE j \in S : \A y \in S : j <= y) = x
      BY <2>1, <2>2, ChooseLeast
    <2>4. d + x \in T /\ \A y \in T : d + x <= y
      <3>1. d + x \in T
        BY <1>12
      <3>2. ASSUME NEW y \in T PROVE d + x <= y
        <4>1. y - d \in S /\ y \in Nat /\ x <= y - d /\ x \in Nat
          BY <1>13, <2>1, <2>2
        <4>2. QED
          BY <1>8, <4>1
      <3>3. QED
        BY <3>1, <3>2
    <2>5. PICK z : z = d + x
      OBVIOUS
    <2>6. (CHOOSE j \in T : \A y \in T : j <= y) = z
      BY <2>1, <2>4, <2>5, ChooseLeast
    <2>7. x \in 1..n
      BY <1>11
    <2>8. body[z] = value[x]
      BY <1>10, <2>5, <2>7
    <2>9. QED
      BY <1>1, <1>14, <1>15, <1>17, <2>3, <2>4, <2>6, <2>8
  <1>18. QED
    BY <1>16, <1>17

-----------------------------------------------------------------------------
(* Forms: the steps of the parser *)

LEMMA Reading ==
  ASSUME Inv, Execute, HoldsForm
  PROVE  /\ TypeOK /\ ScanInv /\ pc = "parse" /\ req' = req /\ body' = body
         /\ IsForm(req) /\ LastPart \in Nat \ {0}
         /\ i \in Nat \ {0} /\ i <= Len(body) /\ Len(body) \in Nat
         /\ dmark \in Nat /\ dbmark \in Nat /\ mark \in Nat /\ index \in Nat
         /\ BoundaryLength \in Nat \ {0}
         /\ pc' = "parse" \/ pc' = "parsed"
  <1>1. TypeOK /\ req' = req /\ body' = body
    BY Behind, RequestStays
  <1>2. i \in Nat \ {0} /\ mark \in Nat
    BY <1>1 DEF TypeOK
  <1>3. pc' = "parse" \/ pc' = "parsed"
    BY Behind DEF Execute, StartBoundary, HeaderField, HeadersAlmostDone, HeaderValueStart,
       HeaderValue, HeaderValueAlmostDone, PartData, PartDataAlmostBoundary,
       PartDataBoundary, PartDataAlmostEnd, PartDataFinalHyphen, PartDataEnd, End,
       Advance, Stop, Again
  <1>4. IsForm(req) /\ LastPart \in Nat \ {0}
    BY PartTypes DEF HoldsForm
  <1>5. QED
    BY <1>1, <1>2, <1>3, <1>4, Behind

\* The parser reads on.
LEMMA ReadsOn ==
  ASSUME HoldsForm, req' = req, pc' = "parse", FormStates'
  PROVE  FormInv'
  BY FormStays DEF FormInv, HoldsForm

\* The body stops in a part, and the parser gives up or has read all of it.
LEMMA CutInPart ==
  ASSUME Inv, Execute, HoldsForm, pc' = "parsed", req.arrives # "whole",
         NEW k, NEW h, k \in 1..LastPart, h \in 1..(Len(headers(k)) + 1), Known(k, h),
         out' = out \/ \E n \in Nat : out' = TellType(n)
  PROVE  FormInv'
  <1>1. TypeOK /\ req' = req /\ IsForm(req)
    BY Reading
  <1>2. (\E last \in 0..LastPart : SavesFirst(last))'
    BY <1>1, StopsInPart
  <1>3. FormParsed'
    BY <1>1, <1>2 DEF FormParsed
  <1>4. QED
    BY <1>1, <1>3, FormStays DEF FormInv

\* The body stops behind a part, or all of the form has been read.
LEMMA StopsBehind ==
  ASSUME Inv, Inv', Execute, HoldsForm, pc' = "parsed", NEW k \in 1..LastPart,
         TellsOf(MentionedUpTo(k))', req.arrives = "whole" => k = LastPart
  PROVE  FormInv'
  <1>1. TypeOK' /\ req' = req /\ IsForm(req) /\ LastPart \in Nat \ {0} /\ LastPart' = LastPart
    BY Reading, FormStays DEF Inv
  <1>2. k \in 0..LastPart /\ LastPart \in Nat
    BY <1>1
  <1>3. (TypeOK /\ LastPart \in Nat => SavesWhatIsTold)'
    BY StopsBehindPart, PTL
  <1>4. (\E last \in 0..LastPart : SavesFirst(last))'
    BY <1>1, <1>2, <1>3 DEF SavesWhatIsTold
  <1>5. FormParsed'
    <2>1. req.arrives = "whole" => TellsOf(MentionedUpTo(LastPart))'
      BY <1>1
    <2>2. QED
      BY <1>1, <1>4, <2>1 DEF FormParsed
  <1>6. QED
    BY <1>1, <1>5, FormStays DEF FormInv

\* At the beginning of a header the parser is not behind its name.
LEMMA NameFollows ==
  ASSUME IsForm(req), req' = req, NEW k, NEW h, NEW at, AtHeader(k, h, at), i' = at
  PROVE  (IF h <= Len(headers(k)) THEN i <= Colon(k, h, at) ELSE i = at)'
  <1>1. CASE h <= Len(headers(k))
    <2>1. k \in 1..LastPart /\ h \in 1..Len(headers(k)) /\ at \in Nat
      BY <1>1, PartTypes DEF AtHeader
    <2>2. PICK H, n : H = headers(k)[h] /\ n = Len(H.name)
      OBVIOUS
    <2>3. n \in Nat
      BY <2>1, <2>2, PartTypes, HeaderBytes
    <2>4. Colon(k, h, at)' = at + n
      BY <2>2, FormStays DEF Colon
    <2>5. i' <= Colon(k, h, at)'
      BY <2>1, <2>3, <2>4
    <2>6. QED
      BY <1>1, <2>5, FormStays
  <1>2. QED
    BY <1>1, FormStays

\* The first boundary.
LEMMA StartBoundaryForm ==
  ASSUME Inv, Execute, HoldsForm, FormStates, StartBoundary
  PROVE  FormInv'
  <1>1. /\ req' = req /\ body' = body /\ IsForm(req) /\ i \in Nat /\ i <= Len(body)
        /\ index \in Nat /\ BoundaryLength \in Nat \ {0} /\ Len(body) \in Nat
        /\ pc' = "parse" \/ pc' = "parsed"
    BY Reading
  <1>2. i = index + 1 /\ Rest(1, RenderForm(req.parts)) /\ Known(1, 1)
    BY DEF FormStates, StartBoundary, In, InStart
  <1>3. /\ \A j \in 1..BoundaryLength : j <= Len(body) => body[j] = Boundary[j]
        /\ BoundaryLength + 1 <= Len(body) => body[BoundaryLength + 1] = CR
        /\ BoundaryLength + 2 <= Len(body) => body[BoundaryLength + 2] = LF
        /\ AtHeader(1, 1, BoundaryLength + 3)
        /\ req.arrives = "whole" => Len(body) > BoundaryLength + 2
    BY <1>1, <1>2, FormBegins
  <1>4. index <= BoundaryLength + 1
    BY LengthType, Reading DEF TypeOK
  <1>5. Known(1, 1)'
    <2>1. out' = out /\ check_name' = check_name
      BY DEF StartBoundary, mp_arg
    <2>2. QED
      BY <1>1, <1>2, <2>1, KnownStays
  <1>6. /\ index < BoundaryLength => c = Boundary[index + 1]
        /\ index = BoundaryLength => c = CR
        /\ index > BoundaryLength => c = LF
    <2>1. CASE index < BoundaryLength
      <3>1. index + 1 \in 1..BoundaryLength
        BY <1>1, <2>1
      <3>2. QED
        BY <1>1, <1>2, <1>3, <2>1, <3>1 DEF c
    <2>2. CASE index = BoundaryLength
      BY <1>1, <1>2, <1>3, <2>2 DEF c
    <2>3. CASE index > BoundaryLength
      <3>1. index = BoundaryLength + 1 /\ i = BoundaryLength + 2
        BY <1>1, <1>2, <1>4, <2>3
      <3>2. QED
        BY <1>1, <1>3, <2>3, <3>1 DEF c
    <2>4. QED
      BY <1>1, <2>1, <2>2, <2>3
  <1>7. /\ Advance
        /\ \/ index <= BoundaryLength /\ index' = index + 1 /\ x_state' = "start_boundary"
           \/ index = BoundaryLength + 1 /\ x_state' = "header_field_start"
    BY <1>1, <1>6 DEF StartBoundary, In, Become
  <1>8. CASE pc' = "parsed"
    <2>1. req.arrives # "whole"
      BY <1>1, <1>2, <1>3, <1>4, <1>7, <1>8 DEF Advance, isLast
    <2>2. out' = out
      BY DEF StartBoundary
    <2>3. 1 \in 1..LastPart /\ 1 \in 1..(Len(headers(1)) + 1)
      BY <1>3 DEF AtHeader
    <2>4. QED
      BY <1>2, <1>8, <2>1, <2>2, <2>3, CutInPart
  <1>9. CASE pc' = "parse"
    <2>1. i' = i + 1
      BY <1>7 DEF Advance
    <2>2. CASE x_state' = "start_boundary"
      <3>1. i' = index' + 1
        BY <1>1, <1>2, <1>7, <2>1, <2>2
      <3>2. PICK form : form = RenderForm(req.parts)
        OBVIOUS
      <3>3. Rest(1, form)'
        BY <1>1, <1>2, <3>2 DEF Rest, Stands
      <3>4. form = RenderForm(req.parts)'
        BY <1>1, <3>2
      <3>5. InStart'
        BY <1>5, <3>1, <3>3, <3>4 DEF InStart
      <3>6. FormStates'
        BY <2>2, <3>5 DEF FormStates, In, DataStates
      <3>7. QED
        BY <1>1, <1>9, <3>6, ReadsOn
    <2>3. CASE x_state' = "header_field_start"
      <3>1. PICK at : at = BoundaryLength + 3
        OBVIOUS
      <3>2. i' = at /\ at \in Nat
        BY <1>1, <1>2, <1>7, <2>1, <2>3, <3>1
      <3>3. AtHeader(1, 1, at)'
        BY <1>1, <1>3, <3>1, FormStays
      <3>4. (IF 1 <= Len(headers(1)) THEN i <= Colon(1, 1, at) ELSE i = at)'
        BY <1>1, <1>3, <3>1, <3>2, NameFollows
      <3>5. InField'
        BY <1>5, <3>2, <3>3, <3>4 DEF InField
      <3>6. FormStates'
        BY <2>3, <3>5 DEF FormStates, In, DataStates
      <3>7. QED
        BY <1>1, <1>9, <3>6, ReadsOn
    <2>4. QED
      BY <1>7, <2>2, <2>3
  <1>10. QED
    BY <1>1, <1>8, <1>9

\* The lines of headers stay, too.
LEMMA HeaderStays ==
  ASSUME req' = req
  PROVE  \A k, h, at : /\ Colon(k, h, at)' = Colon(k, h, at)
                       /\ ValueEnd(k, h, at)' = ValueEnd(k, h, at)
                       /\ InHeader(k, h, at)' <=> InHeader(k, h, at)
  BY FormStays DEF Colon, ValueEnd, InHeader

\* The name of a header, or the end of the headers.
LEMMA HeaderFieldForm ==
  ASSUME Inv, Execute, HoldsForm, FormStates, HeaderField
  PROVE  FormInv'
  <1>1. /\ req' = req /\ body' = body /\ IsForm(req) /\ i \in Nat \ {0} /\ i <= Len(body)
        /\ Len(body) \in Nat
        /\ pc' = "parse" \/ pc' = "parsed"
    BY Reading
  <1>2. InField
    BY DEF FormStates, HeaderField, In
  <1>3. PICK k, h, at \in Nat :
          /\ AtHeader(k, h, at) /\ Known(k, h) /\ at <= i
          /\ IF h <= Len(headers(k)) THEN i <= Colon(k, h, at) ELSE i = at
    BY <1>2 DEF InField
  <1>4. k \in 1..LastPart /\ h \in 1..(Len(headers(k)) + 1) /\ Len(headers(k)) \in Nat
    BY <1>1, <1>3, PartTypes DEF AtHeader
  <1>5. Known(k, h)' /\ out' = out
    <2>1. out' = out /\ check_name' = check_name
      BY DEF HeaderField, mp_arg
    <2>2. QED
      BY <1>1, <1>3, <2>1, KnownStays
  <1>6. CASE h <= Len(headers(k))
    <2>1. PICK colon, end, value :
            colon = Colon(k, h, at) /\ end = ValueEnd(k, h, at) /\ value = headers(k)[h].value
      OBVIOUS
    <2>2. InHeader(k, h, at)
      BY <1>3, <1>6 DEF InHeader
    <2>3. HeaderFrom(k, h, at, colon, end, value)
      BY <1>1, <2>1, <2>2, HeaderStands
    <2>4. /\ Len(value) \in Nat /\ colon \in Nat /\ at <= colon /\ end = colon + 2 + Len(value)
          /\ \A j \in at..(colon - 1) : j <= Len(body) => body[j] \in Letters \union {"-"}
          /\ colon <= Len(body) => body[colon] = ":"
          /\ req.arrives = "whole" => Len(body) > end + 2
      BY <2>3 DEF HeaderFrom
    <2>5. at <= i /\ i <= colon
      BY <1>3, <1>6, <2>1
    <2>6. CASE pc' = "parsed"
      <3>1. req.arrives # "whole"
        <4>1. SUFFICES ASSUME req.arrives = "whole" PROVE FALSE
          OBVIOUS
        <4>2. ~isLast
          BY <1>1, <2>4, <2>5, <4>1 DEF isLast
        <4>3. c = ":" \/ c \in Letters \union {"-"}
          <5>1. CASE i = colon
            BY <1>1, <2>4, <5>1 DEF c
          <5>2. CASE i # colon
            <6>1. i \in at..(colon - 1)
              BY <1>1, <1>3, <2>4, <2>5, <5>2
            <6>2. QED
              BY <1>1, <2>4, <6>1 DEF c
          <5>3. QED
            BY <5>1, <5>2
        <4>4. Advance
          BY <4>3 DEF HeaderField
        <4>5. QED
          BY <2>6, <4>2, <4>4 DEF Advance
      <3>2. QED
        BY <1>3, <1>4, <1>5, <2>6, <3>1, CutInPart
    <2>7. CASE pc' = "parse" /\ i < colon
      <3>1. c \in Letters \union {"-"}
        <4>1. i \in at..(colon - 1)
          BY <1>1, <1>3, <2>4, <2>5, <2>7
        <4>2. QED
          BY <1>1, <2>4, <4>1 DEF c
      <3>2. c # CR /\ c # ":"
        BY <3>1, LettersAssumption DEF CR
      <3>3. x_state' = "header_field" /\ i' = i + 1
        BY <3>1, <3>2 DEF HeaderField, Become, Advance
      <3>4. at <= i' /\ i' <= colon
        BY <1>1, <1>3, <2>4, <2>5, <2>7, <3>3
      <3>5. AtHeader(k, h, at)' /\ Colon(k, h, at)' = colon /\ headers(k)' = headers(k)
        BY <1>1, <1>3, <2>1, FormStays, HeaderStays
      <3>6. InField'
        BY <1>3, <1>5, <1>6, <3>4, <3>5 DEF InField
      <3>7. FormStates'
        BY <3>3, <3>6 DEF FormStates, In, DataStates
      <3>8. QED
        BY <1>1, <2>7, <3>7, ReadsOn
    <2>8. CASE pc' = "parse" /\ i = colon
      <3>1. c = ":"
        BY <1>1, <2>4, <2>8 DEF c
      <3>2. c # CR /\ c \notin Letters \union {"-"}
        BY <3>1, LettersAssumption DEF CR
      <3>3. x_state' = "header_value_start" /\ i' = i + 1
        BY <3>1, <3>2 DEF HeaderField, Become, Advance
      <3>4. i' \in Nat /\ colon < i' /\ i' <= end
        BY <1>1, <2>4, <2>8, <3>3
      <3>5. /\ InHeader(k, h, at)' /\ Colon(k, h, at)' = colon /\ ValueEnd(k, h, at)' = end
        BY <1>1, <2>1, <2>2, HeaderStays
      <3>6. \A j \in (colon + 1)..(i' - 1) : body'[j] = SP
        BY <1>1, <2>4, <2>8, <3>3
      <3>7. InValue(i)'
        <4>1. InHeader(k, h, at)'
          BY <3>5
        <4>2. Known(k, h)'
          BY <1>5
        <4>3. (Colon(k, h, at) < i /\ i <= i /\ i <= ValueEnd(k, h, at))'
          BY <3>4, <3>5
        <4>4. Blank(Colon(k, h, at) + 1, i - 1)'
          BY <3>5, <3>6 DEF Blank
        <4>5. k \in Nat /\ h \in Nat /\ at \in Nat
          OBVIOUS
        <4>6. QED
          BY <4>1, <4>2, <4>3, <4>4, <4>5 DEF InValue
      <3>8. FormStates'
        BY <3>3, <3>7 DEF FormStates, In, DataStates
      <3>9. QED
        BY <1>1, <2>8, <3>8, ReadsOn
    <2>9. QED
      BY <1>1, <2>4, <2>5, <2>6, <2>7, <2>8
  <1>7. CASE ~(h <= Len(headers(k)))
    <2>1. h = Len(headers(k)) + 1 /\ i = at
      BY <1>3, <1>4, <1>7
    <2>2. /\ at <= Len(body) => body[at] = CR
          /\ req.arrives = "whole" => Len(body) > at + 2
      BY <1>1, <1>3, <2>1, BlankLineFollows
    <2>3. c = CR
      BY <1>1, <2>1, <2>2 DEF c
    <2>4. c # ":" /\ c \notin Letters \union {"-"}
      BY <2>3, LettersAssumption DEF CR
    <2>5. x_state' = "headers_almost_done" /\ Advance
      BY <2>3, <2>4 DEF HeaderField, Become
    <2>6. CASE pc' = "parsed"
      <3>1. req.arrives # "whole"
        BY <1>1, <2>1, <2>2, <2>5, <2>6 DEF Advance, isLast
      <3>2. QED
        BY <1>3, <1>4, <1>5, <2>6, <3>1, CutInPart
    <2>7. CASE pc' = "parse"
      <3>1. i' - 1 = at
        BY <1>1, <2>1, <2>5 DEF Advance
      <3>2. AtHeader(k, h, at)' /\ headers(k)' = headers(k)
        BY <1>1, <1>3, FormStays
      <3>3. KnownPart(k)'
        BY <1>5, <2>1, <3>2 DEF KnownPart
      <3>4. InBlankLine'
        BY <1>3, <2>1, <3>1, <3>2, <3>3 DEF InBlankLine
      <3>5. FormStates'
        BY <2>5, <3>4 DEF FormStates, In, DataStates
      <3>6. QED
        BY <1>1, <2>7, <3>5, ReadsOn
    <2>8. QED
      BY <1>1, <2>6, <2>7
  <1>8. QED
    BY <1>6, <1>7

\* The blank line.
LEMMA HeadersAlmostDoneForm ==
  ASSUME Inv, Execute, HoldsForm, FormStates, HeadersAlmostDone
  PROVE  FormInv'
  <1>1. /\ req' = req /\ body' = body /\ IsForm(req) /\ i \in Nat \ {0} /\ i <= Len(body)
        /\ Len(body) \in Nat
        /\ pc' = "parse" \/ pc' = "parsed"
    BY Reading
  <1>2. InBlankLine
    BY DEF FormStates, HeadersAlmostDone, In
  <1>3. PICK k \in Nat : AtHeader(k, Len(headers(k)) + 1, i - 1) /\ KnownPart(k)
    BY <1>2 DEF InBlankLine
  <1>4. PICK at : at = i - 1
    OBVIOUS
  <1>5. /\ at + 1 <= Len(body) => body[at + 1] = LF
        /\ AtData(k, at + 2)
        /\ req.arrives = "whole" => Len(body) > at + 2
    BY <1>1, <1>3, <1>4, BlankLineFollows
  <1>6. at + 1 = i /\ at + 2 = i + 1
    BY <1>1, <1>4
  <1>7. c = LF
    BY <1>1, <1>5, <1>6 DEF c
  <1>8. x_state' = "part_data_start" /\ Advance
    BY <1>7 DEF HeadersAlmostDone, Become
  <1>9. /\ k \in 1..LastPart /\ Len(headers(k)) + 1 \in 1..(Len(headers(k)) + 1)
    BY <1>3 DEF AtHeader
  <1>10. Known(k, Len(headers(k)) + 1) /\ Known(k, Len(headers(k)) + 1)' /\ out' = out
    <2>1. out' = out /\ check_name' = check_name
      BY DEF HeadersAlmostDone, mp_arg
    <2>2. PICK h : h = Len(headers(k)) + 1
      OBVIOUS
    <2>3. Known(k, h)
      BY <1>3, <2>2 DEF KnownPart
    <2>4. Known(k, h)'
      BY <1>1, <2>1, <2>3, KnownStays
    <2>5. h = (Len(headers(k)) + 1)'
      BY <1>1, <2>2, FormStays
    <2>6. QED
      BY <2>1, <2>2, <2>3, <2>4, <2>5
  <1>11. CASE pc' = "parsed"
    <2>1. req.arrives # "whole"
      BY <1>1, <1>5, <1>6, <1>8, <1>11 DEF Advance, isLast
    <2>2. QED
      BY <1>9, <1>10, <1>11, <2>1, CutInPart
  <1>12. CASE pc' = "parse"
    <2>1. i' = at + 2
      BY <1>6, <1>8 DEF Advance
    <2>2. PICK start : start = at + 2
      OBVIOUS
    <2>3. AtData(k, start)'
      BY <1>1, <1>5, <2>2, FormStays
    <2>4. KnownPart(k)'
      BY <1>10 DEF KnownPart
    <2>5. InData(i)'
      BY <2>1, <2>2, <2>3, <2>4 DEF InData
    <2>6. FormStates'
      BY <1>8, <2>5 DEF FormStates, In, DataStates
    <2>7. QED
      BY <1>1, <1>12, <2>6, ReadsOn
  <1>13. QED
    BY <1>1, <1>11, <1>12

\* The line end of a header.
LEMMA HeaderValueAlmostDoneForm ==
  ASSUME Inv, Execute, HoldsForm, FormStates, HeaderValueAlmostDone
  PROVE  FormInv'
  <1>1. /\ req' = req /\ body' = body /\ IsForm(req) /\ i \in Nat \ {0} /\ i <= Len(body)
        /\ Len(body) \in Nat
        /\ pc' = "parse" \/ pc' = "parsed"
    BY Reading
  <1>2. InValueEnd
    BY DEF FormStates, HeaderValueAlmostDone, In
  <1>3. PICK k, h, at \in Nat :
          InHeader(k, h, at) /\ Known(k, h + 1) /\ i = ValueEnd(k, h, at) + 1
    BY <1>2 DEF InValueEnd
  <1>4. PICK colon, end, value :
          colon = Colon(k, h, at) /\ end = ValueEnd(k, h, at) /\ value = headers(k)[h].value
    OBVIOUS
  <1>5. HeaderFrom(k, h, at, colon, end, value)
    BY <1>1, <1>3, <1>4, HeaderStands
  <1>6. /\ k \in 1..LastPart /\ h \in 1..Len(headers(k)) /\ colon \in Nat
        /\ Len(value) \in Nat /\ end = colon + 2 + Len(value)
        /\ end + 1 <= Len(body) => body[end + 1] = LF
        /\ AtHeader(k, h + 1, end + 2)
        /\ req.arrives = "whole" => Len(body) > end + 2
    BY <1>5 DEF HeaderFrom
  <1>7. i = end + 1 /\ end \in Nat
    <2>1. i = end + 1
      BY <1>3, <1>4
    <2>2. colon \in Nat /\ Len(value) \in Nat /\ end = colon + 2 + Len(value)
      BY <1>6
    <2>3. QED
      BY <2>1, <2>2
  <1>8. c = LF
    BY <1>1, <1>6, <1>7 DEF c
  <1>9. x_state' = "header_field_start" /\ Advance
    BY <1>8 DEF HeaderValueAlmostDone, Become
  <1>10. PICK g, next : g = h + 1 /\ next = end + 2
    OBVIOUS
  <1>11. AtHeader(k, g, next) /\ Known(k, g) /\ g \in Nat /\ next \in Nat
         /\ g \in 1..(Len(headers(k)) + 1)
    BY <1>3, <1>6, <1>7, <1>10 DEF AtHeader
  <1>12. Known(k, g)' /\ out' = out
    <2>1. out' = out /\ check_name' = check_name
      BY DEF HeaderValueAlmostDone, mp_arg
    <2>2. QED
      BY <1>1, <1>11, <2>1, KnownStays
  <1>13. CASE pc' = "parsed"
    <2>1. req.arrives # "whole"
      BY <1>1, <1>6, <1>7, <1>9, <1>13 DEF Advance, isLast
    <2>2. QED
      BY <1>6, <1>11, <1>12, <1>13, <2>1, CutInPart
  <1>14. CASE pc' = "parse"
    <2>1. i' = next
      BY <1>7, <1>9, <1>10 DEF Advance
    <2>2. AtHeader(k, g, next)'
      BY <1>1, <1>11, FormStays
    <2>3. (IF g <= Len(headers(k)) THEN i <= Colon(k, g, next) ELSE i = next)'
      BY <1>1, <1>11, <2>1, NameFollows
    <2>4. next <= i'
      BY <1>11, <2>1
    <2>5. InField'
      BY <1>3, <1>11, <1>12, <2>2, <2>3, <2>4 DEF InField
    <2>6. FormStates'
      BY <1>9, <2>5 DEF FormStates, In, DataStates
    <2>7. QED
      BY <1>1, <1>14, <2>6, ReadsOn
  <1>15. QED
    BY <1>1, <1>13, <1>14

\* Within the value of a header a line end is its end.
LEMMA ValueStops ==
  ASSUME IsForm(req), NEW k, NEW h, NEW at, NEW colon, NEW end, NEW value,
         HeaderFrom(k, h, at, colon, end, value),
         NEW j \in Nat, j <= Len(body), colon < j, j <= end
  PROVE  body[j] = CR <=> j = end
  <1>1. /\ value \in Seq(Bytes \ {CR}) /\ Len(value) \in Nat
        /\ colon \in Nat /\ end = colon + 2 + Len(value)
        /\ colon + 1 <= Len(body) => body[colon + 1] = SP
        /\ \A l \in 1..Len(value) :
             colon + 1 + l <= Len(body) => body[colon + 1 + l] = value[l]
        /\ end <= Len(body) => body[end] = CR
    BY DEF HeaderFrom
  <1>2. CASE j = end
    BY <1>1, <1>2
  <1>3. CASE j = colon + 1
    <2>1. j # end
      BY <1>1, <1>3
    <2>2. QED
      BY <1>1, <1>3, <2>1 DEF SP, CR
  <1>4. CASE colon + 1 < j /\ j < end
    <2>1. PICK l : l = j - colon - 1
      OBVIOUS
    <2>2. l \in 1..Len(value) /\ colon + 1 + l = j
      BY <1>1, <1>4, <2>1
    <2>3. body[j] = value[l]
      BY <1>1, <2>2
    <2>4. value[l] \in Bytes \ {CR}
      BY <1>1, <2>2
    <2>5. QED
      BY <1>1, <1>4, <2>3, <2>4
  <1>5. QED
    BY <1>1, <1>2, <1>3, <1>4

\* The space in front of a value.
LEMMA HeaderValueStartForm ==
  ASSUME Inv, Execute, HoldsForm, FormStates, HeaderValueStart
  PROVE  FormInv'
  <1>1. /\ req' = req /\ body' = body /\ IsForm(req) /\ i \in Nat \ {0} /\ i <= Len(body)
        /\ Len(body) \in Nat
        /\ pc' = "parse" \/ pc' = "parsed"
    BY Reading
  <1>2. InValue(i)
    BY DEF FormStates, HeaderValueStart, In
  <1>3. PICK k, h, at \in Nat :
          /\ InHeader(k, h, at) /\ Known(k, h)
          /\ Colon(k, h, at) < i /\ i <= ValueEnd(k, h, at)
          /\ Blank(Colon(k, h, at) + 1, i - 1)
    BY <1>2 DEF InValue
  <1>4. PICK colon, end, value :
          colon = Colon(k, h, at) /\ end = ValueEnd(k, h, at) /\ value = headers(k)[h].value
    OBVIOUS
  <1>5. HeaderFrom(k, h, at, colon, end, value)
    BY <1>1, <1>3, <1>4, HeaderStands
  <1>6. /\ k \in 1..LastPart /\ h \in 1..Len(headers(k)) /\ colon \in Nat
        /\ Len(value) \in Nat /\ end = colon + 2 + Len(value)
        /\ req.arrives = "whole" => Len(body) > end + 2
    BY <1>5 DEF HeaderFrom
  <1>7. colon < i /\ i < end /\ end \in Nat
    <2>1. colon < i /\ i <= end
      BY <1>3, <1>4
    <2>2. i # end
      <3>1. body[i] = SP
        BY DEF HeaderValueStart, c
      <3>2. body[i] # CR
        BY <3>1 DEF SP, CR
      <3>3. QED
        BY <1>1, <1>5, <2>1, <3>2, ValueStops
    <2>3. QED
      BY <1>1, <1>6, <2>1, <2>2
  <1>8. x_state' = "header_value_start" /\ Advance /\ body[i] = SP
    BY DEF HeaderValueStart, In, c
  <1>9. Known(k, h)' /\ out' = out
    <2>1. out' = out /\ check_name' = check_name
      BY DEF HeaderValueStart, mp_arg
    <2>2. QED
      BY <1>1, <1>3, <2>1, KnownStays
  <1>10. CASE pc' = "parsed"
    <2>1. req.arrives # "whole"
      BY <1>1, <1>6, <1>7, <1>8, <1>10 DEF Advance, isLast
    <2>2. h \in 1..(Len(headers(k)) + 1)
      BY <1>1, <1>6, PartTypes
    <2>3. QED
      BY <1>3, <1>6, <1>9, <1>10, <2>1, <2>2, CutInPart
  <1>11. CASE pc' = "parse"
    <2>1. i' = i + 1
      BY <1>8 DEF Advance
    <2>2. /\ InHeader(k, h, at)' /\ Colon(k, h, at)' = colon /\ ValueEnd(k, h, at)' = end
      BY <1>1, <1>3, <1>4, HeaderStays
    <2>3. (Colon(k, h, at) < i /\ i <= i /\ i <= ValueEnd(k, h, at))'
      BY <1>1, <1>6, <1>7, <2>1, <2>2
    <2>4. Blank(Colon(k, h, at) + 1, i - 1)'
      <3>1. \A j \in (colon + 1)..(i - 1) : body[j] = SP
        BY <1>3, <1>4 DEF Blank
      <3>2. \A j \in (colon + 1)..(i' - 1) : j = i \/ j \in (colon + 1)..(i - 1)
        BY <1>1, <1>6, <2>1
      <3>3. \A j \in (colon + 1)..(i' - 1) : body'[j] = SP
        BY <1>1, <1>8, <3>1, <3>2
      <3>4. QED
        BY <2>2, <3>3 DEF Blank
    <2>5. InValue(i)'
      BY <1>3, <1>9, <2>2, <2>3, <2>4 DEF InValue
    <2>6. FormStates'
      BY <1>8, <2>5 DEF FormStates, In, DataStates
    <2>7. QED
      BY <1>1, <1>11, <2>6, ReadsOn
  <1>12. QED
    BY <1>1, <1>10, <1>11

\* The value of a header.
LEMMA HeaderValueForm ==
  ASSUME Inv, Execute, HoldsForm, FormStates, HeaderValue
  PROVE  FormInv'
  <1>1. /\ TypeOK /\ req' = req /\ body' = body /\ IsForm(req) /\ i \in Nat \ {0} /\ i <= Len(body)
        /\ Len(body) \in Nat /\ mark \in Nat
        /\ pc' = "parse" \/ pc' = "parsed"
    BY Reading
  <1>2. PICK start : start = mark'
    OBVIOUS
  <1>3. InValue(start) /\ start \in Nat
    <2>1. CASE In({"header_value_start"}) /\ mark' = i
      <3>1. InValue(i)
        BY <2>1 DEF FormStates
      <3>2. start = i
        BY <1>2, <2>1
      <3>3. QED
        BY <1>1, <3>1, <3>2
    <2>2. CASE In({"header_value"}) /\ mark' = mark
      <3>1. InValue(mark)
        BY <2>2 DEF FormStates
      <3>2. start = mark
        BY <1>2, <2>2
      <3>3. QED
        BY <1>1, <3>1, <3>2
    <2>3. QED
      BY <2>1, <2>2 DEF HeaderValue
  <1>4. PICK k, h, at \in Nat :
          /\ InHeader(k, h, at) /\ Known(k, h)
          /\ Colon(k, h, at) < start /\ start <= i /\ i <= ValueEnd(k, h, at)
          /\ Blank(Colon(k, h, at) + 1, start - 1)
    BY <1>3 DEF InValue
  <1>5. PICK colon, end, value :
          colon = Colon(k, h, at) /\ end = ValueEnd(k, h, at) /\ value = headers(k)[h].value
    OBVIOUS
  <1>6. HeaderFrom(k, h, at, colon, end, value)
    BY <1>1, <1>4, <1>5, HeaderStands
  <1>7. /\ k \in 1..LastPart /\ h \in 1..Len(headers(k)) /\ colon \in Nat
        /\ Len(value) \in Nat /\ end = colon + 2 + Len(value)
        /\ req.arrives = "whole" => Len(body) > end + 2
    BY <1>6 DEF HeaderFrom
  <1>8. colon < start /\ start <= i /\ i <= end /\ end \in Nat
    BY <1>4, <1>5, <1>7
  <1>9. c = CR <=> i = end
    <2>1. colon < i
      BY <1>1, <1>3, <1>7, <1>8
    <2>2. QED
      BY <1>1, <1>6, <1>8, <2>1, ValueStops DEF c
  <1>10. Advance
    BY DEF HeaderValue
  <1>11. h \in 1..(Len(headers(k)) + 1)
    BY <1>1, <1>7, PartTypes
  <1>12. CASE pc' = "parsed"
    <2>1. isLast
      BY <1>10, <1>12 DEF Advance
    <2>2. req.arrives # "whole"
      BY <1>1, <1>7, <1>8, <2>1 DEF isLast
    <2>3. out' = out \/ \E n \in Nat : out' = TellType(n)
      <3>1. \E v : OnLastHeaderValue(v) \/ OnHeaderValue(v)
        BY <2>1 DEF HeaderValue
      <3>2. out' = out \/ out' = TellType(1) \/ out' = TellType(2)
        BY <3>1 DEF OnLastHeaderValue, OnHeaderValue
      <3>3. 1 \in Nat /\ 2 \in Nat
        OBVIOUS
      <3>4. QED
        BY <3>2, <3>3
    <2>4. QED
      BY <1>4, <1>7, <1>11, <1>12, <2>2, <2>3, CutInPart
  <1>13. CASE pc' = "parse" /\ c = CR
    <2>1. ~isLast /\ i' = i + 1
      BY <1>10, <1>13 DEF Advance
    <2>2. /\ OnHeaderValue(FileName(mark', i - 1))
          /\ x_state' = "header_value_almost_done"
      BY <1>13, <2>1 DEF HeaderValue, Become
    <2>3. i = end /\ end <= Len(body)
      BY <1>1, <1>9, <1>13
    <2>4. FileName(start, end - 1) = Says(headers(k)[h])
      <3>1. start <= end
        BY <1>3, <1>8, <2>3
      <3>2. QED
        BY <1>1, <1>3, <1>4, <1>5, <2>3, <3>1, ValueSays
    <2>5. OnHeaderValue(Says(headers(k)[h]))
      BY <1>2, <2>2, <2>3, <2>4
    <2>6. Known(k, h + 1)'
      BY <1>1, <1>4, <1>7, <2>5, HeaderTold
    <2>7. InHeader(k, h, at)' /\ ValueEnd(k, h, at)' = end
      BY <1>1, <1>4, <1>5, HeaderStays
    <2>8. i' = ValueEnd(k, h, at)' + 1
      BY <2>1, <2>3, <2>7
    <2>9. InValueEnd'
      BY <1>4, <2>6, <2>7, <2>8 DEF InValueEnd
    <2>10. FormStates'
      BY <2>2, <2>9 DEF FormStates, In, DataStates
    <2>11. QED
      BY <1>1, <1>13, <2>10, ReadsOn
  <1>14. CASE pc' = "parse" /\ c # CR
    <2>1. ~isLast /\ i' = i + 1
      BY <1>10, <1>14 DEF Advance
    <2>2. /\ out' = out /\ check_name' = check_name /\ x_state' = "header_value"
      BY <1>14, <2>1 DEF HeaderValue, Become, mp_arg
    <2>3. Known(k, h)'
      BY <1>1, <1>4, <2>2, KnownStays
    <2>4. start <= i' /\ i' <= end /\ colon < start
      BY <1>1, <1>3, <1>8, <1>9, <1>14, <2>1
    <2>5. /\ InHeader(k, h, at)' /\ Colon(k, h, at)' = colon /\ ValueEnd(k, h, at)' = end
      BY <1>1, <1>4, <1>5, HeaderStays
    <2>6. (Colon(k, h, at) < mark /\ mark <= i /\ i <= ValueEnd(k, h, at))'
      BY <1>2, <2>4, <2>5
    <2>7. Blank(Colon(k, h, at) + 1, mark - 1)'
      <3>1. \A j \in (colon + 1)..(start - 1) : body[j] = SP
        BY <1>4, <1>5 DEF Blank
      <3>2. QED
        BY <1>1, <1>2, <2>5, <3>1 DEF Blank
    <2>8. InValue(mark)'
      BY <1>4, <2>3, <2>5, <2>6, <2>7 DEF InValue
    <2>9. FormStates'
      BY <2>2, <2>8 DEF FormStates, In, DataStates
    <2>10. QED
      BY <1>1, <1>14, <2>9, ReadsOn
  <1>15. QED
    BY <1>1, <1>12, <1>13, <1>14

\* A byte of data, or of what may be the boundary.
LEMMA DataForm ==
  ASSUME Inv, Execute, HoldsForm, NEW start, start = dmark', InData(start),
         out' = out, check_name' = check_name, pc' = "parsed" => isLast,
         NEW j \in Nat, start <= j, i <= j + 2 + BoundaryLength,
         \A m \in start..(j - 1) : ~DelimiterAt(m),
         x_state' \in {"part_data", "part_data_almost_boundary", "part_data_boundary",
                       "part_data_almost_end"},
         x_state' = "part_data_almost_end" => i' = dbmark' + 2 + BoundaryLength
  PROVE  FormInv'
  <1>1. /\ req' = req /\ body' = body /\ IsForm(req) /\ i \in Nat \ {0} /\ i <= Len(body)
        /\ Len(body) \in Nat /\ BoundaryLength \in Nat \ {0}
        /\ pc' = "parse" \/ pc' = "parsed"
    BY Reading
  <1>2. PICK k \in Nat : AtData(k, start) /\ KnownPart(k)
    BY DEF InData
  <1>3. PICK h : h = Len(headers(k)) + 1
    OBVIOUS
  <1>4. k \in 1..LastPart /\ h \in 1..(Len(headers(k)) + 1) /\ Known(k, h)
    <2>1. k \in 1..LastPart
      BY <1>2 DEF AtData
    <2>2. Len(headers(k)) \in Nat
      BY <1>1, <2>1, PartTypes
    <2>3. QED
      BY <1>2, <1>3, <2>1, <2>2 DEF KnownPart
  <1>5. CASE pc' = "parsed"
    <2>1. req.arrives # "whole"
      <3>1. SUFFICES ASSUME req.arrives = "whole" PROVE FALSE
        OBVIOUS
      <3>2. Len(body) > j + 2 + BoundaryLength
        BY <1>1, <1>2, <3>1, NotTheEnd
      <3>3. QED
        BY <1>1, <1>5, <3>2 DEF isLast
    <2>2. QED
      BY <1>4, <1>5, <2>1, CutInPart
  <1>6. CASE pc' = "parse"
    <2>1. AtData(k, start)'
      BY <1>1, <1>2, FormStays
    <2>2. KnownPart(k)'
      <3>1. Known(k, h)'
        BY <1>1, <1>4, KnownStays
      <3>2. h = (Len(headers(k)) + 1)'
        BY <1>1, <1>3, FormStays
      <3>3. QED
        BY <3>1, <3>2 DEF KnownPart
    <2>3. InData(dmark)'
      BY <1>2, <2>1, <2>2 DEF InData
    <2>4. FormStates'
      BY <2>3 DEF FormStates, In, BoundaryLength
    <2>5. QED
      BY <1>1, <1>6, <2>4, ReadsOn
  <1>7. QED
    BY <1>1, <1>5, <1>6

LEMMA PartDataForm ==
  ASSUME Inv, Execute, HoldsForm, FormStates, PartData
  PROVE  FormInv'
  <1>1. /\ ScanInv /\ pc = "parse" /\ i \in Nat /\ BoundaryLength \in Nat \ {0} /\ dmark \in Nat
        /\ pc' = "parse" \/ pc' = "parsed"
    BY Reading
  <1>2. PICK start : start = dmark'
    OBVIOUS
  <1>3. InData(start) /\ start \in Nat /\ start <= i /\ \A m \in start..(i - 1) : ~DelimiterAt(m)
    <2>1. CASE x_state = "part_data_start"
      <3>1. start = i /\ InData(i)
        BY <1>2, <2>1 DEF PartData, FormStates, In
      <3>2. QED
        BY <1>1, <3>1
    <2>2. CASE x_state # "part_data_start"
      <3>1. start = dmark /\ x_state = "part_data"
        BY <1>2, <2>2 DEF PartData, In
      <3>2. InData(dmark)
        BY <1>1, <3>1 DEF FormStates, In, DataStates
      <3>3. dmark <= i /\ \A m \in dmark..(i - 1) : ~DelimiterAt(m)
        BY <1>1, <3>1 DEF ScanInv, In, CleanUpTo
      <3>4. QED
        BY <1>1, <3>1, <3>2, <3>3
    <2>3. QED
      BY <2>1, <2>2
  <1>4. /\ out' = out /\ check_name' = check_name /\ Advance
        /\ x_state' \in {"part_data", "part_data_almost_boundary"}
    BY DEF PartData, Become, mp_arg
  <1>5. pc' = "parsed" => isLast
    BY <1>4 DEF Advance
  <1>6. i <= i + 2 + BoundaryLength
    BY <1>1
  <1>7. QED
    BY <1>1, <1>2, <1>3, <1>4, <1>5, <1>6, DataForm

LEMMA PartDataAlmostBoundaryForm ==
  ASSUME Inv, Execute, HoldsForm, FormStates, PartDataAlmostBoundary
  PROVE  FormInv'
  <1>1. /\ ScanInv /\ pc = "parse" /\ i \in Nat /\ BoundaryLength \in Nat \ {0}
        /\ dmark \in Nat /\ dbmark \in Nat
        /\ pc' = "parse" \/ pc' = "parsed"
    BY Reading
  <1>2. PICK start : start = dmark
    OBVIOUS
  <1>3. /\ start = dmark' /\ InData(start)
        /\ i = dbmark + 1 /\ start <= dbmark /\ \A m \in start..(dbmark - 1) : ~DelimiterAt(m)
    BY <1>1, <1>2
    DEF PartDataAlmostBoundary, FormStates, ScanInv, In, DataStates, CleanUpTo
  <1>4. /\ out' = out /\ check_name' = check_name
        /\ x_state' \in {"part_data", "part_data_boundary"}
        /\ Advance \/ pc' = pc
    BY DEF PartDataAlmostBoundary, Become, mp_arg, Again
  <1>5. pc' = "parsed" => isLast
    BY <1>1, <1>4 DEF Advance
  <1>6. i <= dbmark + 2 + BoundaryLength
    BY <1>1, <1>3
  <1>7. QED
    BY <1>1, <1>3, <1>4, <1>5, <1>6, DataForm

LEMMA PartDataBoundaryForm ==
  ASSUME Inv, Execute, HoldsForm, FormStates, PartDataBoundary
  PROVE  FormInv'
  <1>1. /\ ScanInv /\ pc = "parse" /\ i \in Nat /\ BoundaryLength \in Nat \ {0}
        /\ dmark \in Nat /\ dbmark \in Nat /\ index \in Nat
        /\ pc' = "parse" \/ pc' = "parsed"
    BY Reading
  <1>2. PICK start : start = dmark
    OBVIOUS
  <1>3. /\ start = dmark' /\ dbmark' = dbmark /\ InData(start)
        /\ i = dbmark + 2 + index /\ index < BoundaryLength
        /\ start <= dbmark /\ \A m \in start..(dbmark - 1) : ~DelimiterAt(m)
    BY <1>1, <1>2
    DEF PartDataBoundary, FormStates, ScanInv, In, DataStates, CleanUpTo
  <1>4. /\ out' = out /\ check_name' = check_name
        /\ x_state' \in {"part_data", "part_data_boundary", "part_data_almost_end"}
        /\ Advance \/ pc' = pc
        /\ x_state' = "part_data_almost_end" =>
             Advance /\ index' = index + 1 /\ index' = BoundaryLength
    BY DEF PartDataBoundary, Become, mp_arg, Again
  <1>5. pc' = "parsed" => isLast
    BY <1>1, <1>4 DEF Advance
  <1>6. i <= dbmark + 2 + BoundaryLength
    BY <1>1, <1>3
  <1>7. x_state' = "part_data_almost_end" => i' = dbmark' + 2 + BoundaryLength
    BY <1>1, <1>3, <1>4 DEF Advance
  <1>8. QED
    BY <1>1, <1>3, <1>4, <1>5, <1>6, <1>7, DataForm

\* Behind the boundary the data is known to be all of a part's.
LEMMA PartIsWhole ==
  ASSUME Inv, Execute, HoldsForm, FormStates,
         x_state \in {"part_data_almost_end", "part_data_final_hyphen", "part_data_end"}
  PROVE  \E k \in 1..LastPart :
           /\ AtData(k, dmark) /\ KnownPart(k)
           /\ dbmark = dmark + Len(data(k)) /\ dbmark + 1 + BoundaryLength <= Len(body)
           /\ Rest(dbmark + 2 + BoundaryLength, FromPart(req.parts)[k + 1])
  <1>1. /\ ScanInv /\ pc = "parse" /\ IsForm(req) /\ dmark \in Nat /\ dbmark \in Nat
    BY Reading
  <1>2. /\ dmark <= dbmark /\ DelimiterAt(dbmark)
        /\ \A j \in dmark..(dbmark - 1) : ~DelimiterAt(j)
    BY <1>1 DEF ScanInv, ChunkDelimited, In
  <1>3. InData(dmark)
    BY <1>1 DEF FormStates, In, DataStates
  <1>4. PICK k \in Nat : AtData(k, dmark) /\ KnownPart(k)
    BY <1>3 DEF InData
  <1>5. dbmark = dmark + Len(data(k))
    BY <1>1, <1>2, <1>4, DelimiterIsEnd
  <1>6. dbmark + 1 + BoundaryLength <= Len(body)
    BY <1>2 DEF DelimiterAt
  <1>7. Rest(dbmark + 2 + BoundaryLength, FromPart(req.parts)[k + 1])
    BY <1>1, <1>4, <1>5, PartEnds
  <1>8. k \in 1..LastPart
    BY <1>4 DEF AtData
  <1>9. QED
    BY <1>4, <1>5, <1>6, <1>7, <1>8

\* What comes behind the boundary.
LEMMA BehindBoundary ==
  ASSUME IsForm(req), NEW k \in 1..LastPart, NEW at \in Nat \ {0},
         Rest(at, FromPart(req.parts)[k + 1])
  PROVE  /\ at <= Len(body) => body[at] = IF k = LastPart THEN "-" ELSE CR
         /\ at + 1 <= Len(body) => body[at + 1] = IF k = LastPart THEN "-" ELSE LF
         /\ k # LastPart => AtHeader(k + 1, 1, at + 2)
         /\ req.arrives = "whole" => Len(body) > at + 1
  <1>1. CASE k = LastPart
    BY <1>1, FormEnds
  <1>2. CASE k # LastPart
    <2>1. k + 1 \in 1..LastPart
      BY <1>2, PartTypes
    <2>2. QED
      BY <1>2, <2>1, NextPart
  <1>3. QED
    BY <1>1, <1>2

LEMMA PartDataAlmostEndForm ==
  ASSUME Inv, Execute, HoldsForm, FormStates, PartDataAlmostEnd
  PROVE  FormInv'
  <1>1. /\ req' = req /\ body' = body /\ IsForm(req) /\ i \in Nat \ {0} /\ i <= Len(body)
        /\ Len(body) \in Nat /\ BoundaryLength \in Nat \ {0} /\ dmark \in Nat /\ dbmark \in Nat
        /\ pc' = "parse" \/ pc' = "parsed"
    BY Reading
  <1>2. x_state = "part_data_almost_end" /\ i = dbmark + 2 + BoundaryLength
    BY DEF PartDataAlmostEnd, FormStates, In
  <1>3. PICK k \in 1..LastPart :
          /\ AtData(k, dmark) /\ KnownPart(k)
          /\ Rest(dbmark + 2 + BoundaryLength, FromPart(req.parts)[k + 1])
    BY <1>2, PartIsWhole
  <1>4. PICK at, h : at = dbmark + 2 + BoundaryLength /\ h = Len(headers(k)) + 1
    OBVIOUS
  <1>5. at \in Nat \ {0} /\ at = i
    BY <1>1, <1>2, <1>4
  <1>6. /\ at <= Len(body) => body[at] = IF k = LastPart THEN "-" ELSE CR
        /\ req.arrives = "whole" => Len(body) > at + 1
    BY <1>1, <1>3, <1>4, <1>5, BehindBoundary
  <1>7. c \in {"-", CR} /\ CR # "-"
    BY <1>1, <1>5, <1>6 DEF c, CR
  <1>8. /\ Advance
        /\ \/ c = "-" /\ x_state' = "part_data_final_hyphen"
           \/ c = CR /\ x_state' = "part_data_end"
    BY <1>7 DEF PartDataAlmostEnd, Become
  <1>9. /\ out' = out /\ check_name' = check_name /\ dmark' = dmark /\ dbmark' = dbmark
    BY DEF PartDataAlmostEnd, mp_arg
  <1>10. k \in Nat /\ h \in 1..(Len(headers(k)) + 1) /\ Known(k, h)
    BY <1>1, <1>3, <1>4, PartTypes DEF KnownPart
  <1>11. CASE pc' = "parsed"
    <2>1. req.arrives # "whole"
      BY <1>1, <1>5, <1>6, <1>8, <1>11 DEF Advance, isLast
    <2>2. QED
      BY <1>3, <1>9, <1>10, <1>11, <2>1, CutInPart
  <1>12. CASE pc' = "parse"
    <2>1. i' = i + 1 /\ i' - 1 = i
      BY <1>1, <1>8 DEF Advance
    <2>2. i' = dbmark' + 3 + BoundaryLength
      BY <1>1, <1>2, <1>9, <2>1
    <2>3. body'[i' - 1] = c
      BY <1>1, <2>1 DEF c
    <2>4. PICK start : start = dmark
      OBVIOUS
    <2>5. AtData(k, start)'
      BY <1>1, <1>3, <2>4, FormStays
    <2>6. KnownPart(k)'
      <3>1. Known(k, h)'
        BY <1>1, <1>9, <1>10, KnownStays
      <3>2. h = (Len(headers(k)) + 1)'
        BY <1>1, <1>4, FormStays
      <3>3. QED
        BY <3>1, <3>2 DEF KnownPart
    <2>7. InData(dmark)'
      BY <1>9, <1>10, <2>4, <2>5, <2>6 DEF InData
    <2>8. FormStates'
      BY <1>8, <2>2, <2>3, <2>7 DEF FormStates, In, BoundaryLength
    <2>9. QED
      BY <1>1, <1>12, <2>8, ReadsOn
  <1>13. QED
    BY <1>1, <1>11, <1>12

\* The last part is handed over.
LEMMA PartDataFinalHyphenForm ==
  ASSUME Inv, Inv', Execute, HoldsForm, FormStates, PartDataFinalHyphen
  PROVE  FormInv'
  <1>1. /\ TypeOK /\ pc = "parse" /\ req' = req /\ body' = body /\ IsForm(req)
        /\ i \in Nat \ {0} /\ i <= Len(body)
        /\ Len(body) \in Nat /\ BoundaryLength \in Nat \ {0} /\ dmark \in Nat /\ dbmark \in Nat
        /\ pc' = "parse" \/ pc' = "parsed"
    BY Reading
  <1>2. /\ x_state = "part_data_final_hyphen"
        /\ i = dbmark + 3 + BoundaryLength /\ body[i - 1] = "-"
    BY DEF PartDataFinalHyphen, FormStates, In
  <1>3. PICK k \in 1..LastPart :
          /\ AtData(k, dmark) /\ KnownPart(k)
          /\ dbmark = dmark + Len(data(k)) /\ dbmark + 1 + BoundaryLength <= Len(body)
          /\ Rest(dbmark + 2 + BoundaryLength, FromPart(req.parts)[k + 1])
    BY <1>2, PartIsWhole
  <1>4. PICK at : at = dbmark + 2 + BoundaryLength
    OBVIOUS
  <1>5. at \in Nat \ {0} /\ at = i - 1 /\ at + 1 = i /\ at <= Len(body)
    BY <1>1, <1>2, <1>4
  <1>6. /\ at <= Len(body) => body[at] = IF k = LastPart THEN "-" ELSE CR
        /\ at + 1 <= Len(body) => body[at + 1] = IF k = LastPart THEN "-" ELSE LF
    BY <1>1, <1>3, <1>4, <1>5, BehindBoundary
  <1>7. k = LastPart
    BY <1>2, <1>5, <1>6 DEF CR
  <1>8. c = "-"
    BY <1>1, <1>5, <1>6, <1>7 DEF c
  <1>9. OnChunkData(dmark, dbmark - 1) /\ x_state' = "end"
    BY <1>8 DEF PartDataFinalHyphen, Become
  <1>10. dbmark <= Len(body)
    BY <1>1, <1>3
  <1>11. TellsOf(MentionedUpTo(k))'
    BY <1>1, <1>3, <1>9, <1>10, PartTold
  <1>12. CASE pc' = "parsed"
    BY <1>7, <1>11, <1>12, StopsBehind
  <1>13. CASE pc' = "parse"
    <2>1. LastPart' = k
      BY <1>1, <1>7, FormStays
    <2>2. TellsOf(MentionedUpTo(LastPart))'
      <3>1. PICK ks : ks = MentionedUpTo(k)'
        OBVIOUS
      <3>2. ks = MentionedUpTo(LastPart)'
        BY <2>1, <3>1 DEF MentionedUpTo
      <3>3. TellsOf(ks)'
        BY <1>11, <3>1 DEF TellsOf
      <3>4. QED
        BY <3>2, <3>3 DEF TellsOf
    <2>3. FormStates'
      BY <1>9, <2>2 DEF FormStates, In, DataStates
    <2>4. QED
      BY <1>1, <1>13, <2>3, ReadsOn
  <1>14. QED
    BY <1>1, <1>12, <1>13

\* A part is handed over that is not the last one.
LEMMA PartDataEndForm ==
  ASSUME Inv, Inv', Execute, HoldsForm, FormStates, PartDataEnd
  PROVE  FormInv'
  <1>1. /\ TypeOK /\ pc = "parse" /\ req' = req /\ body' = body /\ IsForm(req)
        /\ i \in Nat \ {0} /\ i <= Len(body)
        /\ Len(body) \in Nat /\ BoundaryLength \in Nat \ {0} /\ dmark \in Nat /\ dbmark \in Nat
        /\ pc' = "parse" \/ pc' = "parsed"
    BY Reading
  <1>2. /\ x_state = "part_data_end"
        /\ i = dbmark + 3 + BoundaryLength /\ body[i - 1] = CR
    BY DEF PartDataEnd, FormStates, In
  <1>3. PICK k \in 1..LastPart :
          /\ AtData(k, dmark) /\ KnownPart(k)
          /\ dbmark = dmark + Len(data(k)) /\ dbmark + 1 + BoundaryLength <= Len(body)
          /\ Rest(dbmark + 2 + BoundaryLength, FromPart(req.parts)[k + 1])
    BY <1>2, PartIsWhole
  <1>4. PICK at : at = dbmark + 2 + BoundaryLength
    OBVIOUS
  <1>5. at \in Nat \ {0} /\ at = i - 1 /\ at + 1 = i /\ at <= Len(body)
    BY <1>1, <1>2, <1>4
  <1>6. /\ at <= Len(body) => body[at] = IF k = LastPart THEN "-" ELSE CR
        /\ at + 1 <= Len(body) => body[at + 1] = IF k = LastPart THEN "-" ELSE LF
        /\ k # LastPart => AtHeader(k + 1, 1, at + 2)
        /\ req.arrives = "whole" => Len(body) > at + 1
    BY <1>1, <1>3, <1>4, <1>5, BehindBoundary
  <1>7. k # LastPart
    BY <1>2, <1>5, <1>6 DEF CR
  <1>8. c = LF
    BY <1>1, <1>5, <1>6, <1>7 DEF c
  <1>9. OnChunkData(dmark, dbmark - 1) /\ x_state' = "header_field_start" /\ Advance
    BY <1>8 DEF PartDataEnd, Become
  <1>10. dbmark <= Len(body)
    BY <1>1, <1>3
  <1>11. ~check_name' /\ TellsOf(MentionedUpTo(k))'
    BY <1>1, <1>3, <1>9, <1>10, PartTold
  <1>12. CASE pc' = "parsed"
    <2>1. req.arrives # "whole"
      BY <1>1, <1>5, <1>6, <1>9, <1>12 DEF Advance, isLast
    <2>2. QED
      BY <1>11, <1>12, <2>1, StopsBehind
  <1>13. CASE pc' = "parse"
    <2>1. PICK next, start : next = k + 1 /\ start = at + 2
      OBVIOUS
    <2>2. i' = start /\ start \in Nat /\ next \in Nat /\ next - 1 = k
      BY <1>1, <1>5, <1>9, <2>1 DEF Advance
    <2>3. AtHeader(next, 1, start)
      BY <1>6, <1>7, <2>1
    <2>4. AtHeader(next, 1, start)'
      BY <1>1, <2>3, FormStays
    <2>5. (IF 1 <= Len(headers(next)) THEN i <= Colon(next, 1, start) ELSE i = start)'
      BY <1>1, <2>2, <2>3, NameFollows
    <2>6. Known(next, 1)'
      <3>1. ~RefusedBefore(next, 1)'
        BY DEF RefusedBefore
      <3>2. ~TellsType(next, 1)'
        BY DEF TellsType
      <3>3. PICK ks : ks = MentionedUpTo(k)'
        OBVIOUS
      <3>4. ks = ToldBefore(next, 1)'
        BY <2>2, <3>2, <3>3 DEF ToldBefore
      <3>5. TellsOf(ks)'
        BY <1>11, <3>3 DEF TellsOf
      <3>6. QED
        BY <1>11, <3>1, <3>4, <3>5 DEF Known, TellsOf
    <2>7. start <= i' /\ 1 \in Nat
      BY <2>2
    <2>8. InField'
      BY <2>2, <2>4, <2>5, <2>6, <2>7 DEF InField
    <2>9. FormStates'
      BY <1>9, <2>8 DEF FormStates, In, DataStates
    <2>10. QED
      BY <1>1, <1>13, <2>9, ReadsOn
  <1>14. QED
    BY <1>1, <1>12, <1>13

\* Behind the form.
LEMMA EndForm ==
  ASSUME Inv, Inv', Execute, HoldsForm, FormStates, End
  PROVE  FormInv'
  <1>1. /\ req' = req /\ LastPart \in Nat \ {0} /\ LastPart' = LastPart
        /\ pc' = "parse" \/ pc' = "parsed"
    BY Reading, FormStays
  <1>2. TellsOf(MentionedUpTo(LastPart)) /\ x_state = "end"
    BY DEF FormStates, End, In
  <1>3. PICK k, ks : k = LastPart /\ ks = MentionedUpTo(k)
    OBVIOUS
  <1>4. k \in 1..LastPart
    BY <1>1, <1>3
  <1>5. TellsOf(ks)' /\ ks = MentionedUpTo(k)' /\ ks = MentionedUpTo(LastPart)'
    <2>1. out' = out
      BY DEF End
    <2>2. TellsOf(ks)'
      BY <1>1, <1>2, <1>3, <2>1, KnownStays
    <2>3. QED
      BY <1>1, <1>3, <2>2 DEF MentionedUpTo
  <1>6. TellsOf(MentionedUpTo(k))' /\ TellsOf(MentionedUpTo(LastPart))'
    BY <1>5 DEF TellsOf
  <1>7. CASE pc' = "parsed"
    BY <1>3, <1>4, <1>6, <1>7, StopsBehind
  <1>8. CASE pc' = "parse"
    <2>1. x_state' = "end"
      BY <1>2 DEF End
    <2>2. FormStates'
      BY <1>6, <2>1 DEF FormStates, In, DataStates
    <2>3. QED
      BY <1>1, <1>8, <2>2, ReadsOn
  <1>9. QED
    BY <1>1, <1>7, <1>8

LEMMA ExecuteForm ==
  ASSUME Inv, Inv', Execute, HoldsForm, FormStates
  PROVE  FormInv'
  BY StartBoundaryForm, HeaderFieldForm, HeadersAlmostDoneForm, HeaderValueStartForm,
     HeaderValueForm, HeaderValueAlmostDoneForm, PartDataForm,
     PartDataAlmostBoundaryForm, PartDataBoundaryForm, PartDataAlmostEndForm,
     PartDataFinalHyphenForm, PartDataEndForm, EndForm
  DEF Execute

-----------------------------------------------------------------------------
(* Forms: the requests *)

\* The body of a request stands in its form.
LEMMA FormArrives ==
  ASSUME NEW r, IsForm(r), IsRequest(r), NEW form, form = RenderForm(r.parts)
  PROVE  /\ \A j \in 1..Len(form) : 1 + j - 1 <= Len(r.body) => r.body[1 + j - 1] = form[j]
         /\ r.arrives = "whole" => Len(r.body) = (1 - 1) + Len(form)
  <1>1. PICK b, n : b = r.body /\ n = Len(b)
    OBVIOUS
  <1>2. n \in Nat
    BY <1>1 DEF IsRequest
  <1>3. \/ r.arrives = "whole" /\ b = form
        \/ r.arrives = "cut" /\ n < Len(form) /\ b = SubSeq(form, 1, n)
    BY <1>1 DEF IsForm
  <1>4. CASE r.arrives = "whole" /\ b = form
    <2>1. Len(b) = (1 - 1) + Len(form)
      BY <1>1, <1>2, <1>4
    <2>2. \A j \in 1..Len(form) : 1 + j - 1 = j
      OBVIOUS
    <2>3. QED
      BY <1>1, <1>4, <2>1, <2>2
  <1>5. CASE r.arrives = "cut" /\ b = SubSeq(form, 1, n)
    <2>1. PICK S : S = {form[j] : j \in 1..n}
      OBVIOUS
    <2>2. \A j \in 1..n : form[j] \in S
      BY <2>1
    <2>3. \A j \in 1..(n - 1 + 1) : SubSeq(form, 1, n)[j] = form[1 + j - 1]
      BY <1>2, <2>2, SubSeqProperties
    <2>4. ASSUME NEW j \in 1..Len(form), 1 + j - 1 <= n PROVE b[1 + j - 1] = form[j]
      <3>1. j \in 1..(n - 1 + 1) /\ 1 + j - 1 = j
        BY <1>2, <2>4
      <3>2. QED
        BY <1>5, <2>3, <3>1
    <2>5. QED
      BY <1>1, <1>5, <2>4
  <1>6. QED
    BY <1>3, <1>4, <1>5

LEMMA ReceiveForm ==
  ASSUME Inv, FormInv, Receive
  PROVE  FormInv'
  <1>1. PICK r \in Requests :
          /\ req' = r
          /\ \/ r.kind = "multipart" /\ pc' = "parse" /\ UNCHANGED out
             \/ pc' \in {"reply", "dead"}
    BY DEF Receive
  <1>2. /\ pc = "idle" /\ i' = i /\ x_state' = x_state /\ index' = index
        /\ check_name' = check_name
    BY DEF Receive, parser, mp_arg
  <1>3. i = 1 /\ x_state = "start_boundary" /\ index = 0 /\ ~check_name /\ out = <<>>
    BY <1>2 DEF Inv, ScanInv, FormInv
  <1>4. CASE pc' \in {"reply", "dead"}
    BY <1>4 DEF FormInv
  <1>5. CASE /\ r.kind = "multipart" /\ pc' = "parse" /\ UNCHANGED out
             /\ r.arrives \in {"whole", "cut"}
    <2>1. IsForm(r) /\ IsRequest(r) /\ body' = r.body
      BY <1>1, <1>5, FormsAssumption, RequestsAssumption DEF body
    <2>2. PICK form : form = RenderForm(r.parts)
      OBVIOUS
    <2>3. /\ \A j \in 1..Len(form) : 1 + j - 1 <= Len(r.body) => r.body[1 + j - 1] = form[j]
          /\ r.arrives = "whole" => Len(r.body) = (1 - 1) + Len(form)
      BY <2>1, <2>2, FormArrives
    <2>4. Rest(1, form)' /\ form = RenderForm(req.parts)'
      BY <1>1, <2>1, <2>2, <2>3 DEF Rest, Stands
    <2>5. Known(1, 1)'
      <3>1. ~RefusedBefore(1, 1)' /\ ~TellsType(1, 1)'
        BY DEF RefusedBefore, TellsType
      <3>2. MentionedUpTo(1 - 1)' = {}
        BY DEF MentionedUpTo
      <3>3. ToldBefore(1, 1)' = {}
        BY <3>1, <3>2 DEF ToldBefore
      <3>4. PICK a, parts, b : a = InOrder' /\ parts = req'.parts /\ b = body'
        OBVIOUS
      <3>5. a = <<>> \/ a = Reverse(<<>>)
        BY <1>3, <1>5, <3>4 DEF InOrder
      <3>6. DOMAIN a = {}
        <4>1. Reverse(<<>>) = [j \in 1..0 |-> <<>>[(0 - j) + 1]]
          BY DEF Reverse
        <4>2. QED
          BY <3>5, <4>1
      <3>7. Tells(a, parts, b, {}, {})
        BY TellsNothing
      <3>8. TellsOf({})'
        BY <3>4, <3>6, <3>7 DEF TellsOf
      <3>9. QED
        BY <1>2, <1>3, <3>1, <3>3, <3>8 DEF Known, TellsOf
    <2>6. i' = index' + 1
      BY <1>2, <1>3
    <2>7. InStart'
      BY <2>4, <2>5, <2>6 DEF InStart
    <2>8. FormStates'
      BY <1>2, <1>3, <2>7 DEF FormStates, In, DataStates
    <2>9. QED
      BY <1>1, <1>5, <2>1, <2>8 DEF FormInv
  <1>6. CASE pc' = "parse" /\ r.arrives \notin {"whole", "cut"}
    BY <1>1, <1>6 DEF FormInv
  <1>7. QED
    BY <1>1, <1>4, <1>5, <1>6

LEMMA FormUnchanged ==
  ASSUME FormInv, pc' = pc, req' = req, i' = i, x_state' = x_state, index' = index,
         mark' = mark, dmark' = dmark, dbmark' = dbmark, check_name' = check_name,
         out' = out
  PROVE  FormInv'
  <1>1. /\ body' = body /\ LastPart' = LastPart /\ (IsForm(req) => IsForm(req)')
        /\ \A k : headers(k)' = headers(k)
        /\ \A k, h, at : AtHeader(k, h, at)' <=> AtHeader(k, h, at)
        /\ \A k, at : AtData(k, at)' <=> AtData(k, at)
        /\ \A from, to : Blank(from, to)' <=> Blank(from, to)
    BY FormStays
  <1>2. \A k, h, at : /\ Colon(k, h, at)' = Colon(k, h, at)
                      /\ ValueEnd(k, h, at)' = ValueEnd(k, h, at)
                      /\ InHeader(k, h, at)' <=> InHeader(k, h, at)
    BY HeaderStays
  <1>3. \A k, h : Known(k, h)' <=> Known(k, h)
    BY KnownStays
  <1>4. \A k : KnownPart(k)' <=> KnownPart(k)
    <2>1. SUFFICES ASSUME NEW k PROVE KnownPart(k)' <=> KnownPart(k)
      OBVIOUS
    <2>2. PICK h : h = Len(headers(k)) + 1
      OBVIOUS
    <2>3. h = (Len(headers(k)) + 1)'
      BY <1>1, <2>2
    <2>4. Known(k, h)' <=> Known(k, h)
      BY <1>3
    <2>5. KnownPart(k)' <=> Known(k, h)'
      BY <2>3 DEF KnownPart
    <2>6. KnownPart(k) <=> Known(k, h)
      BY <2>2 DEF KnownPart
    <2>7. QED
      BY <2>4, <2>5, <2>6
  <1>5. InStart => InStart'
    <2>1. PICK form : form = RenderForm(req.parts)
      OBVIOUS
    <2>2. form = RenderForm(req.parts)'
      BY <2>1
    <2>3. Rest(1, form) => Rest(1, form)'
      BY <1>1 DEF Rest, Stands
    <2>4. QED
      BY <1>3, <2>1, <2>2, <2>3 DEF InStart
  <1>6. InField => InField'
    <2>1. SUFFICES ASSUME InField PROVE InField'
      OBVIOUS
    <2>2. PICK k, h, at \in Nat :
            /\ AtHeader(k, h, at) /\ Known(k, h) /\ at <= i
            /\ IF h <= Len(headers(k)) THEN i <= Colon(k, h, at) ELSE i = at
      BY <2>1 DEF InField
    <2>3. (/\ AtHeader(k, h, at) /\ Known(k, h) /\ at <= i
           /\ IF h <= Len(headers(k)) THEN i <= Colon(k, h, at) ELSE i = at)'
      BY <1>1, <1>2, <1>3, <2>2
    <2>4. QED
      BY <2>2, <2>3 DEF InField
  <1>7. InBlankLine => InBlankLine'
    <2>1. SUFFICES ASSUME InBlankLine PROVE InBlankLine'
      OBVIOUS
    <2>2. PICK k \in Nat : AtHeader(k, Len(headers(k)) + 1, i - 1) /\ KnownPart(k)
      BY <2>1 DEF InBlankLine
    <2>3. PICK h, at : h = Len(headers(k)) + 1 /\ at = i - 1
      OBVIOUS
    <2>4. AtHeader(k, h, at)' /\ h = (Len(headers(k)) + 1)' /\ at = (i - 1)'
      BY <1>1, <2>2, <2>3
    <2>5. AtHeader(k, Len(headers(k)) + 1, i - 1)'
      BY <2>4 DEF AtHeader
    <2>6. QED
      BY <1>4, <2>2, <2>5 DEF InBlankLine
  <1>8. \A start : InValue(start) => InValue(start)'
    <2>1. SUFFICES ASSUME NEW start, InValue(start) PROVE InValue(start)'
      OBVIOUS
    <2>2. PICK k, h, at \in Nat :
            /\ InHeader(k, h, at) /\ Known(k, h)
            /\ Colon(k, h, at) < start /\ start <= i /\ i <= ValueEnd(k, h, at)
            /\ Blank(Colon(k, h, at) + 1, start - 1)
      BY <2>1 DEF InValue
    <2>3. (/\ InHeader(k, h, at) /\ Known(k, h)
           /\ Colon(k, h, at) < start /\ start <= i /\ i <= ValueEnd(k, h, at))'
      BY <1>2, <1>3, <2>2
    <2>4. Blank(Colon(k, h, at) + 1, start - 1)'
      BY <1>1, <1>2, <2>2 DEF Blank
    <2>5. QED
      BY <2>2, <2>3, <2>4 DEF InValue
  <1>9. InValueEnd => InValueEnd'
    <2>1. SUFFICES ASSUME InValueEnd PROVE InValueEnd'
      OBVIOUS
    <2>2. PICK k, h, at \in Nat :
            InHeader(k, h, at) /\ Known(k, h + 1) /\ i = ValueEnd(k, h, at) + 1
      BY <2>1 DEF InValueEnd
    <2>3. (InHeader(k, h, at) /\ Known(k, h + 1) /\ i = ValueEnd(k, h, at) + 1)'
      BY <1>2, <1>3, <2>2
    <2>4. QED
      BY <2>2, <2>3 DEF InValueEnd
  <1>10. \A start : InData(start) => InData(start)'
    BY <1>1, <1>4 DEF InData
  <1>11. TellsOf(MentionedUpTo(LastPart)) => TellsOf(MentionedUpTo(LastPart))'
    <2>1. PICK ks : ks = MentionedUpTo(LastPart)
      OBVIOUS
    <2>2. ks = MentionedUpTo(LastPart)'
      BY <1>1, <2>1 DEF MentionedUpTo
    <2>3. TellsOf(ks) => TellsOf(ks)'
      BY KnownStays
    <2>4. QED
      BY <2>1, <2>2, <2>3 DEF TellsOf
  <1>12. (\E last \in 0..LastPart : SavesFirst(last))
           => (\E last \in 0..LastPart : SavesFirst(last))'
    <2>1. InOrder' = InOrder
      BY DEF InOrder
    <2>2. ASSUME NEW last, SavesFirst(last) PROVE SavesFirst(last)'
      BY <1>1, <2>1, <2>2 DEF SavesFirst
    <2>3. QED
      BY <1>1, <2>2
  <1>13. FormParsed => FormParsed'
    BY <1>11, <1>12 DEF FormParsed
  <1>14. InValue(i) => InValue(i)'
    <2>1. PICK start : start = i
      OBVIOUS
    <2>2. InValue(start) => InValue(start)'
      BY <1>8
    <2>3. QED
      BY <2>1, <2>2 DEF InValue
  <1>15. InValue(mark) => InValue(mark)'
    <2>1. PICK start : start = mark
      OBVIOUS
    <2>2. InValue(start) => InValue(start)'
      BY <1>8
    <2>3. QED
      BY <2>1, <2>2 DEF InValue
  <1>16. (InData(i) => InData(i)') /\ (InData(dmark) => InData(dmark)')
    <2>1. PICK start, second : start = i /\ second = dmark
      OBVIOUS
    <2>2. (InData(start) => InData(start)') /\ (InData(second) => InData(second)')
      BY <1>10
    <2>3. QED
      BY <2>1, <2>2 DEF InData
  <1>17. FormStates => FormStates'
    BY <1>1, <1>5, <1>6, <1>7, <1>9, <1>11, <1>14, <1>15, <1>16
    DEF FormStates, In, DataStates, BoundaryLength
  <1>18. QED
    BY <1>1, <1>13, <1>17 DEF FormInv

LEMMA FormNext == Inv /\ Inv' /\ FormInv /\ [Next]_vars => FormInv'
  <1> SUFFICES ASSUME Inv, Inv', FormInv, [Next]_vars PROVE FormInv'
    OBVIOUS
  <1>1. CASE Receive
    BY <1>1, ReceiveForm
  <1>2. CASE Execute
    <2>1. /\ pc = "parse" /\ req' = req
          /\ pc' = "parse" \/ pc' = "parsed"
      <3>1. pc = "parse" /\ req' = req
        BY <1>2, RequestStays
      <3>2. pc' = "parse" \/ pc' = "parsed"
        BY <1>2, <3>1 DEF Execute, StartBoundary, HeaderField, HeadersAlmostDone,
           HeaderValueStart, HeaderValue, HeaderValueAlmostDone, PartData,
           PartDataAlmostBoundary, PartDataBoundary, PartDataAlmostEnd,
           PartDataFinalHyphen, PartDataEnd, End, Advance, Stop, Again
      <3>3. QED
        BY <3>1, <3>2
    <2>2. CASE req.arrives \in {"whole", "cut"}
      <3>1. HoldsForm /\ FormStates
        BY <2>1, <2>2 DEF FormInv, HoldsForm
      <3>2. QED
        BY <1>2, <3>1, ExecuteForm
    <2>3. CASE req.arrives \notin {"whole", "cut"}
      BY <2>1, <2>3 DEF FormInv
    <2>4. QED
      BY <2>2, <2>3
  <1>3. CASE MultipartParsed
    BY <1>3 DEF MultipartParsed, FormInv
  <1>4. CASE Reply
    BY <1>4 DEF Reply, FormInv
  <1>5. CASE UNCHANGED vars
    <2>1. /\ pc' = pc /\ req' = req /\ i' = i /\ x_state' = x_state /\ index' = index
          /\ mark' = mark /\ dmark' = dmark /\ dbmark' = dbmark
          /\ check_name' = check_name /\ succno' = succno /\ out' = out
      BY <1>5 DEF vars, parser, mp_arg
    <2>2. FormInv'
      BY <2>1, FormUnchanged
    <2>3. QED
      BY <2>2
  <1>6. QED
    BY <1>1, <1>2, <1>3, <1>4, <1>5 DEF Next

\* An answer as the properties look at it.
LEMMA TellsAnswer ==
  ASSUME NEW ns, NEW ks, Tells(InOrder, req.parts, body, ns, ks)
  PROVE  AnswerParts(ns, ks)
  <1>1. PICK which \in [ns -> ks] :
          /\ \A m, n \in ns : m < n => which[m] < which[n]
          /\ \A k \in ks : \E n \in ns : which[n] = k
          /\ \A n \in ns : IsFor(InOrder[n], req.parts[which[n]], body)
    BY DEF Tells
  <1>2. \A n \in ns : Answers(n, req.parts[which[n]])
    BY <1>1 DEF IsFor, IsSaved, Answers, Saves
  <1>3. QED
    BY <1>1, <1>2 DEF AnswerParts

\* What is known of the form when it is parsed, is what was promised.
LEMMA FormAnswered == FormInv => PartsAnswered /\ CutSavesWholeParts
  <1> SUFFICES ASSUME FormInv PROVE PartsAnswered /\ CutSavesWholeParts
    OBVIOUS
  <1>1. ASSUME pc = "parsed", req.arrives = "whole"
        PROVE  AnswerParts(DOMAIN InOrder, {k \in DOMAIN req.parts : Mentioned(req.parts[k])})
    <2>1. IsForm(req) /\ TellsOf(MentionedUpTo(LastPart))
      BY <1>1 DEF FormInv, FormParsed
    <2>2. PICK ns, ks : /\ ns = DOMAIN InOrder
                        /\ ks = {k \in DOMAIN req.parts : Mentioned(req.parts[k])}
      OBVIOUS
    <2>3. ks = MentionedUpTo(LastPart)
      BY <2>1, <2>2, PartTypes DEF MentionedUpTo
    <2>4. Tells(InOrder, req.parts, body, ns, ks)
      BY <2>1, <2>2, <2>3 DEF TellsOf
    <2>5. QED
      BY <2>2, <2>4, TellsAnswer
  <1>2. ASSUME pc = "parsed", req.arrives = "cut"
        PROVE  \E last \in 0..Len(req.parts) :
                 AnswerParts({n \in DOMAIN InOrder : Saves(n)},
                             {k \in 1..last : ToSave(req.parts[k])})
    <2>1. PICK last \in 0..LastPart : SavesFirst(last)
      BY <1>2 DEF FormInv, FormParsed
    <2>2. PICK ns, ks : /\ ns = {n \in DOMAIN InOrder : Saves(n)}
                        /\ ks = {k \in 1..last : ToSave(req.parts[k])}
      OBVIOUS
    <2>3. ns = {n \in DOMAIN InOrder : IsSaved(InOrder[n])}
      BY <2>2 DEF Saves, IsSaved
    <2>4. Tells(InOrder, req.parts, body, ns, ks)
      BY <2>1, <2>2, <2>3 DEF SavesFirst
    <2>5. AnswerParts(ns, ks)
      BY <2>4, TellsAnswer
    <2>6. QED
      BY <2>2, <2>5 DEF LastPart
  <1>3. QED
    BY <1>1, <1>2 DEF PartsAnswered, CutSavesWholeParts

LEMMA FormInit == Init => FormInv
  BY DEF Init, FormInv

\* The parser knows of each form what FormStates says, at every byte.
LEMMA FormKept == Spec => [](Inv /\ FormInv)
  <1>1. Init => Inv /\ FormInv
    BY InitInv, FormInit
  <1>2. Inv /\ FormInv /\ [Next]_vars => (Inv /\ FormInv)'
    BY NextInv, FormNext
  <1>3. QED
    BY <1>1, <1>2, PTL DEF Spec

\* Whatever form a client sends, with any number of parts and headers, any names
\* and any data: when all of it arrives, multipart_parse tells of each file that
\* is refused, and saves every other part that is not empty, byte for byte and
\* in the order of the form.
THEOREM PartsAreAnswered == Spec => []PartsAnswered
  BY FormKept, FormAnswered, PTL

\* Wherever such a form stops, the parts that were saved are the first of those
\* to save, whole and in their order.
THEOREM CutsSaveWholeParts == Spec => []CutSavesWholeParts
  BY FormKept, FormAnswered, PTL
=============================================================================
