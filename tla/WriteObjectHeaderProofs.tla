------------------------ MODULE WriteObjectHeaderProofs ------------------------
(* Where the body is sent from, the x-emc-wschecksum header that goes with *)
(* it and the checksum the caller keeps agree with each other and with     *)
(* what the server stores, for every Source, Cut and bound, and for every  *)
(* set of faults and policies that a theorem does not leave out.           *)
EXTENDS WriteObjectProofs

-----------------------------------------------------------------------------
(* The invariants.  None of them follows from IInv, which does not say how *)
(* far a file has been read.                                               *)

(* A file reaches at least to the end of the body, and until the transfer  *)
(* reads it stands where it stood when the client was called, which is the *)
(* beginning of the body the first time.                                   *)
BodyInv ==
  /\ Active =>
       /\ request.body = "file" => Len(request.data) <= Len(file.data)
       /\ request.runs <= 1 => request.from = 0
       /\ pc # "built" => request.runs >= 1
  /\ /\ pc \in {"built", "update_object", "set_write_headers", "send"}
     /\ request.body = "file"
     => file.pos = request.from
  /\ SentFromWhereItStood

(* A header is only put on a request of a wschecksum, whose body does not  *)
(* pass the filter that digests a file while it is sent.                   *)
CurrentInv ==
  /\ checksum.mode = Mode
  /\ Active /\ Mode # GENERATE_CHECKSUM => ~request.file_filter
  /\ Active /\ request.wschecksum # NULL =>
       Mode = WSCHECKSUM /\ request.wschecksum = GetState(checksum, TRUE)

(* The object that a response reports as written.                          *)
WrittenId ==
  IF response.http_code # 201 THEN object_id
  ELSE IF pc = "returned" THEN response.object_id ELSE response.location

DescribesInv ==
  pc \in {"reply", "unwind", "returned"} /\ Succeeded =>
    GetState(checksum, TRUE) = [offset |-> Len(objects[WrittenId]),
                          value |-> objects[WrittenId]]

-----------------------------------------------------------------------------
(* What is sent begins where the file stood.                               *)

LEMMA BodyInvInit == Init => BodyInv
BY DEF Init, BodyInv, SentFromWhereItStood, Active

(* Steps after which the file does not matter any more, or still stands    *)
(* where it stood.                                                         *)
LEMMA BodyKept ==
  ASSUME BodyInv, Active, pc' \notin {"built", "server"},
         request.runs \in Nat,
         request'.body = request.body, request'.data = request.data,
         request'.from = request.from,
         \/ request'.runs = request.runs /\ pc # "built"
         \/ request'.runs = request.runs + 1,
         Len(file'.data) = Len(file.data),
         pc' \in {"update_object", "set_write_headers", "send"} =>
           /\ file'.pos = file.pos
           /\ pc \in {"built", "update_object", "set_write_headers", "send"}
  PROVE  BodyInv'
<1>1. request'.runs >= 1
  BY DEF BodyInv
<1>2. request'.runs <= 1 => request.runs <= 1
  OBVIOUS
<1>3. SentFromWhereItStood'
  BY DEF SentFromWhereItStood
<1> QED  BY <1>1, <1>2, <1>3 DEF BodyInv

LEMMA BodyInvBuildRequest ==
  ASSUME TypeInv, NEW body \in Bodies, BuildRequest(body)
  PROVE  BodyInv'
<1> DEFINE data == Segment(acked, Cut[acked])
           rest == Rest(acked)
<1>1. /\ request' = [kind |-> NextKind, body |-> body, start |-> acked,
                     data |-> data, range |-> NULL, wschecksum |-> NULL,
                     generate |-> FALSE, file_filter |-> FALSE,
                     base |-> checksum.offset, runs |-> 0, from |-> 0]
      /\ file' = [data |-> IF body = "file" THEN rest ELSE << >>, pos |-> 0]
      /\ pc' = "built" /\ acked < Len(Source) /\ acked \in Positions
  BY DEF BuildRequest, TypeInv, TypeOK
<1>2. Len(data) <= Len(rest)
  <2>1. /\ acked \in 0 .. Len(Source) - 1 /\ Len(Source) \in Nat
        /\ Cut[acked] \in 1 .. Len(Source)
    BY <1>1, SourceType DEF Positions
  <2>2. Len(data) = Cut[acked] - acked /\ Len(rest) = Len(Source) - acked
    BY <2>1, SegmentType, RestType
  <2> HIDE DEF data, rest
  <2> QED  BY <2>1, <2>2
<1> HIDE DEF data, rest
<1>3. /\ request'.body = body /\ request'.data = data /\ file'.pos = 0
      /\ request'.from = 0
      /\ body = "file" => file'.data = rest
  BY <1>1
<1> QED  BY <1>1, <1>2, <1>3 DEF BodyInv, SentFromWhereItStood

(* The transfer of a file reads from where it stands, damaged or not; one  *)
(* that stands at its beginning has the whole body.                        *)
LEMMA BodyFromWhereItStood ==
  ASSUME TypeInv, BodyInv, pc = "send"
  PROVE  IF request.body = "file"
           THEN /\ Len(BodyBytes) =
                     Len(FileRead(file.data, request.from, Len(request.data)))
                /\ file.pos = request.from
                /\ request.from = 0 => Len(BodyBytes) = Len(request.data)
           ELSE Len(BodyBytes) = Len(request.data)
<1>1. Active /\ file.data \in Seq(Bytes) /\ request.data \in Seq(Bytes)
  BY ActiveFacts DEF Active, TypeInv, TypeOK
<1>2. CASE request.body = "file"
  <2> DEFINE n == Len(request.data)
  <2>1. /\ file.pos = request.from /\ n <= Len(file.data)
        /\ n \in Nat /\ Len(file.data) \in Nat
    BY <1>1, <1>2, LenProperties DEF BodyInv
  <2>2. BodyBytes = FileRead(file.data, request.from, n)
    BY <1>2, <2>1 DEF BodyBytes
  <2>3. Len(FileRead(file.data, 0, n)) = n
    <3> DEFINE content == file.data
    <3>1. content \in Seq(Bytes) /\ n <= Len(content)
      BY <1>1, <2>1
    <3> HIDE DEF n, content
    <3>2. \A i \in 1 .. n : content[i] \in Bytes
      BY <2>1, <3>1, ElementOfSeq DEF content
    <3>3. Len(SubSeq(content, 1, n)) = n
      BY <2>1, <3>2, SubSeqProperties
    <3>4. FileRead(content, 0, n) = SubSeq(content, 1, n)
      BY <2>1, <3>1 DEF FileRead
    <3> QED  BY <3>3, <3>4 DEF content
  <2> QED  BY <1>2, <2>1, <2>2, <2>3
<1>3. CASE request.body # "file"
  BY <1>3 DEF BodyBytes
<1> QED  BY <1>2, <1>3

LEMMA BodyInvSetWriteHeaders ==
  ASSUME TypeInv, BodyInv, SetWriteHeaders
  PROVE  BodyInv'
<1>1. /\ pc = "set_write_headers" /\ Active
      /\ request \in Requests
      /\ file \in [data: Seq(Bytes), pos: Nat]
  BY DEF SetWriteHeaders, Active, TypeInv, TypeOK, RequestInv
<1>2. pc' \in {"returned", "send", "crashed"}
  BY DEF SetWriteHeaders, FtellFails, FseekFails, SetWsChecksum, SetGenerate,
         KeepHeaders, ApiError
<1> DEFINE Kept == /\ request'.body = request.body
                   /\ request'.data = request.data
                   /\ request'.from = request.from
                   /\ request'.runs = request.runs
<1>3. Kept
  <2>1. CASE request' = request
    BY <2>1
  <2>2. ASSUME NEW hashed \in BOOLEAN, NEW finished \in BOOLEAN,
               SetWsChecksum(hashed, finished)
        PROVE  Kept
    <3> DEFINE header == GetState(Digested(hashed), finished)
    <3>1. \/ request' = request
          \/ request' = [request EXCEPT !.wschecksum = header]
      BY <2>2 DEF SetWsChecksum
    <3> HIDE DEF header
    <3> QED  BY <1>1, <3>1 DEF Requests
  <2>3. ASSUME NEW hashed \in BOOLEAN, SetGenerate(hashed)
        PROVE  Kept
    BY <1>1, <2>3 DEF SetGenerate, Requests
  <2> QED  BY <2>1, <2>2, <2>3
           DEF SetWriteHeaders, FtellFails, FseekFails, KeepHeaders
<1>4. file'.data = file.data /\ (pc' # "returned" => file'.pos = file.pos)
  <2>1. CASE FseekFails
    BY <1>1, <2>1 DEF FseekFails, ApiError
  <2>2. CASE file' = file
    BY <2>2
  <2> QED  BY <2>1, <2>2
           DEF SetWriteHeaders, FtellFails, SetWsChecksum, SetGenerate,
               KeepHeaders
<1>5. request.runs \in Nat
  BY <1>1 DEF Requests
<1> QED  BY <1>1, <1>2, <1>3, <1>4, <1>5, BodyKept

LEMMA BodyInvTransfer ==
  ASSUME TypeInv, BodyInv, FileChanges \/ Deliver \/ CutOff
  PROVE  BodyInv'
<1>1. /\ pc = "send" /\ Active /\ request' = request
      /\ request \in Requests /\ request.runs \in Nat
      /\ file \in [data: Seq(Bytes), pos: Nat]
  BY DEF FileChanges, Deliver, CutOff, Active, TypeInv, TypeOK, RequestInv,
         Requests
<1>2. CASE FileChanges
  <2>1. PICK i \in 1 .. Len(file.data), byte \in Bytes :
               file' = [file EXCEPT !.data[i] = byte]
    BY <1>2 DEF FileChanges
  <2>2. file'.data = [file.data EXCEPT ![i] = byte] /\ file'.pos = file.pos
    BY <1>1, <2>1
  <2>3. Len(file'.data) = Len(file.data)
    BY <1>1, <2>2, ExceptSeq
  <2>4. pc' = "send"
    BY <1>1, <1>2 DEF FileChanges
  <2> QED  BY <1>1, <2>2, <2>3, <2>4, BodyKept
<1>3. CASE Deliver
  <2>1. PICK data \in Seq(Bytes) :
          wire' = Received(data) /\ Len(data) = Len(BodyBytes)
    BY <1>3, DeliverCases
  <2>2. wire'.data = data
    BY <2>1 DEF Received
  <2>3. /\ file'.data = file.data
        /\ request.body = "file" => file'.pos = file.pos + Len(BodyBytes)
    <3>1. PICK hashed \in BOOLEAN : ReadBody(Len(BodyBytes), hashed)
      BY <1>3, DeliverCases
    <3>2. Len(BodyBytes) \in 0 .. Len(BodyBytes)
      BY <1>1, BodyBytesType
    <3> DEFINE n == Len(BodyBytes)
    <3>3. request.body = "file" => file' = [file EXCEPT !.pos = @ + n]
      BY <3>1 DEF ReadBody
    <3> HIDE DEF n
    <3>4. request.body = "file" => file'.pos = file.pos + n
      BY <1>1, <3>3
    <3> QED  BY <1>1, <3>1, <3>2, <3>4, ReadBodyType DEF n
  <2>4. pc' = "server"
    BY <1>3 DEF Deliver
  <2>5. SentFromWhereItStood'
    BY <1>1, <2>1, <2>2, <2>3, BodyFromWhereItStood DEF SentFromWhereItStood
  <2> QED  BY <1>1, <2>3, <2>4, <2>5 DEF BodyInv
<1>4. CASE CutOff
  <2>1. PICK n \in 0 .. Len(BodyBytes) : ReadBody(n, TRUE)
    BY <1>4 DEF CutOff
  <2>2. file'.data = file.data /\ pc' = "unwind"
    BY <1>1, <1>4, <2>1, ReadBodyType DEF CutOff
  <2> QED  BY <1>1, <2>2, BodyKept
<1> QED  BY <1>2, <1>3, <1>4

LEMMA BodyInvRetry ==
  ASSUME TypeInv, BodyInv, NEW policy, Retry(policy)
  PROVE  BodyInv'
<1>1. /\ Active /\ request \in Requests /\ pc = "returned"
      /\ file \in [data: Seq(Bytes), pos: Nat]
  BY DEF Retry, Active, TypeInv, TypeOK, RequestInv
<1>2. CASE pc' = "idle"
  BY <1>2 DEF BodyInv, SentFromWhereItStood, Active
<1>3. CASE /\ pc' = FirstFilter(request.kind)
           /\ request' = [request EXCEPT !.runs = @ + 1, !.from = file'.pos]
           /\ file' = IF policy = "rewind" THEN [file EXCEPT !.pos = 0]
                      ELSE file
  <2> DEFINE from == file'.pos
             runs == request.runs + 1
  <2>1. request' = [request EXCEPT !.runs = runs, !.from = from]
    BY <1>3
  <2>2. runs \in Nat /\ runs >= 2
    BY <1>1 DEF Requests, BodyInv
  <2> HIDE DEF from, runs
  <2>3. /\ request'.body = request.body /\ request'.data = request.data
        /\ request'.runs = runs /\ request'.from = from
    BY <1>1, <2>1 DEF Requests
  <2>4. file'.data = file.data /\ pc' # "server" /\ pc' # "built"
    BY <1>1, <1>3 DEF FirstFilter
  <2>5. ~(request'.runs <= 1) /\ request'.runs >= 1
    BY <2>2, <2>3
  <2> QED  BY <1>1, <2>3, <2>4, <2>5 DEF BodyInv, SentFromWhereItStood, from
<1> QED  BY <1>2, <1>3 DEF Retry

LEMMA BodyInvNext == TypeInv /\ BodyInv /\ [Next]_vars => BodyInv'
<1> SUFFICES ASSUME TypeInv, BodyInv, [Next]_vars PROVE BodyInv'
  OBVIOUS
<1>1. CASE UNCHANGED vars
  BY <1>1 DEF vars, BodyInv, SentFromWhereItStood, Active
<1>2. CASE Execute \/ UpdateObject
  <2>1. /\ Active /\ request \in Requests /\ file' = file
        /\ pc \in {"built", "update_object"}
        /\ pc' \in {"update_object", "set_write_headers"}
    BY <1>2 DEF Execute, FirstFilter, UpdateObject, Active, TypeInv, RequestInv
  <2>2. /\ request'.body = request.body /\ request'.data = request.data
        /\ request'.from = request.from
    BY <1>2, <2>1 DEF Execute, UpdateObject, Requests
  <2>3. \/ request'.runs = request.runs /\ pc # "built"
        \/ request'.runs = request.runs + 1
    BY <1>2, <2>1 DEF Execute, UpdateObject, Requests
  <2>4. request.runs \in Nat
    BY <2>1 DEF Requests
  <2> QED  BY <2>1, <2>2, <2>3, <2>4, BodyKept
<1>3. CASE \/ ServerStep \/ ServerRefuses \/ LoseReply \/ Unwind
           \/ VerifyCrashes
  <2>1. /\ Active /\ UNCHANGED <<request, file>> /\ pc # "built"
        /\ pc' \in {"reply", "unwind", "returned", "crashed"}
    BY <1>3 DEF ServerStep, ServerStores, ServerRejects, Reply, ServerRefuses,
                LoseReply, Unwind, VerifyCrashes, Active
  <2>2. request.runs \in Nat
    BY <2>1 DEF TypeInv, RequestInv, Requests
  <2> QED  BY <2>1, <2>2, BodyKept
<1>4. CASE Accept
  BY <1>4 DEF Accept, BodyInv, SentFromWhereItStood, Active
<1>5. CASE FileChanges \/ Deliver \/ CutOff
  BY <1>5, BodyInvTransfer
<1> QED  BY <1>1, <1>2, <1>3, <1>4, <1>5, BodyInvBuildRequest,
            BodyInvSetWriteHeaders, BodyInvRetry
         DEF Next, ClientStep, Environment

(* Digesting a file never moves where its transfer begins: that is where   *)
(* the file stood when the client was called, on a first execution at the  *)
(* beginning of the body and on a later one wherever the caller or an      *)
(* earlier failure left it, in any mode.                                   *)
THEOREM TransferBeginsInPlace == Spec => []SentFromWhereItStood
<1>1. Init => BodyInv
  BY BodyInvInit
<1>2. IInv /\ BodyInv /\ [Next]_vars => BodyInv'
  BY BodyInvNext DEF IInv
<1>3. BodyInv => SentFromWhereItStood
  BY DEF BodyInv
<1> QED  BY <1>1, <1>2, <1>3, Inductive, PTL DEF Spec

-----------------------------------------------------------------------------
(* The header is current.                                                  *)

LEMMA CurrentInvInit == Init => CurrentInv
<1> SUFFICES ASSUME Init PROVE CurrentInv
  OBVIOUS
<1>1. pc = "idle" /\ \E outcome \in InitOutcomes :
        checksum = ChecksumInit(Mode, outcome)
  BY DEF Init
<1>2. checksum.mode = Mode
  BY <1>1 DEF ChecksumInit
<1> QED  BY <1>1, <1>2 DEF CurrentInv, Active

(* Steps that touch neither the checksum nor the headers.                  *)
LEMMA CurrentKept ==
  ASSUME CurrentInv, Active, checksum' = checksum,
         request'.wschecksum = request.wschecksum,
         request'.file_filter = request.file_filter
  PROVE  CurrentInv'
BY DEF CurrentInv

LEMMA CurrentInvBuildRequest ==
  ASSUME CurrentInv, NEW body, BuildRequest(body)
  PROVE  CurrentInv'
<1> DEFINE data == Segment(acked, Cut[acked])
<1>1. /\ request' = [kind |-> NextKind, body |-> body, start |-> acked,
                     data |-> data, range |-> NULL, wschecksum |-> NULL,
                     generate |-> FALSE, file_filter |-> FALSE,
                     base |-> checksum.offset, runs |-> 0, from |-> 0]
      /\ checksum' = checksum
  BY DEF BuildRequest
<1> HIDE DEF data
<1>2. request'.wschecksum = NULL /\ ~request'.file_filter
  BY <1>1
<1> QED  BY <1>1, <1>2 DEF CurrentInv

LEMMA CurrentInvSetWriteHeaders ==
  ASSUME TypeInv, CurrentInv, SetWriteHeaders
  PROVE  CurrentInv'
<1>1. /\ pc = "set_write_headers" /\ Active /\ request \in Requests
      /\ checksum \in Checksum /\ checksum.mode = Mode
  BY DEF SetWriteHeaders, Active, TypeInv, TypeOK, RequestInv, CurrentInv
<1>2. CASE FtellFails \/ KeepHeaders
  <2>1. request' = request /\ checksum' = checksum
    BY <1>2 DEF FtellFails, KeepHeaders
  <2> QED  BY <1>1, <2>1, CurrentKept
<1>3. CASE FseekFails
  <2>1. /\ request' = request /\ request.wschecksum = NULL
        /\ checksum' = Digested(TRUE)
    BY <1>3 DEF FseekFails, WsRequested
  <2>2. checksum'.mode = Mode
    BY <1>1, <2>1, DigestedType
  <2> QED  BY <1>1, <2>1, <2>2 DEF CurrentInv
<1>4. ASSUME NEW hashed \in BOOLEAN, NEW finished \in BOOLEAN,
             SetWsChecksum(hashed, finished)
      PROVE  CurrentInv'
  <2> DEFINE ck == Digested(hashed)
             header == GetState(ck, finished)
  <2>1. /\ checksum' = ck /\ ck.mode = Mode /\ Mode = WSCHECKSUM
        /\ request.wschecksum = NULL
        /\ request' = request
           \/ request' = [request EXCEPT !.wschecksum = header]
    BY <1>1, <1>4, DigestedType DEF SetWsChecksum, WsRequested
  <2>2. header # NULL => header = GetState(checksum', TRUE)
    BY <2>1 DEF GetState, GetValue
  <2> HIDE DEF ck, header
  <2>3. CASE request' = request
    BY <1>1, <2>1, <2>3 DEF CurrentInv
  <2>4. CASE request' = [request EXCEPT !.wschecksum = header]
    <3>1. /\ request'.wschecksum = header
          /\ request'.file_filter = request.file_filter
      BY <1>1, <2>4 DEF Requests
    <3> QED  BY <1>1, <2>1, <2>2, <3>1 DEF CurrentInv
  <2> QED  BY <2>1, <2>3, <2>4
<1>5. ASSUME NEW hashed \in BOOLEAN, SetGenerate(hashed)
      PROVE  CurrentInv'
  <2>1. Mode = GENERATE_CHECKSUM /\ Mode # WSCHECKSUM
    BY <1>1, <1>5
       DEF SetGenerate, GenerateRequested, GENERATE_CHECKSUM, WSCHECKSUM
  <2>2. request.wschecksum = NULL
    BY <1>1, <2>1 DEF CurrentInv
  <2>3. request'.wschecksum = NULL
    BY <1>1, <1>5, <2>2 DEF SetGenerate, Requests
  <2>4. checksum'.mode = Mode
    BY <1>1, <1>5, UpdateType DEF SetGenerate, Requests
  <2> QED  BY <2>1, <2>3, <2>4 DEF CurrentInv
<1> QED  BY <1>2, <1>3, <1>4, <1>5 DEF SetWriteHeaders

(* A body that passes the digesting filter belongs to a generated          *)
(* checksum, and then there is no header to contradict.                    *)
LEMMA CurrentInvTransfer ==
  ASSUME TypeInv, CurrentInv, FileChanges \/ Deliver \/ CutOff
  PROVE  CurrentInv'
<1>1. Active /\ request' = request
  BY DEF FileChanges, Deliver, CutOff, Active
<1>2. CASE FileChanges
  <2>1. checksum' = checksum
    BY <1>2 DEF FileChanges
  <2> QED  BY <1>1, <2>1, CurrentKept
<1>3. ASSUME NEW n \in 0 .. Len(BodyBytes), NEW hashed \in BOOLEAN,
             ReadBody(n, hashed)
      PROVE  CurrentInv'
  <2>1. /\ checksum'.mode = checksum.mode
        /\ ~request.file_filter => checksum' = checksum
    BY <1>1, <1>3, ReadBodyType
  <2>2. CASE Mode = GENERATE_CHECKSUM
    <3>1. Mode # WSCHECKSUM
      BY <2>2 DEF WSCHECKSUM, GENERATE_CHECKSUM
    <3> QED  BY <1>1, <2>1, <2>2, <3>1 DEF CurrentInv
  <2>3. CASE Mode # GENERATE_CHECKSUM
    <3>1. checksum' = checksum
      BY <1>1, <2>1, <2>3 DEF CurrentInv
    <3> QED  BY <1>1, <3>1, CurrentKept
  <2> QED  BY <2>2, <2>3
<1>4. CASE Deliver
  <2>1. PICK hashed \in BOOLEAN : ReadBody(Len(BodyBytes), hashed)
    BY <1>4, DeliverCases
  <2>2. Len(BodyBytes) \in 0 .. Len(BodyBytes)
    BY <1>1, BodyBytesType
  <2> QED  BY <1>3, <2>1, <2>2
<1>5. CASE CutOff
  BY <1>3, <1>5 DEF CutOff
<1> QED  BY <1>2, <1>4, <1>5

LEMMA CurrentInvRetry ==
  ASSUME TypeInv, CurrentInv, NEW policy, Retry(policy)
  PROVE  CurrentInv'
<1>1. /\ Active /\ request \in Requests /\ acked \in Positions
      /\ checksum.mode = Mode
  BY DEF Retry, Active, TypeInv, TypeOK, RequestInv, CurrentInv
<1>2. CASE policy = "reuse"
  BY <1>1, <1>2 DEF Retry, CurrentInv, Active
<1>3. CASE policy = "rebuild"
  <2>1. PICK outcome \in InitOutcomes :
          checksum' = Update(ChecksumInit(Mode, outcome), Segment(0, acked),
                             TRUE)
    BY <1>3 DEF Retry
  <2>2. /\ ChecksumInit(Mode, outcome) \in Checksum
        /\ ChecksumInit(Mode, outcome).mode = Mode
    BY ConstantsAssumption, EmptySeq DEF ChecksumInit, Checksum
  <2>3. checksum'.mode = Mode
    BY <1>1, <2>1, <2>2, BeginningType, UpdateType
  <2>4. pc' = "idle"
    BY <1>3 DEF Retry
  <2> QED  BY <2>3, <2>4 DEF CurrentInv, Active
<1>4. CASE policy \in {"reexecute", "rewind"}
  <2> DEFINE runs == request.runs + 1
             from == file'.pos
  <2>1. /\ checksum' = checksum
        /\ request' = [request EXCEPT !.runs = runs, !.from = from]
    BY <1>4 DEF Retry
  <2> HIDE DEF runs, from
  <2>2. /\ request'.wschecksum = request.wschecksum
        /\ request'.file_filter = request.file_filter
    BY <1>1, <2>1 DEF Requests
  <2> QED  BY <1>1, <2>1, <2>2, CurrentKept
<1> QED  BY <1>2, <1>3, <1>4 DEF Retry

LEMMA CurrentInvNext == TypeInv /\ CurrentInv /\ [Next]_vars => CurrentInv'
<1> SUFFICES ASSUME TypeInv, CurrentInv, [Next]_vars PROVE CurrentInv'
  OBVIOUS
<1>1. CASE UNCHANGED vars
  BY <1>1 DEF vars, CurrentInv, Active
<1>2. CASE Execute \/ UpdateObject
  <2>1. Active /\ request \in Requests /\ checksum' = checksum
    BY <1>2 DEF Execute, UpdateObject, Active, TypeInv, RequestInv
  <2>2. /\ request'.wschecksum = request.wschecksum
        /\ request'.file_filter = request.file_filter
    BY <1>2, <2>1 DEF Execute, UpdateObject, Requests
  <2> QED  BY <2>1, <2>2, CurrentKept
<1>3. CASE \/ ServerStep \/ ServerRefuses \/ LoseReply \/ Unwind
           \/ VerifyCrashes
  <2>1. Active /\ UNCHANGED <<request, checksum>>
    BY <1>3 DEF ServerStep, ServerStores, ServerRejects, Reply, ServerRefuses,
                LoseReply, Unwind, VerifyCrashes, Active
  <2> QED  BY <2>1, CurrentKept
<1>4. CASE Accept
  BY <1>4 DEF Accept, CurrentInv, Active
<1>5. CASE FileChanges \/ Deliver \/ CutOff
  BY <1>5, CurrentInvTransfer
<1> QED  BY <1>1, <1>2, <1>3, <1>4, <1>5, CurrentInvBuildRequest,
            CurrentInvSetWriteHeaders, CurrentInvRetry
         DEF Next, ClientStep, Environment

(* A header is the state of the caller's checksum object for as long as    *)
(* the request is on its way, also on a second execution, in any mode.     *)
THEOREM HeaderStaysCurrent == Spec => []HeaderIsCurrent
<1>1. Init => CurrentInv
  BY CurrentInvInit
<1>2. IInv /\ CurrentInv /\ [Next]_vars => CurrentInv'
  BY CurrentInvNext DEF IInv
<1>3. CurrentInv => HeaderIsCurrent
  BY DEF CurrentInv, HeaderIsCurrent, Active
<1> QED  BY <1>1, <1>2, <1>3, Inductive, PTL DEF Spec

-----------------------------------------------------------------------------
(* The checksum describes what was stored.                                 *)

(* Steps that end a request, or carry it on, without a success.            *)
LEMMA DescribesWithoutSuccess ==
  ASSUME pc' \notin {"reply", "unwind", "returned"}
         \/ response'.http_code \notin {200, 201}
  PROVE  DescribesInv'
BY DEF DescribesInv, Succeeded

(* The server only stores a content that the header, and so the checksum,  *)
(* describes.                                                              *)
LEMMA DescribesServerStores ==
  ASSUME Mode = WSCHECKSUM, TypeInv, WsInv, CurrentInv, ServerStores
  PROVE  DescribesInv'
<1>1. /\ pc = "server" /\ Active /\ Acceptable(wire) /\ pc' = "reply"
      /\ wire.kind = request.kind /\ wire.wschecksum = request.wschecksum
      /\ UNCHANGED <<checksum, object_id>>
      /\ response = EmptyResponse
  BY DEF ServerStores, Active, TypeInv, WireInv, WsInv, ResponseInv, caller
<1>2. GetState(checksum', TRUE) =
        [offset |-> Len(Content(wire)), value |-> Content(wire)]
  <2>1. request.wschecksum # NULL
    BY <1>1 DEF WsInv, HeaderInv
  <2>2. request.wschecksum = GetState(checksum, TRUE)
    BY <1>1, <2>1 DEF CurrentInv
  <2> QED  BY <1>1, <2>1, <2>2 DEF Acceptable
<1>3. objects'[WrittenId'] = Content(wire)
  <2> DEFINE sum == IF wire.generate THEN Content(wire) ELSE NULL
  <2>1. CASE wire.kind = "create"
    <3>1. response' = [response EXCEPT !.http_code = 201,
                         !.location = Len(objects) + 1,
                         !.content_checksum = sum]
      BY <2>1 DEF ServerStores
    <3> HIDE DEF sum
    <3>2. response'.http_code = 201 /\ response'.location = Len(objects) + 1
      BY <1>1, <3>1 DEF EmptyResponse
    <3>3. objects'[Len(objects) + 1] = Content(wire)
      BY <2>1, StoresObjects
    <3> QED  BY <1>1, <3>2, <3>3 DEF WrittenId
  <2>2. CASE wire.kind # "create"
    <3>1. response' = [response EXCEPT !.http_code = 200,
                         !.content_checksum = sum]
      BY <2>2 DEF ServerStores
    <3> HIDE DEF sum
    <3>2. response'.http_code = 200
      BY <1>1, <3>1 DEF EmptyResponse
    <3>3. objects'[object_id] = Content(wire)
      BY <2>2, StoresObjects
    <3> QED  BY <1>1, <3>2, <3>3 DEF WrittenId
  <2> QED  BY <2>1, <2>2
<1> QED  BY <1>2, <1>3 DEF DescribesInv

(* parse_create_response moves the id from location to object_id.          *)
LEMMA DescribesUnwind ==
  ASSUME TypeInv, WsInv, DescribesInv, Unwind
  PROVE  DescribesInv'
<1>1. /\ pc = "unwind" /\ pc' = "returned" /\ response \in Responses
      /\ UNCHANGED <<checksum, request, object_id, objects>>
      /\ response.http_code = 201 => request.kind = "create"
  BY DEF Unwind, server, caller, TypeInv, TypeOK, WsInv, ResponseInv
<1>2. PICK resp \in ParsedError(response) : response' = ParsedCreate(resp)
  BY DEF Unwind
<1>3. /\ resp \in Responses /\ resp.http_code = response.http_code
      /\ resp.location = response.location
  BY <1>1, <1>2 DEF ParsedError, Responses, Errors
<1>4. /\ response'.http_code = response.http_code
      /\ response.http_code = 201 => response'.object_id = response.location
  BY <1>1, <1>2, <1>3 DEF ParsedCreate, Responses
<1>5. WrittenId' = WrittenId
  BY <1>1, <1>4 DEF WrittenId
<1>6. Succeeded' => Succeeded
  BY <1>4 DEF Succeeded
<1> QED  BY <1>1, <1>5, <1>6 DEF DescribesInv

LEMMA DescribesNext ==
  ASSUME Mode = WSCHECKSUM, TypeInv, WsInv, CurrentInv, DescribesInv,
         [Next]_vars
  PROVE  DescribesInv'
<1>1. CASE UNCHANGED vars
  BY <1>1 DEF vars, DescribesInv, Succeeded, WrittenId
<1>2. CASE \/ \E body \in Bodies : BuildRequest(body)
           \/ Execute \/ UpdateObject \/ FileChanges \/ Deliver
           \/ VerifyCrashes \/ Accept
           \/ \E policy \in AllPolicies : Retry(policy)
  <2>1. pc' \notin {"reply", "unwind", "returned"}
    BY <1>2 DEF BuildRequest, Execute, FirstFilter, UpdateObject, FileChanges,
                Deliver, VerifyCrashes, Accept, Retry
  <2> QED  BY <2>1, DescribesWithoutSuccess
<1>3. CASE SetWriteHeaders
  <2>1. pc' \in {"send", "crashed"} \/ \E code \in Errors : ApiError(code)
    BY <1>3 DEF SetWriteHeaders, FtellFails, FseekFails, SetWsChecksum,
                SetGenerate, KeepHeaders, Errors, ApiError
  <2>2. ASSUME NEW code \in Errors, ApiError(code)
        PROVE  response'.http_code \notin {200, 201}
    BY <2>2, ApiErrorType
  <2> QED  BY <2>1, <2>2, DescribesWithoutSuccess
<1>4. CASE CutOff
  <2>1. response' = response /\ response = EmptyResponse
    BY <1>4 DEF CutOff, WsInv, ResponseInv
  <2>2. response'.http_code = 0
    BY <2>1 DEF EmptyResponse
  <2> QED  BY <2>2, DescribesWithoutSuccess
<1>5. CASE ServerRejects \/ ServerRefuses \/ LoseReply
  <2>1. response \in Responses
    BY DEF TypeInv, TypeOK
  <2>2. response'.http_code \in {0, 400, 500}
    BY <1>5, <2>1
       DEF ServerRejects, ServerRefuses, LoseReply, EmptyResponse, Responses
  <2> QED  BY <2>2, DescribesWithoutSuccess
<1>6. CASE Reply
  <2>1. /\ pc = "reply" /\ pc' = "unwind"
        /\ UNCHANGED <<checksum, response, objects, object_id>>
    BY <1>6 DEF Reply, server, caller
  <2> QED  BY <2>1 DEF DescribesInv, Succeeded, WrittenId
<1> QED  BY <1>1, <1>2, <1>3, <1>4, <1>5, <1>6, DescribesServerStores,
            DescribesUnwind
         DEF Next, ClientStep, ServerStep, Environment

(* After a write that succeeded the caller's checksum object describes the *)
(* whole object, whatever failed before: the next append may continue it.  *)
THEOREM WsChecksumDescribesObject == Spec => []ChecksumDescribesObject
<1> DEFINE DInv == Mode = WSCHECKSUM => DescribesInv
<1>1. Init => CurrentInv /\ DInv
  BY CurrentInvInit DEF Init, DescribesInv
<1>2. IInv /\ CurrentInv /\ DInv /\ [Next]_vars => (CurrentInv /\ DInv)'
  BY CurrentInvNext, DescribesNext DEF IInv
<1>3. IInv /\ DInv => ChecksumDescribesObject
  <2> SUFFICES ASSUME IInv, DInv, Mode = WSCHECKSUM, pc = "returned", Succeeded
               PROVE  GetState(checksum, TRUE) = [offset |-> Len(objects[KnownId]),
                                            value |-> objects[KnownId]]
    BY DEF ChecksumDescribesObject
  <2>1. /\ response.http_code = 201 => response.object_id # 0
        /\ response.http_code # 201 => response.object_id = 0
    BY DEF IInv, WsInv, ResponseInv
  <2>2. KnownId = WrittenId
    BY <2>1 DEF KnownId, WrittenId
  <2> QED  BY <2>2 DEF DescribesInv
<1> QED  BY <1>1, <1>2, <1>3, Inductive, PTL DEF Spec

-----------------------------------------------------------------------------
(* Generated checksums.  A file that another process rewrites is no longer *)
(* what the caller wanted stored, so that fault is left out.               *)

GenAssumption == Mode = GENERATE_CHECKSUM /\ "filechange" \notin Faults

(* The body of the request has passed through the digest: a body in memory *)
(* when the header was set, a file once all of it was sent.                *)
BodyDigested ==
  /\ request.generate
  /\ \/ request.body = "array"
     \/ pc = "server"
     \/ pc \in {"reply", "unwind", "returned"} /\ Succeeded

(* A digest that lost nothing ends in the body that passed through it, if  *)
(* a file stood at its beginning; it is that body if the checksum was      *)
(* fresh and nothing passed twice.                                         *)
Digests(ck, req) ==
  ck.status = "ready" =>
    /\ /\ ck.offset = Len(ck.internal_state)
       /\ req.body = "array" \/ req.from = 0
       => EndsWith(ck.internal_state, req.data)
    /\ req.body = "array" \/ req.runs = 1 =>
         ck.offset = req.base + Len(req.data)

Sound(ck) ==
  /\ Len(ck.internal_state) <= ck.offset
  /\ ck.status # "ready" => ck.internal_state = << >>

(* All that was read of a file has passed through the digest, which covers *)
(* more than the last transfer if that began further on.                   *)
GenDigestInv ==
  /\ Sound(checksum)
  /\ Active /\ BodyDigested => Digests(checksum, request)
  /\ Active /\ request.body = "file" /\ checksum.status = "ready" =>
       checksum.offset >= file.pos

(* The first execution digests the body of a request, and only that of a   *)
(* file is digested again.                                                 *)
GenRequestInv ==
  Active =>
    /\ request.kind # "append"
    /\ request.body = "file" =>
         FileRead(file.data, 0, Len(request.data)) = request.data
    /\ request.body = "file" /\ request.generate => request.file_filter
    /\ request.body = "array" => ~request.file_filter
    /\ pc = "built" => ~request.generate /\ request.runs = 0
    /\ pc # "built" => request.runs >= 1
    /\ ~request.generate => request.base = checksum.offset
    /\ pc \in {"update_object", "set_write_headers"} /\ request.runs = 1 =>
         ~request.generate
    /\ pc \in {"send", "server", "reply", "unwind", "returned"} =>
         request.generate
    /\ pc = "send" /\ request.body = "file" /\ request.runs = 1 =>
         request.base = checksum.offset

(* A success carries the checksum of what is in the object.                *)
GenResponseInv ==
  /\ pc \in {"built", "update_object", "set_write_headers", "send", "server"}
       => response = EmptyResponse
  /\ pc = "server" => wire.generate
  /\ pc \in {"reply", "unwind", "returned"} =>
       /\ pc # "returned" => response.object_id = 0
       /\ response.http_code # 201 => response.object_id = 0
       /\ response.http_code = 201 => request.kind = "create" /\ WrittenId # 0
       /\ Succeeded =>
            /\ wire.data \in Seq(Bytes)
            /\ request.body = "file" =>
                 file.pos = request.from + Len(wire.data)
            /\ request.body = "array" \/ request.from = 0 =>
                 Len(wire.data) = Len(request.data)
            /\ response.content_checksum = wire.data
            /\ objects[WrittenId] = wire.data

GenInv == GenDigestInv /\ GenRequestInv /\ GenResponseInv

LEMMA SoundUpdate ==
  ASSUME NEW ck \in Checksum, NEW data \in Seq(Bytes), NEW hashed \in BOOLEAN,
         Sound(ck)
  PROVE  LET new == Update(ck, data, hashed) IN
         /\ Sound(new) /\ new \in Checksum /\ new.status = ck.status
         /\ ck.status = "ready" => new.offset = ck.offset + Len(data)
         /\ /\ ck.status = "ready" /\ Len(data) > 0
            /\ new.offset = Len(new.internal_state)
            => EndsWith(new.internal_state, data)
<1> DEFINE new == Update(ck, data, hashed)
<1>1. /\ new \in Checksum /\ new.status = ck.status
      /\ Len(new.internal_state) <= new.offset
  BY UpdateType DEF Sound
<1>2. ck.status # "ready" => new = ck
  BY DEF Update
<1>3. ck.status = "ready" => new.offset = ck.offset + Len(data)
  BY DEF Update, Checksum
<1>4. /\ ck.status = "ready" /\ Len(data) > 0
      /\ new.offset = Len(new.internal_state)
      => EndsWith(new.internal_state, data)
  BY UpdateEndsWith DEF Sound
<1> HIDE DEF new
<1>5. Sound(new)
  BY <1>1, <1>2 DEF Sound
<1> QED  BY <1>1, <1>3, <1>4, <1>5 DEF new

LEMMA GenInvInit == Init => GenInv
<1> SUFFICES ASSUME Init PROVE GenInv
  OBVIOUS
<1>1. PICK outcome \in InitOutcomes : checksum = ChecksumInit(Mode, outcome)
  BY DEF Init
<1>2. checksum.internal_state = << >> /\ checksum.offset = 0
  BY <1>1 DEF ChecksumInit
<1>3. pc = "idle" /\ Sound(checksum)
  BY <1>2, EmptySeq DEF Init, Sound
<1> QED  BY <1>3
         DEF GenInv, GenDigestInv, GenRequestInv, GenResponseInv, Active

(* What every state with an active request offers to the steps below.      *)
LEMMA GenFacts ==
  ASSUME GenAssumption, TypeInv, CurrentInv, GenInv, Active
  PROVE  /\ request \in Requests /\ checksum \in Checksum
         /\ response \in Responses
         /\ file \in [data: Seq(Bytes), pos: Nat]
         /\ request.data \in Seq(Bytes) /\ Len(request.data) \in Nat \ {0}
         /\ request.range = NULL
         /\ checksum.mode = GENERATE_CHECKSUM /\ Mode # WSCHECKSUM
         /\ Sound(checksum) /\ checksum.offset \in Nat
<1>1. /\ request \in Requests /\ checksum \in Checksum
      /\ response \in Responses
      /\ file \in [data: Seq(Bytes), pos: Nat]
      /\ request.range # NULL => request.kind = "append"
  BY DEF TypeInv, TypeOK, RequestInv
<1>2. request.data \in Seq(Bytes) /\ Len(request.data) \in Nat \ {0}
  BY ActiveFacts, SourceType
<1>3. request.kind # "append" /\ Sound(checksum)
  BY DEF GenInv, GenDigestInv, GenRequestInv
<1>4. checksum.mode = GENERATE_CHECKSUM /\ Mode # WSCHECKSUM
  BY DEF GenAssumption, CurrentInv, GENERATE_CHECKSUM, WSCHECKSUM
<1>5. checksum.offset \in Nat
  BY <1>1 DEF Checksum
<1> QED  BY <1>1, <1>2, <1>3, <1>4, <1>5

(* What passes through the digest is what is sent, and that is the body if *)
(* a file stands at its beginning.                                         *)
LEMMA SentIsDigested ==
  ASSUME TypeInv, Active
  PROVE  SubSeq(BodyBytes, 1, Len(BodyBytes)) = BodyBytes
<1> DEFINE bytes == BodyBytes
           all == SubSeq(bytes, 1, Len(bytes))
<1>1. bytes \in Seq(Bytes) /\ Len(bytes) \in Nat
  BY BodyBytesType
<1> HIDE DEF bytes
<1>2. \A i \in 1 .. Len(bytes) : bytes[i] \in Bytes
  BY <1>1, ElementOfSeq
<1>3. /\ all \in Seq(Bytes) /\ Len(all) = Len(bytes)
      /\ \A i \in 1 .. Len(bytes) : all[i] = bytes[i]
  BY <1>1, <1>2, SubSeqProperties
<1> HIDE DEF all
<1>4. all = bytes
  BY <1>1, <1>3, SeqEqual
<1> QED  BY <1>4 DEF all, bytes

LEMMA BodyIsData ==
  ASSUME BodyInv, GenInv, Active, pc = "send",
         request.body = "array" \/ request.from = 0
  PROVE  BodyBytes = request.data
BY DEF BodyInv, GenInv, GenRequestInv, BodyBytes

LEMMA GenBuildRequest ==
  ASSUME GenAssumption, TypeInv, GenInv, NEW body \in Bodies,
         BuildRequest(body)
  PROVE  GenInv'
<1> DEFINE data == Segment(acked, Cut[acked])
           rest == Rest(acked)
<1>1. /\ request' = [kind |-> NextKind, body |-> body, start |-> acked,
                     data |-> data, range |-> NULL, wschecksum |-> NULL,
                     generate |-> FALSE, file_filter |-> FALSE,
                     base |-> checksum.offset, runs |-> 0, from |-> 0]
      /\ file' = [data |-> IF body = "file" THEN rest ELSE << >>, pos |-> 0]
      /\ pc' = "built" /\ response' = EmptyResponse /\ checksum' = checksum
  BY DEF BuildRequest
<1>2. FileRead(rest, 0, Len(data)) = data
  <2>1. acked \in 0 .. Len(Source) - 1
    BY SourceType DEF TypeInv, TypeOK, BuildRequest, Positions
  <2>2. Len(data) = Cut[acked] - acked
    BY <2>1, SegmentType
  <2> QED  BY <2>1, <2>2, RestBeginsWithSegment
<1>3. Sound(checksum) /\ checksum.offset \in Nat
  BY DEF GenInv, GenDigestInv, TypeInv, TypeOK, Checksum
<1> HIDE DEF data, rest
<1>4. /\ request'.kind = NextKind /\ request'.body = body
      /\ request'.data = data /\ ~request'.generate /\ ~request'.file_filter
      /\ request'.base = checksum.offset /\ request'.runs = 0
      /\ body = "file" => file'.data = rest
      /\ file'.pos = 0
  BY <1>1
<1>5. NextKind # "append"
  BY DEF NextKind, GenAssumption
<1>6. GenDigestInv' /\ GenRequestInv'
  <2>1. GenDigestInv'
    BY <1>1, <1>3, <1>4 DEF GenDigestInv, BodyDigested
  <2>2. GenRequestInv'
    BY <1>1, <1>2, <1>4, <1>5 DEF GenRequestInv
  <2> QED  BY <2>1, <2>2
<1>7. GenResponseInv'
  BY <1>1 DEF GenResponseInv
<1> QED  BY <1>6, <1>7 DEF GenInv

(* The filters before the checksum's.                                      *)
LEMMA GenExecute ==
  ASSUME GenAssumption, TypeInv, CurrentInv, GenInv, Execute \/ UpdateObject
  PROVE  GenInv'
<1>1. /\ Active /\ pc \in {"built", "update_object"} /\ request \in Requests
      /\ pc' \in {"update_object", "set_write_headers"}
      /\ UNCHANGED <<checksum, file, response>>
      /\ response = EmptyResponse
  BY DEF Execute, FirstFilter, UpdateObject, Active, TypeInv, RequestInv,
         GenInv, GenResponseInv
<1>2. /\ request'.kind = request.kind /\ request'.body = request.body
      /\ request'.data = request.data /\ request'.base = request.base
      /\ request'.generate <=> request.generate
      /\ request'.file_filter <=> request.file_filter
      /\ request'.from = request.from
      /\ request'.runs = IF pc = "built" THEN request.runs + 1
                         ELSE request.runs
  <2>1. CASE Execute
    <3>1. pc = "built" /\ request' = [request EXCEPT !.runs = @ + 1]
      BY <2>1 DEF Execute
    <3> QED  BY <1>1, <3>1 DEF Requests
  <2>2. CASE UpdateObject
    <3> DEFINE range == IF RangeOf(request).first # -1 THEN RangeOf(request)
                        ELSE request.range
    <3>1. /\ pc = "update_object"
          /\ request' = [request EXCEPT !.range = range]
      BY <2>2 DEF UpdateObject
    <3> HIDE DEF range
    <3> QED  BY <1>1, <3>1 DEF Requests
  <2> QED  BY <2>1, <2>2
<1>3. request.runs \in Nat
  BY <1>1 DEF Requests
<1>4. GenRequestInv'
  BY <1>1, <1>2, <1>3 DEF GenInv, GenRequestInv
<1>5. GenDigestInv'
  <2>1. Active /\ BodyDigested' => Digests(checksum', request')
    <3> SUFFICES ASSUME BodyDigested' PROVE Digests(checksum', request')
      OBVIOUS
    <3>1. /\ request.generate /\ request.body = "array"
          /\ pc = "update_object"
      BY <1>1, <1>2 DEF BodyDigested, GenInv, GenRequestInv
    <3>2. Digests(checksum, request)
      BY <1>1, <3>1 DEF BodyDigested, GenInv, GenDigestInv
    <3> QED  BY <1>1, <1>2, <3>1, <3>2 DEF Digests
  <2> QED  BY <1>1, <1>2, <2>1 DEF GenInv, GenDigestInv
<1>6. GenResponseInv'
  BY <1>1 DEF GenResponseInv
<1> QED  BY <1>4, <1>5, <1>6 DEF GenInv

LEMMA GenSetWriteHeaders ==
  ASSUME GenAssumption, TypeInv, CurrentInv, GenInv, SetWriteHeaders
  PROVE  GenInv'
<1>1. /\ pc = "set_write_headers" /\ Active /\ ~WsRequested
      /\ response = EmptyResponse
  BY GenFacts
     DEF SetWriteHeaders, Active, WsRequested, GenInv, GenResponseInv,
         GENERATE_CHECKSUM, WSCHECKSUM
<1>2. /\ request \in Requests /\ checksum \in Checksum
      /\ request.data \in Seq(Bytes) /\ Len(request.data) \in Nat \ {0}
      /\ Sound(checksum) /\ checksum.offset \in Nat
      /\ checksum.mode = GENERATE_CHECKSUM
  BY <1>1, GenFacts
<1>3. ASSUME NEW hashed \in BOOLEAN, SetGenerate(hashed)
      PROVE  GenInv'
  <2> DEFINE filter == request.file_filter \/ request.body = "file"
             ck == Update(checksum, request.data, hashed)
             r1 == [request EXCEPT !.generate = TRUE]
  <2>1. /\ ~request.generate /\ UNCHANGED <<file, response>> /\ pc' = "send"
        /\ request' = [r1 EXCEPT !.file_filter = filter]
        /\ checksum' = IF request.body = "file" THEN checksum ELSE ck
    BY <1>3 DEF SetGenerate, GenerateRequested
  <2>2. /\ r1 \in Requests /\ r1.generate
        /\ r1.kind = request.kind /\ r1.body = request.body
        /\ r1.data = request.data /\ r1.base = request.base
        /\ r1.runs = request.runs /\ r1.from = request.from
    BY <1>2 DEF Requests
  <2>3. filter \in BOOLEAN
    OBVIOUS
  <2> HIDE DEF r1, filter
  <2>4. /\ request'.generate
        /\ request'.file_filter <=> filter
        /\ request'.kind = request.kind /\ request'.body = request.body
        /\ request'.data = request.data /\ request'.base = request.base
        /\ request'.runs = request.runs /\ request'.from = request.from
    BY <2>1, <2>2, <2>3 DEF Requests
  <2>5. /\ request.base = checksum.offset /\ request.body \in {"array", "file"}
        /\ request.kind # "append" /\ request.runs >= 1
        /\ request.body = "file" =>
             FileRead(file.data, 0, Len(request.data)) = request.data
        /\ request.body = "array" => ~request.file_filter
    BY <1>1, <1>2, <2>1 DEF GenInv, GenRequestInv, Requests
  <2>6. GenRequestInv'
    <3>1. /\ request.body = "file" => request'.file_filter
          /\ request.body = "array" => ~request'.file_filter
      BY <2>4, <2>5 DEF filter
    <3>2. /\ request'.generate /\ pc' = "send" /\ file' = file
          /\ request'.base = checksum.offset
          /\ request.body = "file" => checksum' = checksum
      BY <2>1, <2>4, <2>5
    <3> QED  BY <2>4, <2>5, <3>1, <3>2 DEF GenRequestInv
  <2>7. /\ Sound(ck) /\ ck.status = checksum.status
        /\ ck.status = "ready" =>
             ck.offset = checksum.offset + Len(request.data)
        /\ ck.status = "ready" /\ ck.offset = Len(ck.internal_state) =>
             EndsWith(ck.internal_state, request.data)
    <3>1. Len(request.data) > 0
      BY <1>2
    <3> QED  BY <1>2, <3>1, SoundUpdate
  <2> HIDE DEF ck
  <2>8. GenDigestInv'
    <3>1. CASE request.body = "file"
      <4>1. checksum' = checksum /\ file' = file /\ ~BodyDigested'
        BY <2>1, <2>4, <3>1 DEF BodyDigested
      <4> QED  BY <1>1, <1>2, <2>4, <4>1 DEF GenInv, GenDigestInv
    <3>2. CASE request.body # "file"
      <4>1. checksum' = ck
        BY <2>1, <3>2
      <4>2. Digests(checksum', request')
        BY <2>4, <2>5, <2>7, <4>1 DEF Digests
      <4> QED  BY <2>4, <2>7, <3>2, <4>1, <4>2 DEF GenDigestInv
    <3> QED  BY <3>1, <3>2
  <2>9. GenResponseInv'
    BY <1>1, <2>1 DEF GenResponseInv
  <2> QED  BY <2>6, <2>8, <2>9 DEF GenInv
<1>4. CASE KeepHeaders
  <2>1. /\ request.generate /\ pc' = "send"
        /\ UNCHANGED <<checksum, request, file, response>>
    BY <1>2, <1>4 DEF KeepHeaders, GenerateRequested
  <2>2. GenRequestInv'
    BY <1>1, <2>1 DEF GenInv, GenRequestInv, Active
  <2>3. BodyDigested' => BodyDigested
    BY <1>1, <2>1 DEF BodyDigested
  <2>4. GenDigestInv'
    BY <1>1, <2>1, <2>3 DEF GenInv, GenDigestInv
  <2>5. GenResponseInv'
    BY <1>1, <2>1 DEF GenResponseInv
  <2> QED  BY <2>2, <2>4, <2>5 DEF GenInv
<1>5. ~FtellFails /\ ~FseekFails
      /\ \A hashed, finished \in BOOLEAN : ~SetWsChecksum(hashed, finished)
  BY <1>1 DEF FtellFails, FseekFails, SetWsChecksum
<1> QED  BY <1>3, <1>4, <1>5 DEF SetWriteHeaders

LEMMA GenDeliver ==
  ASSUME GenAssumption, TypeInv, BodyInv, CurrentInv, GenInv, Deliver
  PROVE  GenInv'
<1>1. /\ pc = "send" /\ Active /\ pc' = "server" /\ response = EmptyResponse
      /\ UNCHANGED <<request, response>>
  BY DEF Deliver, Active, GenInv, GenResponseInv
<1>2. /\ request \in Requests /\ checksum \in Checksum
      /\ request.data \in Seq(Bytes) /\ Len(request.data) \in Nat \ {0}
      /\ Sound(checksum) /\ checksum.offset \in Nat /\ request.generate
  BY <1>1, GenFacts DEF GenInv, GenRequestInv
<1>3. PICK hashed \in BOOLEAN : ReadBody(Len(BodyBytes), hashed)
  BY DeliverCases
<1>4. PICK data \in Seq(Bytes) : wire' = Received(data)
  BY DeliverCases
<1> DEFINE bytes == BodyBytes
           n == Len(bytes)
<1>5. /\ checksum' = IF request.file_filter
                     THEN Update(checksum, bytes, hashed)
                     ELSE checksum
      /\ file'.data = file.data
      /\ bytes \in Seq(Bytes) /\ n \in Nat
      /\ request.body = "file" => file'.pos = file.pos + n
      /\ file.pos \in Nat
  <2>1. SubSeq(BodyBytes, 1, Len(BodyBytes)) = BodyBytes
    BY <1>1, SentIsDigested
  <2>2. n \in 0 .. n /\ bytes \in Seq(Bytes) /\ n \in Nat
    BY <1>1, BodyBytesType
  <2>3. file'.data = file.data
    BY <1>1, <1>3, <2>2, ReadBodyType
  <2>4. request.body = "file" => file' = [file EXCEPT !.pos = @ + n]
    BY <1>3 DEF ReadBody
  <2>5. checksum' = IF request.file_filter
                    THEN Update(checksum, bytes, hashed) ELSE checksum
    BY <1>3, <2>1 DEF ReadBody
  <2>6. file \in [data: Seq(Bytes), pos: Nat]
    BY DEF TypeInv, TypeOK
  <2> HIDE DEF bytes, n
  <2>7. request.body = "file" => file'.pos = file.pos + n
    BY <2>4, <2>6
  <2> QED  BY <2>2, <2>3, <2>5, <2>6, <2>7
<1>6. request.from = 0 => bytes = request.data
  BY <1>1, BodyIsData
<1> HIDE DEF bytes, n
<1>7. GenRequestInv'
  BY <1>1, <1>2, <1>5 DEF GenInv, GenRequestInv
<1>8. GenResponseInv'
  <2>1. wire'.generate
    BY <1>2, <1>4 DEF Received
  <2> QED  BY <1>1, <2>1 DEF GenResponseInv
<1>9. GenDigestInv'
  <2>1. CASE request.body = "array"
    <3>1. checksum' = checksum /\ BodyDigested
      BY <1>1, <1>2, <1>5, <2>1 DEF BodyDigested, GenInv, GenRequestInv
    <3>2. request.body # "file"
      BY <2>1
    <3> QED  BY <1>1, <3>1, <3>2 DEF GenInv, GenDigestInv
  <2>2. CASE request.body = "file"
    <3> DEFINE ck == Update(checksum, bytes, hashed)
    <3>1. checksum' = ck
      BY <1>1, <1>2, <1>5, <2>2 DEF GenInv, GenRequestInv
    <3>2. /\ Sound(ck) /\ ck.status = checksum.status
          /\ ck.status = "ready" => ck.offset = checksum.offset + n
          /\ /\ ck.status = "ready" /\ n > 0
             /\ ck.offset = Len(ck.internal_state)
             => EndsWith(ck.internal_state, bytes)
      BY <1>2, <1>5, SoundUpdate DEF n
    <3> HIDE DEF ck
    <3>3. /\ request.runs = 1 => request.base = checksum.offset
          /\ checksum.status = "ready" => checksum.offset >= file.pos
          /\ request.runs = 1 => request.from = 0
      BY <1>1, <2>2
         DEF GenInv, GenRequestInv, GenDigestInv, BodyInv
    <3>4. request.from = 0 => n = Len(request.data) /\ n > 0
      BY <1>2, <1>6 DEF n
    <3>5. Digests(ck, request)
      BY <1>6, <2>2, <3>2, <3>3, <3>4 DEF Digests
    <3>6. ck.status = "ready" => ck.offset >= file'.pos
      BY <1>2, <1>5, <2>2, <3>2, <3>3
    <3> QED  BY <1>1, <3>1, <3>2, <3>5, <3>6 DEF GenDigestInv
  <2> QED  BY <1>2, <2>1, <2>2 DEF Requests
<1> QED  BY <1>7, <1>8, <1>9 DEF GenInv

(* Steps that leave the request, the checksum and the file alone, and do   *)
(* not report a success that was not there.                                *)
LEMMA GenKept ==
  ASSUME GenInv, Active,
         pc \in {"server", "reply", "unwind", "returned"},
         pc' \in {"reply", "unwind", "returned", "crashed"},
         Succeeded' => Succeeded \/ pc = "server",
         UNCHANGED <<checksum, request, file>>
  PROVE  GenDigestInv' /\ GenRequestInv'
<1>1. BodyDigested' => BodyDigested
  BY DEF BodyDigested
<1>2. GenDigestInv'
  BY <1>1 DEF GenInv, GenDigestInv
<1>3. GenRequestInv'
  BY DEF GenInv, GenRequestInv
<1> QED  BY <1>2, <1>3

(* A transfer that breaks off digests some of a file, and is no success.   *)
LEMMA GenCutOff ==
  ASSUME GenAssumption, TypeInv, CurrentInv, GenInv, CutOff
  PROVE  GenInv'
<1>1. /\ pc = "send" /\ Active /\ pc' = "unwind" /\ response = EmptyResponse
      /\ UNCHANGED <<request, response>>
  BY DEF CutOff, Active, GenInv, GenResponseInv
<1>2. /\ request \in Requests /\ checksum \in Checksum
      /\ Sound(checksum) /\ request.generate
  BY <1>1, GenFacts DEF GenInv, GenRequestInv
<1>3. PICK n \in 0 .. Len(BodyBytes) : ReadBody(n, TRUE)
  BY DEF CutOff
<1> DEFINE bytes == SubSeq(BodyBytes, 1, n)
<1>4. /\ checksum' = IF request.file_filter THEN Update(checksum, bytes, TRUE)
                     ELSE checksum
      /\ file'.data = file.data
  BY <1>1, <1>3, ReadBodyType DEF ReadBody
<1>5. bytes \in Seq(Bytes) /\ Len(bytes) = n /\ n \in Nat
  <2>1. BodyBytes \in Seq(Bytes) /\ Len(BodyBytes) \in Nat
    BY <1>1, BodyBytesType
  <2>2. \A i \in 1 .. n : BodyBytes[i] \in Bytes
    BY <2>1, ElementOfSeq
  <2>3. n \in Nat
    BY <2>1
  <2> QED  BY <2>1, <2>2, <2>3, SubSeqProperties
<1>6. /\ Sound(checksum')
      /\ /\ request.body = "file" /\ checksum'.status = "ready"
         => checksum'.offset >= file'.pos
  <2> DEFINE new == Update(checksum, bytes, TRUE)
  <2> HIDE DEF bytes
  <2>1. /\ Sound(new) /\ new.status = checksum.status
        /\ checksum.status = "ready" => new.offset = checksum.offset + n
    BY <1>2, <1>5, SoundUpdate
  <2> HIDE DEF new
  <2>2. CASE request.body = "file"
    <3>1. /\ request.file_filter
          /\ checksum.status = "ready" => checksum.offset >= file.pos
      BY <1>1, <1>2, <2>2 DEF GenInv, GenRequestInv, GenDigestInv
    <3>2. file.pos \in Nat /\ checksum.offset \in Nat
      BY <1>2 DEF TypeInv, TypeOK, Checksum
    <3>3. file'.pos = file.pos + n
      <4>1. file' = [file EXCEPT !.pos = @ + n]
        BY <1>3, <2>2 DEF ReadBody
      <4>2. file \in [data: Seq(Bytes), pos: Nat]
        BY DEF TypeInv, TypeOK
      <4> QED  BY <4>1, <4>2
    <3>4. checksum' = new
      BY <1>4, <3>1 DEF new
    <3> QED  BY <1>5, <2>1, <3>1, <3>2, <3>3, <3>4
  <2>3. CASE request.body # "file"
    <3>1. checksum' \in {new, checksum}
      BY <1>4 DEF new
    <3> QED  BY <1>2, <2>1, <2>3, <3>1
  <2> QED  BY <2>2, <2>3
<1>7. GenRequestInv'
  BY <1>1, <1>2, <1>4 DEF GenInv, GenRequestInv
<1>8. ~Succeeded' /\ GenResponseInv'
  BY <1>1 DEF GenResponseInv, Succeeded, EmptyResponse
<1>9. GenDigestInv'
  <2>1. BodyDigested' => request.body = "array" /\ BodyDigested
    BY <1>1, <1>8 DEF BodyDigested
  <2>2. request.body = "array" => checksum' = checksum
    BY <1>1, <1>4 DEF GenInv, GenRequestInv
  <2> QED  BY <1>1, <1>6, <2>1, <2>2 DEF GenInv, GenDigestInv
<1> QED  BY <1>7, <1>8, <1>9 DEF GenInv

(* The server returns the checksum of what it stored.                      *)
LEMMA GenServerStores ==
  ASSUME GenAssumption, TypeInv, BodyInv, CurrentInv, GenInv, ServerStores
  PROVE  GenInv'
<1>1. /\ pc = "server" /\ Active /\ pc' = "reply" /\ Acceptable(wire)
      /\ wire.kind = request.kind /\ wire.range = request.range
      /\ UNCHANGED <<checksum, request, file, wire, object_id>>
      /\ response = EmptyResponse
  BY DEF ServerStores, Active, TypeInv, WireInv, GenInv, GenResponseInv, caller
<1>2. /\ Content(wire) = wire.data /\ wire.data \in Seq(Bytes)
      /\ request.body = "file" => file.pos = request.from + Len(wire.data)
      /\ request.body = "array" \/ request.from = 0 =>
           Len(wire.data) = Len(request.data)
  <2>1. Content(wire) = wire.data /\ wire.data \in Seq(Bytes)
    BY <1>1, GenFacts, ContentType DEF TypeInv, WireInv, Messages
  <2> QED  BY <1>1, <2>1 DEF BodyInv, SentFromWhereItStood
<1> DEFINE sum == IF wire.generate THEN Content(wire) ELSE NULL
<1>3. sum = wire.data
  BY <1>1, <1>2 DEF GenInv, GenResponseInv
<1>4. GenDigestInv' /\ GenRequestInv'
  BY <1>1, GenKept
<1>5. GenResponseInv'
  <2>1. CASE wire.kind = "create"
    <3>1. response' = [response EXCEPT !.http_code = 201,
                         !.location = Len(objects) + 1,
                         !.content_checksum = sum]
      BY <2>1 DEF ServerStores
    <3> HIDE DEF sum
    <3>2. /\ response'.http_code = 201 /\ response'.location = Len(objects) + 1
          /\ response'.object_id = 0 /\ response'.content_checksum = wire.data
      BY <1>1, <1>3, <3>1 DEF EmptyResponse
    <3>3. objects'[Len(objects) + 1] = wire.data
      BY <1>2, <2>1, StoresObjects
    <3>4. Len(objects) + 1 # 0
      <4>1. Len(objects) \in Nat
        BY LenProperties DEF TypeInv, TypeOK
      <4> QED  BY <4>1
    <3>5. WrittenId' = Len(objects) + 1
      BY <1>1, <3>2 DEF WrittenId
    <3> QED  BY <1>1, <1>2, <2>1, <3>2, <3>3, <3>4, <3>5 DEF GenResponseInv
  <2>2. CASE wire.kind # "create"
    <3>1. response' = [response EXCEPT !.http_code = 200,
                         !.content_checksum = sum]
      BY <2>2 DEF ServerStores
    <3> HIDE DEF sum
    <3>2. /\ response'.http_code = 200 /\ response'.object_id = 0
          /\ response'.content_checksum = wire.data
      BY <1>1, <1>3, <3>1 DEF EmptyResponse
    <3>3. objects'[object_id] = wire.data
      BY <1>2, <2>2, StoresObjects
    <3>4. WrittenId' = object_id
      BY <1>1, <3>2 DEF WrittenId
    <3> QED  BY <1>1, <1>2, <3>2, <3>3, <3>4 DEF GenResponseInv
  <2> QED  BY <2>1, <2>2
<1> QED  BY <1>4, <1>5 DEF GenInv

LEMMA GenReplies ==
  ASSUME GenAssumption, TypeInv, GenInv,
         \/ ServerRejects \/ ServerRefuses \/ Reply \/ LoseReply \/ Unwind
         \/ VerifyCrashes
  PROVE  GenInv'
<1>1. /\ pc \in {"server", "reply", "unwind", "returned"} /\ Active
      /\ pc' \in {"reply", "unwind", "returned", "crashed"}
      /\ UNCHANGED <<checksum, request, file, wire, object_id, objects>>
      /\ response \in Responses
  BY DEF ServerRejects, ServerRefuses, Reply, LoseReply, Unwind, VerifyCrashes,
         Active, server, caller, TypeInv, TypeOK
<1>2. CASE ServerRejects \/ ServerRefuses
  <2>1. response = EmptyResponse
    BY <1>2 DEF ServerRejects, ServerRefuses, GenInv, GenResponseInv
  <2>2. response'.http_code \in {400, 500} /\ response'.object_id = 0
    BY <1>2, <2>1 DEF ServerRejects, ServerRefuses, EmptyResponse
  <2>3. ~Succeeded'
    BY <2>2 DEF Succeeded
  <2>4. pc' = "reply"
    BY <1>2 DEF ServerRejects, ServerRefuses
  <2>5. GenResponseInv'
    BY <2>2, <2>3, <2>4 DEF GenResponseInv
  <2> QED  BY <1>1, <2>3, <2>5, GenKept DEF GenInv
<1>3. CASE LoseReply
  <2>1. /\ pc' = "unwind" /\ response'.http_code = 0
        /\ response'.object_id = 0
    BY <1>3 DEF LoseReply, EmptyResponse
  <2>2. ~Succeeded'
    BY <2>1 DEF Succeeded
  <2>3. GenResponseInv'
    BY <2>1, <2>2 DEF GenResponseInv
  <2> QED  BY <1>1, <2>2, <2>3, GenKept DEF GenInv
<1>4. CASE Reply
  <2>1. pc = "reply" /\ pc' = "unwind" /\ response' = response
    BY <1>4 DEF Reply
  <2>2. Succeeded' = Succeeded /\ WrittenId' = WrittenId
    BY <1>1, <2>1 DEF Succeeded, WrittenId
  <2>3. GenResponseInv'
    BY <1>1, <2>1, <2>2 DEF GenInv, GenResponseInv
  <2> QED  BY <1>1, <2>2, <2>3, GenKept DEF GenInv
<1>5. CASE Unwind
  <2>1. /\ pc = "unwind" /\ pc' = "returned"
        /\ response.object_id = 0
        /\ response.http_code = 201 => request.kind = "create"
    BY <1>5 DEF Unwind, GenInv, GenResponseInv
  <2>2. PICK resp \in ParsedError(response) : response' = ParsedCreate(resp)
    BY <1>5 DEF Unwind
  <2>3. /\ resp \in Responses /\ resp.http_code = response.http_code
        /\ resp.location = response.location
        /\ resp.object_id = response.object_id
        /\ resp.content_checksum = response.content_checksum
    BY <1>1, <2>2 DEF ParsedError, Responses, Errors
  <2>4. /\ response'.http_code = response.http_code
        /\ response'.object_id = IF response.http_code = 201
                                 THEN response.location ELSE 0
        /\ response'.content_checksum = response.content_checksum
    BY <2>1, <2>2, <2>3 DEF ParsedCreate, Responses
  <2>5. WrittenId' = WrittenId
    BY <1>1, <2>1, <2>4 DEF WrittenId
  <2>6. Succeeded' = Succeeded
    BY <2>4 DEF Succeeded
  <2>7. GenResponseInv'
    BY <1>1, <2>1, <2>4, <2>5, <2>6 DEF GenInv, GenResponseInv
  <2> QED  BY <1>1, <2>6, <2>7, GenKept DEF GenInv
<1>6. CASE VerifyCrashes
  <2>1. pc' = "crashed" /\ response' = response
    BY <1>6 DEF VerifyCrashes
  <2>2. Succeeded' = Succeeded /\ GenResponseInv'
    BY <2>1 DEF Succeeded, GenResponseInv
  <2> QED  BY <1>1, <2>2, GenKept DEF GenInv
<1> QED  BY <1>2, <1>3, <1>4, <1>5, <1>6

LEMMA GenRetry ==
  ASSUME GenAssumption, TypeInv, CurrentInv, GenInv, NEW policy, Retry(policy)
  PROVE  GenInv'
<1>1. pc = "returned" /\ Active
  BY DEF Retry, Active
<1>2. /\ request \in Requests /\ Sound(checksum) /\ request.generate
      /\ file \in [data: Seq(Bytes), pos: Nat] /\ acked \in Positions
  BY <1>1, GenFacts DEF GenInv, GenRequestInv, TypeInv, TypeOK
<1>3. CASE policy \in {"reuse", "rebuild"}
  <2>1. pc' = "idle"
    BY <1>3 DEF Retry
  <2>2. Sound(checksum')
    <3>1. CASE policy = "reuse"
      BY <1>2, <3>1 DEF Retry
    <3>2. CASE policy = "rebuild"
      <4>1. PICK outcome \in InitOutcomes :
              checksum' = Update(ChecksumInit(Mode, outcome),
                                 Segment(0, acked), TRUE)
        BY <3>2 DEF Retry
      <4> DEFINE fresh == ChecksumInit(Mode, outcome)
                 known == Segment(0, acked)
      <4>2. /\ fresh \in Checksum /\ known \in Seq(Bytes)
            /\ fresh.internal_state = << >> /\ fresh.offset = 0
        BY <1>2, ConstantsAssumption, EmptySeq, BeginningType
           DEF ChecksumInit, Checksum
      <4> HIDE DEF fresh, known
      <4>3. Len(fresh.internal_state) <= fresh.offset
        BY <4>2, EmptySeq
      <4>4. /\ Update(fresh, known, TRUE).status = fresh.status
            /\ Len(Update(fresh, known, TRUE).internal_state)
                 <= Update(fresh, known, TRUE).offset
        BY <4>2, <4>3, UpdateType
      <4>5. fresh.status # "ready" => Update(fresh, known, TRUE) = fresh
        BY DEF Update
      <4>6. Sound(Update(fresh, known, TRUE))
        BY <4>2, <4>4, <4>5 DEF Sound
      <4> QED  BY <4>1, <4>6 DEF fresh, known
    <3> QED  BY <1>3, <3>1, <3>2
  <2> QED  BY <2>1, <2>2
           DEF GenInv, GenDigestInv, GenRequestInv, GenResponseInv, Active
<1>4. CASE policy \in {"reexecute", "rewind"}
  <2> DEFINE runs == request.runs + 1
             from == file'.pos
  <2>1. /\ pc' = FirstFilter(request.kind) /\ response' = EmptyResponse
        /\ request' = [request EXCEPT !.runs = runs, !.from = from]
        /\ file' = IF policy = "rewind" THEN [file EXCEPT !.pos = 0] ELSE file
        /\ checksum' = checksum
    BY <1>4 DEF Retry
  <2>2. pc' \in {"update_object", "set_write_headers"}
    BY <2>1 DEF FirstFilter
  <2> HIDE DEF runs, from
  <2>3. /\ request'.kind = request.kind /\ request'.body = request.body
        /\ request'.data = request.data /\ request'.base = request.base
        /\ request'.generate <=> request.generate
        /\ request'.file_filter <=> request.file_filter
        /\ request'.runs = request.runs + 1
    BY <1>2, <2>1 DEF Requests, runs
  <2>4. request.runs \in Nat /\ request.runs >= 1
    BY <1>1, <1>2 DEF GenInv, GenRequestInv, Requests
  <2>5. file'.data = file.data /\ file'.pos \in {0, file.pos}
    BY <1>2, <2>1
  <2>6. GenRequestInv'
    BY <1>1, <1>2, <2>1, <2>2, <2>3, <2>4, <2>5 DEF GenInv, GenRequestInv
  <2>7. GenDigestInv'
    <3>1. BodyDigested' => Digests(checksum', request')
      <4> SUFFICES ASSUME BodyDigested' PROVE Digests(checksum', request')
        OBVIOUS
      <4>1. request.body = "array" /\ BodyDigested
        BY <1>2, <2>2, <2>3 DEF BodyDigested
      <4>2. Digests(checksum, request)
        BY <1>1, <4>1 DEF GenInv, GenDigestInv
      <4> QED  BY <2>1, <2>3, <4>1, <4>2 DEF Digests
    <3>2. /\ request.body = "file" /\ checksum.status = "ready"
          => checksum.offset >= file'.pos
      <4>1. checksum.offset \in Nat
        BY DEF TypeInv, TypeOK, Checksum
      <4> QED  BY <1>1, <2>5, <4>1 DEF GenInv, GenDigestInv
    <3> QED  BY <1>2, <2>1, <2>3, <3>1, <3>2 DEF GenDigestInv
  <2>8. GenResponseInv'
    BY <2>1, <2>2 DEF GenResponseInv
  <2> QED  BY <2>6, <2>7, <2>8 DEF GenInv
<1> QED  BY <1>3, <1>4 DEF Retry

LEMMA GenNext ==
  ASSUME GenAssumption, TypeInv, BodyInv, CurrentInv, GenInv, [Next]_vars
  PROVE  GenInv'
<1>1. CASE UNCHANGED vars
  BY <1>1 DEF vars, GenInv, GenDigestInv, GenRequestInv, GenResponseInv, Active,
              BodyDigested, Succeeded, WrittenId
<1>2. CASE Accept
  <2>1. pc' \in {"done", "idle"} /\ checksum' = checksum
    BY <1>2 DEF Accept
  <2> QED  BY <2>1
           DEF GenInv, GenDigestInv, GenRequestInv, GenResponseInv, Active
<1>3. ~FileChanges
  BY DEF FileChanges, Fault, GenAssumption
<1> QED  BY <1>1, <1>2, <1>3, GenBuildRequest, GenExecute, GenSetWriteHeaders,
            GenDeliver, GenCutOff, GenServerStores, GenReplies, GenRetry
         DEF Next, ClientStep, ServerStep, Environment

LEMMA GenInductive ==
  ASSUME GenAssumption
  PROVE  Spec => [](IInv /\ BodyInv /\ CurrentInv /\ GenInv)
<1> DEFINE AllInv == BodyInv /\ CurrentInv /\ GenInv
<1>1. Init => AllInv
  BY BodyInvInit, CurrentInvInit, GenInvInit
<1>2. IInv /\ AllInv /\ [Next]_vars => AllInv'
  BY BodyInvNext, CurrentInvNext, GenNext DEF IInv
<1> QED  BY <1>1, <1>2, Inductive, PTL DEF Spec


(* What a success of a generated checksum says of the write.               *)
LEMMA GenSuccess ==
  ASSUME GenAssumption, IInv, CurrentInv, GenInv, pc = "returned", Succeeded
  PROVE  /\ Active /\ BodyDigested
         /\ checksum \in Checksum /\ checksum.mode = GENERATE_CHECKSUM
         /\ Sound(checksum)
         /\ request.data \in Seq(Bytes) /\ Len(request.data) \in Nat \ {0}
         /\ wire.data \in Seq(Bytes)
         /\ request.body = "file" => file.pos = request.from + Len(wire.data)
         /\ request.body = "array" \/ request.from = 0 =>
              Len(wire.data) = Len(request.data)
         /\ response.content_checksum = wire.data
         /\ objects[KnownId] = wire.data
<1>1. TypeInv /\ Active
  BY DEF IInv, Active
<1>2. /\ request.generate /\ wire.data \in Seq(Bytes)
      /\ request.body = "file" => file.pos = request.from + Len(wire.data)
      /\ request.body = "array" \/ request.from = 0 =>
           Len(wire.data) = Len(request.data)
      /\ response.content_checksum = wire.data
      /\ objects[WrittenId] = wire.data
      /\ response.http_code = 201 => WrittenId # 0
      /\ response.http_code # 201 => response.object_id = 0
  BY <1>1 DEF GenInv, GenRequestInv, GenResponseInv
<1>3. KnownId = WrittenId
  BY <1>2 DEF KnownId, WrittenId
<1> QED  BY <1>1, <1>2, <1>3, GenFacts DEF BodyDigested

(* A sequence that ends in another of the same length is the other one.    *)
LEMMA EndsWithAll ==
  ASSUME NEW s \in Seq(Bytes), NEW t \in Seq(Bytes), Len(s) = Len(t),
         EndsWith(s, t)
  PROVE  s = t
<1>1. Len(t) \in Nat
  BY LenProperties
<1>2. \A i \in 1 .. Len(t) : s[Len(s) - Len(t) + i] = t[i]
  BY DEF EndsWith
<1>3. \A i \in 1 .. Len(t) : s[i] = t[i]
  BY <1>1, <1>2
<1> QED  BY <1>3, SeqEqual

(* A write is not counted as stored because of its checksum unless it is   *)
(* what the caller wrote, whatever else the checksum object has digested:  *)
(* a file that was sent from further on has left more in the digest than   *)
(* the server received.                                                    *)
THEOREM GeneratedVerifies ==
  ASSUME GenAssumption
  PROVE  Spec => []VerifiedIsStored
<1>1. IInv /\ CurrentInv /\ GenInv => VerifiedIsStored
  <2> SUFFICES ASSUME IInv, CurrentInv, GenInv, pc = "returned",
                      Counted(TRUE), ~VerifyReadsNull,
                      checksum.offset = Len(checksum.internal_state)
               PROVE  objects[KnownId] = request.data
    BY DEF VerifiedIsStored
  <2>1. Succeeded /\ VerifyResponse(checksum, response.content_checksum, TRUE)
    BY DEF Counted, Verified, GenAssumption
  <2> DEFINE digest == checksum.internal_state
             data == request.data
  <2>2. /\ checksum \in Checksum /\ digest \in Seq(Bytes)
        /\ data \in Seq(Bytes) /\ Len(data) \in Nat \ {0}
        /\ wire.data \in Seq(Bytes)
        /\ request.body = "file" => file.pos = request.from + Len(wire.data)
        /\ request.body = "array" \/ request.from = 0 =>
             Len(wire.data) = Len(data)
        /\ response.content_checksum = wire.data
        /\ objects[KnownId] = wire.data
        /\ checksum.mode = GENERATE_CHECKSUM /\ Sound(checksum)
        /\ Active /\ BodyDigested
    BY <2>1, GenSuccess DEF Checksum
  <2>3. GetValue(checksum, TRUE) # NULL /\ GetValue(checksum, TRUE) = wire.data
    <3>1. Not(checksum.mode) # GENERATE_CHECKSUM
      BY <2>2 DEF Not, GENERATE_CHECKSUM
    <3>2. response.content_checksum = wire.data
      BY <2>2
    <3> QED  BY <2>1, <3>1, <3>2 DEF VerifyResponse
  <2>4. digest = wire.data /\ checksum.status # "unknown"
    BY <2>3 DEF GetValue
  <2>5. checksum.status = "ready"
    <3>1. response.content_checksum # NULL
      BY <2>2, NullAssumption
    <3>2. checksum.status # "failed"
      BY <2>1, <3>1 DEF VerifyReadsNull, ReadsNull, GenAssumption
    <3> QED  BY <2>2, <2>4, <3>2 DEF Checksum, Outcomes
  <2>6. request.body = "array" \/ request.from = 0
    <3>1. CASE request.body = "file"
      <4>1. checksum.offset >= file.pos
        BY <2>2, <2>5, <3>1 DEF GenInv, GenDigestInv
      <4>2. request.from \in Nat /\ Len(wire.data) \in Nat
        BY <2>2, LenProperties DEF IInv, TypeInv, RequestInv, Requests
      <4>3. Len(wire.data) >= request.from + Len(wire.data)
        BY <2>2, <2>4, <3>1, <4>1
      <4> QED  BY <4>2, <4>3
    <3>2. request.body \in {"array", "file"}
      BY <2>2 DEF IInv, TypeInv, RequestInv, Requests
    <3> QED  BY <3>1, <3>2
  <2>7. EndsWith(digest, data) /\ Len(wire.data) = Len(data)
    BY <2>2, <2>5, <2>6 DEF GenInv, GenDigestInv, Digests
  <2>8. digest = data
    <3> HIDE DEF digest, data
    <3> QED  BY <2>2, <2>4, <2>7, EndsWithAll
  <2> QED  BY <2>2, <2>4, <2>8
<1> QED  BY <1>1, GenInductive, PTL

(* An undamaged write verifies if the checksum object was fresh and a file *)
(* was sent only once, whatever faults and failed requests came before.    *)
THEOREM GeneratedAccepts ==
  ASSUME GenAssumption
  PROVE  Spec => []VerifyAccepts
<1>1. IInv /\ BodyInv /\ CurrentInv /\ GenInv => VerifyAccepts
  <2> SUFFICES ASSUME IInv, BodyInv, CurrentInv, GenInv, pc = "returned", Succeeded,
                      wire.data = request.data,
                      checksum.status = "ready",
                      checksum.offset = Len(checksum.internal_state),
                      request.base = 0,
                      request.body = "array" \/ request.runs = 1
               PROVE  VerifyResponse(checksum, response.content_checksum,
                                     TRUE)
    BY DEF VerifyAccepts, Verified
  <2> DEFINE digest == checksum.internal_state
             data == request.data
  <2>1. /\ checksum \in Checksum /\ digest \in Seq(Bytes)
        /\ data \in Seq(Bytes) /\ Len(data) \in Nat
        /\ response.content_checksum = data
        /\ checksum.mode = GENERATE_CHECKSUM
        /\ Active /\ BodyDigested
    BY GenSuccess DEF Checksum
  <2>2. EndsWith(digest, data) /\ Len(digest) = Len(data)
    <3>1. request.body = "array" \/ request.from = 0
      BY <2>1 DEF BodyInv
    <3> QED  BY <2>1, <3>1 DEF GenInv, GenDigestInv, Digests
  <2>3. digest = data
    <3> HIDE DEF digest, data
    <3> QED  BY <2>1, <2>2, EndsWithAll
  <2> QED  BY <2>1, <2>3, VerifyResponseIsExact
<1> QED  BY <1>1, GenInductive, PTL
-----------------------------------------------------------------------------
(* A caller that rebuilds its checksum after every failure.                *)

RebuildAssumption == Mode = WSCHECKSUM /\ Policies \subseteq {"rebuild"}

(* A digest that lost nothing is the digest of the first p bytes.          *)
IsBeginning(ck, p) ==
  ck.status = "ready" /\ ck.offset = Len(ck.internal_state) =>
    ck.internal_state = Segment(0, p)

(* The checksum and the file stand at the beginning of the body until the  *)
(* filter has set the header, and the checksum at its end from there until *)
(* the write has failed.                                                   *)
RebuildInv ==
  /\ pc \in {"idle", "built", "update_object", "set_write_headers"} =>
       IsBeginning(checksum, acked)
  /\ pc \in {"built", "update_object", "set_write_headers"} =>
       request.wschecksum = NULL /\ file.pos = 0
  /\ \/ pc \in {"send", "server", "reply", "unwind"}
     \/ pc = "returned" /\ Succeeded
     => checksum.status = "ready" /\ IsBeginning(checksum, Cut[acked])

LEMMA SegmentsJoin ==
  ASSUME NEW p \in 0 .. Len(Source) - 1
  PROVE  /\ Segment(0, p) \o Segment(p, Cut[p]) = Segment(0, Cut[p])
         /\ Len(Segment(0, Cut[p])) = Cut[p]
         /\ \A i \in 1 .. Cut[p] : Segment(0, Cut[p])[i] = Source[i]
<1> DEFINE head == Segment(0, p)
           piece == Segment(p, Cut[p])
           whole == Segment(0, Cut[p])
<1>1. /\ p \in Nat /\ Cut[p] \in Nat /\ p < Cut[p] /\ Cut[p] <= Len(Source)
      /\ Len(Source) \in Nat /\ p \in Positions /\ Cut[p] \in Positions
  BY SourceType DEF Positions
<1>2. /\ head \in Seq(Bytes) /\ whole \in Seq(Bytes)
      /\ piece \in Seq(Bytes) /\ Len(piece) = Cut[p] - p
      /\ \A i \in 1 .. Cut[p] - p : piece[i] = Source[p + i]
  BY <1>1, BeginningType, SegmentType
<1>3. \A i \in 1 .. Len(Source) : Source[i] \in Bytes
  BY SourceType
<1>4. ASSUME NEW q \in Positions
      PROVE  /\ Len(Segment(0, q)) = q
             /\ \A i \in 1 .. q : Segment(0, q)[i] = Source[i]
  <2>1. q \in Nat /\ \A i \in 1 .. q : Source[i] \in Bytes
    BY <1>1, <1>3, <1>4 DEF Positions
  <2>2. CASE q = 0
    <3>1. SubSeq(Source, 1, 0) = << >>
      BY SourceType, SubSeqEmpty
    <3> QED  BY <2>2, <3>1, EmptySeq DEF Segment
  <2>3. CASE q # 0
    <3>1. /\ Len(SubSeq(Source, 1, q)) = q
          /\ \A i \in 1 .. q : SubSeq(Source, 1, q)[i] = Source[i]
      BY <1>1, <2>1, <2>3, SourceType, SubSeqProperties
    <3>2. Segment(0, q) = SubSeq(Source, 1, q)
      BY DEF Segment
    <3> QED  BY <3>1, <3>2
  <2> QED  BY <2>2, <2>3
<1>5. /\ Len(head) = p /\ \A i \in 1 .. p : head[i] = Source[i]
      /\ Len(whole) = Cut[p] /\ \A i \in 1 .. Cut[p] : whole[i] = Source[i]
  BY <1>1, <1>4
<1> HIDE DEF head, piece, whole
<1>6. /\ head \o piece \in Seq(Bytes)
      /\ Len(head \o piece) = Cut[p]
      /\ \A i \in 1 .. Cut[p] : (head \o piece)[i] = Source[i]
  <2>1. /\ head \o piece \in Seq(Bytes)
        /\ Len(head \o piece) = Len(head) + Len(piece)
        /\ \A i \in 1 .. Len(head) + Len(piece) : (head \o piece)[i] =
             IF i <= Len(head) THEN head[i] ELSE piece[i - Len(head)]
    BY <1>2, ConcatProperties
  <2>2. Len(head) + Len(piece) = Cut[p]
    BY <1>1, <1>2, <1>5
  <2>3. ASSUME NEW i \in 1 .. Cut[p]
        PROVE  (head \o piece)[i] = Source[i]
    <3>1. CASE i <= p
      BY <1>5, <2>1, <2>2, <3>1
    <3>2. CASE i > p
      <4>1. i - p \in 1 .. Cut[p] - p /\ p + (i - p) = i
        BY <1>1, <3>2
      <4>2. piece[i - p] = Source[i]
        BY <1>2, <4>1
      <4> QED  BY <1>1, <1>5, <2>1, <2>2, <3>2, <4>2
    <3>3. i <= p \/ i > p
      BY <1>1
    <3> QED  BY <3>1, <3>2, <3>3
  <2> QED  BY <2>1, <2>2, <2>3
<1>7. head \o piece = whole
  <2> DEFINE both == head \o piece
  <2>1. both \in Seq(Bytes) /\ Len(both) = Len(whole)
    BY <1>5, <1>6
  <2>2. \A i \in 1 .. Len(both) : both[i] = whole[i]
    BY <1>5, <1>6
  <2> HIDE DEF both
  <2>3. both = whole
    BY <1>2, <2>1, <2>2, SeqEqual
  <2> QED  BY <2>3 DEF both
<1> QED  BY <1>5, <1>7 DEF head, piece, whole

(* Digesting the body moves the checksum from its beginning to its end.    *)
LEMMA UpdateIsBeginning ==
  ASSUME NEW ck \in Checksum, NEW p \in 0 .. Len(Source) - 1,
         NEW hashed \in BOOLEAN,
         Len(ck.internal_state) <= ck.offset, IsBeginning(ck, p)
  PROVE  IsBeginning(Update(ck, Segment(p, Cut[p]), hashed), Cut[p])
<1> DEFINE piece == Segment(p, Cut[p])
           new == Update(ck, piece, hashed)
           state == IF hashed THEN ck.internal_state \o piece
                    ELSE ck.internal_state
<1>1. /\ piece \in Seq(Bytes) /\ Len(piece) \in Nat \ {0}
      /\ ck.internal_state \in Seq(Bytes) /\ ck.offset \in Nat
      /\ Len(ck.internal_state) \in Nat
  <2>1. Len(piece) = Cut[p] - p /\ Cut[p] \in Int /\ p < Cut[p] /\ p \in Int
    BY SegmentType, SourceType
  <2>2. piece \in Seq(Bytes)
    BY SegmentType
  <2>3. ck.internal_state \in Seq(Bytes) /\ ck.offset \in Nat
    BY DEF Checksum
  <2>4. Len(ck.internal_state) \in Nat
    BY <2>3, LenProperties
  <2> HIDE DEF piece
  <2> QED  BY <2>1, <2>2, <2>3, <2>4
<1>2. ck.internal_state = Segment(0, p) =>
        ck.internal_state \o piece = Segment(0, Cut[p])
  BY SegmentsJoin
<1> HIDE DEF piece
<1>3. SUFFICES ASSUME new.status = "ready",
                      new.offset = Len(new.internal_state)
               PROVE  new.internal_state = Segment(0, Cut[p])
  BY DEF IsBeginning, piece
<1>4. ck.status = "ready"
  BY <1>3, UpdateType, <1>1
<1>5. new.internal_state = state /\ new.offset = ck.offset + Len(piece)
  BY <1>4 DEF Update, Checksum
<1>6. Len(ck.internal_state \o piece) = Len(ck.internal_state) + Len(piece)
  BY <1>1, ConcatProperties
<1> HIDE DEF new
<1>7. CASE hashed
  <2>1. ck.offset = Len(ck.internal_state)
    BY <1>1, <1>3, <1>5, <1>6, <1>7
  <2>2. ck.internal_state = Segment(0, p)
    BY <1>4, <2>1 DEF IsBeginning
  <2> QED  BY <1>2, <1>5, <1>7, <2>2
<1>8. CASE ~hashed
  BY <1>1, <1>3, <1>5, <1>8
<1> QED  BY <1>7, <1>8

(* A checksum that was made anew from what is stored.                      *)
LEMMA RebuiltIsBeginning ==
  ASSUME NEW p \in Positions, NEW outcome \in InitOutcomes
  PROVE  IsBeginning(Update(ChecksumInit(Mode, outcome), Segment(0, p), TRUE),
                     p)
<1> DEFINE ck == ChecksumInit(Mode, outcome)
           piece == Segment(0, p)
           new == Update(ck, piece, TRUE)
<1>1. ck.internal_state = << >> /\ ck.status = outcome
  BY DEF ChecksumInit
<1>2. << >> \o piece = piece
  BY BeginningType, ConcatEmptySeq
<1>3. new.status = "ready" => ck.status = "ready"
  BY DEF Update
<1>4. ck.status = "ready" => new.internal_state = << >> \o piece
  BY <1>1 DEF Update, ChecksumInit
<1> HIDE DEF ck, new
<1>5. IsBeginning(new, p)
  BY <1>2, <1>3, <1>4 DEF IsBeginning
<1> QED  BY <1>5 DEF ck, new

LEMMA RebuildInvInit == Init => RebuildInv
<1> SUFFICES ASSUME Init PROVE RebuildInv
  OBVIOUS
<1>1. PICK outcome \in InitOutcomes : checksum = ChecksumInit(Mode, outcome)
  BY DEF Init
<1>2. SubSeq(Source, 1, 0) = << >>
  BY SourceType, SubSeqEmpty
<1>3. checksum.internal_state = << >> /\ acked = 0 /\ pc = "idle"
  BY <1>1 DEF Init, ChecksumInit
<1>4. IsBeginning(checksum, acked)
  BY <1>2, <1>3 DEF IsBeginning, Segment
<1> QED  BY <1>3, <1>4 DEF RebuildInv

LEMMA RebuildSetWriteHeaders ==
  ASSUME RebuildAssumption, TypeInv, WsInv, RebuildInv, SetWriteHeaders
  PROVE  RebuildInv'
<1>1. /\ pc = "set_write_headers" /\ Active /\ acked' = acked
      /\ request.wschecksum = NULL /\ checksum.mode = WSCHECKSUM
      /\ IsBeginning(checksum, acked)
      /\ Len(checksum.internal_state) <= checksum.offset
  BY DEF SetWriteHeaders, Active, caller, RebuildInv, WsInv, HeaderInv,
         DigestInv
<1>2. /\ request \in Requests /\ checksum \in Checksum
      /\ acked \in 0 .. Len(Source) - 1
      /\ request.data = Segment(acked, Cut[acked])
      /\ request.data \in Seq(Bytes)
  BY <1>1, ActiveFacts DEF TypeInv, TypeOK, RequestInv
<1>3. WsRequested /\ ~GenerateRequested
  BY <1>1 DEF WsRequested, GenerateRequested, WSCHECKSUM, GENERATE_CHECKSUM
<1>4. ASSUME NEW code \in Errors, ApiError(code)
      PROVE  RebuildInv'
  <2>1. pc' = "returned"
    BY <1>4 DEF ApiError
  <2>2. response'.http_code = 400
    BY <1>4, ApiErrorType
  <2>3. ~Succeeded'
    BY <2>2 DEF Succeeded
  <2> QED  BY <2>1, <2>3 DEF RebuildInv
<1>5. ASSUME NEW hashed \in BOOLEAN
      PROVE  Digested(hashed) = Update(checksum, request.data, hashed)
  <2>1. CASE request.body = "file"
    <3>1. file.data = Rest(acked) /\ file.pos = 0
      BY <1>1, <2>1 DEF WsInv, FileInv, RebuildInv
    <3>2. Len(request.data) = Cut[acked] - acked
      BY <1>2, SegmentType
    <3>3. FileRead(file.data, 0, Len(request.data)) = request.data
      BY <1>2, <3>1, <3>2, RestBeginsWithSegment
    <3> QED  BY <2>1, <3>1, <3>3 DEF Digested, UpdateFile
  <2>2. CASE request.body # "file"
    BY <2>2 DEF Digested
  <2> QED  BY <2>1, <2>2
<1>6. ASSUME NEW hashed \in BOOLEAN, NEW finished \in BOOLEAN,
             SetWsChecksum(hashed, finished)
      PROVE  RebuildInv'
  <2> DEFINE ck == Digested(hashed)
  <2>1. IsBeginning(ck, Cut[acked])
    BY <1>1, <1>2, <1>5, UpdateIsBeginning
  <2>2. ck \in Checksum
    BY <1>1, DigestedType
  <2>3. /\ checksum' = ck
        /\ \/ pc' = "crashed"
           \/ ApiError(CHECKSUM_FAILED)
           \/ pc' = "send" /\ ~ReadsNull(ck) /\ GetState(ck, finished) # NULL
    BY <1>6 DEF SetWsChecksum
  <2> HIDE DEF ck
  <2>4. CASE pc' = "crashed"
    BY <2>4 DEF RebuildInv
  <2>5. CASE ApiError(CHECKSUM_FAILED)
    BY <1>4, <2>5 DEF Errors
  <2>6. CASE pc' = "send" /\ ~ReadsNull(ck) /\ GetState(ck, finished) # NULL
    <3>1. ck.status = "ready"
      BY <2>2, <2>6 DEF ReadsNull, GetState, GetValue, Checksum, Outcomes
    <3>2. Cut[acked'] = Cut[acked]
      BY <1>1
    <3>3. checksum'.status = "ready" /\ IsBeginning(checksum', Cut[acked'])
      BY <2>1, <2>3, <3>1, <3>2
    <3> QED  BY <2>6, <3>3 DEF RebuildInv
  <2> QED  BY <2>3, <2>4, <2>5, <2>6
<1>7. CASE FtellFails \/ FseekFails
  BY <1>4, <1>7 DEF FtellFails, FseekFails, Errors
<1> QED  BY <1>3, <1>6, <1>7
         DEF SetWriteHeaders, SetGenerate, KeepHeaders

(* The transfer does not digest anything: only a generated checksum has    *)
(* the filter that does.                                                   *)
LEMMA RebuildTransfer ==
  ASSUME RebuildAssumption, TypeInv, CurrentInv, RebuildInv,
         FileChanges \/ Deliver \/ CutOff
  PROVE  RebuildInv'
<1>1. /\ pc = "send" /\ Active /\ acked' = acked
      /\ pc' \in {"send", "server", "unwind"} /\ ~request.file_filter
  <2>1. /\ pc = "send" /\ Active /\ acked' = acked
        /\ pc' \in {"send", "server", "unwind"}
    BY DEF FileChanges, Deliver, CutOff, Active, caller
  <2>2. Mode # GENERATE_CHECKSUM
    BY DEF RebuildAssumption, WSCHECKSUM, GENERATE_CHECKSUM
  <2> QED  BY <2>1, <2>2 DEF CurrentInv
<1>2. checksum' = checksum
  <2>1. CASE FileChanges
    BY <2>1 DEF FileChanges
  <2>2. CASE Deliver \/ CutOff
    BY <1>1, <2>2 DEF Deliver, CutOff, ReadBody
  <2> QED  BY <2>1, <2>2
<1>3. /\ checksum'.status = "ready"
      /\ IsBeginning(checksum', Cut[acked'])
  BY <1>1, <1>2 DEF RebuildInv
<1> QED  BY <1>1, <1>3 DEF RebuildInv

LEMMA RebuildNext ==
  ASSUME RebuildAssumption, TypeInv, WsInv, CurrentInv, RebuildInv,
         [Next]_vars
  PROVE  RebuildInv'
<1>1. CASE UNCHANGED vars
  BY <1>1 DEF vars, RebuildInv, Succeeded, IsBeginning
<1>2. ASSUME NEW body \in Bodies, BuildRequest(body)
      PROVE  RebuildInv'
  <2> DEFINE data == Segment(acked, Cut[acked])
  <2>1. /\ request' = [kind |-> NextKind, body |-> body, start |-> acked,
                       data |-> data, range |-> NULL, wschecksum |-> NULL,
                       generate |-> FALSE, file_filter |-> FALSE,
                       base |-> checksum.offset, runs |-> 0, from |-> 0]
        /\ pc = "idle" /\ pc' = "built" /\ UNCHANGED <<checksum, acked>>
        /\ file'.pos = 0
    BY <1>2 DEF BuildRequest, caller
  <2> HIDE DEF data
  <2>2. request'.wschecksum = NULL
    BY <2>1
  <2> QED  BY <2>1, <2>2 DEF RebuildInv
<1>3. CASE Execute \/ UpdateObject
  <2>1. /\ pc \in {"built", "update_object"} /\ Active /\ request \in Requests
        /\ pc' \in {"update_object", "set_write_headers"}
        /\ UNCHANGED <<checksum, acked, file>>
    BY <1>3 DEF Execute, FirstFilter, UpdateObject, Active, TypeInv,
                RequestInv, caller
  <2>2. request'.wschecksum = request.wschecksum
    BY <1>3, <2>1 DEF Execute, UpdateObject, Requests
  <2> QED  BY <2>1, <2>2 DEF RebuildInv
<1>4. CASE ServerStep \/ ServerRefuses \/ LoseReply
  <2>1. /\ pc \in {"server", "reply"} /\ pc' \in {"reply", "unwind"}
        /\ UNCHANGED <<checksum, acked>>
    BY <1>4 DEF ServerStep, ServerStores, ServerRejects, Reply, ServerRefuses,
                LoseReply, caller
  <2>2. checksum'.status = "ready" /\ IsBeginning(checksum', Cut[acked'])
    BY <2>1 DEF RebuildInv
  <2> QED  BY <2>1, <2>2 DEF RebuildInv
<1>5. CASE Unwind
  <2>1. pc = "unwind" /\ pc' = "returned" /\ UNCHANGED <<checksum, acked>>
    BY <1>5 DEF Unwind, caller
  <2>2. checksum'.status = "ready" /\ IsBeginning(checksum', Cut[acked'])
    BY <2>1 DEF RebuildInv
  <2> QED  BY <2>1, <2>2 DEF RebuildInv
<1>6. CASE VerifyCrashes
  BY <1>6 DEF VerifyCrashes, RebuildInv
<1>7. CASE Accept
  <2>1. /\ pc = "returned" /\ Active /\ Succeeded /\ checksum' = checksum
        /\ acked' = request.start + Len(request.data)
        /\ pc' \in {"done", "idle"}
    BY <1>7 DEF Accept, Active, Counted
  <2>2. acked' = Cut[acked]
    <3>1. /\ request.start = acked /\ acked \in 0 .. Len(Source) - 1
          /\ request.data = Segment(acked, Cut[acked])
      BY <2>1, ActiveFacts DEF TypeInv, RequestInv
    <3>2. Len(request.data) = Cut[acked] - acked
      BY <3>1, SegmentType
    <3>3. Cut[acked] \in Int
      BY <3>1, SourceType
    <3> QED  BY <2>1, <3>1, <3>2, <3>3
  <2>3. IsBeginning(checksum', acked')
    BY <2>1, <2>2 DEF RebuildInv
  <2> QED  BY <2>1, <2>3 DEF RebuildInv
<1>8. ASSUME NEW policy \in AllPolicies, Retry(policy)
      PROVE  RebuildInv'
  <2>1. policy = "rebuild" /\ pc' = "idle" /\ acked' = acked
    BY <1>8 DEF Retry, RebuildAssumption
  <2>2. PICK outcome \in InitOutcomes :
          checksum' = Update(ChecksumInit(Mode, outcome), Segment(0, acked),
                             TRUE)
    BY <1>8, <2>1 DEF Retry
  <2>3. acked \in Positions
    BY DEF TypeInv, TypeOK
  <2>4. IsBeginning(checksum', acked')
    BY <2>1, <2>2, <2>3, RebuiltIsBeginning
  <2> QED  BY <2>1, <2>4 DEF RebuildInv
<1> QED  BY <1>1, <1>2, <1>3, <1>4, <1>5, <1>6, <1>7, <1>8,
            RebuildSetWriteHeaders, RebuildTransfer
         DEF Next, ClientStep, Environment

(* What the server holds after an undamaged write is the beginning of      *)
(* Source up to the end of the body.                                       *)
LEMMA ContentIsBeginning ==
  ASSUME Mode = WSCHECKSUM, TypeInv, WsInv, pc = "server",
         wire.data = request.data
  PROVE  /\ Content(wire) = Segment(0, Cut[acked])
         /\ wire.range # NULL =>
              /\ wire.range.last - wire.range.first + 1 = Len(wire.data)
              /\ wire.range.first <= Len(objects[object_id])
<1>1. /\ Active /\ acked \in 0 .. Len(Source) - 1 /\ acked \in Nat
      /\ Cut[acked] \in Nat /\ acked < Cut[acked]
      /\ request.start = acked /\ request.data = Segment(acked, Cut[acked])
      /\ request.data \in Seq(Bytes)
      /\ wire.range = request.range /\ request \in Requests
  BY ActiveFacts, SourceType DEF Active, TypeInv, RequestInv, WireInv
<1>2. /\ Len(request.data) = Cut[acked] - acked
      /\ \A i \in 1 .. Cut[acked] - acked : request.data[i] = Source[acked + i]
  BY <1>1, SegmentType
<1>3. /\ request.kind = IF object_id = 0 THEN "create" ELSE "append"
      /\ object_id = 0 <=> acked = 0
      /\ request.kind = "append" => request.range # NULL
  BY <1>1 DEF WsInv, HeaderInv, ObjectInv
<1>4. CASE object_id = 0
  <2>1. acked = 0 /\ wire.range = NULL
    BY <1>1, <1>3, <1>4 DEF TypeInv, RequestInv
  <2> QED  BY <1>1, <2>1 DEF Content
<1>5. CASE object_id # 0
  <2> DEFINE content == objects[object_id]
             new == Overwrite(content, acked, request.data)
             whole == Segment(0, Cut[acked])
  <2>1. wire.range # NULL /\ wire.range = RangeOf(request)
        /\ request.kind = "append"
    BY <1>1, <1>3, <1>5 DEF TypeInv, RequestInv
  <2>2. wire.range.first = acked /\ wire.range.last = Cut[acked] - 1
    BY <1>1, <1>2, <2>1 DEF RangeOf
  <2>3. content \in Seq(Bytes) /\ object_id \in 1 .. Len(objects)
    <3>1. object_id \in 0 .. Len(objects) /\ objects \in Seq(Seq(Bytes))
      BY DEF TypeInv, TypeOK, IdsInv
    <3>2. Len(objects) \in Nat
      BY <3>1, LenProperties
    <3>3. object_id \in 1 .. Len(objects)
      BY <1>5, <3>1, <3>2
    <3> QED  BY <3>1, <3>3, ElementOfSeq
  <2>4. Len(content) \in {acked, Cut[acked]}
    BY <1>5 DEF WsInv, ObjectInv
  <2>5. \A i \in 1 .. Len(content) : content[i] = Source[i]
    BY <2>3 DEF WsInv, StoredIsPrefix
  <2>6. Content(wire) = new
    BY <2>1, <2>2 DEF Content
  <2> HIDE DEF content
  <2>7. /\ new \in Seq(Bytes)
        /\ Len(new) = IF acked + Len(request.data) < Len(content)
                        THEN Len(content) ELSE acked + Len(request.data)
    <3>1. acked <= Len(content)
      BY <1>1, <2>4
    <3> QED  BY <1>1, <2>3, <3>1, OverwriteType
  <2>8. Len(new) = Cut[acked]
    BY <1>1, <1>2, <2>4, <2>7
  <2>9. ASSUME NEW i \in 1 .. Cut[acked]
        PROVE  new[i] = Source[i]
    <3>1. new[i] = IF i > acked /\ i <= acked + Len(request.data)
                     THEN request.data[i - acked] ELSE content[i]
      BY <1>1, <1>2, <2>4 DEF Overwrite
    <3>2. CASE i > acked
      <4>1. i - acked \in 1 .. Cut[acked] - acked /\ acked + (i - acked) = i
            /\ i <= acked + Len(request.data)
        BY <1>1, <1>2, <3>2
      <4>2. request.data[i - acked] = Source[i]
        BY <1>2, <4>1
      <4> QED  BY <3>1, <3>2, <4>1, <4>2
    <3>3. CASE ~(i > acked)
      <4>1. i \in 1 .. Len(content)
        BY <1>1, <2>4, <3>3
      <4> QED  BY <2>5, <3>1, <3>3, <4>1
    <3> QED  BY <3>2, <3>3
  <2> HIDE DEF new
  <2>10. /\ whole \in Seq(Bytes) /\ Len(whole) = Cut[acked]
         /\ \A i \in 1 .. Cut[acked] : whole[i] = Source[i]
    <3>1. Cut[acked] \in Positions
      BY <1>1, SourceType DEF Positions
    <3> QED  BY <1>1, <3>1, BeginningType, SegmentsJoin
  <2> HIDE DEF whole
  <2>11. new = whole
    BY <2>7, <2>8, <2>9, <2>10, SeqEqual
  <2>12. wire.range.last - wire.range.first + 1 = Len(wire.data)
    BY <1>1, <1>2, <2>2
  <2>13. wire.range.first <= Len(objects[object_id])
    BY <1>1, <2>2, <2>4 DEF content
  <2> QED  BY <2>6, <2>11, <2>12, <2>13 DEF whole
<1> QED  BY <1>4, <1>5

(* An undamaged request of such a caller carries a header that the server  *)
(* agrees with, whatever failed before it and however often.               *)
THEOREM RebuiltHeaderMatches ==
  ASSUME Mode = WSCHECKSUM, Policies \subseteq {"rebuild"}
  PROVE  Spec => []HeaderMatchesObject
<1>1. RebuildAssumption
  BY DEF RebuildAssumption
<1>2. Init => CurrentInv /\ RebuildInv
  BY CurrentInvInit, RebuildInvInit
<1>3. IInv /\ CurrentInv /\ RebuildInv /\ [Next]_vars =>
        (CurrentInv /\ RebuildInv)'
  BY <1>1, CurrentInvNext, RebuildNext DEF IInv
<1>4. IInv /\ CurrentInv /\ RebuildInv => HeaderMatchesObject
  <2> SUFFICES ASSUME IInv, CurrentInv, RebuildInv, pc = "server",
                      wire.data = request.data,
                      checksum.offset = Len(checksum.internal_state)
               PROVE  Acceptable(wire)
    BY DEF HeaderMatchesObject
  <2>1. TypeInv /\ WsInv
    BY DEF IInv
  <2>2. /\ checksum.status = "ready"
        /\ checksum.internal_state = Segment(0, Cut[acked])
    BY DEF RebuildInv, IsBeginning
  <2>3. request.wschecksum # NULL /\ wire.wschecksum = request.wschecksum
    BY <2>1 DEF WsInv, HeaderInv, TypeInv, WireInv, Active
  <2>4. wire.wschecksum = GetState(checksum, TRUE)
    BY <2>3 DEF CurrentInv, Active
  <2>5. GetState(checksum, TRUE) = [offset |-> Len(checksum.internal_state),
                              value |-> checksum.internal_state]
    BY <2>2, <2>3, <2>4 DEF GetState, GetValue
  <2> QED  BY <2>1, <2>2, <2>4, <2>5, ContentIsBeginning DEF Acceptable
<1> QED  BY <1>2, <1>3, <1>4, Inductive, PTL DEF Spec
=============================================================================
