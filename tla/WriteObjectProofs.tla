-------------------------- MODULE WriteObjectProofs --------------------------
(* Type correctness of WriteObject and, under a wschecksum, the safety of  *)
(* what is stored and acknowledged, for every Source, every division into  *)
(* requests, every combination of faults and any number of retries.  First *)
(* come the operators of AtmosChecksum, for every content.                 *)
EXTENDS WriteObject, SequenceTheorems, TLAPS

-----------------------------------------------------------------------------
(* What the operators of AtmosChecksum return.                             *)

(* A read returns at most count bytes of the file.                         *)
LEMMA FileReadType ==
  ASSUME NEW content \in Seq(Bytes), NEW pos \in Nat, NEW count \in Nat
  PROVE  /\ FileRead(content, pos, count) \in Seq(Bytes)
         /\ Len(FileRead(content, pos, count)) <= count
         /\ PosAfterRead(content, pos, count) \in Nat
<1> DEFINE end == IF pos + count <= Len(content) THEN pos + count
                  ELSE Len(content)
<1>1. end \in Int /\ end <= Len(content) /\ end <= pos + count
  BY LenProperties
<1>2. \A i \in pos + 1 .. end : content[i] \in Bytes
  BY <1>1, ElementOfSeq
<1>3. /\ SubSeq(content, pos + 1, end) \in Seq(Bytes)
      /\ Len(SubSeq(content, pos + 1, end)) =
           IF pos + 1 <= end THEN end - (pos + 1) + 1 ELSE 0
  <2> HIDE DEF end
  <2> QED  BY <1>1, <1>2, SubSeqProperties
<1> QED  BY <1>1, <1>3 DEF FileRead, PosAfterRead

(* Updating keeps the mode and the outcome of the init, and the offset     *)
(* never goes back and is never behind the bytes digested.                 *)
LEMMA UpdateType ==
  ASSUME NEW ck \in Checksum, NEW data \in Seq(Bytes), NEW hashed \in BOOLEAN
  PROVE  /\ Update(ck, data, hashed) \in Checksum
         /\ Update(ck, data, hashed).mode = ck.mode
         /\ Update(ck, data, hashed).status = ck.status
         /\ Update(ck, data, hashed).offset >= ck.offset
         /\ Len(ck.internal_state) <= ck.offset =>
              Len(Update(ck, data, hashed).internal_state)
                <= Update(ck, data, hashed).offset
<1>1. /\ ck.internal_state \in Seq(Bytes)
      /\ ck.internal_state \o data \in Seq(Bytes)
      /\ Len(ck.internal_state \o data) = Len(ck.internal_state) + Len(data)
      /\ Len(data) \in Nat
      /\ Len(ck.internal_state) \in Nat
      /\ ck.offset \in Nat
  BY ConcatProperties, LenProperties DEF Checksum
<1>2. CASE ck.status # "ready"
  BY <1>1, <1>2 DEF Update
<1>3. CASE ck.status = "ready"
  <2> DEFINE new == IF hashed THEN ck.internal_state \o data
                    ELSE ck.internal_state
             end == ck.offset + Len(data)
  <2>1. Update(ck, data, hashed) =
          [ck EXCEPT !.internal_state = new, !.offset = end]
    BY <1>3 DEF Update
  <2>2. /\ new \in Seq(Bytes)
        /\ Len(ck.internal_state) <= ck.offset => Len(new) <= end
    BY <1>1
  <2>3. end \in Nat /\ end >= ck.offset
    BY <1>1
  <2> HIDE DEF new, end
  <2> QED  BY <2>1, <2>2, <2>3 DEF Checksum
<1> QED  BY <1>2, <1>3

(* If the state after an update counts exactly the bytes it digested, then *)
(* the update was one of them: the digest ends in its data.                *)
LEMMA UpdateEndsWith ==
  ASSUME NEW ck \in Checksum, NEW data \in Seq(Bytes), NEW hashed \in BOOLEAN,
         ck.status = "ready",
         Len(data) > 0,
         Len(ck.internal_state) <= ck.offset,
         Update(ck, data, hashed).offset =
           Len(Update(ck, data, hashed).internal_state)
  PROVE  EndsWith(Update(ck, data, hashed).internal_state, data)
<1> DEFINE old == ck.internal_state
           new == Update(ck, data, hashed).internal_state
<1>1. /\ old \in Seq(Bytes)
      /\ Len(old) \in Nat
      /\ Len(data) \in Nat
      /\ ck.offset \in Nat
  BY LenProperties DEF Checksum
<1>2. Update(ck, data, hashed).offset = ck.offset + Len(data)
  BY DEF Update, Checksum
<1>3. new = IF hashed THEN old \o data ELSE old
  BY DEF Update, Checksum
<1>4. new # old
  <2> SUFFICES ASSUME new = old PROVE FALSE
    OBVIOUS
  <2>1. Len(old) <= ck.offset /\ Len(old) = ck.offset + Len(data)
    BY <1>2
  <2> HIDE DEF old
  <2> QED  BY <1>1, <2>1
<1>5. /\ Len(new) = Len(old) + Len(data)
      /\ \A i \in 1 .. Len(old) + Len(data) :
           new[i] = IF i <= Len(old) THEN old[i] ELSE data[i - Len(old)]
  <2>1. new = old \o data
    BY <1>3, <1>4
  <2> HIDE DEF new, old
  <2> QED  BY <1>1, <2>1, ConcatProperties
<1> HIDE DEF new, old
<1>6. EndsWith(new, data)
  BY <1>1, <1>5 DEF EndsWith
<1> QED  BY <1>6 DEF new

(* With a usable digest that the library finalises, verify_response        *)
(* accepts a generated checksum exactly when it is the digest of the bytes *)
(* the client fed to its own: the precedence of its first test does no     *)
(* harm in this mode.                                                      *)
THEOREM VerifyResponseIsExact ==
  ASSUME NEW ck \in Checksum, NEW header \in Seq(Bytes) \cup {NULL},
         ck.mode = GENERATE_CHECKSUM, ck.status = "ready"
  PROVE  VerifyResponse(ck, header, TRUE) <=> header = ck.internal_state
BY NullAssumption
   DEF VerifyResponse, GetValue, Not, Checksum, GENERATE_CHECKSUM

(* In the other mode, WSCHECKSUM, it returns 1 as its comment promises for  *)
(* everything but GENERATE, although the test is not the one it spells.    *)
THEOREM VerifyResponseOtherModes ==
  ASSUME NEW ck \in Checksum, NEW header, NEW finished \in BOOLEAN,
         ck.mode = WSCHECKSUM
  PROVE  VerifyResponse(ck, header, finished)
BY DEF VerifyResponse, Not, WSCHECKSUM, GENERATE_CHECKSUM

-----------------------------------------------------------------------------
(* The pieces of Source.                                                   *)

LEMMA SourceType ==
  /\ Source \in Seq(Bytes)
  /\ Len(Source) \in Nat \ {0}
  /\ \A i \in 1 .. Len(Source) : Source[i] \in Bytes
  /\ \A p \in 0 .. Len(Source) - 1 :
       Cut[p] \in 1 .. Len(Source) /\ p < Cut[p]
BY SMTT(30), ConstantsAssumption, LenProperties, ElementOfSeq

(* The data of a request that starts at p.                                 *)
LEMMA SegmentType ==
  ASSUME NEW p \in 0 .. Len(Source) - 1
  PROVE  /\ Segment(p, Cut[p]) \in Seq(Bytes)
         /\ Len(Segment(p, Cut[p])) = Cut[p] - p
         /\ \A i \in 1 .. Cut[p] - p : Segment(p, Cut[p])[i] = Source[p + i]
<1>1. /\ p + 1 \in Int /\ Cut[p] \in Int /\ p + 1 <= Cut[p]
      /\ \A i \in p + 1 .. Cut[p] : Source[i] \in Bytes
  BY SourceType
<1> DEFINE seg == SubSeq(Source, p + 1, Cut[p])
<1>2. /\ seg \in Seq(Bytes)
      /\ Len(seg) = Cut[p] - (p + 1) + 1
      /\ \A i \in 1 .. Cut[p] - (p + 1) + 1 : seg[i] = Source[p + 1 + i - 1]
  BY <1>1, SubSeqProperties
<1> HIDE DEF seg
<1>3. /\ seg \in Seq(Bytes)
      /\ Len(seg) = Cut[p] - p
      /\ \A i \in 1 .. Cut[p] - p : seg[i] = Source[p + i]
  BY <1>1, <1>2
<1> QED  BY <1>3 DEF seg, Segment

(* The file behind a request that starts at p begins with its data.        *)
LEMMA RestType ==
  ASSUME NEW p \in 0 .. Len(Source) - 1
  PROVE  /\ Rest(p) \in Seq(Bytes)
         /\ Len(Rest(p)) = Len(Source) - p
         /\ \A i \in 1 .. Len(Source) - p : Rest(p)[i] = Source[p + i]
<1> DEFINE last == Len(Source)
           rest == SubSeq(Source, p + 1, last)
<1>1. /\ p + 1 \in Int /\ last \in Int /\ p + 1 <= last
      /\ \A i \in p + 1 .. last : Source[i] \in Bytes
  BY SourceType
<1> HIDE DEF last
<1>2. /\ rest \in Seq(Bytes)
      /\ Len(rest) = last - (p + 1) + 1
      /\ \A i \in 1 .. last - (p + 1) + 1 : rest[i] = Source[p + 1 + i - 1]
  BY <1>1, SubSeqProperties
<1> HIDE DEF rest
<1>3. /\ rest \in Seq(Bytes)
      /\ Len(rest) = last - p
      /\ \A i \in 1 .. last - p : rest[i] = Source[p + i]
  BY <1>1, <1>2
<1> QED  BY <1>3 DEF rest, last, Rest, Segment

LEMMA RestBeginsWithSegment ==
  ASSUME NEW p \in 0 .. Len(Source) - 1
  PROVE  FileRead(Rest(p), 0, Cut[p] - p) = Segment(p, Cut[p])
<1> DEFINE n == Cut[p] - p
           rest == Rest(p)
           data == Segment(p, Cut[p])
           read == SubSeq(rest, 1, n)
<1>1. /\ rest \in Seq(Bytes) /\ Len(rest) = Len(Source) - p
      /\ \A i \in 1 .. Len(Source) - p : rest[i] = Source[p + i]
  BY RestType
<1>2. /\ data \in Seq(Bytes) /\ Len(data) = n
      /\ \A i \in 1 .. n : data[i] = Source[p + i]
  BY SegmentType
<1>3. n \in Nat /\ 1 <= n /\ n <= Len(Source) - p /\ Len(Source) \in Nat
  BY SourceType
<1> HIDE DEF n, rest, data
<1>4. \A i \in 1 .. n : rest[i] \in Bytes
  BY <1>1, <1>3, ElementOfSeq
<1>5. /\ read \in Seq(Bytes) /\ Len(read) = n
      /\ \A i \in 1 .. n : read[i] = rest[i]
  BY <1>3, <1>4, SubSeqProperties
<1> HIDE DEF read
<1>6. read = data
  <2>1. ASSUME NEW i \in 1 .. n PROVE read[i] = data[i]
    <3>1. i \in 1 .. Len(Source) - p
      BY <1>3
    <3> QED  BY <1>1, <1>2, <1>5, <3>1
  <2> QED  BY <1>2, <1>5, <2>1, SeqEqual
<1>7. FileRead(rest, 0, n) = read
  BY <1>1, <1>3 DEF FileRead, read
<1> QED  BY <1>6, <1>7 DEF n, rest, data

(* What the checksum is rebuilt from.                                      *)
LEMMA BeginningType ==
  ASSUME NEW p \in Positions
  PROVE  Segment(0, p) \in Seq(Bytes) /\ Len(Segment(0, p)) = p
<1>1. \A i \in 1 .. p : Source[i] \in Bytes
  BY SourceType DEF Positions
<1>2. p \in Nat
  BY SourceType DEF Positions
<1>3. SubSeq(Source, 1, p) \in Seq(Bytes) /\ Len(SubSeq(Source, 1, p)) = p
  BY <1>1, <1>2, SubSeqProperties
<1> QED  BY <1>3 DEF Segment

(* A write that leaves no gap.                                             *)
LEMMA OverwriteType ==
  ASSUME NEW content \in Seq(Bytes), NEW first \in Nat, NEW data \in Seq(Bytes),
         first <= Len(content)
  PROVE  LET new == Overwrite(content, first, data) IN
         /\ new \in Seq(Bytes)
         /\ Len(new) = IF first + Len(data) < Len(content) THEN Len(content)
                       ELSE first + Len(data)
         /\ \A i \in 1 .. Len(new) :
              new[i] = IF i > first /\ i <= first + Len(data)
                       THEN data[i - first] ELSE content[i]
<1> DEFINE n == IF first + Len(data) < Len(content) THEN Len(content)
                ELSE first + Len(data)
           at(i) == IF i > first /\ i <= first + Len(data)
                    THEN data[i - first] ELSE content[i]
           new == Overwrite(content, first, data)
<1>1. /\ Len(content) \in Nat /\ Len(data) \in Nat /\ n \in Nat
      /\ \A i \in 1 .. Len(content) : content[i] \in Bytes
      /\ \A i \in 1 .. Len(data) : data[i] \in Bytes
  BY LenProperties, ElementOfSeq
<1>2. \A i \in 1 .. n : at(i) \in Bytes
  BY <1>1
<1>3. new = [i \in 1 .. n |-> at(i)]
  BY DEF Overwrite
<1> HIDE DEF n, at, new
<1>4. new \in [1 .. n -> Bytes] /\ DOMAIN new = 1 .. n
  BY <1>2, <1>3
<1>5. new \in Seq(Bytes)
  BY <1>1, <1>4, SeqDef
<1>6. Len(new) = n
  BY <1>1, <1>4, <1>5, LenProperties
<1>7. \A i \in 1 .. n : new[i] = at(i)
  BY <1>3
<1> QED  BY <1>5, <1>6, <1>7 DEF n, at, new
-----------------------------------------------------------------------------
(* Type correctness.  TypeOK is not inductive: that a stored content is a  *)
(* sequence of bytes needs the range of the request to leave no gap, that  *)
(* acked stays in Source needs the request to carry the piece after acked. *)

LEMMA TypeInvInit == Init => TypeInv
<1> SUFFICES ASSUME Init PROVE TypeInv
  OBVIOUS
<1>1. checksum \in Checksum
  <2> PICK outcome \in InitOutcomes : checksum = ChecksumInit(Mode, outcome)
    BY DEF Init
  <2>1. Mode \in Modes /\ outcome \in Outcomes /\ << >> \in Seq(Bytes)
    BY ConstantsAssumption, EmptySeq
  <2> QED  BY <2>1 DEF ChecksumInit, Checksum
<1>2. /\ << >> \in Seq(Bytes) /\ << >> \in Seq(Seq(Bytes))
      /\ Len(objects) = 0
  BY EmptySeq DEF Init
<1>3. acked \in Positions
  BY SourceType DEF Init, Positions
<1> QED  BY <1>1, <1>2, <1>3
         DEF Init, TypeInv, TypeOK, RequestInv, WireInv, IdsInv, Active,
             Stages, Responses, EmptyResponse, Codes, Errors

LEMMA TypeInvBuildRequest ==
  ASSUME TypeInv, NEW body \in Bodies, BuildRequest(body)
  PROVE  TypeInv'
<1> DEFINE data == Segment(acked, Cut[acked])
<1>1. acked \in 0 .. Len(Source) - 1
  BY SourceType DEF TypeInv, TypeOK, BuildRequest, Positions
<1>2. data \in Seq(Bytes)
  BY <1>1, SegmentType
<1>3. NextKind \in Kinds /\ (NextKind # "create" => object_id # 0)
  BY DEF NextKind, Kinds
<1>4. body \in {"array", "file"}
  BY ConstantsAssumption
<1>5. acked \in Nat /\ checksum.offset \in Nat /\ acked < Len(Source)
  BY <1>1, SourceType DEF TypeInv, TypeOK, Checksum
<1>6. request' = [kind |-> NextKind, body |-> body, start |-> acked,
                  data |-> data, range |-> NULL, wschecksum |-> NULL,
                  generate |-> FALSE, file_filter |-> FALSE,
                  base |-> checksum.offset, runs |-> 0, from |-> 0]
  BY DEF BuildRequest
<1>7. file' \in [data: Seq(Bytes), pos: Nat]
  BY <1>1, RestType, EmptySeq DEF BuildRequest
<1> HIDE DEF data
<1>8. /\ request' \in Requests
      /\ request'.start = acked /\ request'.data = data
      /\ request'.kind # "create" => object_id # 0
      /\ request'.range = NULL
  BY <1>2, <1>3, <1>4, <1>5, <1>6 DEF Requests
<1>9. response' \in Responses /\ response' = EmptyResponse
  BY DEF BuildRequest, EmptyResponse, Responses, Codes, Errors
<1>10. TypeOK'
  BY <1>7, <1>8, <1>9
     DEF BuildRequest, TypeInv, TypeOK, Stages, server, caller, bounds
<1>11. RequestInv'
  BY <1>5, <1>8 DEF BuildRequest, RequestInv, server, caller, data, Segment
<1>12. WireInv'
  BY DEF BuildRequest, WireInv
<1>13. IdsInv'
  BY <1>9 DEF BuildRequest, TypeInv, TypeOK, IdsInv, EmptyResponse, server, caller
<1> QED  BY <1>10, <1>11, <1>12, <1>13 DEF TypeInv

LEMMA TypeInvExecute ==
  ASSUME TypeInv, Execute
  PROVE  TypeInv'
<1>1. Active
  BY DEF Execute, Active
<1>2. request' \in Requests
  BY <1>1 DEF Execute, TypeInv, RequestInv, Requests
<1>3. pc' \in Stages /\ pc' # "server"
  BY DEF Execute, FirstFilter, Stages
<1>4. TypeOK'
  BY <1>2, <1>3 DEF Execute, TypeInv, TypeOK, server, caller
<1>5. RequestInv'
  BY <1>1, <1>2
     DEF Execute, TypeInv, RequestInv, Requests, server, caller, RangeOf, Segment
<1>6. WireInv'
  BY <1>3 DEF WireInv
<1>7. IdsInv'
  BY DEF Execute, TypeInv, IdsInv, server, caller
<1> QED  BY <1>4, <1>5, <1>6, <1>7 DEF TypeInv

(* Steps that leave alone what RequestInv says of the request.             *)
LEMMA RequestKept ==
  ASSUME RequestInv, Active, request' \in Requests,
         request'.kind = request.kind, request'.start = request.start,
         request'.data = request.data, request'.range = request.range,
         UNCHANGED caller
  PROVE  RequestInv'
BY DEF RequestInv, caller, RangeOf, Segment

LEMMA TypeInvUpdateObject ==
  ASSUME TypeInv, UpdateObject
  PROVE  TypeInv'
<1> DEFINE range == RangeOf(request)
<1>1. Active /\ request \in Requests
  BY DEF UpdateObject, Active, TypeInv, RequestInv
<1>2. /\ range.first # -1 => request.kind = "append" /\ range \in Ranges
      /\ range = RangeOf(request)
  <2>1. Len(request.data) \in Nat /\ request.start \in Nat
    BY <1>1, LenProperties DEF Requests
  <2> QED  BY <2>1 DEF RangeOf, Ranges
<1> HIDE DEF range
<1>3. /\ request' = [request EXCEPT
                       !.range = IF range.first # -1 THEN range ELSE @]
      /\ request' \in Requests
  BY <1>1, <1>2 DEF UpdateObject, Requests, range
<1>4. RangeOf(request') = RangeOf(request)
  BY <1>1, <1>3 DEF Requests, RangeOf
<1>5. RequestInv'
  BY <1>1, <1>2, <1>3, <1>4
     DEF UpdateObject, TypeInv, RequestInv, Requests, caller, Segment
<1>6. TypeOK'
  BY <1>3 DEF UpdateObject, TypeInv, TypeOK, Stages, server, caller, bounds
<1>7. WireInv'
  BY DEF UpdateObject, WireInv
<1>8. IdsInv'
  BY DEF UpdateObject, TypeInv, IdsInv, server, caller
<1> QED  BY <1>5, <1>6, <1>7, <1>8 DEF TypeInv

(* What the digest of the body leaves is a checksum of the same mode.      *)
LEMMA DigestedType ==
  ASSUME TypeInv, Active, NEW hashed \in BOOLEAN
  PROVE  /\ Digested(hashed) \in Checksum
         /\ Digested(hashed).mode = checksum.mode
         /\ Digested(hashed).status = checksum.status
         /\ Len(checksum.internal_state) <= checksum.offset =>
              Len(Digested(hashed).internal_state) <= Digested(hashed).offset
<1>1. /\ request \in Requests /\ checksum \in Checksum
      /\ file.data \in Seq(Bytes) /\ file.pos \in Nat
  BY DEF TypeInv, TypeOK, RequestInv
<1>2. /\ request.data \in Seq(Bytes) /\ Len(request.data) \in Nat
  BY <1>1, LenProperties DEF Requests
<1>3. FileRead(file.data, file.pos, Len(request.data)) \in Seq(Bytes)
  BY <1>1, <1>2, FileReadType
<1> QED  BY <1>1, <1>2, <1>3, UpdateType DEF Digested, UpdateFile

(* An API error is a response.                                             *)
LEMMA ApiErrorType ==
  ASSUME TypeInv, NEW code \in Errors, ApiError(code)
  PROVE  /\ response' \in Responses
         /\ response'.http_code = 400
         /\ response'.location = response.location
         /\ response'.object_id = response.object_id
<1> DEFINE error == IF request.kind = "create" THEN code
                    ELSE response.atmos_error
<1>1. /\ response' = [response EXCEPT !.http_code = 400, !.atmos_error = error]
      /\ response \in Responses
  BY DEF ApiError, TypeInv, TypeOK
<1>2. error \in Errors
  BY <1>1 DEF Responses
<1> HIDE DEF error
<1>3. PICK e \in Errors :
        response' = [response EXCEPT !.http_code = 400, !.atmos_error = e]
  BY <1>1, <1>2
<1>4. response \in Responses /\ 400 \in Codes
  BY <1>1 DEF Codes
<1>5. response' = [http_code |-> 400, atmos_error |-> e,
                   location |-> response.location,
                   object_id |-> response.object_id,
                   content_checksum |-> response.content_checksum]
  BY ZenonT(60), <1>3, <1>4 DEF Responses
<1>6. /\ response.location \in Nat /\ response.object_id \in Nat
      /\ response.content_checksum \in Seq(Bytes) \cup {NULL}
  BY <1>4 DEF Responses
<1> QED  BY <1>4, <1>5, <1>6 DEF Responses

(* Steps of AtmosFilter_set_write_headers: what they have in common.       *)
LEMMA TypeInvHeaders ==
  ASSUME TypeInv, pc = "set_write_headers", pc' \in Stages \ {"server"},
         checksum' \in Checksum,
         request' \in Requests,
         request'.kind = request.kind, request'.start = request.start,
         request'.data = request.data, request'.range = request.range,
         file' \in [data: Seq(Bytes), pos: Nat],
         response' \in Responses,
         response'.location = response.location,
         response'.object_id = response.object_id,
         faults' \in Nat,
         UNCHANGED <<wire, server, caller, executions>>
  PROVE  TypeInv'
<1>1. RequestInv'
  BY RequestKept DEF Active, TypeInv
<1>2. TypeOK'
  BY DEF TypeInv, TypeOK, server, caller
<1>3. WireInv'
  BY DEF WireInv
<1>4. IdsInv'
  BY DEF TypeInv, IdsInv, server, caller
<1> QED  BY <1>1, <1>2, <1>3, <1>4 DEF TypeInv

(* Those that fail with an API error.                                      *)
LEMMA TypeInvApiError ==
  ASSUME TypeInv, pc = "set_write_headers",
         NEW code \in Errors, ApiError(code),
         checksum' \in Checksum,
         UNCHANGED request,
         file' \in [data: Seq(Bytes), pos: Nat],
         faults' \in Nat,
         UNCHANGED <<wire, server, caller, executions>>
  PROVE  TypeInv'
<1>1. /\ response' \in Responses
      /\ response'.location = response.location
      /\ response'.object_id = response.object_id
  BY ApiErrorType
<1>2. pc' = "returned" /\ "returned" \in Stages \ {"server"}
  BY DEF ApiError, Stages
<1>3. request \in Requests
  BY DEF TypeInv, RequestInv, Active
<1> QED  BY <1>1, <1>2, <1>3, TypeInvHeaders

LEMMA TypeInvSetWriteHeaders ==
  ASSUME TypeInv, SetWriteHeaders
  PROVE  TypeInv'
<1>1. /\ pc = "set_write_headers" /\ Active
      /\ request \in Requests /\ checksum \in Checksum
      /\ file \in [data: Seq(Bytes), pos: Nat]
      /\ response \in Responses /\ faults \in Nat
      /\ UNCHANGED <<wire, server, caller, executions>>
  BY DEF SetWriteHeaders, Active, TypeInv, TypeOK, RequestInv
<1>2. /\ "returned" \in Stages \ {"server"} /\ "send" \in Stages \ {"server"}
      /\ "crashed" \in Stages \ {"server"}
      /\ {FTELL_NOT_SUPPORTED, FSEEK_NOT_SUPPORTED, CHECKSUM_FAILED}
           \subseteq Errors
  BY DEF Stages, Errors
<1>3. \A kind : Fault(kind) => faults' \in Nat
  BY <1>1 DEF Fault
<1>4. CASE FtellFails
  <2>1. ApiError(FTELL_NOT_SUPPORTED) /\ UNCHANGED <<checksum, request, file>>
    BY <1>4 DEF FtellFails
  <2>2. faults' \in Nat
    BY <1>3, <1>4 DEF FtellFails
  <2>3. FTELL_NOT_SUPPORTED \in Errors
    BY <1>2
  <2> QED  BY <1>1, <2>1, <2>2, <2>3, TypeInvApiError
<1>5. CASE FseekFails
  <2>1. /\ ApiError(FSEEK_NOT_SUPPORTED) /\ UNCHANGED request
        /\ checksum' = Digested(TRUE)
        /\ file' = [file EXCEPT !.pos =
                      PosAfterRead(file.data, file.pos, Len(request.data))]
    BY <1>5 DEF FseekFails
  <2>2. faults' \in Nat
    BY <1>3, <1>5 DEF FseekFails
  <2>3. file' \in [data: Seq(Bytes), pos: Nat]
    <3>1. Len(request.data) \in Nat
      BY <1>1, LenProperties DEF Requests
    <3> QED  BY <1>1, <2>1, <3>1, FileReadType
  <2>4. checksum' \in Checksum
    BY <1>1, <2>1, DigestedType
  <2>5. FSEEK_NOT_SUPPORTED \in Errors
    BY <1>2
  <2> QED  BY <1>1, <2>1, <2>2, <2>3, <2>4, <2>5, TypeInvApiError
<1>6. ASSUME NEW hashed \in BOOLEAN, NEW finished \in BOOLEAN,
             SetWsChecksum(hashed, finished), faults' \in Nat
      PROVE  TypeInv'
  <2> DEFINE ck == Digested(hashed)
  <2>1. ck \in Checksum
    BY <1>1, DigestedType
  <2>2. checksum' = ck /\ UNCHANGED file
    BY <1>6 DEF SetWsChecksum
  <2>3. CASE pc' = "crashed" /\ UNCHANGED <<request, response>>
    BY <1>1, <1>2, <1>6, <2>1, <2>2, <2>3, TypeInvHeaders
  <2>4. CASE ApiError(CHECKSUM_FAILED) /\ UNCHANGED request
    <3>1. CHECKSUM_FAILED \in Errors
      BY <1>2
    <3>2. checksum' \in Checksum /\ file' \in [data: Seq(Bytes), pos: Nat]
      BY <1>1, <2>1, <2>2
    <3> HIDE DEF ck
    <3> QED  BY <1>1, <1>6, <2>4, <3>1, <3>2, TypeInvApiError
  <2>5. CASE /\ GetState(ck, finished) # NULL
             /\ request' =
                  [request EXCEPT !.wschecksum = GetState(ck, finished)]
             /\ pc' = "send"
             /\ UNCHANGED response
    <3>1. GetState(ck, finished) \in States
      BY <2>1, <2>5 DEF GetState, GetValue, Checksum, States
    <3>2. /\ request' \in Requests
          /\ request'.kind = request.kind /\ request'.start = request.start
          /\ request'.data = request.data /\ request'.range = request.range
      BY <1>1, <2>5, <3>1 DEF Requests
    <3> QED  BY <1>1, <1>2, <1>6, <2>1, <2>2, <2>5, <3>2, TypeInvHeaders
  <2> QED  BY <1>6, <2>3, <2>4, <2>5 DEF SetWsChecksum
<1>7. ASSUME NEW hashed \in BOOLEAN, SetGenerate(hashed), faults' \in Nat
      PROVE  TypeInv'
  <2>1. /\ request' \in Requests
        /\ request'.kind = request.kind /\ request'.start = request.start
        /\ request'.data = request.data /\ request'.range = request.range
    BY <1>1, <1>7 DEF SetGenerate, Requests
  <2>2. checksum' \in Checksum
    BY <1>1, <1>7, UpdateType DEF SetGenerate, Requests
  <2> QED  BY <1>1, <1>2, <1>7, <2>1, <2>2, TypeInvHeaders DEF SetGenerate
<1>8. ASSUME KeepHeaders, faults' \in Nat
      PROVE  TypeInv'
  BY <1>1, <1>2, <1>8, TypeInvHeaders DEF KeepHeaders
<1>9. UNCHANGED faults => faults' \in Nat
  BY <1>1
<1> QED  BY <1>3, <1>4, <1>5, <1>6, <1>7, <1>8, <1>9 DEF SetWriteHeaders

(* The transfer.                                                           *)

LEMMA BodyBytesType ==
  ASSUME TypeInv, Active
  PROVE  /\ BodyBytes \in Seq(Bytes)
         /\ Len(BodyBytes) \in Nat
         /\ Len(BodyBytes) <= Len(request.data)
<1>1. /\ request \in Requests
      /\ file.data \in Seq(Bytes) /\ file.pos \in Nat
  BY DEF TypeInv, TypeOK, RequestInv
<1>2. /\ request.data \in Seq(Bytes) /\ Len(request.data) \in Nat
  BY <1>1, LenProperties DEF Requests
<1>3. /\ FileRead(file.data, file.pos, Len(request.data)) \in Seq(Bytes)
      /\ Len(FileRead(file.data, file.pos, Len(request.data)))
           <= Len(request.data)
  BY <1>1, <1>2, FileReadType
<1>4. BodyBytes \in Seq(Bytes) /\ Len(BodyBytes) <= Len(request.data)
  BY <1>2, <1>3 DEF BodyBytes
<1> QED  BY <1>4, LenProperties

LEMMA ReadBodyType ==
  ASSUME TypeInv, Active, NEW n \in 0 .. Len(BodyBytes), NEW hashed \in BOOLEAN,
         ReadBody(n, hashed)
  PROVE  /\ file' \in [data: Seq(Bytes), pos: Nat]
         /\ file'.data = file.data
         /\ checksum' \in Checksum
         /\ checksum'.mode = checksum.mode
         /\ checksum'.status = checksum.status
         /\ checksum'.offset >= checksum.offset
         /\ ~request.file_filter => checksum' = checksum
         /\ Len(checksum.internal_state) <= checksum.offset =>
              Len(checksum'.internal_state) <= checksum'.offset
<1> DEFINE bytes == SubSeq(BodyBytes, 1, n)
<1>1. /\ file \in [data: Seq(Bytes), pos: Nat] /\ checksum \in Checksum
      /\ BodyBytes \in Seq(Bytes) /\ Len(BodyBytes) \in Nat
  BY BodyBytesType DEF TypeInv, TypeOK
<1>2. bytes \in Seq(Bytes)
  <2>1. \A i \in 1 .. n : BodyBytes[i] \in Bytes
    BY <1>1, ElementOfSeq
  <2> QED  BY <1>1, <2>1, SubSeqProperties
<1>3. /\ file' = IF request.body = "file" THEN [file EXCEPT !.pos = @ + n]
                 ELSE file
      /\ checksum' = IF request.file_filter THEN Update(checksum, bytes, hashed)
                     ELSE checksum
  BY DEF ReadBody
<1> HIDE DEF bytes
<1>4. n \in Nat
  BY <1>1
<1>5. file' \in [data: Seq(Bytes), pos: Nat] /\ file'.data = file.data
  BY <1>1, <1>3, <1>4
<1>6. checksum.offset >= checksum.offset
  BY <1>1 DEF Checksum
<1> QED  BY <1>1, <1>2, <1>3, <1>5, <1>6, UpdateType

LEMMA TypeInvFileChanges ==
  ASSUME TypeInv, FileChanges
  PROVE  TypeInv'
<1>1. /\ Active /\ request \in Requests
      /\ file \in [data: Seq(Bytes), pos: Nat] /\ faults \in Nat
  BY DEF FileChanges, Active, TypeInv, TypeOK, RequestInv
<1>2. file' \in [data: Seq(Bytes), pos: Nat]
  <2> PICK i \in 1 .. Len(file.data), byte \in Bytes :
             file' = [file EXCEPT !.data[i] = byte]
    BY DEF FileChanges
  <2>1. [file.data EXCEPT ![i] = byte] \in Seq(Bytes)
    BY <1>1, ExceptSeq
  <2> QED  BY <1>1, <2>1
<1>3. faults' \in Nat
  BY <1>1 DEF FileChanges, Fault
<1>4. RequestInv'
  BY <1>1, RequestKept DEF FileChanges, TypeInv, caller
<1>5. TypeOK'
  BY <1>2, <1>3 DEF FileChanges, TypeInv, TypeOK, server, caller
<1>6. WireInv' /\ IdsInv'
  BY DEF FileChanges, TypeInv, WireInv, IdsInv, server, caller
<1> QED  BY <1>4, <1>5, <1>6 DEF TypeInv

(* What Deliver does in each of its cases.                                 *)
LEMMA DeliverCases ==
  ASSUME TypeInv, Deliver
  PROVE  /\ Active /\ faults' \in Nat
         /\ \E hashed \in BOOLEAN : ReadBody(Len(BodyBytes), hashed)
         /\ \E data \in Seq(Bytes) :
              /\ wire' = Received(data)
              /\ Len(data) = Len(BodyBytes)
<1>1. /\ Active /\ faults \in Nat
  BY DEF Deliver, Active, TypeInv, TypeOK
<1>2. BodyBytes \in Seq(Bytes)
  BY <1>1, BodyBytesType
<1>3. \A kind : Fault(kind) => faults' \in Nat
  BY <1>1 DEF Fault
<1>4. ASSUME NEW i \in 1 .. Len(BodyBytes), NEW byte \in Bytes
      PROVE  /\ [BodyBytes EXCEPT ![i] = byte] \in Seq(Bytes)
             /\ Len([BodyBytes EXCEPT ![i] = byte]) = Len(BodyBytes)
  BY <1>2, ExceptSeq
<1> QED  BY <1>1, <1>2, <1>3, <1>4 DEF Deliver

LEMMA TypeInvDeliver ==
  ASSUME TypeInv, Deliver
  PROVE  TypeInv'
<1>1. /\ Active /\ request \in Requests /\ faults' \in Nat
      /\ Len(BodyBytes) \in Nat /\ Len(BodyBytes) <= Len(request.data)
  BY DeliverCases, BodyBytesType DEF TypeInv, RequestInv
<1>2. /\ file' \in [data: Seq(Bytes), pos: Nat]
      /\ checksum' \in Checksum
  <2> PICK hashed \in BOOLEAN : ReadBody(Len(BodyBytes), hashed)
    BY DeliverCases
  <2> QED  BY <1>1, ReadBodyType
<1>3. PICK data \in Seq(Bytes) :
        wire' = Received(data) /\ Len(data) = Len(BodyBytes)
  BY DeliverCases
<1>4. /\ wire' \in Messages
      /\ wire'.kind = request.kind /\ wire'.range = request.range
      /\ wire'.wschecksum = request.wschecksum
      /\ Len(wire'.data) <= Len(request.data)
  BY <1>1, <1>3 DEF Received, Messages, Requests
<1>5. RequestInv'
  BY <1>1, RequestKept DEF Deliver, TypeInv, caller
<1>6. TypeOK'
  BY <1>1, <1>2, <1>4 DEF Deliver, TypeInv, TypeOK, Stages, server, caller
<1>7. WireInv' /\ IdsInv'
  BY <1>4 DEF Deliver, TypeInv, WireInv, IdsInv, server, caller
<1> QED  BY <1>5, <1>6, <1>7 DEF TypeInv

LEMMA TypeInvCutOff ==
  ASSUME TypeInv, CutOff
  PROVE  TypeInv'
<1>1. /\ Active /\ request \in Requests /\ faults \in Nat
  BY DEF CutOff, Active, TypeInv, TypeOK, RequestInv
<1>2. /\ file' \in [data: Seq(Bytes), pos: Nat]
      /\ checksum' \in Checksum
  <2> PICK n \in 0 .. Len(BodyBytes) : ReadBody(n, TRUE)
    BY DEF CutOff
  <2> QED  BY <1>1, ReadBodyType
<1>3. faults' \in Nat
  BY <1>1 DEF CutOff, Fault
<1>4. RequestInv'
  BY <1>1, RequestKept DEF CutOff, TypeInv, caller
<1>5. TypeOK'
  BY <1>2, <1>3 DEF CutOff, TypeInv, TypeOK, Stages, server, caller
<1>6. WireInv' /\ IdsInv'
  BY DEF CutOff, TypeInv, WireInv, IdsInv, server, caller
<1> QED  BY <1>4, <1>5, <1>6 DEF TypeInv

(* The server.                                                             *)

(* A content the server accepts is a sequence of bytes; an append covers   *)
(* exactly the range after what was acknowledged.                          *)
LEMMA ContentType ==
  ASSUME TypeInv, pc = "server", Acceptable(wire)
  PROVE  /\ Content(wire) \in Seq(Bytes)
         /\ wire.range = NULL => Content(wire) = wire.data
         /\ wire.range # NULL =>
              /\ object_id \in 1 .. Len(objects)
              /\ objects[object_id] \in Seq(Bytes)
              /\ wire.range.first = request.start
              /\ Len(wire.data) = Len(request.data)
              /\ request.start <= Len(objects[object_id])
              /\ Content(wire) =
                   Overwrite(objects[object_id], request.start, wire.data)
<1>1. /\ wire \in Messages /\ wire.data \in Seq(Bytes)
      /\ wire.range = request.range /\ wire.kind = request.kind
      /\ Active /\ request \in Requests
      /\ objects \in Seq(Seq(Bytes)) /\ object_id \in 0 .. Len(objects)
  BY DEF TypeInv, TypeOK, WireInv, RequestInv, IdsInv, Active, Messages
<1>2. CASE wire.range = NULL
  BY <1>1, <1>2 DEF Content
<1>3. CASE wire.range # NULL
  <2>1. request.kind = "append" /\ wire.range = RangeOf(request)
        /\ object_id # 0
    BY <1>1, <1>3 DEF TypeInv, RequestInv
  <2>2. object_id \in 1 .. Len(objects)
    BY <1>1, <2>1, LenProperties
  <2>3. objects[object_id] \in Seq(Bytes)
    BY <1>1, <2>2, ElementOfSeq
  <2>4. /\ request.start \in Nat /\ Len(request.data) \in Nat
        /\ Len(wire.data) \in Nat
    BY <1>1, LenProperties DEF Requests
  <2>5. /\ wire.range.first = request.start
        /\ wire.range.last = request.start + Len(request.data) - 1
    BY <2>1 DEF RangeOf
  <2>6. /\ wire.range.last - wire.range.first + 1 = Len(wire.data)
        /\ wire.range.first <= Len(objects[object_id])
    BY <1>3 DEF Acceptable
  <2>7. Len(wire.data) = Len(request.data)
    BY <2>4, <2>5, <2>6
  <2>8. Content(wire) =
          Overwrite(objects[object_id], request.start, wire.data)
    BY <1>3, <2>5 DEF Content
  <2>9. Content(wire) \in Seq(Bytes)
    BY <1>1, <2>3, <2>4, <2>5, <2>6, <2>8, OverwriteType
  <2> QED  BY <1>3, <2>2, <2>3, <2>5, <2>6, <2>7, <2>8, <2>9
<1> QED  BY <1>2, <1>3

(* What ServerStores does to the objects.                                  *)
LEMMA StoresObjects ==
  ASSUME TypeInv, ServerStores
  PROVE  /\ objects' \in Seq(Seq(Bytes))
         /\ wire.kind = "create" =>
              /\ Len(objects') = Len(objects) + 1
              /\ objects'[Len(objects) + 1] = Content(wire)
              /\ \A i \in 1 .. Len(objects) : objects'[i] = objects[i]
         /\ wire.kind # "create" =>
              /\ object_id \in 1 .. Len(objects)
              /\ Len(objects') = Len(objects)
              /\ objects'[object_id] = Content(wire)
              /\ \A i \in 1 .. Len(objects) : i # object_id =>
                   objects'[i] = objects[i]
<1>1. /\ objects \in Seq(Seq(Bytes)) /\ Len(objects) \in Nat
      /\ object_id \in 0 .. Len(objects)
      /\ wire.kind = request.kind /\ Content(wire) \in Seq(Bytes)
      /\ request.kind # "create" => object_id # 0
  BY ContentType, LenProperties
     DEF ServerStores, TypeInv, TypeOK, WireInv, RequestInv, IdsInv, Active
<1>2. CASE wire.kind = "create"
  <2>1. objects' = Append(objects, Content(wire))
    BY <1>2 DEF ServerStores
  <2> QED  BY <1>1, <1>2, <2>1, AppendProperties
<1>3. CASE wire.kind # "create"
  <2>1. objects' = [objects EXCEPT ![object_id] = Content(wire)]
    BY <1>3 DEF ServerStores
  <2>2. object_id \in 1 .. Len(objects)
    BY <1>1, <1>3
  <2> QED  BY <1>1, <1>3, <2>1, <2>2, ExceptSeq
<1> QED  BY <1>2, <1>3

LEMMA TypeInvServerStores ==
  ASSUME TypeInv, ServerStores
  PROVE  TypeInv'
<1>1. /\ Active /\ request \in Requests /\ response \in Responses
      /\ objects \in Seq(Seq(Bytes)) /\ Len(objects) \in Nat
      /\ Content(wire) \in Seq(Bytes)
  BY ContentType, LenProperties
     DEF ServerStores, TypeInv, TypeOK, RequestInv, Active
<1>2. objects' \in Seq(Seq(Bytes))
  BY StoresObjects
<1>3. Len(objects) <= Len(objects') /\ Len(objects') \in Nat
  BY <1>1, StoresObjects
<1> DEFINE sum == IF wire.generate THEN Content(wire) ELSE NULL
<1>4. sum \in Seq(Bytes) \cup {NULL}
  BY <1>1
<1>5. /\ response' \in Responses
      /\ response'.object_id = response.object_id
      /\ response'.location \in 0 .. Len(objects')
  <2>1. CASE wire.kind = "create"
    <3>1. Len(objects') = Len(objects) + 1 /\ Len(objects) + 1 \in Nat
      BY <1>1, <2>1, StoresObjects
    <3>2. response' = [response EXCEPT !.http_code = 201,
                         !.location = Len(objects) + 1,
                         !.content_checksum = sum]
      BY <2>1 DEF ServerStores
    <3>3. response \in Responses /\ 201 \in Codes
      BY <1>1 DEF Codes
    <3> DEFINE oid == Len(objects) + 1
               served == [response EXCEPT !.http_code = 201, !.location = oid,
                            !.content_checksum = sum]
    <3>4. oid \in Nat /\ response' = served
      BY <3>1, <3>2
    <3> HIDE DEF sum, oid
    <3>5. served \in Responses
      BY <1>4, <3>3, <3>4 DEF Responses
    <3>6. served.object_id = response.object_id /\ served.location = oid
      BY <3>3 DEF Responses
    <3>7. oid \in 0 .. Len(objects')
      BY <3>1, <3>4 DEF oid
    <3> QED  BY <3>4, <3>5, <3>6, <3>7
  <2>2. CASE wire.kind # "create"
    <3>1. response' = [response EXCEPT !.http_code = 200,
                         !.content_checksum = sum]
      BY <2>2 DEF ServerStores
    <3>2. response.location \in 0 .. Len(objects)
      BY DEF TypeInv, IdsInv
    <3>3. response \in Responses
      BY <1>1
    <3> DEFINE served == [response EXCEPT !.http_code = 200,
                            !.content_checksum = sum]
    <3>4. 200 \in Codes
      BY DEF Codes
    <3> HIDE DEF sum
    <3>5. served \in Responses
      BY <1>4, <3>3, <3>4 DEF Responses
    <3>6. /\ served.object_id = response.object_id
          /\ served.location = response.location
      BY <3>3 DEF Responses
    <3>7. response.location \in 0 .. Len(objects')
      BY <1>1, <1>3, <3>2
    <3> QED  BY <3>1, <3>5, <3>6, <3>7
  <2> QED  BY <2>1, <2>2
<1>6. RequestInv'
  BY <1>1, RequestKept DEF ServerStores, TypeInv, caller
<1>7. TypeOK'
  BY <1>2, <1>5 DEF ServerStores, TypeInv, TypeOK, Stages, caller, bounds
<1>8. WireInv'
  BY DEF ServerStores, WireInv
<1>9. IdsInv'
  BY <1>1, <1>3, <1>5 DEF ServerStores, TypeInv, IdsInv, caller
<1> QED  BY <1>6, <1>7, <1>8, <1>9 DEF TypeInv

(* Steps that change nothing but the stage, the response and the faults,   *)
(* and drop what was on the wire.                                          *)
LEMMA TypeInvResponse ==
  ASSUME TypeInv, Active, pc' \in Stages \ {"server", "idle", "done"},
         response' \in Responses,
         response'.location \in 0 .. Len(objects),
         response'.object_id \in 0 .. Len(objects),
         faults' \in Nat,
         UNCHANGED <<checksum, request, file, wire, server, caller, executions>>
  PROVE  TypeInv'
<1>1. request \in Requests
  BY DEF TypeInv, RequestInv
<1>2. RequestInv'
  BY <1>1, RequestKept DEF TypeInv
<1>3. TypeOK'
  BY DEF TypeInv, TypeOK, server, caller
<1>4. WireInv' /\ IdsInv'
  BY DEF TypeInv, WireInv, IdsInv, server, caller
<1> QED  BY <1>2, <1>3, <1>4 DEF TypeInv

LEMMA TypeInvReplies ==
  ASSUME TypeInv,
         ServerRejects \/ ServerRefuses \/ Reply \/ LoseReply \/ VerifyCrashes
  PROVE  TypeInv'
<1>1. /\ response \in Responses /\ faults \in Nat
      /\ response.location \in 0 .. Len(objects)
      /\ response.object_id \in 0 .. Len(objects)
      /\ Len(objects) \in Nat
  BY LenProperties DEF TypeInv, TypeOK, IdsInv
<1>2. \A kind : Fault(kind) => faults' \in Nat
  BY <1>1 DEF Fault
<1>3. /\ Active
      /\ pc' \in Stages \ {"server", "idle", "done"}
      /\ faults' \in Nat
      /\ UNCHANGED <<checksum, request, file, wire, server, caller, executions>>
  BY <1>1, <1>2
     DEF ServerRejects, ServerRefuses, Reply, LoseReply, VerifyCrashes, Active,
         Stages, bounds
<1>4. /\ response' \in Responses
      /\ response'.location \in 0 .. Len(objects)
      /\ response'.object_id \in 0 .. Len(objects)
  <2>1. \A code \in Codes :
          /\ [response EXCEPT !.http_code = code] \in Responses
          /\ [response EXCEPT !.http_code = code].location = response.location
          /\ [response EXCEPT !.http_code = code].object_id = response.object_id
    BY <1>1 DEF Responses
  <2>2. /\ EmptyResponse \in Responses
        /\ EmptyResponse.location = 0 /\ EmptyResponse.object_id = 0
    BY DEF EmptyResponse, Responses, Codes, Errors
  <2>3. 400 \in Codes /\ 500 \in Codes
    BY DEF Codes
  <2>4. CASE response' = response
    BY <1>1, <2>4
  <2>5. CASE response' = EmptyResponse
    BY <1>1, <2>2, <2>5
  <2>6. CASE \E code \in {400, 500} :
               response' = [response EXCEPT !.http_code = code]
    BY <1>1, <2>1, <2>3, <2>6
  <2> QED  BY <2>4, <2>5, <2>6
           DEF ServerRejects, ServerRefuses, Reply, LoseReply, VerifyCrashes
<1> QED  BY <1>3, <1>4, TypeInvResponse

LEMMA TypeInvUnwind ==
  ASSUME TypeInv, Unwind
  PROVE  TypeInv'
<1>1. /\ Active /\ response \in Responses /\ faults \in Nat
      /\ response.location \in 0 .. Len(objects)
      /\ response.object_id \in 0 .. Len(objects)
  BY DEF Unwind, Active, TypeInv, TypeOK, IdsInv
<1>2. PICK resp \in ParsedError(response) : response' = ParsedCreate(resp)
  BY DEF Unwind
<1>3. /\ resp \in Responses
      /\ resp.location = response.location
      /\ resp.object_id = response.object_id
  BY <1>1, <1>2 DEF ParsedError, Responses, Errors
<1>4. /\ response' \in Responses
      /\ response'.location \in 0 .. Len(objects)
      /\ response'.object_id \in 0 .. Len(objects)
  BY <1>1, <1>2, <1>3 DEF ParsedCreate, Responses
<1>5. /\ pc' \in Stages \ {"server", "idle", "done"} /\ faults' \in Nat
      /\ UNCHANGED <<checksum, request, file, wire, server, caller, executions>>
  BY <1>1 DEF Unwind, Stages, bounds
<1> QED  BY <1>1, <1>4, <1>5, TypeInvResponse

(* The caller.                                                             *)

LEMMA KnownIdType ==
  ASSUME TypeInv
  PROVE  /\ KnownId \in 0 .. Len(objects)
         /\ object_id # 0 => KnownId # 0
BY DEF TypeInv, IdsInv, KnownId

LEMMA TypeInvAccept ==
  ASSUME TypeInv, Accept
  PROVE  TypeInv'
<1>1. /\ Active /\ acked \in 0 .. Len(Source) - 1 /\ request.start = acked
      /\ request.data = Segment(acked, Cut[acked])
  BY SourceType DEF Accept, Active, TypeInv, TypeOK, RequestInv, Positions
<1>2. acked' \in Positions
  BY <1>1, SegmentType, SourceType DEF Accept, Positions
<1>3. /\ request' = NULL /\ pc' \in {"done", "idle"}
      /\ object_id' = KnownId /\ UNCHANGED objects
  BY DEF Accept, server
<1>4. TypeOK'
  BY <1>2, <1>3, KnownIdType
     DEF Accept, TypeInv, TypeOK, Stages, server, bounds
<1>5. RequestInv' /\ WireInv'
  BY <1>3 DEF RequestInv, WireInv, Active
<1>6. IdsInv'
  BY <1>3, KnownIdType DEF Accept, TypeInv, IdsInv
<1> QED  BY <1>4, <1>5, <1>6 DEF TypeInv

LEMMA TypeInvRetry ==
  ASSUME TypeInv, NEW policy, Retry(policy)
  PROVE  TypeInv'
<1>1. /\ Active /\ request \in Requests /\ response \in Responses
      /\ acked \in Positions /\ acked < Len(Source)
      /\ Len(objects) \in Nat
      /\ file \in [data: Seq(Bytes), pos: Nat]
      /\ request.kind # "create" => object_id # 0
  BY LenProperties DEF Retry, Active, TypeInv, TypeOK, RequestInv
<1>2. /\ object_id' = KnownId /\ UNCHANGED <<acked, objects>>
      /\ wire' = NULL /\ faults' \in Nat
  <2>1. Failed
    BY DEF Retry
  <2>2. faults' \in {faults, faults + 1} /\ faults \in Nat
    BY <2>1 DEF Failed, Fault, TypeInv, TypeOK
  <2>3. faults' \in Nat
    BY <2>2
  <2> QED  BY <2>3 DEF Retry, server
<1>3. CASE policy \in {"reuse", "rebuild"}
  <2>1. /\ pc' = "idle" /\ request' = NULL
        /\ UNCHANGED <<file, response, executions>>
    BY <1>3 DEF Retry
  <2>2. checksum' \in Checksum
    <3>1. CASE policy = "reuse"
      BY <3>1 DEF Retry, TypeInv, TypeOK
    <3>2. CASE policy = "rebuild"
      <4>1. PICK outcome \in InitOutcomes :
              checksum' = Update(ChecksumInit(Mode, outcome),
                                 Segment(0, acked), TRUE)
        BY <3>2 DEF Retry
      <4>2. ChecksumInit(Mode, outcome) \in Checksum
        BY ConstantsAssumption, EmptySeq DEF ChecksumInit, Checksum
      <4> QED  BY <1>1, <4>1, <4>2, BeginningType, UpdateType
    <3> QED  BY <1>3, <3>1, <3>2
  <2>3. TypeOK'
    BY <1>2, <2>1, <2>2, KnownIdType DEF TypeInv, TypeOK, Stages
  <2>4. RequestInv' /\ WireInv'
    BY <2>1 DEF RequestInv, WireInv, Active
  <2>5. IdsInv'
    BY <1>2, <2>1, KnownIdType DEF TypeInv, IdsInv
  <2> QED  BY <2>3, <2>4, <2>5 DEF TypeInv
<1>4. CASE policy \in {"reexecute", "rewind"}
  <2>1. /\ pc' = FirstFilter(request.kind)
        /\ request' = [request EXCEPT !.runs = @ + 1, !.from = file'.pos]
        /\ executions' = executions + 1
        /\ file' = IF policy = "rewind" THEN [file EXCEPT !.pos = 0] ELSE file
        /\ response' = EmptyResponse
        /\ UNCHANGED checksum
    BY <1>4 DEF Retry
  <2>2. pc' \in {"set_write_headers", "update_object"}
    BY <2>1 DEF FirstFilter
  <2>3. file' \in [data: Seq(Bytes), pos: Nat]
    BY <1>1, <2>1
  <2>4. request' \in Requests
    <3> DEFINE runs == request.runs + 1
               from == file'.pos
    <3>1. /\ request \in Requests /\ from \in Nat /\ runs \in Nat
          /\ request' = [request EXCEPT !.runs = runs, !.from = from]
      BY <1>1, <2>1, <2>3 DEF Requests
    <3> HIDE DEF runs, from
    <3> QED  BY <3>1 DEF Requests
  <2>5. RequestInv'
    BY <1>1, <1>2, <2>1, <2>4, KnownIdType
       DEF TypeInv, RequestInv, Requests, RangeOf, Segment
  <2>6. response' \in Responses /\ IdsInv'
    BY <1>1, <1>2, <2>1, KnownIdType
       DEF EmptyResponse, Responses, Codes, Errors, IdsInv
  <2>7. TypeOK'
    BY <1>1, <1>2, <2>1, <2>2, <2>3, <2>4, <2>6, KnownIdType
       DEF TypeInv, TypeOK, Stages
  <2>8. WireInv'
    BY <2>2 DEF WireInv
  <2> QED  BY <2>5, <2>6, <2>7, <2>8 DEF TypeInv
<1> QED  BY <1>3, <1>4 DEF Retry

LEMMA TypeInvNext == TypeInv /\ [Next]_vars => TypeInv'
<1> SUFFICES ASSUME TypeInv, [Next]_vars PROVE TypeInv'
  OBVIOUS
<1>1. CASE UNCHANGED vars
  BY <1>1
     DEF vars, TypeInv, TypeOK, RequestInv, WireInv, IdsInv, Active, RangeOf,
         Segment
<1>2. CASE ClientStep
  BY <1>2, TypeInvBuildRequest, TypeInvExecute, TypeInvUpdateObject,
     TypeInvSetWriteHeaders, TypeInvDeliver, TypeInvUnwind, TypeInvReplies,
     TypeInvAccept, TypeInvRetry
     DEF ClientStep
<1>3. CASE ServerStep
  BY <1>3, TypeInvServerStores, TypeInvReplies DEF ServerStep
<1>4. CASE Environment
  BY <1>4, TypeInvFileChanges, TypeInvCutOff, TypeInvReplies DEF Environment
<1> QED  BY <1>1, <1>2, <1>3, <1>4 DEF Next

(* Type correctness, for every Source, Cut, mode, fault and policy.        *)
THEOREM TypeCorrect == Spec => []TypeOK
<1>1. Init => TypeInv
  BY TypeInvInit
<1>2. TypeInv /\ [Next]_vars => TypeInv'
  BY TypeInvNext
<1>3. TypeInv => TypeOK
  BY DEF TypeInv
<1> QED  BY <1>1, <1>2, <1>3, PTL DEF Spec

-----------------------------------------------------------------------------
(* Facts of a state in which a request is active.                          *)

(* The request carries the piece of Source from acked to Cut[acked].       *)
LEMMA ActiveFacts ==
  ASSUME TypeInv, Active
  PROVE  /\ request \in Requests
         /\ acked \in 0 .. Len(Source) - 1
         /\ Cut[acked] \in 1 .. Len(Source) /\ acked < Cut[acked]
         /\ request.start = acked
         /\ request.data \in Seq(Bytes)
         /\ Len(request.data) = Cut[acked] - acked
         /\ \A i \in 1 .. Cut[acked] - acked :
              request.data[i] = Source[acked + i]
<1>1. /\ request \in Requests /\ acked \in 0 .. Len(Source) - 1
      /\ request.start = acked
      /\ request.data = Segment(acked, Cut[acked])
  BY SourceType DEF TypeInv, TypeOK, RequestInv, Positions
<1> QED  BY <1>1, SourceType, SegmentType

(* The crux: a content that the server accepts under a wschecksum is the   *)
(* beginning of Source up to the end of the piece in flight.  The header   *)
(* describes the content, so its digest is complete; the content has the   *)
(* length the object should have, so the digest ends in the body of the    *)
(* request; and what precedes the body was there before.                   *)
LEMMA AcceptedIsPrefix ==
  ASSUME Mode = WSCHECKSUM, TypeInv, WsInv, pc = "server", Acceptable(wire)
  PROVE  /\ Len(Content(wire)) = Cut[acked]
         /\ \A i \in 1 .. Cut[acked] : Content(wire)[i] = Source[i]
<1> DEFINE content == Content(wire)
           data == request.data
           n == Cut[acked] - acked
<1>1. /\ Active
      /\ content \in Seq(Bytes) /\ Len(content) \in Nat
      /\ wire \in Messages /\ wire.data \in Seq(Bytes)
      /\ Len(wire.data) \in Nat /\ Len(wire.data) <= Len(data)
      /\ wire.range = request.range
      /\ wire.wschecksum = request.wschecksum
  BY ContentType, LenProperties DEF Active, TypeInv, WireInv, Messages
<1>2. /\ acked \in 0 .. Len(Source) - 1 /\ n \in Nat \ {0}
      /\ Cut[acked] \in 1 .. Len(Source) /\ acked < Cut[acked]
      /\ Len(data) = n /\ request.start = acked
      /\ \A i \in 1 .. n : data[i] = Source[acked + i]
  BY <1>1, ActiveFacts, SourceType
<1>3. /\ Len(content) >= Cut[acked]
      /\ Len(content) = Cut[acked] => EndsWith(content, data)
  <2>1. request.wschecksum # NULL
    BY <1>1 DEF WsInv, HeaderInv
  <2>2. request.wschecksum = [offset |-> Len(content), value |-> content]
    BY <1>1, <2>1 DEF Acceptable
  <2>3. /\ request.wschecksum.offset = Len(content)
        /\ request.wschecksum.value = content
    BY <2>2
  <2> QED  BY <1>1, <2>1, <2>3 DEF WsInv, HeaderInv, EndsInBody
<1>4. ASSUME Len(content) = Cut[acked]
      PROVE  \A i \in 1 .. n : content[Cut[acked] - n + i] = Source[acked + i]
  <2>1. EndsWith(content, data)
    BY <1>3, <1>4
  <2> HIDE DEF content, data, n
  <2> QED  BY <1>2, <1>4, <2>1 DEF EndsWith
<1>5. CASE request.kind = "create"
  <2>1. request.range = NULL /\ object_id = 0 /\ acked = 0
    BY <1>1, <1>5 DEF TypeInv, RequestInv, WsInv, HeaderInv, ObjectInv
  <2>2. content = wire.data
    BY <1>1, <2>1, ContentType
  <2>3. Len(content) <= n /\ n = Cut[acked]
    BY <1>1, <1>2, <2>1, <2>2
  <2> HIDE DEF content, data, n
  <2>4. Len(content) = Cut[acked]
    <3>1. Len(content) \in Nat /\ n \in Nat /\ Len(content) >= n
      BY <1>1, <1>2, <1>3, <2>3
    <3> QED  BY <2>3, <3>1
  <2>5. ASSUME NEW i \in 1 .. Cut[acked] PROVE content[i] = Source[i]
    <3>1. i \in 1 .. n /\ Cut[acked] - n + i = i /\ acked + i = i
      BY <1>2, <2>1, <2>3
    <3> QED  BY <1>4, <2>4, <3>1
  <2> QED  BY <2>4, <2>5 DEF content
<1>6. CASE request.kind # "create"
  <2>1. request.kind = "append" /\ object_id # 0 /\ request.range # NULL
    BY <1>1, <1>6 DEF TypeInv, RequestInv, WsInv, HeaderInv
  <2> DEFINE old == objects[object_id]
  <2>2. /\ object_id \in 1 .. Len(objects)
        /\ old \in Seq(Bytes) /\ Len(old) \in Nat
        /\ Len(wire.data) = n
        /\ acked <= Len(old)
        /\ content = Overwrite(old, acked, wire.data)
    BY <1>1, <1>2, <2>1, ContentType, LenProperties
  <2>3. Len(old) \in {acked, Cut[acked]}
    BY <2>1 DEF WsInv, ObjectInv
  <2>4. \A i \in 1 .. Len(old) : old[i] = Source[i]
    BY <2>2 DEF WsInv, StoredIsPrefix
  <2> HIDE DEF content, data, n, old
  <2>5. /\ Len(content) = IF acked + n < Len(old) THEN Len(old) ELSE acked + n
        /\ \A i \in 1 .. Len(content) :
             content[i] = IF i > acked /\ i <= acked + n
                          THEN wire.data[i - acked] ELSE old[i]
    <3>1. acked \in Nat /\ wire.data \in Seq(Bytes) /\ old \in Seq(Bytes)
      BY <1>1, <1>2, <2>2
    <3>2. LET new == Overwrite(old, acked, wire.data) IN
            /\ Len(new) = IF acked + Len(wire.data) < Len(old) THEN Len(old)
                          ELSE acked + Len(wire.data)
            /\ \A i \in 1 .. Len(new) :
                 new[i] = IF i > acked /\ i <= acked + Len(wire.data)
                          THEN wire.data[i - acked] ELSE old[i]
      BY <2>2, <3>1, OverwriteType
    <3> QED  BY <2>2, <3>2
  <2>6. Len(content) = Cut[acked] /\ Cut[acked] = acked + n
    BY <1>2, <2>3, <2>5 DEF n
  <2>7. ASSUME NEW i \in 1 .. Cut[acked] PROVE content[i] = Source[i]
    <3>1. CASE i <= acked
      <4>1. /\ i \in 1 .. Len(content) /\ i \in 1 .. Len(old)
            /\ ~(i > acked)
        BY <1>2, <2>2, <2>6, <3>1
      <4>2. content[i] = old[i]
        BY <2>5, <4>1
      <4> QED  BY <2>4, <4>1, <4>2
    <3>2. CASE i > acked
      <4>1. i - acked \in 1 .. n /\ Cut[acked] - n + (i - acked) = i
            /\ acked + (i - acked) = i
        BY <1>2, <2>6, <3>2
      <4> QED  BY <1>4, <2>6, <4>1
    <3> QED  BY <1>2, <3>1, <3>2
  <2> QED  BY <2>6, <2>7 DEF content
<1> QED  BY <1>5, <1>6

-----------------------------------------------------------------------------
(* Preservation of WsInv.                                                  *)

LEMMA WsInvInit == Init /\ Mode = WSCHECKSUM => WsInv
<1> SUFFICES ASSUME Init, Mode = WSCHECKSUM PROVE WsInv
  OBVIOUS
<1>1. /\ objects = << >> /\ Len(objects) = 0
      /\ object_id = 0 /\ acked = 0 /\ pc = "idle"
  BY EmptySeq DEF Init
<1>2. PICK outcome \in InitOutcomes : checksum = ChecksumInit(Mode, outcome)
  BY DEF Init
<1>3. /\ checksum.mode = WSCHECKSUM
      /\ checksum.internal_state = << >> /\ checksum.offset = 0
  BY <1>2 DEF ChecksumInit
<1>4. DigestInv
  BY <1>3, EmptySeq DEF DigestInv
<1>5. StoredIsPrefix /\ ObjectInv
  BY <1>1 DEF StoredIsPrefix, ObjectInv
<1>6. HeaderInv /\ FileInv /\ ResponseInv
  BY <1>1, <1>3
     DEF Init, HeaderInv, FileInv, ResponseInv, Active, KnownId, EmptyResponse
<1> QED  BY <1>4, <1>5, <1>6 DEF WsInv

(* Steps of the client and the transfer that leave the server alone.       *)
LEMMA StoreKept ==
  ASSUME WsInv, UNCHANGED <<objects, object_id, acked>>
  PROVE  StoredIsPrefix' /\ ObjectInv'
BY DEF WsInv, StoredIsPrefix, ObjectInv

LEMMA WsInvBuildRequest ==
  ASSUME Mode = WSCHECKSUM, TypeInv, WsInv, NEW body, BuildRequest(body)
  PROVE  WsInv'
<1>1. StoredIsPrefix' /\ ObjectInv'
  BY StoreKept DEF BuildRequest, server, caller
<1>2. DigestInv'
  BY DEF BuildRequest, WsInv, DigestInv
<1>3. ResponseInv'
  BY DEF BuildRequest, ResponseInv
<1> DEFINE data == Segment(acked, Cut[acked])
<1>4. /\ request' = [kind |-> NextKind, body |-> body, start |-> acked,
                     data |-> data, range |-> NULL, wschecksum |-> NULL,
                     generate |-> FALSE, file_filter |-> FALSE,
                     base |-> checksum.offset, runs |-> 0, from |-> 0]
      /\ file' = [data |-> IF body = "file" THEN Rest(acked) ELSE << >>,
                  pos |-> 0]
      /\ pc' = "built" /\ UNCHANGED <<checksum, object_id, acked>>
  BY DEF BuildRequest, caller
<1>5. NextKind = IF object_id = 0 THEN "create" ELSE "append"
  BY DEF NextKind, WSCHECKSUM, GENERATE_CHECKSUM
<1> HIDE DEF data
<1>6. HeaderInv'
  BY <1>4, <1>5 DEF HeaderInv, WsInv
<1>7. FileInv'
  BY <1>4 DEF FileInv, WsInv, Active, Rest, Segment
<1> QED  BY <1>1, <1>2, <1>3, <1>6, <1>7 DEF WsInv

(* Steps that leave alone what HeaderInv and FileInv compare.              *)
LEMMA FileInvKept ==
  ASSUME WsInv, Active, UNCHANGED <<checksum, file, acked, object_id>>,
         request'.body = request.body, request'.data = request.data,
         request'.wschecksum = request.wschecksum
  PROVE  FileInv'
BY DEF WsInv, FileInv, EndsInBody, Active, Rest, Segment

LEMMA WsInvExecute ==
  ASSUME Mode = WSCHECKSUM, TypeInv, WsInv, Execute
  PROVE  WsInv'
<1>1. StoredIsPrefix' /\ ObjectInv'
  BY StoreKept DEF Execute, server, caller
<1>2. DigestInv'
  BY DEF Execute, WsInv, DigestInv
<1>3. /\ Active /\ request \in Requests /\ pc = "built"
      /\ request' = [request EXCEPT !.runs = @ + 1]
      /\ pc' = FirstFilter(request.kind)
      /\ UNCHANGED <<checksum, file, response, objects, object_id, acked>>
  BY DEF Execute, Active, TypeInv, RequestInv, server, caller
<1>4. /\ request'.kind = request.kind /\ request'.body = request.body
      /\ request'.data = request.data /\ request'.range = request.range
      /\ request'.wschecksum = request.wschecksum
  BY <1>3 DEF Requests
<1>5. pc' = IF request.kind = "create" THEN "set_write_headers"
            ELSE "update_object"
  BY <1>3 DEF FirstFilter
<1>6. HeaderInv'
  BY <1>3, <1>4, <1>5 DEF WsInv, HeaderInv, EndsInBody, Active
<1>7. FileInv'
  BY <1>3, <1>4, FileInvKept
<1>8. ResponseInv'
  BY <1>3, <1>5 DEF WsInv, ResponseInv
<1> QED  BY <1>1, <1>2, <1>6, <1>7, <1>8 DEF WsInv

LEMMA WsInvUpdateObject ==
  ASSUME Mode = WSCHECKSUM, TypeInv, WsInv, UpdateObject
  PROVE  WsInv'
<1>1. StoredIsPrefix' /\ ObjectInv'
  BY StoreKept DEF UpdateObject, server, caller
<1>2. DigestInv'
  BY DEF UpdateObject, WsInv, DigestInv
<1> DEFINE range == RangeOf(request)
<1>3. /\ Active /\ request \in Requests /\ pc = "update_object"
      /\ request' = [request EXCEPT
                       !.range = IF range.first # -1 THEN range ELSE @]
      /\ pc' = "set_write_headers"
      /\ UNCHANGED <<checksum, file, response, objects, object_id, acked>>
  BY DEF UpdateObject, Active, TypeInv, RequestInv, server, caller
<1>4. request.kind = "append" => range.first # -1 /\ range # NULL
  <2>1. Len(request.data) \in Nat /\ request.start \in Nat
    BY <1>3, LenProperties DEF Requests
  <2>2. request.kind = "append" => range \in Ranges
    BY <2>1 DEF RangeOf, Ranges
  <2>3. request.kind = "append" => range.first = request.start
    BY DEF RangeOf
  <2> HIDE DEF range
  <2> QED  BY <2>1, <2>2, <2>3, NullAssumption
<1> HIDE DEF range
<1>5. /\ request'.kind = request.kind /\ request'.body = request.body
      /\ request'.data = request.data
      /\ request'.wschecksum = request.wschecksum
      /\ request'.range = IF range.first # -1 THEN range ELSE request.range
  BY <1>3 DEF Requests
<1>6. HeaderInv'
  BY <1>3, <1>4, <1>5 DEF WsInv, HeaderInv, EndsInBody, Active
<1>7. FileInv'
  BY <1>3, <1>5, FileInvKept
<1>8. ResponseInv'
  BY <1>3 DEF WsInv, ResponseInv
<1> QED  BY <1>1, <1>2, <1>6, <1>7, <1>8 DEF WsInv

(* What digesting the body leaves in a usable checksum: it is ahead of     *)
(* what the object will hold, unless the body was digested whole and last. *)
LEMMA DigestOfBody ==
  ASSUME Mode = WSCHECKSUM, TypeInv, WsInv, pc = "set_write_headers",
         request.wschecksum = NULL, checksum.status = "ready",
         NEW hashed \in BOOLEAN
  PROVE  LET ck  == Digested(hashed)
             end == PosAfterRead(file.data, file.pos, Len(request.data)) IN
         /\ ck.status = "ready"
         /\ ck.offset >= Cut[acked]
         /\ ck.offset >= acked
         /\ EndsInBody(ck.internal_state, ck.offset)
         /\ request.body = "file" =>
              /\ end >= Len(request.data)
              /\ ck.offset >= acked + end
              /\ file.pos = 0 \/ (/\ file.pos >= Len(request.data)
                                  /\ ck.offset >= acked + file.pos)
<1> DEFINE n == Len(request.data)
           pos == file.pos
           cut == Cut[acked]
           read == FileRead(file.data, file.pos, Len(request.data))
           end == PosAfterRead(file.data, file.pos, Len(request.data))
           off == checksum.offset
           old == checksum.internal_state
<1>1. /\ Active /\ request \in Requests /\ checksum \in Checksum
      /\ file \in [data: Seq(Bytes), pos: Nat]
      /\ Len(old) <= off
      /\ off >= acked
  BY DEF Active, TypeInv, TypeOK, RequestInv, WsInv, DigestInv, FileInv
<1>2. /\ request.data \in Seq(Bytes) /\ n \in Nat \ {0}
      /\ acked \in 0 .. Len(Source) - 1 /\ acked \in Nat
      /\ cut \in Nat /\ cut = acked + n
  BY <1>1, ActiveFacts, SourceType
<1>3. /\ old \in Seq(Bytes) /\ Len(old) \in Nat /\ off \in Nat /\ pos \in Nat
  BY <1>1, LenProperties DEF Checksum
<1>4. ASSUME NEW data \in Seq(Bytes)
      PROVE  /\ Update(checksum, data, hashed).offset = off + Len(data)
             /\ Update(checksum, data, hashed).internal_state =
                  IF hashed THEN old \o data ELSE old
             /\ Update(checksum, data, hashed).status = "ready"
  BY <1>1 DEF Update, Checksum
<1>5. LET ck == Update(checksum, request.data, hashed) IN
        /\ ck.offset >= cut /\ ck.offset >= acked
        /\ ck.offset >= acked + n
        /\ EndsInBody(ck.internal_state, ck.offset)
        /\ ck.status = "ready"
  <2> DEFINE ck == Update(checksum, request.data, hashed)
  <2>1. ck.offset = off + n /\ ck.status = "ready"
    BY <1>2, <1>4
  <2>2. ck.offset = Len(ck.internal_state) =>
          EndsWith(ck.internal_state, request.data)
    BY <1>1, <1>2, UpdateEndsWith
  <2>3. EndsInBody(ck.internal_state, ck.offset)
    BY <2>2 DEF EndsInBody
  <2> HIDE DEF ck, n, off, cut
  <2>4. ck.offset >= cut /\ ck.offset >= acked /\ ck.offset >= acked + n
    BY <1>1, <1>2, <1>3, <2>1
  <2> QED  BY <2>1, <2>3, <2>4 DEF ck
<1>6. CASE request.body # "file"
  <2>1. Digested(hashed) = Update(checksum, request.data, hashed)
    BY <1>6 DEF Digested
  <2> QED  BY <1>5, <1>6, <2>1
<1>7. CASE request.body = "file"
  <2>1. /\ file.data = Rest(acked)
        /\ \/ pos = 0
           \/ /\ pos >= n
              /\ off >= acked + pos
              /\ EndsInBody(old, off)
    BY <1>1, <1>7 DEF WsInv, FileInv
  <2>2. Digested(hashed) = Update(checksum, read, hashed)
    BY <1>7 DEF Digested, UpdateFile
  <2>3. read \in Seq(Bytes) /\ Len(read) \in Nat /\ end = pos + Len(read)
    BY <1>1, <1>2, FileReadType, LenProperties DEF PosAfterRead
  <2>4. CASE pos = 0
    <3>1. n = cut - acked
      BY <1>2
    <3>2. read = request.data
      <4>1. request.data = Segment(acked, Cut[acked])
        BY <1>1 DEF TypeInv, RequestInv
      <4>2. FileRead(Rest(acked), 0, Cut[acked] - acked) = request.data
        BY <1>2, <4>1, RestBeginsWithSegment
      <4>3. Len(request.data) = Cut[acked] - acked
        BY <3>1
      <4> QED  BY <2>1, <2>4, <4>2, <4>3
    <3>3. end = n
      BY <1>2, <2>3, <2>4, <3>2
    <3>4. Digested(hashed) = Update(checksum, request.data, hashed)
      BY <2>2, <3>2
    <3>5. n >= n
      BY <1>2
    <3> QED  BY <1>5, <2>4, <3>3, <3>4, <3>5
  <2>5. CASE pos # 0
    <3> DEFINE ck == Update(checksum, read, hashed)
    <3>1. /\ ck.offset = off + Len(read)
          /\ ck.internal_state = IF hashed THEN old \o read ELSE old
          /\ ck.status = "ready"
      BY <1>4, <2>3
    <3>2. pos >= n /\ off >= acked + pos /\ EndsInBody(old, off)
      BY <2>1, <2>5
    <3>3. Len(read) = 0 => ck.internal_state = old /\ ck.offset = off
      <4> SUFFICES ASSUME Len(read) = 0
                   PROVE  ck.internal_state = old /\ ck.offset = off
        OBVIOUS
      <4>1. old \o read = old
        <5> HIDE DEF old, read
        <5>1. read = << >>
          BY <2>3, EmptySeq
        <5> QED  BY <1>3, <5>1, ConcatEmptySeq
      <4>2. ck.internal_state = old
        BY <3>1, <4>1
      <4>3. ck.offset = off
        <5> HIDE DEF ck, off, read
        <5> QED  BY <1>3, <2>3, <3>1
      <4> QED  BY <4>2, <4>3
    <3> HIDE DEF ck, n, off, cut, old, read, end, pos
    <3>4. /\ ck.offset >= cut /\ ck.offset >= acked
          /\ end >= n /\ ck.offset >= acked + end /\ ck.offset >= acked + pos
          /\ Len(read) # 0 => ck.offset # cut
      BY <1>2, <1>3, <2>3, <3>1, <3>2
    <3>5. EndsInBody(ck.internal_state, ck.offset)
      BY <3>2, <3>3, <3>4 DEF EndsInBody, cut
    <3> QED  BY <2>2, <3>1, <3>2, <3>4, <3>5
             DEF ck, n, off, cut, old, read, end, pos
  <2> QED  BY <2>4, <2>5
<1> QED  BY <1>6, <1>7

(* Steps of AtmosFilter_set_write_headers that leave the headers alone and *)
(* do not go on to send.                                                   *)
LEMMA HeaderKept ==
  ASSUME WsInv, pc = "set_write_headers", response = EmptyResponse,
         checksum'.mode = checksum.mode,
         \/ pc' = "crashed"
         \/ pc' = "returned" /\ response'.http_code = 400,
         request' = request, UNCHANGED <<object_id, acked>>
  PROVE  HeaderInv'
BY DEF WsInv, HeaderInv, EndsInBody, Active, Succeeded

(* What digesting does to FileInv, whether the file was brought back or    *)
(* not, if no header came out of it.                                       *)
LEMMA FileInvDigested ==
  ASSUME Mode = WSCHECKSUM, TypeInv, WsInv, pc = "set_write_headers",
         request.wschecksum = NULL, NEW hashed \in BOOLEAN,
         checksum' = Digested(hashed),
         request' = request, UNCHANGED acked,
         file'.data = file.data,
         \/ file'.pos = file.pos
         \/ /\ file'.pos = PosAfterRead(file.data, file.pos, Len(request.data))
            /\ request.body = "file"
  PROVE  FileInv'
<1>1. Active /\ request.body = "file" => file'.data = Rest(acked)
  BY DEF WsInv, FileInv, Active
<1>2. checksum'.status = checksum.status
  BY DigestedType DEF Active
<1>3. CASE checksum.status = "ready"
  <2>1. /\ checksum'.offset >= acked
        /\ request.body = "file" =>
             \/ file'.pos = 0
             \/ /\ file'.pos >= Len(request.data)
                /\ checksum'.offset >= acked + file'.pos
                /\ EndsInBody(checksum'.internal_state, checksum'.offset)
    BY <1>3, DigestOfBody
  <2> QED  BY <1>1, <2>1 DEF FileInv, Active, EndsInBody, Rest, Segment
<1>4. CASE checksum.status # "ready"
  BY <1>1, <1>2, <1>4 DEF FileInv, Active, Rest, Segment
<1> QED  BY <1>3, <1>4

LEMMA WsInvSetWriteHeaders ==
  ASSUME Mode = WSCHECKSUM, TypeInv, WsInv, SetWriteHeaders
  PROVE  WsInv'
<1>1. StoredIsPrefix' /\ ObjectInv'
  BY StoreKept DEF SetWriteHeaders, server, caller
<1>2. /\ pc = "set_write_headers" /\ Active
      /\ request \in Requests /\ checksum \in Checksum
      /\ file \in [data: Seq(Bytes), pos: Nat]
      /\ response = EmptyResponse /\ response \in Responses
      /\ UNCHANGED <<object_id, acked, objects>>
      /\ checksum.mode = WSCHECKSUM
      /\ Len(checksum.internal_state) <= checksum.offset
  BY DEF SetWriteHeaders, Active, TypeInv, TypeOK, RequestInv, WsInv, ResponseInv,
         HeaderInv, DigestInv, server, caller
<1>3. ASSUME NEW code \in Errors, ApiError(code), request' = request,
             FileInv', checksum'.mode = checksum.mode, DigestInv'
      PROVE  WsInv'
  <2>1. /\ response'.http_code = 400
        /\ response'.object_id = response.object_id
    BY <1>3, ApiErrorType
  <2>2. pc' = "returned" /\ response.object_id = 0
    BY <1>2, <1>3 DEF ApiError, EmptyResponse
  <2>3. HeaderInv'
    BY <1>2, <1>3, <2>1, <2>2, HeaderKept
  <2>4. ResponseInv'
    BY <2>1, <2>2 DEF ResponseInv
  <2> QED  BY <1>1, <1>3, <2>3, <2>4 DEF WsInv
<1>4. /\ FTELL_NOT_SUPPORTED \in Errors /\ FSEEK_NOT_SUPPORTED \in Errors
      /\ CHECKSUM_FAILED \in Errors
  BY DEF Errors
<1>5. ASSUME NEW hashed \in BOOLEAN, checksum' = Digested(hashed)
      PROVE  DigestInv' /\ checksum'.mode = checksum.mode
  BY <1>2, <1>5, DigestedType DEF DigestInv
<1>6. CASE FtellFails
  <2>1. /\ ApiError(FTELL_NOT_SUPPORTED)
        /\ UNCHANGED <<checksum, request, file>>
    BY <1>6 DEF FtellFails
  <2>2. DigestInv' /\ checksum'.mode = checksum.mode
    BY <1>2, <2>1 DEF DigestInv
  <2>3. FileInv'
    BY <1>2, <2>1, FileInvKept
  <2> QED  BY <1>3, <1>4, <2>1, <2>2, <2>3
<1>7. CASE FseekFails
  <2> DEFINE end == PosAfterRead(file.data, file.pos, Len(request.data))
  <2>1. /\ ApiError(FSEEK_NOT_SUPPORTED) /\ request' = request
        /\ checksum' = Digested(TRUE)
        /\ file' = [file EXCEPT !.pos = end]
        /\ request.body = "file" /\ request.wschecksum = NULL
    BY <1>7 DEF FseekFails, WsRequested
  <2>2. file'.data = file.data /\ file'.pos = end
    <3> HIDE DEF end
    <3> QED  BY <1>2, <2>1
  <2>3. FileInv'
    BY <1>2, <2>1, <2>2, FileInvDigested
  <2> QED  BY <1>3, <1>4, <1>5, <2>1, <2>3
<1>8. ASSUME NEW hashed \in BOOLEAN, NEW finished \in BOOLEAN,
             SetWsChecksum(hashed, finished)
      PROVE  WsInv'
  <2>1. /\ DigestInv' /\ checksum'.mode = checksum.mode /\ file' = file
        /\ checksum' = Digested(hashed)
        /\ request.wschecksum = NULL
    BY <1>5, <1>8 DEF SetWsChecksum, WsRequested
  <2>2. request' = request => FileInv'
    BY <1>2, <2>1, FileInvDigested
  <2>3. CASE pc' = "crashed" /\ UNCHANGED <<request, response>>
    <3>1. HeaderInv'
      BY <1>2, <2>1, <2>3, HeaderKept
    <3>2. ResponseInv'
      BY <2>3 DEF ResponseInv
    <3> QED  BY <1>1, <2>1, <2>2, <2>3, <3>1, <3>2 DEF WsInv
  <2>4. CASE ApiError(CHECKSUM_FAILED) /\ UNCHANGED request
    BY <1>3, <1>4, <2>1, <2>2, <2>4
  <2>5. CASE /\ ~ReadsNull(Digested(hashed))
             /\ GetState(Digested(hashed), finished) # NULL
             /\ request' =
                  [request EXCEPT
                     !.wschecksum = GetState(Digested(hashed), finished)]
             /\ pc' = "send"
             /\ UNCHANGED response
    <3> DEFINE ck == Digested(hashed)
               header == GetState(ck, finished)
    <3>1. ck \in Checksum /\ ck.status = checksum.status
      BY <1>2, DigestedType
    <3>2. /\ ck.status = "ready"
          /\ header = [offset |-> ck.offset, value |-> ck.internal_state]
      <4>1. ck.status \in Outcomes
        BY <3>1 DEF Checksum
      <4>2. ~ReadsNull(ck) /\ header # NULL
        BY <2>5
      <4> HIDE DEF ck
      <4> QED  BY <4>1, <4>2 DEF Outcomes, ReadsNull, GetState, GetValue
    <3>3. /\ ck.offset >= Cut[acked] /\ ck.offset >= acked
          /\ EndsInBody(ck.internal_state, ck.offset)
      BY <1>2, <2>1, <3>1, <3>2, DigestOfBody
    <3>4. header # NULL /\ request' = [request EXCEPT !.wschecksum = header]
      BY <2>5
    <3>5. /\ header.offset = ck.offset /\ header.value = ck.internal_state
          /\ checksum' = ck
      BY <2>1, <3>2
    <3> HIDE DEF header, ck
    <3>6. /\ request'.kind = request.kind /\ request'.body = request.body
          /\ request'.data = request.data /\ request'.range = request.range
          /\ request'.wschecksum = header
      BY <1>2, <3>4 DEF Requests
    <3>7. HeaderInv'
      BY <1>2, <2>1, <2>5, <3>3, <3>4, <3>5, <3>6
         DEF WsInv, HeaderInv, EndsInBody, Active
    <3>8. FileInv'
      BY <1>2, <3>3, <3>4, <3>5, <3>6 DEF FileInv
    <3>9. ResponseInv'
      BY <1>2, <2>5 DEF ResponseInv, EmptyResponse
    <3> QED  BY <1>1, <2>1, <3>7, <3>8, <3>9 DEF WsInv
  <2> QED  BY <1>8, <2>3, <2>4, <2>5 DEF SetWsChecksum
<1>9. ASSUME NEW hashed \in BOOLEAN
      PROVE  ~SetGenerate(hashed)
  BY <1>2 DEF SetGenerate, GenerateRequested, WSCHECKSUM, GENERATE_CHECKSUM
<1>10. CASE KeepHeaders
  <2>1. /\ pc' = "send" /\ UNCHANGED <<checksum, request, file, response>>
        /\ request.wschecksum # NULL
    BY <1>2, <1>10 DEF KeepHeaders, WsRequested
  <2>2. DigestInv' /\ FileInv'
    BY <1>2, <2>1, FileInvKept DEF DigestInv
  <2>3. HeaderInv'
    BY <1>2, <2>1 DEF WsInv, HeaderInv, EndsInBody, Active
  <2>4. ResponseInv'
    BY <1>2, <2>1 DEF ResponseInv, EmptyResponse
  <2> QED  BY <1>1, <2>2, <2>3, <2>4 DEF WsInv
<1> QED  BY <1>6, <1>7, <1>8, <1>9, <1>10 DEF SetWriteHeaders

(* The transfer reads the body; a header is there before it starts.        *)
LEMMA WsInvTransfer ==
  ASSUME Mode = WSCHECKSUM, TypeInv, WsInv, FileChanges \/ Deliver \/ CutOff
  PROVE  WsInv'
<1>1. StoredIsPrefix' /\ ObjectInv'
  BY StoreKept DEF FileChanges, Deliver, CutOff, server, caller
<1>2. /\ pc = "send" /\ Active /\ request.wschecksum # NULL
      /\ pc' \in {"send", "server", "unwind"}
      /\ UNCHANGED <<request, response, object_id, acked>>
      /\ response = EmptyResponse
      /\ checksum.mode = WSCHECKSUM
  BY DEF FileChanges, Deliver, CutOff, Active, WsInv, HeaderInv, ResponseInv,
         server, caller
<1>3. DigestInv' /\ FileInv' /\ checksum'.mode = WSCHECKSUM
  <2>1. CASE FileChanges
    BY <1>2, <2>1 DEF FileChanges, WsInv, DigestInv, FileInv
  <2>2. ASSUME NEW n \in 0 .. Len(BodyBytes), NEW hashed \in BOOLEAN,
               ReadBody(n, hashed)
        PROVE  DigestInv' /\ FileInv' /\ checksum'.mode = WSCHECKSUM
    <3>1. /\ checksum'.offset >= checksum.offset
          /\ checksum'.status = checksum.status
          /\ checksum.offset \in Nat /\ checksum'.offset \in Nat
      BY <1>2, <2>2, ReadBodyType DEF TypeInv, TypeOK, Checksum
    <3>2. acked \in Nat /\ Cut[acked] \in Nat
      BY <1>2, ActiveFacts, SourceType
    <3>3. FileInv'
      BY <1>2, <3>1, <3>2 DEF WsInv, FileInv
    <3> QED  BY <1>2, <2>2, <3>3, ReadBodyType DEF WsInv, DigestInv
  <2>3. CASE Deliver
    <3>1. Len(BodyBytes) \in 0 .. Len(BodyBytes)
      BY <1>2, BodyBytesType
    <3> QED  BY <2>2, <2>3, <3>1, DeliverCases
  <2>4. CASE CutOff
    BY <2>2, <2>4 DEF CutOff
  <2> QED  BY <2>1, <2>3, <2>4
<1>4. HeaderInv'
  BY <1>2, <1>3 DEF WsInv, HeaderInv, EndsInBody, Active
<1>5. ResponseInv'
  BY <1>2 DEF ResponseInv, EmptyResponse
<1> QED  BY <1>1, <1>3, <1>4, <1>5 DEF WsInv

(* A stored write leaves a beginning of Source, and says so.               *)
LEMMA WsInvServerStores ==
  ASSUME Mode = WSCHECKSUM, TypeInv, WsInv, ServerStores
  PROVE  WsInv'
<1>1. /\ pc = "server" /\ Active /\ Acceptable(wire) /\ pc' = "reply"
      /\ wire.kind = request.kind
      /\ UNCHANGED <<checksum, request, file, object_id, acked>>
      /\ response = EmptyResponse /\ response \in Responses
      /\ Len(objects) \in Nat /\ objects \in Seq(Seq(Bytes))
      /\ object_id \in 0 .. Len(objects)
  BY LenProperties
     DEF ServerStores, Active, TypeInv, TypeOK, WireInv, IdsInv, WsInv,
         ResponseInv, caller
<1>2. /\ Len(Content(wire)) = Cut[acked]
      /\ \A i \in 1 .. Cut[acked] : Content(wire)[i] = Source[i]
      /\ Cut[acked] \in 1 .. Len(Source) /\ acked < Len(Source)
      /\ Len(Source) \in Nat
  BY <1>1, AcceptedIsPrefix, ActiveFacts, SourceType
<1>3. /\ request.kind = IF object_id = 0 THEN "create" ELSE "append"
      /\ object_id = 0 <=> acked = 0
  BY <1>1 DEF WsInv, HeaderInv, ObjectInv
<1> DEFINE oid == IF request.kind = "create" THEN Len(objects) + 1
                  ELSE object_id
           content == Content(wire)
<1>4. /\ oid \in 1 .. Len(objects')
      /\ objects'[oid] = content
      /\ \A i \in 1 .. Len(objects') : i # oid =>
           i \in 1 .. Len(objects) /\ objects'[i] = objects[i]
  BY <1>1, <1>3, StoresObjects
<1>5. \A i \in 1 .. Len(objects) :
        /\ Len(objects[i]) <= Len(Source)
        /\ \A j \in 1 .. Len(objects[i]) : objects[i][j] = Source[j]
  BY DEF WsInv, StoredIsPrefix
<1> HIDE DEF content
<1>6. StoredIsPrefix'
  <2> SUFFICES ASSUME NEW i \in 1 .. Len(objects')
               PROVE  /\ Len(objects'[i]) <= Len(Source)
                      /\ \A j \in 1 .. Len(objects'[i]) :
                           objects'[i][j] = Source[j]
    BY DEF StoredIsPrefix
  <2>1. CASE i = oid
    BY <1>2, <1>4, <2>1 DEF content
  <2>2. CASE i # oid
    <3> HIDE DEF oid
    <3> QED  BY <1>4, <1>5, <2>2
  <2> QED  BY <2>1, <2>2
<1>7. ObjectInv'
  <2>1. CASE object_id = 0
    BY <1>1, <1>3, <2>1 DEF ObjectInv
  <2>2. CASE object_id # 0
    <3>1. Len(objects'[object_id]) = Cut[acked]
      BY <1>2, <1>3, <1>4, <2>2 DEF content
    <3> QED  BY <1>1, <1>2, <1>3, <2>2, <3>1 DEF ObjectInv
  <2> QED  BY <2>1, <2>2
<1>8. DigestInv' /\ HeaderInv' /\ FileInv'
  BY <1>1, FileInvKept DEF WsInv, DigestInv, HeaderInv, EndsInBody, Active
<1>9. ResponseInv'
  <2>1. CASE request.kind = "create"
    <3> DEFINE sum == IF wire.generate THEN Content(wire) ELSE NULL
    <3>1. response' = [response EXCEPT !.http_code = 201,
                         !.location = Len(objects) + 1,
                         !.content_checksum = sum]
      BY <1>1, <2>1 DEF ServerStores
    <3> HIDE DEF sum
    <3>2. /\ response'.http_code = 201 /\ response'.object_id = 0
          /\ response'.location = Len(objects) + 1
      BY <1>1, <3>1 DEF EmptyResponse
    <3>3. Len(objects'[Len(objects) + 1]) = Cut[acked]
      BY <1>2, <1>4, <2>1 DEF content
    <3> QED  BY <1>1, <2>1, <3>2, <3>3 DEF ResponseInv
  <2>2. CASE request.kind # "create"
    <3> DEFINE sum == IF wire.generate THEN Content(wire) ELSE NULL
    <3>1. response' = [response EXCEPT !.http_code = 200,
                         !.content_checksum = sum]
      BY <1>1, <2>2 DEF ServerStores
    <3> HIDE DEF sum
    <3>2. /\ response'.http_code = 200 /\ response'.object_id = 0
      BY <1>1, <3>1 DEF EmptyResponse
    <3>3. request.kind = "append" /\ Len(objects'[object_id]) = Cut[acked]
      BY <1>2, <1>3, <1>4, <2>2 DEF content
    <3> QED  BY <1>1, <3>2, <3>3 DEF ResponseInv
  <2> QED  BY <2>1, <2>2
<1> QED  BY <1>6, <1>7, <1>8, <1>9 DEF WsInv

(* The other answers, on their way back.                                   *)
LEMMA WsInvReplies ==
  ASSUME Mode = WSCHECKSUM, TypeInv, WsInv,
         ServerRejects \/ ServerRefuses \/ Reply \/ LoseReply
  PROVE  WsInv'
<1>1. StoredIsPrefix' /\ ObjectInv'
  BY StoreKept
     DEF ServerRejects, ServerRefuses, Reply, LoseReply, server, caller
<1>2. /\ Active /\ pc' \in {"reply", "unwind"}
      /\ UNCHANGED <<checksum, request, file, object_id, acked, objects>>
      /\ response \in Responses /\ pc \in {"server", "reply"}
  BY DEF ServerRejects, ServerRefuses, Reply, LoseReply, Active, server, caller,
         TypeInv, TypeOK
<1>3. DigestInv' /\ HeaderInv' /\ FileInv'
  BY <1>2, FileInvKept DEF WsInv, DigestInv, HeaderInv, EndsInBody, Active
<1>4. ResponseInv'
  <2>1. CASE Reply
    BY <1>2, <2>1 DEF Reply, WsInv, ResponseInv
  <2>2. CASE LoseReply
    BY <1>2, <2>2 DEF LoseReply, ResponseInv, EmptyResponse
  <2>3. CASE ServerRejects \/ ServerRefuses
    <3>1. response = EmptyResponse
      BY <2>3 DEF ServerRejects, ServerRefuses, WsInv, ResponseInv
    <3>2. response'.http_code \in {400, 500} /\ response'.object_id = 0
      BY <2>3, <3>1 DEF ServerRejects, ServerRefuses, EmptyResponse
    <3> QED  BY <1>2, <3>2 DEF ResponseInv
  <2> QED  BY <2>1, <2>2, <2>3
<1> QED  BY <1>1, <1>3, <1>4 DEF WsInv

LEMMA WsInvUnwind ==
  ASSUME Mode = WSCHECKSUM, TypeInv, WsInv, Unwind
  PROVE  WsInv'
<1>1. StoredIsPrefix' /\ ObjectInv'
  BY StoreKept DEF Unwind, server, caller
<1>2. /\ pc = "unwind" /\ Active /\ pc' = "returned"
      /\ UNCHANGED <<checksum, request, file, object_id, acked, objects>>
      /\ response \in Responses
  BY DEF Unwind, Active, server, caller, TypeInv, TypeOK
<1>3. DigestInv' /\ HeaderInv' /\ FileInv'
  BY <1>2, FileInvKept DEF WsInv, DigestInv, HeaderInv, EndsInBody, Active
<1>4. PICK resp \in ParsedError(response) : response' = ParsedCreate(resp)
  BY DEF Unwind
<1>5. /\ resp \in Responses /\ resp.http_code = response.http_code
      /\ resp.location = response.location
      /\ resp.object_id = response.object_id
  BY <1>2, <1>4 DEF ParsedError, Responses, Errors
<1>6. /\ response'.http_code = response.http_code
      /\ response'.object_id =
           IF request.kind = "create" /\ response.http_code = 201
           THEN response.location ELSE response.object_id
  BY <1>4, <1>5 DEF ParsedCreate, Responses
<1>7. ResponseInv'
  BY <1>2, <1>6 DEF WsInv, ResponseInv
<1> QED  BY <1>1, <1>3, <1>7 DEF WsInv

(* The caller: an accepted write has made the object end at Cut[acked].    *)
LEMMA WsInvAccept ==
  ASSUME Mode = WSCHECKSUM, TypeInv, WsInv, Accept
  PROVE  WsInv'
<1>1. /\ pc = "returned" /\ Active /\ Succeeded
      /\ acked' = request.start + Len(request.data)
      /\ object_id' = KnownId /\ request' = NULL
      /\ pc' = IF acked' = Len(Source) THEN "done" ELSE "idle"
      /\ UNCHANGED <<checksum, objects, response>>
  BY DEF Accept, Counted, Active, server
<1>2. /\ acked' = Cut[acked] /\ acked' \in 1 .. Len(Source)
      /\ Len(Source) \in Nat
  <2>1. /\ request.start = acked /\ Len(request.data) = Cut[acked] - acked
        /\ Cut[acked] \in 1 .. Len(Source) /\ acked \in 0 .. Len(Source) - 1
        /\ Len(Source) \in Nat
    BY <1>1, ActiveFacts, SourceType
  <2> QED  BY <1>1, <2>1
<1>3. KnownId # 0 /\ Len(objects[KnownId]) = Cut[acked]
  <2>1. CASE response.http_code = 201
    BY <1>1, <2>1 DEF WsInv, ResponseInv, KnownId
  <2>2. CASE response.http_code = 200
    <3>1. /\ request.kind = "append" /\ response.object_id = 0
          /\ Len(objects[object_id]) = Cut[acked]
      BY <1>1, <2>2 DEF WsInv, ResponseInv
    <3>2. object_id # 0
      BY <1>1, <3>1 DEF WsInv, HeaderInv
    <3> QED  BY <3>1, <3>2 DEF KnownId
  <2> QED  BY <1>1, <2>1, <2>2 DEF Succeeded
<1>4. ObjectInv'
  BY <1>1, <1>2, <1>3 DEF ObjectInv
<1>5. StoredIsPrefix' /\ DigestInv'
  BY <1>1 DEF WsInv, StoredIsPrefix, DigestInv
<1>6. HeaderInv' /\ ResponseInv'
  BY <1>1 DEF WsInv, HeaderInv, ResponseInv, Active, KnownId
<1>7. FileInv'
  <2>1. request.wschecksum # NULL
    BY <1>1 DEF WsInv, HeaderInv
  <2>2. checksum.status = "ready" => checksum.offset >= acked'
    BY <1>1, <1>2, <2>1 DEF WsInv, FileInv
  <2> QED  BY <1>1, <2>2 DEF FileInv, Active
<1> QED  BY <1>4, <1>5, <1>6, <1>7 DEF WsInv

(* A failed write told the caller nothing new, whatever it did.            *)
LEMMA WsInvRetry ==
  ASSUME Mode = WSCHECKSUM, TypeInv, WsInv, NEW policy, Retry(policy)
  PROVE  WsInv'
<1>1. /\ pc = "returned" /\ Active /\ ~Succeeded
      /\ object_id' = KnownId /\ UNCHANGED <<acked, objects>>
      /\ request \in Requests /\ acked \in Positions
      /\ file \in [data: Seq(Bytes), pos: Nat]
      /\ checksum \in Checksum
  BY DEF Retry, Failed, Counted, Active, server, TypeInv, TypeOK, RequestInv,
         WSCHECKSUM, GENERATE_CHECKSUM
<1>2. object_id' = object_id
  BY <1>1 DEF Succeeded, WsInv, ResponseInv, KnownId
<1>3. StoredIsPrefix' /\ ObjectInv'
  BY <1>1, <1>2, StoreKept
<1>4. CASE policy \in {"reuse", "rebuild"}
  <2>1. pc' = "idle" /\ UNCHANGED response
    BY <1>4 DEF Retry
  <2>2. /\ DigestInv' /\ checksum'.mode = WSCHECKSUM
        /\ checksum'.status = "ready" => checksum'.offset >= acked
    <3>1. CASE policy = "reuse"
      BY <1>1, <3>1 DEF Retry, WsInv, DigestInv, HeaderInv, FileInv
    <3>2. CASE policy = "rebuild"
      <4>1. PICK outcome \in InitOutcomes :
              checksum' = Update(ChecksumInit(Mode, outcome),
                                 Segment(0, acked), TRUE)
        BY <3>2 DEF Retry
      <4>2. /\ ChecksumInit(Mode, outcome) \in Checksum
            /\ ChecksumInit(Mode, outcome).mode = WSCHECKSUM
            /\ ChecksumInit(Mode, outcome).internal_state = << >>
            /\ ChecksumInit(Mode, outcome).offset = 0
            /\ Len(<< >>) = 0
        BY ConstantsAssumption, EmptySeq DEF ChecksumInit, Checksum
      <4> DEFINE fresh == ChecksumInit(Mode, outcome)
                 known == Segment(0, acked)
      <4>3. known \in Seq(Bytes) /\ fresh \in Checksum
            /\ Len(fresh.internal_state) <= fresh.offset
            /\ fresh.mode = WSCHECKSUM
            /\ fresh.offset = 0 /\ Len(known) = acked /\ acked \in Nat
        BY <1>1, <4>2, BeginningType, SourceType DEF Positions
      <4> HIDE DEF fresh, known
      <4>4. /\ Update(fresh, known, TRUE).mode = WSCHECKSUM
            /\ Len(Update(fresh, known, TRUE).internal_state)
                 <= Update(fresh, known, TRUE).offset
            /\ Update(fresh, known, TRUE).status = fresh.status
        BY <4>3, UpdateType
      <4>5. fresh.status = "ready" => Update(fresh, known, TRUE).offset >= acked
        BY <4>3 DEF Update, Checksum
      <4> QED  BY <4>1, <4>4, <4>5 DEF DigestInv, fresh, known
    <3> QED  BY <1>4, <3>1, <3>2
  <2>3. HeaderInv' /\ ResponseInv'
    BY <1>1, <2>1, <2>2 DEF HeaderInv, ResponseInv, Active, KnownId
  <2>4. FileInv'
    BY <1>1, <2>1, <2>2 DEF FileInv, Active
  <2> QED  BY <1>3, <2>2, <2>3, <2>4 DEF WsInv
<1>5. CASE policy \in {"reexecute", "rewind"}
  <2>1. /\ pc' = FirstFilter(request.kind)
        /\ request' = [request EXCEPT !.runs = @ + 1, !.from = file'.pos]
        /\ file' = IF policy = "rewind" THEN [file EXCEPT !.pos = 0] ELSE file
        /\ response' = EmptyResponse
        /\ UNCHANGED checksum
    BY <1>5 DEF Retry
  <2>2. pc' = IF request.kind = "create" THEN "set_write_headers"
              ELSE "update_object"
    BY <2>1 DEF FirstFilter
  <2>3. /\ request'.kind = request.kind /\ request'.body = request.body
        /\ request'.data = request.data /\ request'.range = request.range
        /\ request'.wschecksum = request.wschecksum
    BY <1>1, <2>1 DEF Requests
  <2>4. file'.data = file.data /\ file'.pos \in {0, file.pos}
    BY <1>1, <2>1
  <2>5. HeaderInv'
    BY <1>1, <1>2, <2>1, <2>2, <2>3
       DEF WsInv, HeaderInv, EndsInBody, Active
  <2>6. DigestInv' /\ ResponseInv'
    BY <2>1, <2>2 DEF WsInv, DigestInv, ResponseInv
  <2>7. FileInv'
    BY <1>1, <2>1, <2>3, <2>4
       DEF WsInv, FileInv, EndsInBody, Active, Rest, Segment
  <2> QED  BY <1>3, <2>5, <2>6, <2>7 DEF WsInv
<1> QED  BY <1>4, <1>5 DEF Retry

-----------------------------------------------------------------------------
(* The theorems.                                                           *)

LEMMA IInvNext == IInv /\ [Next]_vars => IInv'
<1> SUFFICES ASSUME IInv, [Next]_vars PROVE IInv'
  OBVIOUS
<1>1. TypeInv /\ TypeInv'
  BY TypeInvNext DEF IInv
<1>2. ASSUME Mode = WSCHECKSUM PROVE WsInv'
  <2>1. WsInv
    BY <1>2 DEF IInv
  <2>2. CASE UNCHANGED vars
    <3>1. StoredIsPrefix' /\ ObjectInv'
      BY <2>1, <2>2, StoreKept DEF vars
    <3>2. DigestInv' /\ HeaderInv' /\ FileInv' /\ ResponseInv'
      BY <2>1, <2>2
         DEF vars, WsInv, DigestInv, HeaderInv, FileInv, EndsInBody, ResponseInv,
             Active, KnownId, Rest, Segment, Succeeded
    <3> QED  BY <3>1, <3>2 DEF WsInv
  <2>3. CASE ClientStep
    <3>1. ~VerifyCrashes
      BY <1>2 DEF VerifyCrashes, VerifyReadsNull, WSCHECKSUM, GENERATE_CHECKSUM
    <3> QED  BY <1>1, <1>2, <2>1, <2>3, <3>1, WsInvBuildRequest, WsInvExecute,
                WsInvUpdateObject, WsInvSetWriteHeaders, WsInvTransfer,
                WsInvUnwind, WsInvAccept, WsInvRetry
             DEF ClientStep
  <2>4. CASE ServerStep
    BY <1>1, <1>2, <2>1, <2>4, WsInvServerStores, WsInvReplies DEF ServerStep
  <2>5. CASE Environment
    BY <1>1, <1>2, <2>1, <2>5, WsInvTransfer, WsInvReplies DEF Environment
  <2> QED  BY <2>2, <2>3, <2>4, <2>5 DEF Next
<1> QED  BY <1>1, <1>2 DEF IInv

(* IInv holds in every behaviour, in every mode.                           *)
THEOREM Inductive == Spec => []IInv
<1>1. Init => IInv
  BY TypeInvInit, WsInvInit DEF IInv
<1>2. IInv /\ [Next]_vars => IInv'
  BY IInvNext
<1> QED  BY <1>1, <1>2, PTL DEF Spec

(* No damage, rewritten file, stale checksum, lost reply or repeated       *)
(* execution makes the server store anything but a beginning of Source.    *)
THEOREM WsStoredIsPrefix == Spec => []StoredIsPrefix
<1>1. IInv => StoredIsPrefix
  BY DEF IInv, WsInv, StoredIsPrefix
<1> QED  BY <1>1, Inductive, PTL

(* Under a wschecksum the caller's object holds what it counts as stored.  *)
THEOREM WsAckedIsStored ==
  ASSUME Mode = WSCHECKSUM
  PROVE  Spec => []AckedIsStored
<1>1. IInv => AckedIsStored
  <2> SUFFICES ASSUME IInv, acked > 0 PROVE AckedIsStored
    BY DEF AckedIsStored
  <2>1. /\ object_id \in 0 .. Len(objects) /\ acked \in Nat
        /\ Len(objects) \in Nat
    BY LenProperties, SourceType
       DEF IInv, TypeInv, TypeOK, IdsInv, Positions
  <2>2. object_id \in 1 .. Len(objects)
    BY <2>1 DEF IInv, WsInv, ObjectInv
  <2>3. acked <= Len(objects[object_id])
    <3>1. acked < Len(Source) => acked < Cut[acked]
      BY <2>1, SourceType
    <3>2. acked < Len(Source) => Cut[acked] \in Nat
      BY <2>1, SourceType
    <3> QED  BY <2>1, <2>2, <3>1, <3>2 DEF IInv, WsInv, ObjectInv
  <2>4. \A i \in 1 .. Len(objects[object_id]) :
          objects[object_id][i] = Source[i]
    BY <2>2 DEF IInv, WsInv, StoredIsPrefix
  <2>5. Len(objects[object_id]) \in Nat
    <3>1. objects[object_id] \in Seq(Bytes)
      BY <2>2, ElementOfSeq DEF IInv, TypeInv, TypeOK
    <3> QED  BY <3>1, LenProperties
  <2>6. \A i \in 1 .. acked : objects[object_id][i] = Source[i]
    BY <2>1, <2>3, <2>4, <2>5
  <2> QED  BY <2>2, <2>3, <2>6 DEF AckedIsStored
<1> QED  BY <1>1, Inductive, PTL

-----------------------------------------------------------------------------
(* The caller's object is an AppendLog.                                    *)

(* A step that changes neither the object the caller knows nor acked is a  *)
(* stutter of the log.                                                     *)
LEMMA LogStutters ==
  ASSUME UNCHANGED <<acked, objects>>, KnownId' = KnownId
  PROVE  [Log!Next]_<<Stored, acked>>
BY DEF Stored

LEMMA KnownIdIsObjectId ==
  ASSUME WsInv, \/ pc \in {"built", "update_object", "set_write_headers",
                           "send", "server", "reply", "unwind", "idle"}
                \/ pc = "returned" /\ response.http_code # 201
  PROVE  KnownId = object_id
BY DEF WsInv, ResponseInv, KnownId, EmptyResponse

(* The whole step of ServerStores: the object of an append goes from acked *)
(* to Cut[acked], or was there already; a created object does not show.    *)
LEMMA LogServerStores ==
  ASSUME Mode = WSCHECKSUM, TypeInv, WsInv, WsInv', ServerStores
  PROVE  [Log!Next]_<<Stored, acked>>
<1>1. /\ pc = "server" /\ pc' = "reply" /\ Active /\ Acceptable(wire)
      /\ UNCHANGED <<acked, object_id, request>>
      /\ wire.kind = request.kind
      /\ objects \in Seq(Seq(Bytes)) /\ object_id \in 0 .. Len(objects)
  BY DEF ServerStores, caller, Active, TypeInv, TypeOK, WireInv, IdsInv
<1>2. KnownId = object_id /\ KnownId' = object_id
  <2>1. KnownId = object_id
    BY <1>1, KnownIdIsObjectId
  <2>2. response'.object_id = 0
    BY <1>1 DEF WsInv, ResponseInv
  <2> QED  BY <1>1, <2>1, <2>2 DEF KnownId
<1>3. CASE object_id = 0
  BY <1>1, <1>2, <1>3 DEF Stored
<1>4. CASE object_id # 0
  <2> DEFINE old == objects[object_id]
             new == Content(wire)
  <2>1. /\ object_id \in 1 .. Len(objects)
        /\ request.kind = "append"
        /\ Stored = old /\ Stored' = new
    <3>1. request.kind = "append" /\ object_id \in 1 .. Len(objects)
      BY <1>1, <1>4, LenProperties DEF WsInv, HeaderInv
    <3>2. objects'[object_id] = new
      BY <1>1, <3>1, StoresObjects
    <3> QED  BY <1>1, <1>2, <1>4, <3>1, <3>2 DEF Stored
  <2>2. /\ Len(new) = Cut[acked] /\ new \in Seq(Bytes)
        /\ \A i \in 1 .. Cut[acked] : new[i] = Source[i]
        /\ Cut[acked] \in acked + 1 .. Len(Source)
        /\ acked \in Nat
    BY <1>1, AcceptedIsPrefix, ContentType, ActiveFacts, SourceType
  <2>3. old \in Seq(Bytes)
    BY <1>1, <2>1, ElementOfSeq
  <2>4. \A i \in 1 .. Len(old) : old[i] = Source[i]
    BY <2>1 DEF WsInv, StoredIsPrefix
  <2>5. Len(old) \in {acked, Cut[acked]}
    BY <1>4 DEF WsInv, ObjectInv
  <2> HIDE DEF old, new
  <2>6. CASE Len(old) = acked
    <3>1. new = SubSeq(Source, 1, Cut[acked])
      <4> DEFINE piece == SubSeq(Source, 1, Cut[acked])
      <4>1. \A i \in 1 .. Cut[acked] : Source[i] \in Bytes
        BY <2>2, SourceType
      <4>2. Cut[acked] \in Nat /\ 1 <= Cut[acked]
        BY <2>2
      <4>3. /\ piece \in Seq(Bytes)
            /\ Len(piece) = Cut[acked]
            /\ \A i \in 1 .. Cut[acked] : piece[i] = Source[i]
        BY <4>1, <4>2, SubSeqProperties
      <4> HIDE DEF piece
      <4>4. new = piece
        BY <2>2, <4>3, SeqEqual
      <4> QED  BY <4>4 DEF piece
    <3>2. Log!Store
      BY <1>1, <2>1, <2>2, <2>6, <3>1 DEF Log!Store
    <3> QED  BY <3>2 DEF Log!Next
  <2>7. CASE Len(old) = Cut[acked]
    <3>1. old = new
      BY <2>2, <2>3, <2>4, <2>7, SeqEqual
    <3> QED  BY <1>1, <2>1, <3>1
  <2> QED  BY <2>5, <2>6, <2>7
<1> QED  BY <1>3, <1>4

(* The created object shows when parse_create_response has read its id.    *)
LEMMA LogUnwind ==
  ASSUME Mode = WSCHECKSUM, TypeInv, WsInv, WsInv', Unwind
  PROVE  [Log!Next]_<<Stored, acked>>
<1>1. /\ pc = "unwind" /\ pc' = "returned" /\ Active
      /\ UNCHANGED <<acked, object_id, objects, request>>
      /\ KnownId = object_id
  BY KnownIdIsObjectId DEF Unwind, server, caller, Active
<1>2. CASE response'.http_code # 201
  <2>1. KnownId' = object_id
    BY <1>1, <1>2 DEF WsInv, ResponseInv, KnownId
  <2> QED  BY <1>1, <2>1, LogStutters
<1>3. CASE response'.http_code = 201
  <2> DEFINE oid == response'.object_id
             new == objects[oid]
  <2>1. /\ oid # 0 /\ Len(new) = Cut[acked] /\ request.kind = "create"
        /\ object_id = 0 /\ acked = 0
    BY <1>1, <1>3 DEF WsInv, ResponseInv, HeaderInv, ObjectInv, Active
  <2>2. Stored = << >> /\ Stored' = new
    BY <1>1, <2>1 DEF Stored, KnownId
  <2>3. oid \in 1 .. Len(objects)
    <3>1. TypeInv'
      BY TypeInvUnwind
    <3>2. Len(objects) \in Nat
      BY LenProperties DEF TypeInv, TypeOK
    <3> QED  BY <1>1, <2>1, <3>1, <3>2 DEF TypeInv, IdsInv
  <2>4. /\ new \in Seq(Bytes)
        /\ \A i \in 1 .. Len(new) : new[i] = Source[i]
    BY <2>3, ElementOfSeq DEF TypeInv, TypeOK, WsInv, StoredIsPrefix
  <2>5. Cut[acked] \in acked + 1 .. Len(Source) /\ acked \in Nat
    BY <1>1, ActiveFacts, SourceType
  <2> HIDE DEF oid, new
  <2>6. new = SubSeq(Source, 1, Cut[acked])
    <3> DEFINE piece == SubSeq(Source, 1, Cut[acked])
    <3>1. /\ \A i \in 1 .. Cut[acked] : Source[i] \in Bytes
          /\ Cut[acked] \in Nat /\ 1 <= Cut[acked]
      BY <2>5, SourceType
    <3>2. /\ piece \in Seq(Bytes)
          /\ Len(piece) = Cut[acked]
          /\ \A i \in 1 .. Cut[acked] : piece[i] = Source[i]
      BY <3>1, SubSeqProperties
    <3> HIDE DEF piece
    <3>3. new = piece
      BY <2>1, <2>4, <3>2, SeqEqual
    <3> QED  BY <3>3 DEF piece
  <2>7. Log!Store
    BY <1>1, <2>1, <2>2, <2>5, <2>6, EmptySeq DEF Log!Store
  <2> QED  BY <2>7 DEF Log!Next
<1> QED  BY <1>2, <1>3

LEMMA LogAccept ==
  ASSUME Mode = WSCHECKSUM, TypeInv, WsInv, WsInv', Accept
  PROVE  [Log!Next]_<<Stored, acked>>
<1>1. /\ pc = "returned" /\ Active /\ Succeeded
      /\ acked' = request.start + Len(request.data)
      /\ object_id' = KnownId /\ UNCHANGED <<objects, response>>
  BY DEF Accept, Counted, Active, server
<1>2. acked' = Cut[acked] /\ acked < Cut[acked]
  <2>1. /\ request.start = acked /\ Len(request.data) = Cut[acked] - acked
        /\ Cut[acked] \in 1 .. Len(Source) /\ acked \in 0 .. Len(Source) - 1
        /\ acked < Cut[acked] /\ Len(Source) \in Nat
    BY <1>1, ActiveFacts, SourceType
  <2> QED  BY <1>1, <2>1
<1>3. KnownId # 0 /\ Len(objects[KnownId]) = Cut[acked]
  <2>1. CASE response.http_code = 201
    BY <1>1, <2>1 DEF WsInv, ResponseInv, KnownId
  <2>2. CASE response.http_code = 200
    BY <1>1, <2>2 DEF WsInv, ResponseInv, HeaderInv, KnownId
  <2> QED  BY <1>1, <2>1, <2>2 DEF Succeeded
<1>4. /\ Stored = objects[KnownId]
      /\ Stored' = Stored
  BY <1>1, <1>3 DEF Stored, KnownId
<1>5. Log!Acknowledge
  BY <1>2, <1>3, <1>4 DEF Log!Acknowledge
<1> QED  BY <1>5 DEF Log!Next

LEMMA LogStep ==
  ASSUME Mode = WSCHECKSUM, IInv, IInv', [Next]_vars
  PROVE  [Log!Next]_<<Stored, acked>>
<1>1. TypeInv /\ WsInv /\ WsInv'
  BY DEF IInv
<1>2. CASE ServerStores
  BY <1>1, <1>2, LogServerStores
<1>3. CASE Unwind
  BY <1>1, <1>3, LogUnwind
<1>4. CASE Accept
  BY <1>1, <1>4, LogAccept
<1>5. CASE UNCHANGED vars
  BY <1>5, LogStutters DEF vars, KnownId
<1>6. CASE \/ \E body \in Bodies : BuildRequest(body)
           \/ Execute \/ UpdateObject \/ SetWriteHeaders \/ Deliver
           \/ FileChanges \/ CutOff
           \/ ServerRejects \/ ServerRefuses \/ Reply \/ LoseReply
  <2>1. /\ KnownId = object_id
        /\ UNCHANGED <<acked, objects, object_id>>
    BY <1>1, <1>6, KnownIdIsObjectId
       DEF BuildRequest, Execute, UpdateObject, SetWriteHeaders, Deliver,
           FileChanges, CutOff, ServerRejects, ServerRefuses, Reply, LoseReply,
           server, caller
  <2>2. CASE pc' = "crashed"
    <3>1. response' = response
      BY <1>6, <2>2
         DEF BuildRequest, Execute, FirstFilter, UpdateObject, SetWriteHeaders,
             FtellFails, FseekFails, ApiError, SetWsChecksum, SetGenerate,
             KeepHeaders, Deliver, FileChanges, CutOff, ServerRejects,
             ServerRefuses, Reply, LoseReply
    <3> QED  BY <2>1, <3>1, LogStutters DEF KnownId
  <2>3. CASE pc' # "crashed"
    <3>1. /\ pc' # "idle" /\ pc' \in Stages /\ pc' # "done"
          /\ pc' = "returned" => response'.http_code # 201
      <4>1. TypeInv'
        BY DEF IInv
      <4>2. SetWriteHeaders /\ pc' = "returned" => response'.http_code = 400
        <5> SUFFICES ASSUME SetWriteHeaders, pc' = "returned"
                     PROVE  response'.http_code = 400
          OBVIOUS
        <5>1. PICK code \in Errors : ApiError(code)
          BY DEF SetWriteHeaders, FtellFails, FseekFails, SetWsChecksum,
                 SetGenerate, KeepHeaders, Errors, ApiError
        <5> QED  BY <1>1, <5>1 DEF ApiError, TypeInv, TypeOK, Responses
      <4>3. SetWriteHeaders => pc' \in {"returned", "send", "crashed"}
        BY DEF SetWriteHeaders, FtellFails, FseekFails, SetWsChecksum,
               SetGenerate, KeepHeaders, ApiError
      <4>4. ~SetWriteHeaders => pc' \notin {"returned", "idle", "done"}
        BY <1>6
           DEF BuildRequest, Execute, FirstFilter, UpdateObject, Deliver,
               FileChanges, CutOff, ServerRejects, ServerRefuses, Reply,
               LoseReply
      <4> QED  BY <4>1, <4>2, <4>3, <4>4 DEF TypeInv, TypeOK
    <3>2. KnownId' = object_id'
      BY <1>1, <2>3, <3>1 DEF WsInv, ResponseInv, KnownId, EmptyResponse, Stages
    <3> QED  BY <2>1, <3>2, LogStutters
  <2> QED  BY <2>2, <2>3
<1>7. CASE VerifyCrashes
  BY <1>7 DEF VerifyCrashes, VerifyReadsNull, WSCHECKSUM, GENERATE_CHECKSUM
<1>8. ASSUME NEW policy, Retry(policy)
      PROVE  [Log!Next]_<<Stored, acked>>
  <2>1. /\ object_id' = KnownId /\ UNCHANGED <<acked, objects>>
        /\ response' = response \/ response' = EmptyResponse
    BY <1>8 DEF Retry, server
  <2>2. KnownId' = KnownId
    BY <2>1 DEF KnownId, EmptyResponse
  <2> QED  BY <2>1, <2>2, LogStutters
<1> QED  BY <1>2, <1>3, <1>4, <1>5, <1>6, <1>7, <1>8
         DEF Next, ClientStep, ServerStep, Environment

(* Under a wschecksum the program implements the safety part of AppendLog: *)
(* one piece after another, none before the last one was acknowledged,     *)
(* and no retry ever shows.                                                *)
THEOREM WsKeepsLog ==
  ASSUME Mode = WSCHECKSUM
  PROVE  Spec => KeepsLog
<1>1. Init => Log!Init
  BY DEF Init, Log!Init, Stored, KnownId, EmptyResponse
<1>2. IInv /\ IInv' /\ [Next]_vars => [Log!Next]_<<Stored, acked>>
  BY LogStep
<1> QED  BY <1>1, <1>2, Inductive, PTL DEF Spec, KeepsLog, Log!Safety
=============================================================================
