----------------------------- MODULE WriteObject -----------------------------
(***************************************************************************)
(* Writing one object through the client: a caller that stores Source with *)
(* a create followed by appends (or with one whole-object write), the      *)
(* filters that decorate its requests (AtmosFilter_update_object and       *)
(* AtmosFilter_set_write_headers), the transfer, the server, and the       *)
(* filters that read the response.  The caller shares one AtmosChecksum    *)
(* object between its requests, as lib/atmos_common.h asks it to.          *)
(*                                                                         *)
(* The default filters, which do not touch what this module keeps, are in  *)
(* module FilterChain.  The transfer and the server are not part of the    *)
(* repository: they do what the client relies on, or one of Faults.        *)
(***************************************************************************)
EXTENDS AtmosChecksum

CONSTANTS
  Source,         \* the data the caller wants stored
  Cut,            \* a request that starts at p carries Source up to Cut[p]
  Mode,           \* checksum mode of the caller's AtmosChecksum
  InitOutcomes,   \* what AtmosChecksum_init may leave behind
  Bodies,         \* how the caller passes the data: "array", "file"
  Policies,       \* what the caller may do after a failure
  Faults,         \* what may go wrong
  MaxFaults,      \* bound on the faults of a behaviour
  MaxExecutions   \* bound on the requests a caller executes

Positions == 0 .. Len(Source)

(* hash and final: the digest library's *_Update or *_Final reports an     *)
(* error.                                                                  *)
FaultKinds == {"ftell", "fseek", "hash", "final", "filechange", "cut",
               "corrupt", "refuse", "losereply"}

(* reuse: build a new request with the same checksum object.               *)
(* rebuild: re-create the checksum from the data acknowledged so far.      *)
(* reexecute: execute the same request object once more, with a file body  *)
(* where the failed execution left it: nothing in the library rewinds it.  *)
(* rewind: the same, but the caller first takes the file back to where it  *)
(* was when the request was built.                                         *)
AllPolicies == {"reuse", "rebuild", "reexecute", "rewind"}

ASSUME ConstantsAssumption ==
  /\ Source \in Seq(Bytes)
  /\ Len(Source) > 0
  /\ Cut \in [0 .. Len(Source) - 1 -> 1 .. Len(Source)]
  /\ \A p \in 0 .. Len(Source) - 1 : p < Cut[p]
  /\ Mode \in Modes
  /\ InitOutcomes \subseteq Outcomes
  /\ Bodies \subseteq {"array", "file"}
  /\ Policies \subseteq AllPolicies
  /\ Faults \subseteq FaultKinds
  /\ MaxFaults \in Nat
  /\ MaxExecutions \in Nat

VARIABLES
  pc,          \* where the client's one thread of control is
  checksum,    \* the caller's AtmosChecksum
  request,     \* the write request, or NULL
  file,        \* the request's file body: its bytes from the body on, and
               \* the position in them
  wire,        \* the request as the server received it, or NULL
  response,    \* the response object
  objects,     \* the server: objects[oid] is the content of object oid
  object_id,   \* the caller's id of its object, 0 before it has one
  acked,       \* how much of Source the caller knows to be stored
  faults,      \* faults so far
  executions   \* requests executed so far

vars == <<pc, checksum, request, file, wire, response, objects, object_id,
          acked, faults, executions>>

server == <<objects>>
caller == <<object_id, acked>>
bounds == <<faults, executions>>

Stages == {"idle", "built", "update_object", "set_write_headers", "send",
           "server", "reply", "unwind", "returned", "done", "crashed"}

Kinds == {"create", "append", "replace"}

Requests ==
  [kind: Kinds, body: {"array", "file"}, start: Nat, data: Seq(Bytes),
   range: Ranges \cup {NULL},           \* Range header
   wschecksum: States \cup {NULL},      \* x-emc-wschecksum header
   generate: BOOLEAN,                   \* x-emc-generate-checksum header
   file_filter: BOOLEAN,                \* checksum filter on the file body
   base: Nat,       \* history: checksum offset when the request was built
   runs: Nat,       \* history: how often it was executed
   from: Nat]       \* history: where the file stood when it was executed last

Messages == [kind: Kinds, range: Ranges \cup {NULL}, data: Seq(Bytes),
             wschecksum: States \cup {NULL}, generate: BOOLEAN]

(* HTTP codes: 0 is a transport error, 400 what the client itself sets or  *)
(* the server answers to a bad request, 500 any other refusal.             *)
Codes == {0, 200, 201, 400, 500}
FTELL_NOT_SUPPORTED == 601
FSEEK_NOT_SUPPORTED == 602
CHECKSUM_FAILED     == 603
SERVER_ERROR        == 1001
Errors == {0, FTELL_NOT_SUPPORTED, FSEEK_NOT_SUPPORTED, CHECKSUM_FAILED,
           SERVER_ERROR}

Responses == [http_code: Codes, atmos_error: Errors, location: Nat,
              object_id: Nat, content_checksum: Seq(Bytes) \cup {NULL}]

EmptyResponse == [http_code |-> 0, atmos_error |-> 0, location |-> 0,
                  object_id |-> 0, content_checksum |-> NULL]

Segment(first, last) == SubSeq(Source, first + 1, last)
Rest(first) == Segment(first, Len(Source))

TypeOK ==
  /\ pc \in Stages
  /\ checksum \in Checksum
  /\ request \in Requests \cup {NULL}
  /\ file \in [data: Seq(Bytes), pos: Nat]
  /\ wire \in Messages \cup {NULL}
  /\ response \in Responses
  /\ objects \in Seq(Seq(Bytes))
  /\ object_id \in Nat
  /\ acked \in Positions
  /\ faults \in Nat
  /\ executions \in Nat

Init ==
  /\ pc = "idle"
  /\ \E outcome \in InitOutcomes : checksum = ChecksumInit(Mode, outcome)
  /\ request = NULL
  /\ file = [data |-> << >>, pos |-> 0]
  /\ wire = NULL
  /\ response = EmptyResponse
  /\ objects = << >>
  /\ object_id = 0
  /\ acked = 0
  /\ faults = 0
  /\ executions = 0

(* A fault of the given kind happens in this step.                         *)
Fault(kind) ==
  /\ kind \in Faults
  /\ faults < MaxFaults
  /\ faults' = faults + 1

-----------------------------------------------------------------------------
(* The caller builds a request.                                            *)

(* The first write creates the object; later ones append to it, except     *)
(* that generated checksums cover whole-object writes only.                *)
NextKind ==
  IF object_id = 0 THEN "create"
  ELSE IF Mode = GENERATE_CHECKSUM THEN "replace" ELSE "append"

(* AtmosCreateObjectRequest_init or AtmosUpdateObjectRequest_init, the     *)
(* body, the checksum pointer and a fresh response.  The caller's file     *)
(* stands where the body begins, and may go on behind its end.             *)
BuildRequest(body) ==
  /\ pc = "idle"
  /\ acked < Len(Source)
  /\ executions < MaxExecutions
  /\ LET data == Segment(acked, Cut[acked]) IN
       /\ request' = [kind |-> NextKind, body |-> body, start |-> acked,
                      data |-> data, range |-> NULL, wschecksum |-> NULL,
                      generate |-> FALSE, file_filter |-> FALSE,
                      base |-> checksum.offset, runs |-> 0, from |-> 0]
       /\ file' = [data |-> IF body = "file" THEN Rest(acked) ELSE << >>,
                   pos |-> 0]
  /\ wire' = NULL
  /\ response' = EmptyResponse
  /\ pc' = "built"
  /\ UNCHANGED <<checksum, server, caller, bounds>>

(* The outermost filter of the operation's chain runs first.               *)
FirstFilter(kind) ==
  IF kind = "create" THEN "set_write_headers" ELSE "update_object"

(* AtmosClient_create_object or AtmosClient_update_object.                 *)
Execute ==
  /\ pc = "built"
  /\ request' = [request EXCEPT !.runs = @ + 1]
  /\ executions' = executions + 1
  /\ pc' = FirstFilter(request.kind)
  /\ UNCHANGED <<checksum, file, wire, response, server, caller, faults>>

-----------------------------------------------------------------------------
(* The request half of the filters.                                        *)

(* Slip: the range covers the data and forgets the offset.                 *)
RangeOf_NoOffset(req) ==
  IF req.kind = "append"
    THEN [first |-> 0, last |-> Len(req.data) - 1]
    ELSE [first |-> -1, last |-> -1]

(* AtmosUpdateObjectRequest_set_range_offset_size for an append; a replace *)
(* keeps the -1 of AtmosUpdateObjectRequest_init, which means no range.    *)
RangeOf(req) ==
  IF req.kind = "append"
    THEN [first |-> req.start, last |-> req.start + Len(req.data) - 1]
    ELSE [first |-> -1, last |-> -1]

(* Slip: -1 is taken for a position.                                       *)
UpdateObject_NoSentinel ==
  /\ pc = "update_object"
  /\ request' = [request EXCEPT !.range = RangeOf(request)]
  /\ pc' = "set_write_headers"
  /\ UNCHANGED <<checksum, file, wire, response, server, caller, bounds>>

(* AtmosFilter_update_object.  Appends are never empty, so the two ends of *)
(* the range are both set or both -1.                                      *)
UpdateObject ==
  /\ pc = "update_object"
  /\ LET range == RangeOf(request) IN
       request' = [request EXCEPT
                     !.range = IF range.first # -1 THEN range ELSE @]
  /\ pc' = "set_write_headers"
  /\ UNCHANGED <<checksum, file, wire, response, server, caller, bounds>>

(* A failure inside AtmosFilter_set_write_headers: the next filter is not  *)
(* called.  Only a response that is not a plain RestResponse, which is     *)
(* what updates use, also carries the API error.                           *)
ApiError(code) ==
  /\ response' = [response EXCEPT
                    !.http_code = 400,
                    !.atmos_error = IF request.kind = "create" THEN code ELSE @]
  /\ pc' = "returned"

(* Slip: only creates are checksummed.                                     *)
WsRequested_CreateOnly ==
  /\ checksum.mode = WSCHECKSUM
  /\ request.wschecksum = NULL
  /\ request.kind = "create"

(* The conditions of the two checksum branches of                          *)
(* AtmosFilter_set_write_headers: a header that is already on the request  *)
(* is left alone.                                                          *)
WsRequested == checksum.mode = WSCHECKSUM /\ request.wschecksum = NULL

GenerateRequested == checksum.mode = GENERATE_CHECKSUM /\ ~request.generate

(* ftello fails before anything was digested.                              *)
FtellFails ==
  /\ WsRequested
  /\ request.body = "file"
  /\ Fault("ftell")
  /\ ApiError(FTELL_NOT_SUPPORTED)
  /\ UNCHANGED <<checksum, request, file>>

(* The body is digested, from the file's current position or from memory.  *)
Digested(hashed) ==
  IF request.body = "file"
    THEN UpdateFile(checksum, file.data, file.pos, Len(request.data), hashed)
    ELSE Update(checksum, request.data, hashed)

(* fseeko cannot bring the file back to where it was: the digest keeps the *)
(* bytes and the file stays where reading left it.                         *)
FseekFails ==
  /\ WsRequested
  /\ request.body = "file"
  /\ Fault("fseek")
  /\ checksum' = Digested(TRUE)
  /\ file' = [file EXCEPT !.pos =
                PosAfterRead(file.data, file.pos, Len(request.data))]
  /\ ApiError(FSEEK_NOT_SUPPORTED)
  /\ UNCHANGED request

(* Slip: the state is computed on a copy of the caller's checksum.         *)
SetWsChecksum_OnCopy(hashed, finished) ==
  LET ck == Digested(hashed) IN
  /\ WsRequested
  /\ ~ReadsNull(ck)
  /\ request' = [request EXCEPT !.wschecksum = GetState(ck, finished)]
  /\ pc' = "send"
  /\ UNCHANGED <<checksum, file, response>>

(* Slip: the file is left where reading it for the digest ended.           *)
SetWsChecksum_NoSeek(hashed, finished) ==
  LET ck == Digested(hashed) IN
  /\ WsRequested
  /\ ~ReadsNull(ck)
  /\ checksum' = ck
  /\ request' = [request EXCEPT !.wschecksum = GetState(ck, finished)]
  /\ file' = IF request.body = "file"
               THEN [file EXCEPT !.pos =
                       PosAfterRead(file.data, file.pos, Len(request.data))]
               ELSE file
  /\ pc' = "send"
  /\ UNCHANGED response

(* The digest goes into the x-emc-wschecksum header and the file is back   *)
(* at the position ftello had returned, also if there is no digest.        *)
SetWsChecksum(hashed, finished) ==
  LET ck == Digested(hashed) IN
  /\ WsRequested
  /\ checksum' = ck
  /\ UNCHANGED file
  /\ \/ /\ ReadsNull(ck)
        /\ pc' = "crashed"
        /\ UNCHANGED <<request, response>>
     \/ /\ ~ReadsNull(ck)
        /\ GetState(ck, finished) = NULL
        /\ ApiError(CHECKSUM_FAILED)
        /\ UNCHANGED request
     \/ /\ ~ReadsNull(ck)
        /\ GetState(ck, finished) # NULL
        /\ request' = [request EXCEPT !.wschecksum = GetState(ck, finished)]
        /\ pc' = "send"
        /\ UNCHANGED response

(* Slip: the filter that digests a file as it is sent is not installed.    *)
SetGenerate_NoFilter(hashed) ==
  /\ GenerateRequested
  /\ request' = [request EXCEPT !.generate = TRUE]
  /\ checksum' = IF request.body = "file" THEN checksum
                 ELSE Update(checksum, request.data, hashed)
  /\ pc' = "send"
  /\ UNCHANGED <<file, response>>

(* The server is asked for a checksum; a body in memory is digested now, a *)
(* file while it is being sent.                                            *)
SetGenerate(hashed) ==
  /\ GenerateRequested
  /\ request' = [request EXCEPT !.generate = TRUE,
                                !.file_filter = @ \/ request.body = "file"]
  /\ checksum' = IF request.body = "file" THEN checksum
                 ELSE Update(checksum, request.data, hashed)
  /\ pc' = "send"
  /\ UNCHANGED <<file, response>>

(* Slip: the header is not added twice, but the body is digested twice.    *)
KeepHeaders_Rehash ==
  /\ ~WsRequested
  /\ ~GenerateRequested
  /\ checksum' = Digested(TRUE)
  /\ pc' = "send"
  /\ UNCHANGED <<request, file, response>>

(* No checksum was asked for, or its header is already on the request.     *)
KeepHeaders ==
  /\ ~WsRequested
  /\ ~GenerateRequested
  /\ pc' = "send"
  /\ UNCHANGED <<checksum, request, file, response>>

(* AtmosFilter_set_write_headers, as far as the body is concerned.         *)
SetWriteHeaders ==
  /\ pc = "set_write_headers"
  /\ \/ FtellFails
     \/ FseekFails
     \/ (SetWsChecksum(TRUE, TRUE) \/ SetGenerate(TRUE) \/ KeepHeaders)
          /\ UNCHANGED faults
     \/ (SetWsChecksum(FALSE, TRUE) \/ SetGenerate(FALSE)) /\ Fault("hash")
     \/ SetWsChecksum(TRUE, FALSE) /\ Fault("final")
  /\ UNCHANGED <<wire, server, caller, executions>>

-----------------------------------------------------------------------------
(* The transfer.                                                           *)

(* Another process rewrites the file between the digest and the transfer.  *)
FileChanges ==
  /\ pc = "send"
  /\ request.body = "file"
  /\ Fault("filechange")
  /\ \E i \in 1 .. Len(file.data) : \E b \in Bytes \ {file.data[i]} :
       file' = [file EXCEPT !.data[i] = b]
  /\ UNCHANGED <<pc, checksum, request, wire, response, server, caller,
                 executions>>

(* The bytes the transfer reads from the body: of a file, those from its   *)
(* position on, fewer than announced if it ends before.                    *)
BodyBytes ==
  IF request.body = "file"
    THEN FileRead(file.data, file.pos, Len(request.data))
    ELSE request.data

(* The transfer reads the first n bytes of the body.  The file's filter,   *)
(* AtmosWriteObjectRequest_checksum_filter, sees what is read from a file. *)
ReadBody(n, hashed) ==
  LET bytes == SubSeq(BodyBytes, 1, n) IN
  /\ file' = IF request.body = "file" THEN [file EXCEPT !.pos = @ + n] ELSE file
  /\ checksum' = IF request.file_filter THEN Update(checksum, bytes, hashed)
                 ELSE checksum

Received(data) ==
  [kind |-> request.kind, range |-> request.range, data |-> data,
   wschecksum |-> request.wschecksum, generate |-> request.generate]

(* The whole body reaches the server, perhaps with a byte damaged.         *)
Deliver ==
  /\ pc = "send"
  /\ \/ /\ ReadBody(Len(BodyBytes), TRUE)
        /\ wire' = Received(BodyBytes)
        /\ UNCHANGED faults
     \/ /\ request.file_filter
        /\ Fault("hash")
        /\ ReadBody(Len(BodyBytes), FALSE)
        /\ wire' = Received(BodyBytes)
     \/ /\ Fault("corrupt")
        /\ ReadBody(Len(BodyBytes), TRUE)
        /\ \E i \in 1 .. Len(BodyBytes) : \E b \in Bytes \ {BodyBytes[i]} :
             wire' = Received([BodyBytes EXCEPT ![i] = b])
  /\ pc' = "server"
  /\ UNCHANGED <<request, response, server, caller, executions>>

(* The connection fails before the server has the whole body, which it     *)
(* then discards: http_code stays 0.                                       *)
CutOff ==
  /\ pc = "send"
  /\ Fault("cut")
  /\ \E n \in 0 .. Len(BodyBytes) : ReadBody(n, TRUE)
  /\ wire' = NULL
  /\ pc' = "unwind"
  /\ UNCHANGED <<request, response, server, caller, executions>>

-----------------------------------------------------------------------------
(* The server.                                                             *)

(* data written over content from position first on.                       *)
Overwrite(content, first, data) ==
  [i \in 1 .. (IF first + Len(data) < Len(content) THEN Len(content)
               ELSE first + Len(data)) |->
     IF i > first /\ i <= first + Len(data) THEN data[i - first]
     ELSE content[i]]

(* What the object would hold.                                             *)
Content(msg) ==
  IF msg.range = NULL THEN msg.data
  ELSE Overwrite(objects[object_id], msg.range.first, msg.data)

(* A range must fit its data and leave no gap; a wschecksum must describe  *)
(* the object after the write ("the server will return an error if the     *)
(* data checksum did not match", lib/atmos_common.h:178-179).              *)
Acceptable(msg) ==
  /\ msg.range # NULL =>
       /\ msg.range.last - msg.range.first + 1 = Len(msg.data)
       /\ msg.range.first <= Len(objects[object_id])
  /\ msg.wschecksum # NULL =>
       msg.wschecksum = [offset |-> Len(Content(msg)), value |-> Content(msg)]

ServerStores ==
  /\ pc = "server"
  /\ Acceptable(wire)
  /\ LET content == Content(wire)
         sum == IF wire.generate THEN content ELSE NULL IN
     IF wire.kind = "create"
       THEN /\ objects' = Append(objects, content)
            /\ response' = [response EXCEPT !.http_code = 201,
                              !.location = Len(objects) + 1,
                              !.content_checksum = sum]
       ELSE /\ objects' = [objects EXCEPT ![object_id] = content]
            /\ response' = [response EXCEPT !.http_code = 200,
                              !.content_checksum = sum]
  /\ pc' = "reply"
  /\ UNCHANGED <<checksum, request, file, wire, caller, bounds>>

ServerRejects ==
  /\ pc = "server"
  /\ ~Acceptable(wire)
  /\ response' = [response EXCEPT !.http_code = 400]
  /\ pc' = "reply"
  /\ UNCHANGED <<checksum, request, file, wire, server, caller, bounds>>

(* The server is out of order, or does not like something else.            *)
ServerRefuses ==
  /\ pc = "server"
  /\ Fault("refuse")
  /\ response' = [response EXCEPT !.http_code = 500]
  /\ pc' = "reply"
  /\ UNCHANGED <<checksum, request, file, wire, server, caller, executions>>

Reply ==
  /\ pc = "reply"
  /\ pc' = "unwind"
  /\ UNCHANGED <<checksum, request, file, wire, response, server, caller,
                 bounds>>

(* The write was done (or refused) but the client only sees a transport    *)
(* error.                                                                  *)
LoseReply ==
  /\ pc = "reply"
  /\ Fault("losereply")
  /\ response' = EmptyResponse
  /\ pc' = "unwind"
  /\ UNCHANGED <<checksum, request, file, wire, server, caller, executions>>

-----------------------------------------------------------------------------
(* The response half of the filters, innermost first.                      *)

(* AtmosFilter_parse_atmos_error reads the error out of the body of a      *)
(* failed POST; a body it cannot parse leaves atmos_error alone.           *)
ParsedError(resp) ==
  IF request.kind = "create" /\ resp.http_code > 399
    THEN {[resp EXCEPT !.atmos_error = SERVER_ERROR], resp}
    ELSE {resp}

(* AtmosFilter_parse_create_response.                                      *)
ParsedCreate(resp) ==
  IF request.kind = "create" /\ resp.http_code = 201
    THEN [resp EXCEPT !.object_id = resp.location]
    ELSE resp

Unwind ==
  /\ pc = "unwind"
  /\ \E resp \in ParsedError(response) : response' = ParsedCreate(resp)
  /\ pc' = "returned"
  /\ UNCHANGED <<checksum, request, file, wire, server, caller, bounds>>

-----------------------------------------------------------------------------
(* The caller looks at the response.                                       *)

Succeeded == response.http_code \in {200, 201}

Verified(finished) ==
  VerifyResponse(checksum, response.content_checksum, finished)

(* With a generated checksum the caller calls AtmosChecksum_verify_response *)
(* and counts the write only if it returns 1.                              *)
Counted(finished) ==
  Succeeded /\ (Mode = GENERATE_CHECKSUM => Verified(finished))

KnownId == IF response.object_id # 0 THEN response.object_id ELSE object_id

(* verify_response copies the context through the null pointer that a      *)
(* failed init left.                                                       *)
VerifyReadsNull ==
  /\ Succeeded
  /\ Mode = GENERATE_CHECKSUM
  /\ response.content_checksum # NULL
  /\ ReadsNull(checksum)

VerifyCrashes ==
  /\ pc = "returned"
  /\ VerifyReadsNull
  /\ pc' = "crashed"
  /\ UNCHANGED <<checksum, request, file, wire, response, server, caller,
                 bounds>>

Accept ==
  /\ pc = "returned"
  /\ ~VerifyReadsNull
  /\ Counted(TRUE)
  /\ acked' = request.start + Len(request.data)
  /\ object_id' = KnownId
  /\ request' = NULL
  /\ pc' = IF acked' = Len(Source) THEN "done" ELSE "idle"
  /\ UNCHANGED <<checksum, file, wire, response, server, bounds>>

(* The call failed, or what it stored does not verify; or it would verify, *)
(* were it not for *_Final.                                                *)
Failed ==
  \/ ~Counted(TRUE) /\ UNCHANGED faults
  \/ Counted(TRUE) /\ ~Counted(FALSE) /\ Fault("final")

Retry(policy) ==
  /\ pc = "returned"
  /\ ~VerifyReadsNull
  /\ Failed
  /\ policy \in Policies
  /\ object_id' = KnownId
  /\ wire' = NULL
  /\ UNCHANGED <<acked, server>>
  /\ \/ /\ policy = "reuse"
        /\ pc' = "idle"
        /\ request' = NULL
        /\ UNCHANGED <<checksum, file, response, executions>>
     \/ /\ policy = "rebuild"
        /\ pc' = "idle"
        /\ request' = NULL
        /\ \E outcome \in InitOutcomes :
             checksum' = Update(ChecksumInit(Mode, outcome),
                                Segment(0, acked), TRUE)
        /\ UNCHANGED <<file, response, executions>>
     \/ /\ policy \in {"reexecute", "rewind"}
        /\ executions < MaxExecutions
        /\ pc' = FirstFilter(request.kind)
        /\ file' = IF policy = "rewind" THEN [file EXCEPT !.pos = 0] ELSE file
        /\ request' = [request EXCEPT !.runs = @ + 1, !.from = file'.pos]
        /\ executions' = executions + 1
        /\ response' = EmptyResponse
        /\ UNCHANGED checksum

-----------------------------------------------------------------------------
ClientStep ==
  \/ \E body \in Bodies : BuildRequest(body)
  \/ Execute
  \/ UpdateObject
  \/ SetWriteHeaders
  \/ Deliver
  \/ Unwind
  \/ VerifyCrashes
  \/ Accept
  \/ \E policy \in AllPolicies : Retry(policy)

ServerStep == ServerStores \/ ServerRejects \/ Reply

Environment == FileChanges \/ CutOff \/ ServerRefuses \/ LoseReply

Next == ClientStep \/ ServerStep \/ Environment

Spec == Init /\ [][Next]_vars

(* The client is one thread that runs to completion, the transfer ends     *)
(* when the server answers, and the server answers.  Faults need not       *)
(* happen, and are bounded by MaxFaults.                                   *)
FairSpec == Spec /\ WF_vars(ClientStep) /\ WF_vars(ServerStep)

-----------------------------------------------------------------------------
(* Properties.                                                             *)

(* Nothing but the beginning of Source is ever stored under a wschecksum:  *)
(* not in the caller's object, and not in one whose creation the caller    *)
(* never heard of.  Damage, a rewritten file, a checksum that went on past *)
(* a failed write and a request executed twice all end in a rejection.     *)
StoredIsPrefix ==
  Mode = WSCHECKSUM =>
    \A oid \in 1 .. Len(objects) :
      /\ Len(objects[oid]) <= Len(Source)
      /\ \A i \in 1 .. Len(objects[oid]) : objects[oid][i] = Source[i]

(* What the caller counts as stored is in its object, as Source has it:    *)
(* the header AtmosFilter_set_write_headers adds does not let a damaged    *)
(* write pass for a good one.                                              *)
AckedIsStored ==
  acked > 0 =>
    /\ object_id \in 1 .. Len(objects)
    /\ acked <= Len(objects[object_id])
    /\ \A i \in 1 .. acked : objects[object_id][i] = Source[i]

(* A write that the caller counts because its generated checksum verified  *)
(* is in its object as the request had it, whatever was digested before,   *)
(* provided that the digest library lost nothing: verify_response compares *)
(* the digest only, and not how many bytes should be in it.                *)
VerifiedIsStored ==
  /\ Mode = GENERATE_CHECKSUM
  /\ pc = "returned"
  /\ Counted(TRUE) /\ ~VerifyReadsNull
  /\ checksum.offset = Len(checksum.internal_state)
  => objects[KnownId] = request.data

(* After a write that succeeded, AtmosChecksum_get_state describes the     *)
(* whole object, whatever failed before: this is what lets the next append *)
(* continue the same checksum object (lib/atmos_common.h:211-215).         *)
ChecksumDescribesObject ==
  Mode = WSCHECKSUM /\ pc = "returned" /\ Succeeded =>
    GetState(checksum, TRUE) = [offset |-> Len(objects[KnownId]),
                                value |-> objects[KnownId]]

(* The checksum moves once per request: while a request is on its way its  *)
(* x-emc-wschecksum header is the current state of the checksum object,    *)
(* also when the request is executed a second time.                        *)
HeaderIsCurrent ==
  pc \in {"send", "server", "reply"} /\ request.wschecksum # NULL =>
    request.wschecksum = GetState(checksum, TRUE)

(* Digesting a file never shows in its transfer: what the server receives  *)
(* begins where the file stood when the client was called, whatever failed *)
(* in earlier executions, and is as long as the body, or reaches to the    *)
(* end of the file.  With a file at its beginning that is the whole body.  *)
SentFromWhereItStood ==
  pc = "server" =>
    IF request.body = "file"
      THEN /\ Len(wire.data) =
                Len(FileRead(file.data, request.from, Len(request.data)))
           /\ file.pos = request.from + Len(wire.data)
           /\ request.from = 0 => Len(wire.data) = Len(request.data)
      ELSE Len(wire.data) = Len(request.data)

(* A request that arrives undamaged carries a header the server agrees     *)
(* with.  It holds for a caller that rebuilds its checksum after every     *)
(* failure, and fails for one that goes on with it: the filter advances    *)
(* the checksum before it is known whether the write will be done.         *)
HeaderMatchesObject ==
  /\ pc = "server"
  /\ wire.data = request.data
  /\ checksum.offset = Len(checksum.internal_state)
  => Acceptable(wire)

(* A generated checksum of an undamaged write verifies, provided that the  *)
(* checksum object was fresh, that a file body was sent only once and that *)
(* *_Final does not fail.                                                  *)
VerifyAccepts ==
  /\ Mode = GENERATE_CHECKSUM
  /\ pc = "returned"
  /\ Succeeded
  /\ wire.data = request.data
  /\ checksum.status = "ready"
  /\ checksum.offset = Len(checksum.internal_state)
  /\ request.base = 0
  /\ request.body = "array" \/ request.runs = 1
  => Verified(TRUE)

(* The content of the caller's object.                                     *)
Stored == IF KnownId = 0 THEN << >> ELSE objects[KnownId]

(* Seen from outside, the caller's object under a wschecksum is a log that *)
(* grows by one acknowledged piece at a time, each piece stored once.      *)
Log == INSTANCE AppendLog WITH
         Data   <- Source,
         stored <- Stored

ImplementsLog == Log!Spec

(* Under a wschecksum, whatever the caller does after a failure, the log   *)
(* never shows a wrong, doubled or misplaced piece; it may stop growing.   *)
KeepsLog == Log!Safety
-----------------------------------------------------------------------------
(* The inductive invariant that the theorems of WriteObjectProofs rest on. *)

(* The parts of the state that fit together whatever the checksum mode.    *)
Active == pc \notin {"idle", "done"}

RequestInv ==
  Active =>
    /\ request \in Requests
    /\ acked < Len(Source)
    /\ request.start = acked
    /\ request.data = Segment(acked, Cut[acked])
    /\ request.kind # "create" => object_id # 0
    /\ request.range # NULL =>
         request.kind = "append" /\ request.range = RangeOf(request)

WireInv ==
  pc = "server" =>
    /\ wire \in Messages
    /\ wire.kind = request.kind
    /\ wire.range = request.range
    /\ wire.wschecksum = request.wschecksum
    /\ Len(wire.data) <= Len(request.data)

IdsInv ==
  /\ object_id \in 0 .. Len(objects)
  /\ response.location \in 0 .. Len(objects)
  /\ response.object_id \in 0 .. Len(objects)

TypeInv == TypeOK /\ RequestInv /\ WireInv /\ IdsInv

(* What holds under a wschecksum.  A piece of Source is in flight from     *)
(* acked to Cut[acked], and the object ends at one of the two.             *)
ObjectInv ==
  /\ object_id = 0 <=> acked = 0
  /\ object_id # 0 =>
       \/ Len(objects[object_id]) = acked
       \/ acked < Len(Source) /\ Len(objects[object_id]) = Cut[acked]

(* A digest that is complete and covers no more than the object will hold  *)
(* ends in the body of the request.                                        *)
EndsInBody(digest, offset) ==
  offset = Len(digest) /\ offset = Cut[acked] => EndsWith(digest, request.data)

(* There is a header by the time the body is sent, and it covers at least  *)
(* what the object will hold.                                              *)
HeaderInv ==
  /\ checksum.mode = WSCHECKSUM
  /\ Active =>
       /\ request.kind = IF object_id = 0 THEN "create" ELSE "append"
       /\ \/ pc \in {"send", "server", "reply", "unwind"}
          \/ pc = "returned" /\ Succeeded
          => request.wschecksum # NULL
       /\ pc \in {"set_write_headers", "send", "server"} /\ request.kind = "append"
            => request.range # NULL
       /\ LET header == request.wschecksum IN
            header # NULL =>
              /\ header.offset >= Cut[acked]
              /\ EndsInBody(header.value, header.offset)

(* The checksum is never behind the object.  A file that was digested but  *)
(* not brought back has all its bytes up to its position in the digest, so *)
(* that what is digested from there on covers too much.                    *)
FileInv ==
  /\ Active /\ request.wschecksum = NULL /\ request.body = "file" =>
       file.data = Rest(acked)
  /\ checksum.status = "ready" =>
       /\ checksum.offset >= acked
       /\ Active /\ request.wschecksum # NULL => checksum.offset >= Cut[acked]
       /\ Active /\ request.wschecksum = NULL /\ request.body = "file" =>
            \/ file.pos = 0
            \/ /\ file.pos >= Len(request.data)
               /\ checksum.offset >= acked + file.pos
               /\ EndsInBody(checksum.internal_state, checksum.offset)

(* A success is only reported for a write that was done.                   *)
ResponseInv ==
  /\ pc = "idle" => KnownId = object_id
  /\ pc \in {"built", "update_object", "set_write_headers", "send", "server"}
       => response = EmptyResponse
  /\ pc \in {"reply", "unwind", "returned"} =>
       LET new == IF pc = "returned" THEN response.object_id
                  ELSE response.location IN
       /\ response.http_code = 201 =>
            /\ request.kind = "create"
            /\ new # 0
            /\ Len(objects[new]) = Cut[acked]
       /\ response.http_code = 200 =>
            /\ request.kind = "append"
            /\ Len(objects[object_id]) = Cut[acked]
       /\ pc # "returned" => response.object_id = 0
       /\ response.http_code # 201 => response.object_id = 0

DigestInv == Len(checksum.internal_state) <= checksum.offset

WsInv ==
  DigestInv /\ StoredIsPrefix /\ ObjectInv /\ HeaderInv /\ FileInv /\ ResponseInv

IInv == TypeInv /\ (Mode = WSCHECKSUM => WsInv)
=============================================================================
