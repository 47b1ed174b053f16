---------------------------- MODULE RangedAccess ----------------------------
(***************************************************************************)
(* Reading and updating parts of one object: the numbers a caller gives to *)
(* set_range or set_range_offset_size, the -1 that stands for an end that  *)
(* is not set, the Range header that AtmosFilter_set_read_object_headers   *)
(* and AtmosFilter_update_object make of them, and what becomes of the     *)
(* object when transfers fail and requests are executed again.             *)
(*                                                                         *)
(* Positions count from 0, a range includes both its ends.  The server is  *)
(* not part of the repository: it reads a Range header the way             *)
(* test_read_object_range and test_update_object_range rely on.            *)
(***************************************************************************)
EXTENDS Integers, Sequences

CONSTANTS
  Bytes,      \* what an object consists of
  MaxLength,  \* bound on the length of the object
  Faults,     \* what may go wrong
  MaxFaults   \* bound on the faults of a behaviour

FaultKinds == {"refuse", "cut", "losereply"}

ASSUME RangedAccessAssumption ==
  /\ MaxLength \in Nat
  /\ Faults \subseteq FaultKinds
  /\ MaxFaults \in Nat

VARIABLES
  pc,        \* where the client's one thread of control is
  request,   \* the read or update request
  response,  \* the response object
  object,    \* the server: the content of the object
  copy,      \* the caller's copy of the object
  unsure,    \* the caller does not know whether its last update was done
  faults     \* faults so far

vars == <<pc, request, response, object, copy, unsure, faults>>

Contents == UNION {[1 .. n -> Bytes] : n \in 0 .. MaxLength}

Smaller(m, n) == IF m < n THEN m ELSE n

(* How the caller chose the range: not at all, with set_range(x, y), or    *)
(* with set_range_offset_size(x, y).                                       *)
Choices == [how: {"none", "range", "extent"}, x: Int, y: Int]

Whole == [how |-> "none", x |-> -1, y |-> -1]

(* What lib/atmos_read.h:139-163 and lib/atmos_update.h:139-163 say of a   *)
(* choice: the bytes of an object of length n from position from up to,    *)
(* not including, position to.                                             *)
From(choice, n) ==
  IF choice.how = "range" /\ choice.x = -1 /\ choice.y # -1
    THEN IF choice.y < n THEN n - choice.y ELSE 0
  ELSE IF choice.x = -1 THEN 0
  ELSE choice.x

To(choice, n) ==
  CASE choice.how = "extent" -> choice.x + choice.y
    [] choice.how = "range" /\ choice.x # -1 /\ choice.y # -1 -> choice.y + 1
    [] OTHER -> n

Part(content, from, to) == SubSeq(content, from + 1, Smaller(to, Len(content)))

(* The bytes from .. to - 1 replaced by data.                              *)
Overlay(content, from, to, data) ==
  Part(content, 0, from) \o data \o Part(content, to, Len(content))

Asked(choice, content) ==
  Part(content, From(choice, Len(content)), To(choice, Len(content)))

Updated(choice, content, data) ==
  Overlay(content, From(choice, Len(content)), To(choice, Len(content)), data)

(* A Range header: "Bytes=first-last", where -1 is a number left out; at   *)
(* least one is there.                                                     *)
Ranges == {r \in [first: Int, last: Int] : r.first # -1 \/ r.last # -1}

Requests == [method: {"GET", "PUT"}, range_start: Int, range_end: Int,
             ranges: SUBSET Ranges, data: Contents,
             choice: Choices]        \* history: what the caller asked for

Responses == [http_code: {0, 200, 400, 500}, body: Contents]

EmptyResponse == [http_code |-> 0, body |-> << >>]

Init ==
  /\ pc = "idle"
  /\ request = [method |-> "GET", range_start |-> -1, range_end |-> -1,
                ranges |-> {}, data |-> << >>, choice |-> Whole]
  /\ response = EmptyResponse
  /\ object \in Contents
  /\ copy = object
  /\ unsure = FALSE
  /\ faults = 0

Fault(kind) ==
  /\ kind \in Faults
  /\ faults < MaxFaults
  /\ faults' = faults + 1

-----------------------------------------------------------------------------
(* The caller builds a request.                                            *)

(* Neither end of the range is set.                                        *)
InitRequest(method, data) ==
  [method |-> method, range_start |-> -1, range_end |-> -1, ranges |-> {},
   data |-> data, choice |-> Whole]

(* AtmosReadObjectRequest_init, _init_ns and _init_keypool.                *)
InitRead == InitRequest("GET", << >>)

(* Slip: zeroing the request is taken to be enough.                        *)
InitUpdate_Zeroed(data) ==
  [InitRequest("PUT", data) EXCEPT !.range_start = 0, !.range_end = 0]

(* AtmosUpdateObjectRequest_init, _init_ns and _init_keypool, and the body.*)
InitUpdate(data) == InitRequest("PUT", data)

(* ..._set_range.                                                          *)
SetRange(req, start, end) ==
  [req EXCEPT !.range_start = start, !.range_end = end,
              !.choice = [how |-> "range", x |-> start, y |-> end]]

(* Slip: the size is taken for the end.                                    *)
SetRangeOffsetSize_SizeIsEnd(req, offset, size) ==
  [req EXCEPT !.range_start = offset, !.range_end = size - 1,
              !.choice = [how |-> "extent", x |-> offset, y |-> size]]

(* ..._set_range_offset_size.                                              *)
SetRangeOffsetSize(req, offset, size) ==
  [req EXCEPT !.range_start = offset, !.range_end = offset + size - 1,
              !.choice = [how |-> "extent", x |-> offset, y |-> size]]

Build(req) ==
  /\ pc = "idle"
  /\ request' = req
  /\ response' = EmptyResponse
  /\ pc' = "built"
  /\ UNCHANGED <<object, copy, unsure, faults>>

(* A caller that does not know what the object holds reads it first.       *)
BuildRead ==
  \/ Build(InitRead)
  \/ Build(SetRange(InitRead, -1, -1))
  \/ /\ ~unsure
     /\ \/ \E x \in 0 .. Len(copy) :
             \/ Build(SetRange(InitRead, x, -1))
             \/ \E y \in x .. Len(copy) : Build(SetRange(InitRead, x, y))
             \/ \E n \in 0 .. Len(copy) :
                  Build(SetRangeOffsetSize(InitRead, x, n))
        \/ \E n \in 1 .. Len(copy) + 1 : Build(SetRange(InitRead, -1, n))

(* The body is as long as the range it goes to, and replaces or continues  *)
(* what is there.                                                          *)
BuildUpdate ==
  /\ ~unsure
  /\ \E data \in Contents :
       LET req == InitUpdate(data)
           n == Len(data)
       IN \/ Build(req)
          \/ Build(SetRange(req, -1, -1))
          \/ \E x \in 0 .. Smaller(Len(copy), MaxLength - n) :
               \/ Build(SetRange(req, x, -1))
               \/ n > 0 /\ Build(SetRange(req, x, x + n - 1))
               \/ n > 0 /\ Build(SetRangeOffsetSize(req, x, n))
          \/ n \in 1 .. Len(copy) /\ Build(SetRange(req, -1, n))

-----------------------------------------------------------------------------
(* The filters.                                                            *)

(* Slip: the last bytes of an object are not thought of.                   *)
RangeHeaders_NoSuffix(req) ==
  IF req.range_start # -1
    THEN {[first |-> req.range_start, last |-> req.range_end]} ELSE {}

(* Slip: the numbers are sent whatever they are.                           *)
RangeHeaders_NoSentinel(req) ==
  {[first |-> req.range_start, last |-> req.range_end]}

(* The three forms of the header come out of one snprintf each; with       *)
(* neither end set there is none.                                          *)
RangeHeaders(req) ==
  IF req.range_start # -1 \/ req.range_end # -1
    THEN {[first |-> req.range_start, last |-> req.range_end]} ELSE {}

AddRange(method) ==
  /\ pc = "built"
  /\ request.method = method
  /\ request' = [request EXCEPT !.ranges = @ \cup RangeHeaders(request)]
  /\ pc' = "server"
  /\ UNCHANGED <<response, object, copy, unsure, faults>>

(* AtmosFilter_set_read_object_headers.                                    *)
SetReadObjectHeaders == AddRange("GET")

(* AtmosFilter_update_object.                                              *)
UpdateObject == AddRange("PUT")

-----------------------------------------------------------------------------
(* The server and the connection.                                          *)

(* Whether a Range header points into n bytes; an update may begin behind  *)
(* the last one.                                                           *)
Satisfiable(range, n) ==
  IF range.first = -1 THEN range.last > 0
  ELSE /\ range.first < n \/ (request.method = "PUT" /\ range.first = n)
       /\ range.last = -1 \/ range.last >= range.first

First(range, n) ==
  IF range.first # -1 THEN range.first
  ELSE IF range.last < n THEN n - range.last ELSE 0

Limit(range, n) ==
  IF range.first # -1 /\ range.last # -1 THEN range.last + 1 ELSE n

(* Answers the server may give, with the object as it is afterwards.  With *)
(* more than one Range header it may go by any of them.  An update has to  *)
(* fill its range.                                                         *)
Outcome(code, body, content) ==
  [http_code |-> code, body |-> body, content |-> content]

ByRange(range) ==
  LET first == First(range, Len(object))
      limit == Limit(range, Len(object))
  IN CASE ~Satisfiable(range, Len(object)) -> Outcome(400, << >>, object)
       [] OTHER ->
            IF request.method = "GET"
              THEN Outcome(200, Part(object, first, limit), object)
            ELSE IF range.last # -1 /\ limit - first # Len(request.data)
              THEN Outcome(400, << >>, object)
            ELSE Outcome(200, << >>,
                         Overlay(object, first, limit, request.data))

Outcomes ==
  IF request.ranges # {} THEN {ByRange(range) : range \in request.ranges}
  ELSE IF request.method = "GET" THEN {Outcome(200, object, object)}
  ELSE {Outcome(200, << >>, request.data)}

Serve ==
  /\ pc = "server"
  /\ \E outcome \in Outcomes :
       /\ response' = [http_code |-> outcome.http_code, body |-> outcome.body]
       /\ object' = outcome.content
  /\ pc' = "returned"
  /\ UNCHANGED <<request, copy, unsure, faults>>

Refuse ==
  /\ pc = "server"
  /\ Fault("refuse")
  /\ response' = [http_code |-> 500, body |-> << >>]
  /\ pc' = "returned"
  /\ UNCHANGED <<request, object, copy, unsure>>

(* No answer: http_code stays 0, and the server has done nothing.          *)
CutOff ==
  /\ pc = "server"
  /\ Fault("cut")
  /\ pc' = "returned"
  /\ UNCHANGED <<request, response, object, copy, unsure>>

(* The server has done its part and the answer is lost.                    *)
LoseReply ==
  /\ pc = "server"
  /\ Fault("losereply")
  /\ \E outcome \in Outcomes : object' = outcome.content
  /\ pc' = "returned"
  /\ UNCHANGED <<request, response, copy, unsure>>

-----------------------------------------------------------------------------
(* The caller and the outcome.                                             *)

(* The copy follows the documented meaning of an update.  A caller that is *)
(* not sure of its copy has read the whole object.                         *)
Accept ==
  /\ pc = "returned"
  /\ response.http_code = 200
  /\ copy' = IF request.method = "PUT"
               THEN Updated(request.choice, copy, request.data)
             ELSE IF unsure THEN response.body ELSE copy
  /\ unsure' = FALSE
  /\ pc' = "idle"
  /\ UNCHANGED <<request, response, object, faults>>

(* The update may have been done.                                          *)
Doubt == unsure \/ (response.http_code = 0 /\ request.method = "PUT")

(* Execute the same request again, with a fresh response.                  *)
Reexecute ==
  /\ pc = "returned"
  /\ response.http_code \in {0, 500}
  /\ unsure' = Doubt
  /\ response' = EmptyResponse
  /\ pc' = "built"
  /\ UNCHANGED <<request, object, copy, faults>>

GiveUp ==
  /\ pc = "returned"
  /\ response.http_code # 200
  /\ unsure' = Doubt
  /\ pc' = "idle"
  /\ UNCHANGED <<request, response, object, copy, faults>>

-----------------------------------------------------------------------------
ClientStep ==
  \/ BuildRead \/ BuildUpdate
  \/ SetReadObjectHeaders \/ UpdateObject
  \/ Accept \/ Reexecute \/ GiveUp

Next == ClientStep \/ Serve \/ Refuse \/ CutOff \/ LoseReply

Spec == Init /\ [][Next]_vars

FairSpec == Spec /\ WF_vars(ClientStep) /\ WF_vars(Serve)

-----------------------------------------------------------------------------
(* Properties.                                                             *)

TypeOK ==
  /\ pc \in {"idle", "built", "server", "returned"}
  /\ request \in Requests
  /\ response \in Responses
  /\ object \in Seq(Bytes)
  /\ copy \in Seq(Bytes)
  /\ unsure \in BOOLEAN
  /\ faults \in 0 .. MaxFaults

(* set_range_offset_size(0, 0): the end is the -1 that means no end, and   *)
(* the header asks for everything from position 0.                         *)
NothingAtStart(choice) == choice = [how |-> "extent", x |-> 0, y |-> 0]

(* A read that succeeds returns the bytes lib/atmos_read.h says it does,   *)
(* whichever function set the range and however often the request was      *)
(* executed; only an extent of no bytes at the start is read as the whole  *)
(* object.                                                                 *)
ReadsAsked ==
  /\ pc = "returned"
  /\ request.method = "GET"
  /\ response.http_code = 200
  => response.body = IF NothingAtStart(request.choice) THEN object
                     ELSE Asked(request.choice, object)

(* An update changes the bytes lib/atmos_update.h says it does and no      *)
(* others, done once, done again after its answer was lost, or not at all. *)
UpdatesOnlyAsked ==
  [][object' # object =>
       object' = Updated(request.choice, object, request.data)]_vars

(* A caller that applies each successful update to a copy of its own, and  *)
(* reads the object again when it does not know whether an update was      *)
(* done, keeps a true copy.                                                *)
CopyIsTrue == pc = "idle" /\ ~unsure => copy = object

(* The caller can always find out where its object stands.                 *)
EventuallySure == unsure ~> ~unsure
=============================================================================
