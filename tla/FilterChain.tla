----------------------------- MODULE FilterChain -----------------------------
(***************************************************************************)
(* One call of the client (lib/atmos_client.c): the operation builds a     *)
(* request and a chain of filters, each filter works on the request,       *)
(* passes it on, and works on the response when the next one returns.      *)
(* Requests that belong to the caller may be executed again.               *)
(*                                                                         *)
(* A header is its name and a number: the time for Date, the index in      *)
(* `signed` of the string it signs for x-emc-signature, and 0 for the rest,*)
(* whose text is not looked at here.  What a caller asks for is the set of *)
(* the headers that its input gives rise to.                               *)
(***************************************************************************)
EXTENDS Integers, Sequences, FiniteSets

CONSTANTS
  Calls,        \* the operations to run
  Codes,        \* the HTTP codes the server answers with
  MaxOptions,   \* bound on what a caller asks for in one call
  MaxRuns       \* bound on the executions of one request

-----------------------------------------------------------------------------
(* The operations: method, what the response object has room for, the      *)
(* filters in the order RestFilter_add gets them, the headers the call     *)
(* always adds before it runs the chain, those it adds when asked to, and  *)
(* what else may be asked for.  A `plain` response is a RestResponse; the  *)
(* others are an AtmosResponse with the given fields.                      *)

Op(method, plain, fields, filters, always, given, options) ==
  [method |-> method, plain |-> plain, fields |-> fields,
   filters |-> filters, always |-> always, given |-> given,
   options |-> options]

WriteOptions ==
  {"body", "x-emc-meta", "x-emc-listable-meta", "x-emc-useracl",
   "x-emc-groupacl", "x-emc-wschecksum", "x-emc-generate-checksum"}

ListOptions ==
  {"x-emc-token", "x-emc-limit", "x-emc-include-meta", "x-emc-user-tags",
   "x-emc-system-tags"}

ServiceOps ==
  [get_service_information |->
     Op("GET", FALSE, {"version"}, <<"parse_service_info_response">>,
        << >>, << >>, {})]

CreateOps ==
  [create_object |->
     Op("POST", FALSE, {"object_id"},
        <<"parse_create_response", "set_write_headers">>,
        << >>, <<"x-emc-pool">>, WriteOptions)]

DeleteOps ==
  [delete_object |->
     Op("DELETE", TRUE, {}, << >>, << >>, <<"x-emc-pool">>, {})]

ReadOps ==
  LET read(method) ==
        Op(method, FALSE, {"system_metadata", "meta", "acl"},
           <<"set_read_object_headers", "parse_read_object_response">>,
           << >>, <<"x-emc-pool">>, {"Range"})
  IN [read_object |-> read("GET"), head_object |-> read("HEAD")]

DeleteMetaOps ==
  [delete_user_meta |->
     Op("DELETE", TRUE, {}, << >>, << >>,
        <<"x-emc-utf8", "x-emc-tags", "x-emc-pool">>, {})]

MetaOps ==
  [get_user_meta |->
     Op("GET", FALSE, {"meta"},
        <<"set_get_user_meta_headers", "parse_get_user_meta_response">>,
        << >>, <<"x-emc-pool">>, {"x-emc-tags"}),
   set_user_meta |->
     Op("POST", FALSE, {}, <<"set_write_headers">>,
        << >>, <<"x-emc-pool">>, WriteOptions \ {"body"}),
   get_system_meta |->
     Op("GET", FALSE, {"system_metadata"}, <<"get_system_metadata">>,
        << >>, <<"x-emc-pool">>, {"x-emc-tags"})]

AclOps ==
  [get_acl |->
     Op("GET", FALSE, {"acl"}, <<"parse_get_acl_response">>,
        << >>, <<"x-emc-pool">>, {}),
   set_acl |->
     Op("POST", FALSE, {}, <<"parse_get_acl_response">>,
        <<"Content-Type">>,
        <<"x-emc-useracl", "x-emc-groupacl", "x-emc-pool">>, {})]

UpdateOps ==
  [update_object |->
     Op("PUT", TRUE, {}, <<"set_write_headers", "update_object">>,
        << >>, <<"x-emc-pool">>, WriteOptions \cup {"Range"})]

InfoOps ==
  [get_object_info |->
     Op("GET", FALSE, {"object_info"}, <<"parse_get_info_response">>,
        << >>, <<"x-emc-pool">>, {}),
   rename_object |->
     Op("POST", FALSE, {}, << >>, <<"x-emc-path", "Content-Type">>,
        <<"x-emc-force">>, {})]

ListOps ==
  [list_directory |->
     Op("GET", FALSE, {"system_metadata", "meta", "acl", "entries", "token"},
        <<"parse_read_object_response", "list_directory",
          "set_pagination_headers">>, << >>, << >>, ListOptions),
   get_listable_tags |->
     Op("GET", FALSE, {"tags", "token"},
        <<"set_pagination_headers", "get_listable_tags">>,
        << >>, << >>, {"x-emc-token", "x-emc-limit", "x-emc-tags"}),
   list_objects |->
     Op("GET", FALSE, {"results", "token"},
        <<"list_objects", "set_pagination_headers">>,
        << >>, << >>, ListOptions)]

VersionOps ==
  [create_version |->
     Op("POST", FALSE, {"version_id"}, <<"parse_create_version_response">>,
        << >>, << >>, {}),
   list_versions |->
     Op("GET", FALSE, {"versions", "token"},
        <<"list_versions", "set_pagination_headers">>,
        << >>, << >>, {"x-emc-token", "x-emc-limit"}),
   delete_version |-> Op("DELETE", TRUE, {}, << >>, << >>, << >>, {}),
   restore_version |->
     Op("PUT", TRUE, {}, << >>, <<"x-emc-version-oid">>, << >>, {})]

TokenOps ==
  [create_access_token |->
     Op("POST", FALSE, {"token_id"}, <<"create_access_token">>, << >>, << >>,
        {"x-emc-objectid", "x-emc-path", "x-emc-meta", "x-emc-listable-meta",
         "x-emc-useracl", "x-emc-groupacl", "body"}),
   delete_access_token |-> Op("DELETE", TRUE, {}, << >>, << >>, << >>, {}),
   list_access_tokens |->
     Op("GET", FALSE, {"token_list", "token"},
        <<"set_pagination_headers", "parse_list_access_tokens_response">>,
        << >>, << >>, {"x-emc-token", "x-emc-limit"}),
   get_access_token_info |->
     Op("GET", FALSE, {"token_info"}, <<"parse_get_token_info_response">>,
        << >>, << >>, {})]

(* TLC's @@ takes two functions to one, too; no proof can look into it.    *)
f ++ g ==
  [x \in DOMAIN f \cup DOMAIN g |-> IF x \in DOMAIN f THEN f[x] ELSE g[x]]

ObjectOps == CreateOps ++ DeleteOps ++ ReadOps ++ UpdateOps
MetadataOps == DeleteMetaOps ++ MetaOps ++ AclOps ++ InfoOps
OtherOps == ServiceOps ++ ListOps ++ VersionOps ++ TokenOps

Operation == ObjectOps ++ MetadataOps ++ OtherOps

ASSUME CallsAssumption ==
  /\ Calls \subseteq DOMAIN Operation
  /\ Codes \subseteq 100 .. 599
  /\ MaxOptions \in Nat
  /\ MaxRuns \in Nat \ {0}

(* Their requests are the caller's, who may execute them again.            *)
Reusable ==
  {"create_object", "read_object", "get_user_meta", "set_user_meta",
   "get_system_meta", "update_object", "list_directory", "get_listable_tags",
   "list_objects", "list_versions", "create_access_token",
   "list_access_tokens"}

-----------------------------------------------------------------------------
(* The chain.                                                              *)

(* Slip: the signature is also added where it used to be.                  *)
DefaultFilters_SignTwice ==
  <<"execute_curl_request", "sign_request", "set_content_headers",
    "sign_request", "add_uid", "add_date", "parse_atmos_error">>

(* AtmosClient_add_default_filters, in the order of its calls.             *)
DefaultFilters ==
  <<"execute_curl_request", "sign_request", "set_content_headers", "add_uid",
    "add_date", "parse_atmos_error">>

(* RestFilter_add puts a filter in front of those that are there.          *)
RunOrder(added) == [i \in 1 .. Len(added) |-> added[Len(added) + 1 - i]]

Chain(op) == RunOrder(DefaultFilters \o Operation[op].filters)

-----------------------------------------------------------------------------
VARIABLES
  pc,        \* "idle", on the way in or out, back at the caller, "crashed"
  depth,     \* the filter whose turn it is
  request,   \* the request, or the empty one
  response,  \* the response object
  sent,      \* the lists of headers the server got in this execution
  signed     \* history: the strings signed so far

vars == <<pc, depth, request, response, sent, signed>>

HeaderNames ==
  {"Date", "Content-Type", "Content-Length", "Range", "x-emc-uid",
   "x-emc-signature", "x-emc-meta", "x-emc-listable-meta", "x-emc-utf8",
   "x-emc-useracl", "x-emc-groupacl", "x-emc-tags", "x-emc-path",
   "x-emc-force", "x-emc-token", "x-emc-include-meta", "x-emc-user-tags",
   "x-emc-system-tags", "x-emc-limit", "x-emc-version-oid",
   "x-emc-objectid", "x-emc-pool", "x-emc-wschecksum",
   "x-emc-generate-checksum"}

EmcHeaderNames ==
  HeaderNames \ {"Date", "Content-Type", "Content-Length", "Range"}

Headers == [name: HeaderNames, value: Nat]

Fields == (UNION {Operation[op].fields : op \in DOMAIN Operation})
            \cup {"atmos_error"}

NoRequest == [op |-> "none", options |-> {}, body |-> FALSE,
              headers |-> << >>, runs |-> 0]

(* What an answer may carry: headers with metadata and ACLs, a pagination  *)
(* token, a well-formed Location, a well-formed document.                  *)
AnswerParts == {"headers", "token", "location", "document"}

(* written: the fields of the response object that filters wrote.          *)
FreshResponse == [http_code |-> 0, local_error |-> FALSE, written |-> {},
                  has |-> {}]

Named(names) == [i \in 1 .. Len(names) |-> [name |-> names[i], value |-> 0]]

(* Those of the names that the caller's input asks for.                    *)
Select(names, options) ==
  LET upTo[n \in 0 .. Len(names)] ==
        IF n = 0 THEN << >>
        ELSE IF names[n] \in options THEN Append(upTo[n - 1], names[n])
        ELSE upTo[n - 1]
  IN upTo[Len(names)]

Chosen(names) == Named(Select(names, request.options))

Has(name) ==
  \E i \in 1 .. Len(request.headers) : request.headers[i].name = name

Init ==
  /\ pc = "idle"
  /\ depth = 0
  /\ request = NoRequest
  /\ response = FreshResponse
  /\ sent = << >>
  /\ signed = << >>

(* What may be asked for in a call: one checksum mode at a time.           *)
OptionsOf(op) ==
  {options \in SUBSET ({"x-emc-utf8"} \cup Operation[op].options
                         \cup {Operation[op].given[i] :
                                 i \in 1 .. Len(Operation[op].given)}) :
     /\ Cardinality(options) <= MaxOptions
     /\ ~ {"x-emc-wschecksum", "x-emc-generate-checksum"} \subseteq options}

(* The operation builds its request (or the caller did), adds the headers  *)
(* it takes care of itself, and executes the chain.  The body of           *)
(* restore_version is empty but there.                                     *)
Call(op, options) ==
  /\ pc = "idle"
  /\ request' =
       [op |-> op, options |-> options,
        body |-> "body" \in options \/ op = "restore_version",
        headers |-> Named(Operation[op].always \o
                            Select(Operation[op].given, options)),
        runs |-> 1]
  /\ depth' = 1
  /\ pc' = "request"
  /\ UNCHANGED <<response, sent, signed>>

(* The caller executes its request once more, with a fresh response.       *)
CallAgain ==
  /\ pc = "returned"
  /\ request.op \in Reusable
  /\ request.runs < MaxRuns
  /\ request' = [request EXCEPT !.runs = @ + 1]
  /\ response' = FreshResponse
  /\ sent' = << >>
  /\ depth' = 1
  /\ pc' = "request"
  /\ UNCHANGED signed

-----------------------------------------------------------------------------
(* The request halves of the filters.                                      *)

AtFilter(filter) == Chain(request.op)[depth] = filter

(* The filter adds these headers and calls the next one.                   *)
PassOn(filter, headers) ==
  /\ pc = "request"
  /\ AtFilter(filter)
  /\ request' = [request EXCEPT !.headers = @ \o headers]
  /\ depth' = depth + 1
  /\ UNCHANGED <<pc, response, sent, signed>>

(* The filter returns without calling the next one: what it was called     *)
(* from gets its turn.  An AtmosResponse also carries the API's own error. *)
GiveUp(filter, headers) ==
  /\ pc = "request"
  /\ AtFilter(filter)
  /\ request' = [request EXCEPT !.headers = @ \o headers]
  /\ response' = [response EXCEPT
                    !.http_code = 400,
                    !.local_error = TRUE,
                    !.written = IF Operation[request.op].plain THEN @
                                ELSE @ \cup {"atmos_error"}]
  /\ depth' = depth - 1
  /\ pc' = IF depth = 1 THEN "returned" ELSE "response"
  /\ UNCHANGED <<sent, signed>>

AddDate == PassOn("add_date", <<[name |-> "Date", value |-> request.runs]>>)

AddUid == PassOn("add_uid", Named(<<"x-emc-uid">>))

(* The two filters of rest-client-c: the body's content type and length.   *)
SetContentHeaders ==
  PassOn("set_content_headers",
         IF request.body THEN Named(<<"Content-Type", "Content-Length">>)
         ELSE << >>)

(* RestRequest_get_header_value: the value of the first header with this   *)
(* name, in a sequence that is empty if there is none.                     *)
FirstValue(headers, name) ==
  LET all == SelectSeq(headers, LAMBDA h : h.name = name)
  IN  IF all = << >> THEN << >> ELSE <<all[1].value>>

(* AtmosClient_canonicalize_request: the verb, whether there is a content   *)
(* type and a range, the first Date (in a sequence that is empty when      *)
(* there is none), and the x-emc headers with how often each is there,     *)
(* which is what sorting them leaves.                                      *)
StringToSign(method, headers) ==
  LET emc == {headers[i] : i \in {j \in 1 .. Len(headers) :
                                    headers[j].name \in EmcHeaderNames}}
  IN  [method |-> method,
       type   |-> FirstValue(headers, "Content-Type") # << >>,
       range  |-> FirstValue(headers, "Range") # << >>,
       date   |-> FirstValue(headers, "Date"),
       emc    |-> [h \in emc |->
                     Cardinality({i \in 1 .. Len(headers) : headers[i] = h})]]

SignRequest ==
  /\ pc = "request"
  /\ AtFilter("sign_request")
  /\ signed' = Append(signed, StringToSign(Operation[request.op].method,
                                           request.headers))
  /\ request' = [request EXCEPT !.headers =
       Append(@, [name |-> "x-emc-signature", value |-> Len(signed')])]
  /\ depth' = depth + 1
  /\ UNCHANGED <<pc, response, sent>>

(* Slip: the content type is set whether there is a body or not.           *)
WriteHeaders_AlwaysType ==
  Named(<<"Content-Type">>) \o
    Chosen(<<"x-emc-meta", "x-emc-listable-meta", "x-emc-utf8",
             "x-emc-useracl", "x-emc-groupacl">>)

(* The headers AtmosFilter_set_write_headers and                           *)
(* AtmosFilter_create_access_token start with.                             *)
WriteHeaders ==
  (IF request.body THEN << >> ELSE Named(<<"Content-Type">>)) \o
    Chosen(<<"x-emc-meta", "x-emc-listable-meta", "x-emc-utf8",
             "x-emc-useracl", "x-emc-groupacl">>)

(* A wschecksum is computed unless there is nothing to sum or the header   *)
(* is already there.                                                       *)
SumsBody ==
  /\ "x-emc-wschecksum" \in request.options
  /\ ~Has("x-emc-wschecksum")
  /\ request.body

Generates ==
  /\ "x-emc-generate-checksum" \in request.options
  /\ ~Has("x-emc-generate-checksum")

(* Module WriteObject has the details of the two checksum branches.        *)
SetWriteHeaders ==
  PassOn("set_write_headers",
         WriteHeaders
           \o (IF SumsBody THEN Named(<<"x-emc-wschecksum">>) ELSE << >>)
           \o (IF Generates THEN Named(<<"x-emc-generate-checksum">>)
               ELSE << >>))

(* Slip: the error is recorded and the request is sent all the same.       *)
ChecksumFails_NoReturn ==
  /\ SumsBody
  /\ pc = "request"
  /\ AtFilter("set_write_headers")
  /\ request' = [request EXCEPT !.headers = @ \o WriteHeaders]
  /\ response' = [response EXCEPT !.http_code = 400, !.local_error = TRUE]
  /\ depth' = depth + 1
  /\ UNCHANGED <<pc, sent, signed>>

(* ftello, fseeko or the digest fails.                                     *)
ChecksumFails == SumsBody /\ GiveUp("set_write_headers", WriteHeaders)

UpdateObject == PassOn("update_object", Chosen(<<"Range">>))

SetReadObjectHeaders ==
  PassOn("set_read_object_headers", Chosen(<<"Range", "x-emc-utf8">>))

SetGetUserMetaHeaders ==
  PassOn("set_get_user_meta_headers", Chosen(<<"x-emc-utf8", "x-emc-tags">>))

GetSystemMetadata ==
  PassOn("get_system_metadata", Chosen(<<"x-emc-utf8", "x-emc-tags">>))

SetPaginationHeaders ==
  PassOn("set_pagination_headers", Chosen(<<"x-emc-token", "x-emc-limit">>))

(* The tag lists only matter when metadata are included.                   *)
IncludeHeaders ==
  IF "x-emc-include-meta" \in request.options
    THEN Chosen(<<"x-emc-include-meta", "x-emc-user-tags",
                  "x-emc-system-tags">>)
    ELSE << >>

ListDirectory ==
  PassOn("list_directory", Chosen(<<"x-emc-utf8">>) \o IncludeHeaders)

GetListableTags ==
  PassOn("get_listable_tags", Chosen(<<"x-emc-tags", "x-emc-utf8">>))

ListObjects ==
  PassOn("list_objects",
         Chosen(<<"x-emc-utf8">>) \o Named(<<"x-emc-tags">>)
           \o IncludeHeaders)

(* Slip: the content type is left to the transfer library.                 *)
ParseCreateVersion_NoType == PassOn("parse_create_version_response", << >>)

ParseCreateVersion ==
  PassOn("parse_create_version_response",
         IF Has("Content-Type") THEN << >> ELSE Named(<<"Content-Type">>))

(* An object id takes precedence over a path.                              *)
TokenTarget ==
  IF "x-emc-objectid" \in request.options
    THEN Named(<<"x-emc-objectid">>)
    ELSE Chosen(<<"x-emc-path">>)

(* AtmosFilter_create_access_token, whose body is the policy.              *)
CreateAccessToken == PassOn("create_access_token", TokenTarget \o WriteHeaders)

(* The policy cannot be serialised.                                        *)
MarshalFails ==
  /\ request.body
  /\ GiveUp("create_access_token", TokenTarget \o WriteHeaders)

(* Filters with nothing to do on the way in.                               *)
ResponseFilters ==
  {"parse_atmos_error", "parse_service_info_response",
   "parse_create_response", "parse_read_object_response",
   "parse_get_user_meta_response", "parse_get_acl_response",
   "parse_get_info_response", "list_versions",
   "parse_list_access_tokens_response", "parse_get_token_info_response"}

(* Filters with nothing to do on the way out.                              *)
RequestFilters ==
  {"add_date", "add_uid", "set_content_headers", "sign_request",
   "set_write_headers", "update_object", "set_read_object_headers",
   "set_get_user_meta_headers", "set_pagination_headers"}

PassThrough == \E filter \in ResponseFilters : PassOn(filter, << >>)

(* The transfer library picks a content type for a body that has none.     *)
MadeUpType ==
  IF Operation[request.op].method \in {"POST", "PUT"} /\ ~Has("Content-Type")
    THEN Named(<<"Content-Type">>)
    ELSE << >>

(* RestFilter_execute_curl_request.                                        *)
ExecuteCurlRequest ==
  /\ pc = "request"
  /\ AtFilter("execute_curl_request")
  /\ sent' = Append(sent, request.headers \o MadeUpType)
  /\ pc' = "server"
  /\ UNCHANGED <<depth, request, response, signed>>

-----------------------------------------------------------------------------
(* The server and the connection.                                          *)

Answer(code, has) ==
  /\ pc = "server"
  /\ response' = [response EXCEPT !.http_code = code, !.has = has]
  /\ depth' = depth - 1
  /\ pc' = "response"
  /\ UNCHANGED <<request, sent, signed>>

(* No answer: http_code stays what it was, 0 in a fresh response.          *)
TransportError ==
  /\ pc = "server"
  /\ depth' = depth - 1
  /\ pc' = "response"
  /\ UNCHANGED <<request, response, sent, signed>>

-----------------------------------------------------------------------------
(* The response halves of the filters.                                     *)

(* The filter writes these fields and returns.                             *)
Return(filter, fields) ==
  /\ pc = "response"
  /\ AtFilter(filter)
  /\ response' = [response EXCEPT !.written = @ \cup fields]
  /\ depth' = depth - 1
  /\ pc' = IF depth = 1 THEN "returned" ELSE "response"
  /\ UNCHANGED <<request, sent, signed>>

(* A filter that has nothing to do on the way out.                         *)
ReturnOnly == \E filter \in RequestFilters : Return(filter, {})

(* Slip: the body of an error is parsed for PUT, too.                      *)
ParseAtmosError_PutToo ==
  Return("parse_atmos_error",
         IF /\ Operation[request.op].method \notin {"DELETE", "HEAD"}
            /\ response.http_code > 399
            /\ "document" \in response.has
           THEN {"atmos_error"} ELSE {})

(* AtmosFilter_parse_atmos_error casts the response to AtmosResponse.      *)
ParseAtmosError ==
  Return("parse_atmos_error",
         IF /\ Operation[request.op].method \notin {"DELETE", "PUT", "HEAD"}
            /\ response.http_code > 399
            /\ "document" \in response.has
           THEN {"atmos_error"} ELSE {})

(* The fields of a part of the answer, behind the guard http_code > 299    *)
(* that most parsers have.  An answer that never came has no parts.        *)
Parsed(part, fields) ==
  IF response.http_code <= 299 /\ part \in response.has THEN fields ELSE {}

ParseServiceInfo ==
  Return("parse_service_info_response",
         IF response.http_code = 200 THEN Parsed("document", {"version"})
         ELSE {})

ParseCreate ==
  Return("parse_create_response",
         IF response.http_code = 201 THEN Parsed("location", {"object_id"})
         ELSE {})

ParseReadObject ==
  Return("parse_read_object_response",
         Parsed("headers", {"system_metadata", "meta", "acl"}))

ParseGetUserMeta ==
  Return("parse_get_user_meta_response", Parsed("headers", {"meta"}))

ParseSystemMeta ==
  Return("get_system_metadata", Parsed("headers", {"system_metadata"}))

ParseGetAcl == Return("parse_get_acl_response", Parsed("headers", {"acl"}))

ParseGetInfo ==
  Return("parse_get_info_response", Parsed("document", {"object_info"}))

ParseDirectory ==
  Return("list_directory",
         Parsed("document", {"entries"}) \cup Parsed("token", {"token"}))

(* Slip: the guard is missing.                                             *)
ParseListableTags_Unchecked ==
  Return("get_listable_tags", {"tags"} \cup Parsed("token", {"token"}))

(* The array of tags is there even if the answer has none.                 *)
ParseListableTags ==
  Return("get_listable_tags",
         (IF response.http_code <= 299 THEN {"tags"} ELSE {})
           \cup Parsed("token", {"token"}))

ParseObjects ==
  Return("list_objects",
         Parsed("document", {"results"}) \cup Parsed("token", {"token"}))

ReturnVersion ==
  Return("parse_create_version_response", Parsed("location", {"version_id"}))

ParseVersions ==
  Return("list_versions",
         Parsed("document", {"versions"}) \cup Parsed("token", {"token"}))

ReturnToken ==
  Return("create_access_token", Parsed("location", {"token_id"}))

ParseAccessTokens ==
  /\ response.http_code # 0
  /\ Return("parse_list_access_tokens_response",
            Parsed("document", {"token_list"}) \cup Parsed("token", {"token"}))

ParseTokenInfo ==
  /\ response.http_code # 0
  /\ Return("parse_get_token_info_response",
            Parsed("document", {"token_info"}))

(* The two parsers that hand the body to an unmarshaller do so after a     *)
(* transport error, too.  It takes the length of a string that is not      *)
(* there.                                                                  *)
UnmarshalNothing ==
  /\ pc = "response"
  /\ response.http_code = 0
  /\ \/ AtFilter("parse_list_access_tokens_response")
     \/ AtFilter("parse_get_token_info_response")
  /\ pc' = "crashed"
  /\ UNCHANGED <<depth, request, response, sent, signed>>

-----------------------------------------------------------------------------
RequestHalf ==
  \/ AddDate \/ AddUid \/ SetContentHeaders \/ SignRequest
  \/ SetWriteHeaders \/ ChecksumFails \/ UpdateObject
  \/ SetReadObjectHeaders \/ SetGetUserMetaHeaders \/ GetSystemMetadata
  \/ SetPaginationHeaders \/ ListDirectory \/ GetListableTags \/ ListObjects
  \/ ParseCreateVersion \/ CreateAccessToken \/ MarshalFails
  \/ PassThrough
  \/ ExecuteCurlRequest

ResponseHalf ==
  \/ ReturnOnly \/ ParseAtmosError \/ ParseServiceInfo \/ ParseCreate
  \/ ParseReadObject \/ ParseGetUserMeta \/ ParseSystemMeta \/ ParseGetAcl
  \/ ParseGetInfo \/ ParseDirectory \/ ParseListableTags \/ ParseObjects
  \/ ReturnVersion \/ ParseVersions \/ ReturnToken \/ ParseAccessTokens
  \/ ParseTokenInfo \/ UnmarshalNothing

Next ==
  \/ \E op \in Calls : \E options \in OptionsOf(op) : Call(op, options)
  \/ CallAgain
  \/ RequestHalf
  \/ \E code \in Codes, has \in SUBSET AnswerParts : Answer(code, has)
  \/ TransportError
  \/ ResponseHalf

Spec == Init /\ [][Next]_vars

-----------------------------------------------------------------------------
(* Properties.                                                             *)

(* Every execution signs at most one string.                               *)
TypeOK ==
  /\ pc \in {"idle", "request", "server", "response", "returned", "crashed"}
  /\ pc \in {"request", "server", "response", "crashed"} =>
       depth \in 1 .. Len(Chain(request.op))
  /\ request.op \in Calls \cup {"none"}
  /\ request.headers \in Seq(Headers)
  /\ request.runs \in 0 .. MaxRuns
  /\ response.http_code \in Codes \cup {0, 400}
  /\ response.written \subseteq Fields
  /\ response.has \subseteq AnswerParts
  /\ sent \in Seq(Seq(Headers))
  /\ Len(signed) <= request.runs

ChecksumHeaders == {"x-emc-wschecksum", "x-emc-generate-checksum"}

(* What the server computes from the headers it received is what           *)
(* sign_request signed: no filter between the two, and no content type     *)
(* that curl makes up, changes anything that counts.  A request executed   *)
(* again has an old Date and signature of which the server may make what   *)
(* it likes, so this is about first executions.                            *)
SignatureVerifies ==
  pc = "server" /\ request.runs = 1 =>
    \E i \in 1 .. Len(sent[1]) :
      LET headers == sent[1]
          others == SubSeq(headers, 1, i - 1)
                      \o SubSeq(headers, i + 1, Len(headers))
      IN /\ headers[i].name = "x-emc-signature"
         /\ \A j \in 1 .. Len(others) : others[j].name # "x-emc-signature"
         /\ signed[headers[i].value]
              = StringToSign(Operation[request.op].method, others)

(* How many headers have this name.                                        *)
Count(name, headers) ==
  Cardinality({i \in 1 .. Len(headers) : headers[i].name = name})

(* No header is added twice in one execution, whoever adds it and whatever *)
(* the caller asked for, and those that carry a checksum not even when the *)
(* request is executed again.                                              *)
HeadersOnce ==
  \A name \in HeaderNames :
    Count(name, request.headers)
      <= IF name \in ChecksumHeaders THEN 1 ELSE request.runs

(* The filters, each of which casts the response object to the class it    *)
(* expects, write to nothing that the caller's object does not have.       *)
WritesFitResponse ==
  request.op # "none" =>
    /\ response.written \ {"atmos_error"} \subseteq Operation[request.op].fields
    /\ "atmos_error" \in response.written => ~Operation[request.op].plain

(* An answer that is not a success leaves no data in the response, and a   *)
(* success no error.  The parsers that run although no answer came, since  *)
(* http_code is 0 then, find nothing but an empty list of tags.            *)
ErrorsCarryNoData ==
  pc = "returned" =>
    /\ response.http_code > 299 => response.written \subseteq {"atmos_error"}
    /\ response.http_code = 0 => response.written \subseteq {"tags"}
    /\ response.http_code \in 200 .. 299 => "atmos_error" \notin response.written

(* A call that failed inside a filter of the client sent nothing, and      *)
(* every other call was sent, once: the caller of a create or an append    *)
(* can tell whether the server may have acted on it.                       *)
SentUnlessLocalError ==
  pc = "returned" => Len(sent) = IF response.local_error THEN 0 ELSE 1
=============================================================================
