------------------------------- MODULE Listing -------------------------------
(***************************************************************************)
(* Reading a listing page by page, the way the comments at the token       *)
(* fields of lib/atmos_read.h, atmos_versions.h and atmos_access_tokens.h  *)
(* describe: execute a request, take the results, copy the token of the    *)
(* response into another request, until there is no token.  The paginated  *)
(* requests, the filter that adds their headers, the filters that parse    *)
(* their responses, and what the parsers allocate and the destructors free.*)
(*                                                                         *)
(* The entries of the listing are the numbers 1 .. Total.  A token is one  *)
(* more than the number of entries before its page; 0 is the empty token   *)
(* of a request and the null token of a response.                          *)
(***************************************************************************)
EXTENDS Integers, Sequences, FiniteSets

CONSTANTS
  Calls,        \* the operations whose listings are read
  Total,        \* the number of entries
  Limits,       \* the limits a caller may set, 0 for none
  MaxPage,      \* the most entries the server puts on a page by itself
  IncludeMeta,  \* whether the caller asks for the entries' metadata
  TagsAlloc,    \* the array of tags grows by as many (100 in the code)
  Faults,       \* what may go wrong
  MaxFaults     \* bound on the faults of a behaviour

DocumentCalls == {"list_directory", "list_objects", "list_versions"}

AllCalls == DocumentCalls \cup {"get_listable_tags", "list_access_tokens"}

(* cut: no answer.  refuse: an answer that is not a success.  empty: a     *)
(* page with a token and no entries.  garbled: a document that cannot be   *)
(* parsed.  nomem: the array of tags cannot grow.                          *)
FaultKinds == {"cut", "refuse", "empty", "garbled", "nomem"}

ASSUME ListingAssumption ==
  /\ Calls \subseteq AllCalls
  /\ Total \in Nat
  /\ Limits \subseteq Nat
  /\ MaxPage \in Nat \ {0}
  /\ IncludeMeta \subseteq BOOLEAN
  /\ TagsAlloc \in Nat \ {0}
  /\ Faults \subseteq FaultKinds
  /\ MaxFaults \in Nat

VARIABLES
  pc,         \* where the one thread of control is
  call,       \* the operation whose listing is read
  request,    \* the paginated request
  answer,     \* what came back from the server
  response,   \* the response object
  memory,     \* how many blocks of each kind are allocated
  token,      \* the caller's copy of the token
  collected,  \* the entries the caller has taken so far
  lost,       \* history: a page arrived and could not be read
  faults      \* faults so far

vars == <<pc, call, request, answer, response, memory, token, collected, lost,
          faults>>

caller == <<token, collected>>

Stages == {"idle", "built", "server", "parse", "tags", "returned", "done",
           "crashed"}

Tokens == 0 .. Total + 1

(* A header of the request, by its name and value.                         *)
TokenHeader(t) == [name |-> "x-emc-token", value |-> t]
LimitHeader(n) == [name |-> "x-emc-limit", value |-> n]

PageHeaders ==
  [name: {"x-emc-token"}, value: Tokens \ {0}]
    \cup [name: {"x-emc-limit"}, value: Nat \ {0}]

Requests == [token: Tokens, limit: Nat, include_meta: BOOLEAN,
             headers: SUBSET PageHeaders]

Answers == [http_code: {0, 200, 300, 500}, page: Seq(1 .. Total),
            token: Tokens, readable: BOOLEAN]

NoAnswer == [http_code |-> 0, page |-> << >>, token |-> 0, readable |-> FALSE]

(* entries: entries, results, versions, tags or token_list, with their     *)
(* count.  array: the pointer is not null.  alloc: room in it.             *)
Responses == [http_code: {0, 200, 300, 500}, token: Tokens,
              entries: Seq(1 .. Total), array: BOOLEAN, alloc: Nat]

(* array: the array of entries or tags.  tag: the text of a tag.  meta:    *)
(* the metadata of an entry.  token_list: an unmarshalled list.            *)
Blocks == {"array", "tag", "meta", "token_list"}

NoMemory == [b \in Blocks |-> 0]

(* Slip: the response's own fields are not zeroed.                         *)
InitResponse_KeepsFields(self) == [self EXCEPT !.http_code = 0]

(* Atmos...Response_init: OBJECT_ZERO clears what was there before.        *)
InitResponse(self) ==
  [http_code |-> 0, token |-> 0, entries |-> << >>, array |-> FALSE,
   alloc |-> 0]

Init ==
  /\ pc = "idle"
  /\ call \in Calls
  /\ request = [token |-> 0, limit |-> 0, include_meta |-> FALSE,
                headers |-> {}]
  /\ answer = NoAnswer
  /\ response = [http_code |-> 0, token |-> 0, entries |-> << >>,
                 array |-> FALSE, alloc |-> 0]
  /\ memory = NoMemory
  /\ token = 0
  /\ collected = << >>
  /\ lost = FALSE
  /\ faults = 0

Fault(kind) ==
  /\ kind \in Faults
  /\ faults < MaxFaults
  /\ faults' = faults + 1

-----------------------------------------------------------------------------
(* The request.                                                            *)

(* Atmos...Request_init, the caller's settings, the token of the page      *)
(* before, and a response that is initialised.                             *)
BuildRequest(limit, include_meta) ==
  /\ pc = "idle"
  /\ request' = [token |-> token, limit |-> limit,
                 include_meta |-> include_meta, headers |-> {}]
  /\ response' = InitResponse(response)
  /\ pc' = "built"
  /\ UNCHANGED <<call, answer, memory, caller, lost, faults>>

(* Slip: a limit of 0 is sent as one.                                      *)
PaginationHeaders_ZeroLimit(req) ==
  {TokenHeader(t) : t \in {req.token} \ {0}} \cup {LimitHeader(req.limit)}

PaginationHeaders(req) ==
  {TokenHeader(t) : t \in {req.token} \ {0}}
    \cup {LimitHeader(n) : n \in {req.limit} \ {0}}

(* AtmosFilter_set_pagination_headers.  A request that is executed again   *)
(* gets its headers again, beside those it has.                            *)
SetPaginationHeaders ==
  /\ pc = "built"
  /\ request' = [request EXCEPT !.headers = @ \cup PaginationHeaders(request)]
  /\ pc' = "server"
  /\ UNCHANGED <<call, answer, response, memory, caller, lost, faults>>

-----------------------------------------------------------------------------
(* The server and the connection.                                          *)

HeaderValues(name) == {h.value : h \in {g \in request.headers : g.name = name}}

(* How many entries are before the page that is asked for.                 *)
Before ==
  IF HeaderValues("x-emc-token") = {} THEN {0}
  ELSE {t - 1 : t \in HeaderValues("x-emc-token")}

(* A page of n entries after the first p, and whether there is more.       *)
Page(p, n) ==
  [http_code |-> 200, page |-> [i \in 1 .. n |-> p + i],
   token |-> IF p + n < Total THEN p + n + 1 ELSE 0, readable |-> TRUE]

(* The server puts at least one entry on a page if there is one.           *)
PageSizes(p) ==
  {n \in 0 .. MaxPage :
     /\ p + n <= Total
     /\ n = 0 => p = Total
     /\ \A limit \in HeaderValues("x-emc-limit") : n <= limit}

Answered(a) ==
  /\ pc = "server"
  /\ answer' = a
  /\ response' = [response EXCEPT !.http_code = a.http_code]
  /\ pc' = "parse"
  /\ UNCHANGED <<call, request, memory, caller>>

AnswerPage ==
  /\ \E p \in Before : \E n \in PageSizes(p) : Answered(Page(p, n))
  /\ UNCHANGED <<lost, faults>>

AnswerEmpty ==
  /\ \E p \in Before : p < Total /\ Answered(Page(p, 0))
  /\ Fault("empty")
  /\ UNCHANGED lost

(* The code and the headers arrive, the document does not parse.           *)
AnswerGarbled ==
  /\ call \in DocumentCalls \cup {"list_access_tokens"}
  /\ \E p \in Before : \E n \in PageSizes(p) :
       Answered([Page(p, n) EXCEPT !.readable = FALSE])
  /\ lost' = TRUE
  /\ Fault("garbled")

Refuse ==
  /\ \E code \in {300, 500} : Answered([NoAnswer EXCEPT !.http_code = code])
  /\ Fault("refuse")
  /\ UNCHANGED lost

(* No answer: http_code stays 0 and there is no body.                      *)
Cut ==
  /\ Answered(NoAnswer)
  /\ Fault("cut")
  /\ UNCHANGED lost

-----------------------------------------------------------------------------
(* The response.                                                           *)

Allocate(blocks) == memory' = [b \in Blocks |-> memory[b] + blocks[b]]

(* The filter returns without looking at the answer.                       *)
NotParsed ==
  /\ pc = "parse"
  /\ response.http_code > 299
  /\ pc' = "returned"
  /\ UNCHANGED <<call, request, answer, response, memory, caller, lost, faults>>

(* Slip: a page without entries ends the filter before it gets to the      *)
(* token.                                                                  *)
TokenOf_NotIfEmpty(self) == IF answer.page = << >> THEN self.token
                            ELSE IF answer.token # 0 THEN answer.token
                            ELSE self.token

(* The token is written if the answer has one.                             *)
TokenOf(self) == IF answer.token # 0 THEN answer.token ELSE self.token

(* A document that cannot be read, or holds no entries, leaves the         *)
(* response as it is.                                                      *)
Found == answer.readable /\ answer.page # << >>

(* Each entry parsed allocates its metadata.  Versions have none.          *)
MetasFound ==
  IF request.include_meta /\ call # "list_versions" THEN Len(answer.page)
  ELSE 0

(* AtmosFilter_list_directory, AtmosFilter_list_objects and                *)
(* AtmosFilter_list_versions with their ..._parse.                         *)
ParseDocument ==
  /\ pc = "parse"
  /\ response.http_code <= 299
  /\ call \in DocumentCalls
  /\ IF Found
       THEN /\ Allocate([NoMemory EXCEPT !["array"] = 1,
                                         !["meta"] = MetasFound])
            /\ response' = [response EXCEPT
                              !.entries = answer.page, !.array = TRUE,
                              !.alloc = Len(answer.page),
                              !.token = TokenOf(response)]
       ELSE /\ response' = [response EXCEPT !.token = TokenOf(response)]
            /\ UNCHANGED memory
  /\ pc' = "returned"
  /\ UNCHANGED <<call, request, answer, caller, lost, faults>>

(* AtmosFilter_parse_list_access_tokens_response.  The unmarshaller takes  *)
(* the length of the body before anything else.                            *)
ParseTokenList ==
  /\ pc = "parse"
  /\ response.http_code <= 299
  /\ call = "list_access_tokens"
  /\ IF answer.http_code = 0
       THEN /\ pc' = "crashed"
            /\ UNCHANGED <<response, memory>>
       ELSE /\ response' = [response EXCEPT
                              !.entries = IF answer.readable THEN answer.page
                                          ELSE << >>,
                              !.array = answer.readable,
                              !.alloc = IF answer.readable
                                          THEN Len(answer.page) ELSE 0,
                              !.token = TokenOf(response)]
            /\ Allocate([NoMemory EXCEPT !["token_list"] =
                           IF answer.readable THEN 1 ELSE 0])
            /\ pc' = "returned"
  /\ UNCHANGED <<call, request, answer, caller, lost, faults>>

(* AtmosFilter_get_listable_tags starts with an empty array.               *)
StartTags ==
  /\ pc = "parse"
  /\ response.http_code <= 299
  /\ call = "get_listable_tags"
  /\ Allocate([NoMemory EXCEPT !["array"] = 1])
  /\ response' = [response EXCEPT !.entries = << >>, !.array = TRUE,
                                  !.alloc = TagsAlloc]
  /\ pc' = "tags"
  /\ UNCHANGED <<call, request, answer, caller, lost, faults>>

(* Slip: the array grows one tag too late.                                 *)
TagsFull_Late == Len(response.entries) > response.alloc

TagsFull == Len(response.entries) + 1 > response.alloc

MoreTags == pc = "tags" /\ Len(response.entries) < Len(answer.page)

(* The next tag is copied, into a larger array if need be.                 *)
ParseTag ==
  /\ MoreTags
  /\ Allocate([NoMemory EXCEPT !["tag"] = 1])
  /\ response' =
       [response EXCEPT
          !.alloc = IF TagsFull THEN @ + TagsAlloc ELSE @,
          !.entries = Append(@, answer.page[Len(@) + 1])]
  /\ UNCHANGED <<pc, call, request, answer, caller, lost, faults>>

(* realloc fails: the filter returns with the tags it has.                 *)
TagsNoMemory ==
  /\ MoreTags
  /\ TagsFull
  /\ Fault("nomem")
  /\ lost' = TRUE
  /\ pc' = "returned"
  /\ UNCHANGED <<call, request, answer, response, memory, caller>>

FinishTags ==
  /\ pc = "tags"
  /\ ~MoreTags
  /\ response' = [response EXCEPT !.token = TokenOf(response)]
  /\ pc' = "returned"
  /\ UNCHANGED <<call, request, answer, memory, caller, lost, faults>>

-----------------------------------------------------------------------------
(* The caller.                                                             *)

(* Slip: the array of tags is freed, the tags are not.                     *)
Freed_ArrayOnly(self) ==
  CASE call \in {"list_directory", "list_objects", "get_listable_tags"} ->
         [NoMemory EXCEPT !["array"] = IF self.array THEN 1 ELSE 0]
    [] call = "list_versions" -> NoMemory
    [] call = "list_access_tokens" ->
         [NoMemory EXCEPT !["token_list"] = IF self.array THEN 1 ELSE 0]

(* What the destructor of the response frees.  Neither of the two that     *)
(* free an array of entries frees the entries' metadata, and that of the   *)
(* versions frees nothing.                                                 *)
Freed(self) ==
  CASE call \in {"list_directory", "list_objects"} ->
         [NoMemory EXCEPT !["array"] = IF self.array THEN 1 ELSE 0]
    [] call = "list_versions" -> NoMemory
    [] call = "get_listable_tags" ->
         [NoMemory EXCEPT !["array"] = IF self.array THEN 1 ELSE 0,
                          !["tag"] = Len(self.entries)]
    [] call = "list_access_tokens" ->
         [NoMemory EXCEPT !["token_list"] = IF self.array THEN 1 ELSE 0]

DestroyResponse ==
  memory' = [b \in Blocks |-> memory[b] - Freed(response)[b]]

(* The page is taken, its token copied, and the response destroyed.        *)
TakePage ==
  /\ pc = "returned"
  /\ response.http_code = 200
  /\ collected' = collected \o response.entries
  /\ token' = response.token
  /\ DestroyResponse
  /\ pc' = IF response.token = 0 THEN "done" ELSE "idle"
  /\ UNCHANGED <<call, request, answer, response, lost, faults>>

(* The call failed: the page is asked for again, with a new request or by  *)
(* executing the same one once more.                                       *)
AskAgain ==
  /\ pc = "returned"
  /\ response.http_code # 200
  /\ DestroyResponse
  /\ \/ pc' = "idle" /\ UNCHANGED response
     \/ pc' = "built" /\ response' = InitResponse(response)
  /\ UNCHANGED <<call, request, answer, caller, lost, faults>>

-----------------------------------------------------------------------------
ClientStep ==
  \/ \E limit \in Limits, include_meta \in IncludeMeta :
       BuildRequest(limit, include_meta)
  \/ SetPaginationHeaders
  \/ NotParsed
  \/ ParseDocument
  \/ ParseTokenList
  \/ StartTags \/ ParseTag \/ FinishTags
  \/ TakePage
  \/ AskAgain

Environment ==
  AnswerEmpty \/ AnswerGarbled \/ Refuse \/ Cut \/ TagsNoMemory

Next == ClientStep \/ AnswerPage \/ Environment

Spec == Init /\ [][Next]_vars

(* The client is one thread and the server answers; faults are bounded.    *)
FairSpec == Spec /\ WF_vars(ClientStep) /\ WF_vars(AnswerPage)

-----------------------------------------------------------------------------
(* Properties.                                                             *)

TypeOK ==
  /\ pc \in Stages
  /\ call \in Calls
  /\ request \in Requests
  /\ answer \in Answers
  /\ response \in Responses
  /\ memory \in [Blocks -> Nat]
  /\ token \in Tokens
  /\ collected \in Seq(1 .. Total)
  /\ lost \in BOOLEAN
  /\ faults \in Nat

(* No entry is taken twice or out of order: a page that is asked for again *)
(* after a failure, a page without entries and a request that carries its  *)
(* token header twice do not make the loop go back.                        *)
InOrderOnce ==
  \A i, j \in 1 .. Len(collected) : i < j => collected[i] < collected[j]

(* AtmosFilter_get_listable_tags writes inside the array it allocated.     *)
TagsFit ==
  call = "get_listable_tags" =>
    Len(response.entries) <= response.alloc

(* Once the caller has destroyed its response the array, the tags or the   *)
(* token list it pointed to are freed, after failed and half-read pages    *)
(* too.  What is left is what no destructor looks at: the metadata of the  *)
(* entries, and all of a list of versions.                                 *)
ArraysFreed ==
  pc \in {"idle", "built", "done"} /\ call # "list_versions" =>
    memory = [NoMemory EXCEPT !["meta"] = memory["meta"]]

(* When the loop has come to a null token it has all the entries, as the   *)
(* comments of lib/atmos_client.h at list_directory and list_objects say.  *)
(* It has not when a page arrived and the filter could not take it over,   *)
(* list_objects its document, or get_listable_tags a tag for lack of room. *)
EndIsComplete ==
  pc = "done" => Len(collected) = Total

(* The client never reads a body that is not there.                        *)
NoNullRead == pc # "crashed"

(* Seen from outside, the loop delivers the entries in order.  What breaks *)
(* it is an answer that counts as a success and cannot be read, and a body *)
(* that is read and not there.                                             *)
Enum == INSTANCE Enumeration WITH
          out <- collected, finished <- (pc \in {"done", "crashed"}),
          broken <- (lost \/ pc = "crashed")

ImplementsEnumeration == Enum!Spec
=============================================================================
