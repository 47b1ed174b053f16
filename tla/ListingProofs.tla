---------------------------- MODULE ListingProofs ----------------------------
(* A listing read page by page comes out in order, each entry once, for    *)
(* every number of entries, every size of page and limit, and any failures *)
(* of the server, the connection and the memory; what the parsers allocate *)
(* is freed, and the array of tags is large enough.                        *)
EXTENDS Listing, SequenceTheorems, TLAPS

-----------------------------------------------------------------------------
(* The inductive invariant.                                                *)

(* The entries before the page that a token stands for.                    *)
Pos(t) == IF t = 0 THEN 0 ELSE t - 1

Upto(n) == [i \in 1 .. n |-> i]

Waiting == pc \notin {"idle", "done"}

(* The request of a page asks for the caller's token and for no other,     *)
(* executed once or again.                                                 *)
RequestInv ==
  /\ Waiting => request.token = token
  /\ Waiting => \A h \in request.headers :
                  h.name = "x-emc-token" => h.value = token
  /\ pc = "server" /\ token # 0 => TokenHeader(token) \in request.headers

(* The page on its way back is the one behind what the caller has.         *)
AnswerInv ==
  pc \in {"parse", "tags", "returned"} =>
    /\ response.http_code = answer.http_code
    /\ Pos(token) + Len(answer.page) <= Total
    /\ \A i \in 1 .. Len(answer.page) : answer.page[i] = Pos(token) + i
    /\ answer.token # 0 => answer.token = Pos(token) + Len(answer.page) + 1
    /\ answer.http_code = 200 =>
         /\ answer.token = 0 => Pos(token) + Len(answer.page) = Total
         /\ ~answer.readable => lost

(* The response holds a beginning of the page, and its token if any, and   *)
(* all of it unless something was lost.                                    *)
ResponseInv ==
  /\ pc \in {"built", "server", "parse"} =>
       /\ response.token = 0
       /\ response.entries = << >>
       /\ ~response.array
       /\ response.alloc = 0
  /\ pc = "built" => response.http_code = 0
  /\ pc = "tags" =>
       /\ call = "get_listable_tags"
       /\ response.token = 0
       /\ response.array
       /\ response.http_code <= 299
  /\ pc \in {"tags", "returned"} =>
       /\ Len(response.entries) <= Len(answer.page)
       /\ \A i \in 1 .. Len(response.entries) :
            response.entries[i] = answer.page[i]
  /\ pc = "returned" =>
       /\ response.token \in {0, answer.token}
       /\ response.http_code = 200 /\ ~lost =>
            response.entries = answer.page /\ response.token = answer.token

(* What the caller has ends where its token points to.                     *)
CollectedInv ==
  /\ InOrderOnce
  /\ pc # "done" =>
       \A i \in 1 .. Len(collected) : collected[i] <= Pos(token)
  /\ ~lost => collected = Upto(IF pc = "done" THEN Total ELSE Pos(token))

Parsed == pc \in {"tags", "returned"}

(* All that is allocated is what the destructor will free, apart from what *)
(* no destructor looks at.                                                 *)
MemoryInv ==
  call # "list_versions" =>
    /\ memory["array"] =
         IF call \in {"list_directory", "list_objects", "get_listable_tags"}
              /\ Parsed /\ response.array THEN 1 ELSE 0
    /\ memory["tag"] =
         IF call = "get_listable_tags" /\ Parsed
           THEN Len(response.entries) ELSE 0
    /\ memory["token_list"] =
         IF call = "list_access_tokens" /\ Parsed /\ response.array
           THEN 1 ELSE 0

IInv ==
  /\ TypeOK /\ RequestInv /\ AnswerInv /\ ResponseInv /\ CollectedInv
  /\ MemoryInv /\ TagsFit

-----------------------------------------------------------------------------
(* Numbers and sequences.                                                  *)

LEMMA Bounds ==
  /\ Total \in Nat /\ MaxPage \in Nat \ {0} /\ TagsAlloc \in Nat \ {0}
  /\ MaxFaults \in Nat
BY ListingAssumption

LEMMA PosType ==
  ASSUME NEW t \in Tokens PROVE Pos(t) \in 0 .. Total
BY Bounds DEF Pos, Tokens

LEMMA UptoType ==
  ASSUME NEW n \in Nat
  PROVE  /\ Upto(n) \in Seq(Nat)
         /\ Len(Upto(n)) = n
         /\ \A i \in 1 .. n : Upto(n)[i] = i
<1>1. Upto(n) \in [1 .. n -> Nat] /\ DOMAIN Upto(n) = 1 .. n
  BY DEF Upto
<1>2. Upto(n) \in Seq(Nat)
  BY <1>1, SeqDef
<1>3. Len(Upto(n)) = n
  BY <1>1, <1>2, LenProperties
<1> QED  BY <1>2, <1>3 DEF Upto

(* A page of entries that exist.                                           *)
LEMMA PageType ==
  ASSUME NEW p \in 0 .. Total, NEW n \in Nat, p + n <= Total
  PROVE  /\ Page(p, n) \in Answers
         /\ Page(p, n).http_code = 200
         /\ Page(p, n).readable
         /\ Len(Page(p, n).page) = n
         /\ \A i \in 1 .. n : Page(p, n).page[i] = p + i
         /\ Page(p, n).token = IF p + n < Total THEN p + n + 1 ELSE 0
<1> DEFINE page == [i \in 1 .. n |-> p + i]
           t == IF p + n < Total THEN p + n + 1 ELSE 0
<1>1. page \in [1 .. n -> 1 .. Total] /\ DOMAIN page = 1 .. n
  BY Bounds
<1>2. page \in Seq(1 .. Total)
  BY <1>1, SeqDef
<1>3. Len(page) = n
  BY <1>1, <1>2, LenProperties
<1>4. \A i \in 1 .. n : page[i] = p + i
  OBVIOUS
<1>5. t \in Tokens
  BY Bounds DEF Tokens
<1>6. Page(p, n) = [http_code |-> 200, page |-> page, token |-> t,
                    readable |-> TRUE]
  BY DEF Page
<1> HIDE DEF page, t
<1>7. /\ Page(p, n) \in Answers
      /\ Page(p, n).http_code = 200 /\ Page(p, n).readable
      /\ Page(p, n).page = page /\ Page(p, n).token = t
  BY <1>2, <1>5, <1>6 DEF Answers
<1> QED  BY <1>3, <1>4, <1>7 DEF t

-----------------------------------------------------------------------------
LEMMA IInvInit == Init => IInv
<1> SUFFICES ASSUME Init PROVE IInv
  OBVIOUS
<1>1. << >> \in Seq(1 .. Total) /\ Len(<< >>) = 0
  BY EmptySeq
<1>2. TypeOK
  <2>1. call \in Calls /\ request \in Requests
    BY Bounds DEF Init, Requests, Tokens
  <2>2. answer \in Answers
    BY <1>1, Bounds DEF Init, Answers, NoAnswer, Tokens
  <2>3. response \in Responses
    BY <1>1, Bounds DEF Init, Responses, Tokens
  <2>4. memory \in [Blocks -> Nat]
    BY DEF Init, NoMemory
  <2>5. token \in Tokens /\ collected \in Seq(1 .. Total)
    BY <1>1, Bounds DEF Init, Tokens
  <2> QED  BY <2>1, <2>2, <2>3, <2>4, <2>5 DEF Init, TypeOK, Stages
<1>3. CollectedInv
  <2>1. Upto(0) = << >>
    BY UptoType, EmptySeq
  <2> QED  BY <1>1, <2>1 DEF Init, CollectedInv, InOrderOnce, Pos
<1>4. RequestInv /\ AnswerInv /\ ResponseInv /\ TagsFit
  BY <1>1 DEF Init, RequestInv, AnswerInv, ResponseInv, TagsFit, Waiting
<1>5. MemoryInv
  BY DEF Init, MemoryInv, Parsed, NoMemory, Blocks
<1> QED  BY <1>2, <1>3, <1>4, <1>5 DEF IInv

(* A response that is initialised.                                         *)
LEMMA InitResponseType ==
  /\ InitResponse(response) \in Responses
  /\ Len(InitResponse(response).entries) = 0
BY EmptySeq, Bounds DEF InitResponse, Responses, Tokens

LEMMA IInvBuildRequest ==
  ASSUME IInv, NEW limit \in Limits, NEW include_meta \in IncludeMeta,
         BuildRequest(limit, include_meta)
  PROVE  IInv'
<1>1. limit \in Nat /\ include_meta \in BOOLEAN
  BY ListingAssumption
<1>2. TypeOK'
  BY <1>1, InitResponseType
     DEF IInv, TypeOK, BuildRequest, Requests, Stages, caller
<1>3. RequestInv'
  BY DEF BuildRequest, RequestInv, Waiting, caller
<1>4. AnswerInv' /\ ResponseInv'
  BY DEF BuildRequest, AnswerInv, ResponseInv, InitResponse
<1>5. CollectedInv'
  BY DEF IInv, CollectedInv, InOrderOnce, BuildRequest, caller
<1>6. MemoryInv'
  BY DEF IInv, MemoryInv, Parsed, BuildRequest
<1>7. TagsFit'
  BY InitResponseType DEF BuildRequest, TagsFit, InitResponse
<1> QED  BY <1>2, <1>3, <1>4, <1>5, <1>6, <1>7 DEF IInv

LEMMA IInvSetPaginationHeaders ==
  ASSUME IInv, SetPaginationHeaders PROVE IInv'
<1> DEFINE new == request.headers \cup PaginationHeaders(request)
<1>1. /\ request \in Requests /\ request.token = token
      /\ request.limit \in Nat /\ token \in Tokens
      /\ request.headers \subseteq PageHeaders
  BY DEF IInv, TypeOK, RequestInv, Requests, SetPaginationHeaders, Waiting
<1>2. PaginationHeaders(request) \subseteq PageHeaders
  BY <1>1 DEF PaginationHeaders, TokenHeader, LimitHeader, PageHeaders
<1>3. \A h \in new : h.name = "x-emc-token" => h.value = token
  BY <1>1 DEF IInv, RequestInv, SetPaginationHeaders, Waiting,
              PaginationHeaders, TokenHeader, LimitHeader
<1>4. token # 0 => TokenHeader(token) \in new
  BY <1>1 DEF PaginationHeaders
<1>5. new \in SUBSET PageHeaders
  BY <1>1, <1>2
<1>6. request' = [request EXCEPT !.headers = new]
  BY DEF SetPaginationHeaders
<1> HIDE DEF new
<1>7. request' \in Requests /\ request'.token = token
      /\ request'.headers = new
  BY <1>1, <1>5, <1>6 DEF Requests
<1>8. TypeOK'
  BY <1>7 DEF IInv, TypeOK, SetPaginationHeaders, Stages, caller
<1>9. RequestInv'
  BY <1>3, <1>4, <1>7 DEF RequestInv, SetPaginationHeaders, caller, TokenHeader
<1>10. AnswerInv' /\ ResponseInv'
  BY DEF IInv, AnswerInv, ResponseInv, SetPaginationHeaders
<1>11. CollectedInv'
  BY DEF IInv, CollectedInv, InOrderOnce, SetPaginationHeaders, caller
<1>12. MemoryInv' /\ TagsFit'
  BY DEF IInv, MemoryInv, Parsed, TagsFit, SetPaginationHeaders
<1> QED  BY <1>8, <1>9, <1>10, <1>11, <1>12 DEF IInv

-----------------------------------------------------------------------------
(* The server and the connection.                                          *)

(* A request that is executed again carries its token header twice, and    *)
(* there is still one page it asks for.                                    *)
LEMMA OnePage ==
  ASSUME IInv, pc = "server"
  PROVE  Before = {Pos(token)} /\ Pos(token) \in 0 .. Total
<1> DEFINE named == {g \in request.headers : g.name = "x-emc-token"}
<1>1. token \in Tokens
  BY DEF IInv, TypeOK
<1>2. \A h \in named : h.value = token
  BY DEF IInv, RequestInv, Waiting
<1>3. HeaderValues("x-emc-token") \subseteq {token}
  BY <1>2 DEF HeaderValues
<1>4. CASE token = 0
  <2>1. \A h \in request.headers : h.name = "x-emc-token" => h.value # 0
    BY DEF IInv, TypeOK, Requests, PageHeaders, LimitHeader
  <2>2. named = {}
    BY <1>2, <1>4, <2>1
  <2>3. HeaderValues("x-emc-token") = {}
    BY <2>2 DEF HeaderValues
  <2> QED  BY <1>1, <1>4, <2>3, PosType DEF Before, Pos
<1>5. CASE token # 0
  <2>1. TokenHeader(token) \in named /\ TokenHeader(token).value = token
    BY <1>5 DEF IInv, RequestInv, TokenHeader
  <2>2. HeaderValues("x-emc-token") = {token}
    BY <1>3, <2>1 DEF HeaderValues
  <2> QED  BY <1>1, <1>5, <2>2, PosType DEF Before, Pos
<1> QED  BY <1>4, <1>5

(* An answer that fits to what the caller has.                             *)
Fitting(a) ==
  /\ Pos(token) + Len(a.page) <= Total
  /\ \A i \in 1 .. Len(a.page) : a.page[i] = Pos(token) + i
  /\ a.token # 0 => a.token = Pos(token) + Len(a.page) + 1
  /\ a.http_code = 200 /\ a.token = 0 => Pos(token) + Len(a.page) = Total

LEMMA PageFits ==
  ASSUME NEW p \in 0 .. Total, NEW n \in Nat, p + n <= Total
  PROVE  p = Pos(token) => Fitting(Page(p, n))
<1> DEFINE a == Page(p, n)
<1>1. /\ Len(a.page) = n
      /\ \A i \in 1 .. n : a.page[i] = p + i
      /\ a.token = IF p + n < Total THEN p + n + 1 ELSE 0
  BY PageType
<1>2. Total \in Nat /\ p \in Nat
  BY Bounds
<1> HIDE DEF a
<1>3. /\ p + Len(a.page) <= Total
      /\ \A i \in 1 .. Len(a.page) : a.page[i] = p + i
      /\ a.token # 0 => a.token = p + Len(a.page) + 1
      /\ a.token = 0 => p + Len(a.page) = Total
  BY <1>1, <1>2
<1>4. p = Pos(token) => Fitting(a)
  BY <1>3 DEF Fitting
<1> QED  BY <1>4 DEF a

LEMMA IInvAnswered ==
  ASSUME IInv, NEW a \in Answers, Answered(a), Fitting(a),
         lost' \in BOOLEAN, lost => lost',
         a.http_code = 200 /\ ~a.readable => lost',
         faults' \in Nat
  PROVE  IInv'
<1>1. /\ response' = [response EXCEPT !.http_code = a.http_code]
      /\ response \in Responses /\ a.http_code \in {0, 200, 300, 500}
  BY DEF Answered, IInv, TypeOK, Answers
<1>2. /\ response' \in Responses /\ response'.http_code = a.http_code
      /\ response'.token = response.token
      /\ response'.entries = response.entries
      /\ response'.array = response.array
      /\ response'.alloc = response.alloc
  BY <1>1 DEF Responses
<1>3. TypeOK'
  BY <1>2 DEF IInv, TypeOK, Answered, Stages, caller
<1>4. RequestInv'
  BY DEF IInv, RequestInv, Waiting, Answered, caller
<1>5. AnswerInv'
  BY <1>2 DEF Fitting, AnswerInv, Answered, caller
<1>6. ResponseInv'
  BY <1>2 DEF IInv, ResponseInv, Answered
<1>7. CollectedInv'
  BY DEF IInv, CollectedInv, InOrderOnce, Answered, caller
<1>8. MemoryInv'
  BY DEF IInv, MemoryInv, Parsed, Answered
<1>9. TagsFit'
  BY <1>2 DEF IInv, TagsFit, Answered
<1> QED  BY <1>3, <1>4, <1>5, <1>6, <1>7, <1>8, <1>9 DEF IInv

LEMMA FaultCounts ==
  ASSUME IInv, NEW kind, Fault(kind) PROVE faults' \in Nat
BY DEF IInv, TypeOK, Fault

LEMMA IInvAnswerPage ==
  ASSUME IInv, AnswerPage PROVE IInv'
<1>1. PICK p \in Before : \E n \in PageSizes(p) : Answered(Page(p, n))
  BY DEF AnswerPage
<1>2. PICK n \in PageSizes(p) : Answered(Page(p, n))
  BY <1>1
<1>3. p = Pos(token) /\ p \in 0 .. Total
  BY <1>1, <1>2, OnePage DEF Answered
<1>4. n \in Nat /\ p + n <= Total
  BY Bounds DEF PageSizes
<1>5. Page(p, n) \in Answers /\ Fitting(Page(p, n))
      /\ Page(p, n).readable
  BY <1>3, <1>4, PageFits, PageType
<1>6. lost' = lost /\ lost \in BOOLEAN /\ faults' \in Nat
  BY DEF AnswerPage, IInv, TypeOK
<1> QED  BY <1>2, <1>5, <1>6, IInvAnswered

LEMMA IInvAnswerEmpty ==
  ASSUME IInv, AnswerEmpty PROVE IInv'
<1>1. PICK p \in Before : p < Total /\ Answered(Page(p, 0))
  BY DEF AnswerEmpty
<1>2. p = Pos(token) /\ p \in 0 .. Total
  BY <1>1, OnePage DEF Answered
<1>3. Page(p, 0) \in Answers /\ Fitting(Page(p, 0))
      /\ Page(p, 0).readable
  <2>1. 0 \in Nat /\ p + 0 <= Total
    BY <1>2, Bounds
  <2> QED  BY <1>2, <2>1, PageFits, PageType
<1>4. lost' = lost /\ lost \in BOOLEAN /\ faults' \in Nat
  BY FaultCounts DEF AnswerEmpty, IInv, TypeOK
<1> QED  BY <1>1, <1>3, <1>4, IInvAnswered

LEMMA IInvAnswerGarbled ==
  ASSUME IInv, AnswerGarbled PROVE IInv'
<1>1. PICK p \in Before : \E n \in PageSizes(p) :
        Answered([Page(p, n) EXCEPT !.readable = FALSE])
  BY DEF AnswerGarbled
<1>2. PICK n \in PageSizes(p) :
        Answered([Page(p, n) EXCEPT !.readable = FALSE])
  BY <1>1
<1> DEFINE a == [Page(p, n) EXCEPT !.readable = FALSE]
<1>3. p = Pos(token) /\ p \in 0 .. Total
  BY <1>1, <1>2, OnePage DEF Answered
<1>4. n \in Nat /\ p + n <= Total
  BY Bounds DEF PageSizes
<1>5. Page(p, n) \in Answers /\ Fitting(Page(p, n))
  BY <1>3, <1>4, PageFits, PageType
<1>6. /\ a \in Answers /\ a.http_code = Page(p, n).http_code
      /\ a.page = Page(p, n).page /\ a.token = Page(p, n).token
  BY ZenonT(60), <1>5 DEF Answers
<1>7. Answered(a)
  BY <1>2
<1> HIDE DEF a
<1>8. Fitting(a)
  BY <1>5, <1>6 DEF Fitting
<1>9. lost' = TRUE /\ faults' \in Nat
  BY FaultCounts DEF AnswerGarbled
<1> QED  BY <1>6, <1>7, <1>8, <1>9, IInvAnswered

(* No page at all.                                                         *)
LEMMA NoPage ==
  ASSUME IInv, NEW code \in {0, 300, 500},
         NEW a, a = [NoAnswer EXCEPT !.http_code = code]
  PROVE  a \in Answers /\ Fitting(a) /\ a.http_code # 200
<1>1. a = [http_code |-> code, page |-> << >>, token |-> 0,
           readable |-> FALSE]
  BY DEF NoAnswer
<1>2. a \in Answers /\ a.page = << >> /\ a.token = 0 /\ a.http_code = code
  <2>1. 0 \in Tokens /\ << >> \in Seq(1 .. Total)
    BY EmptySeq, Bounds DEF Tokens
  <2>2. code \in {0, 200, 300, 500}
    OBVIOUS
  <2>3. [http_code |-> code, page |-> << >>, token |-> 0, readable |-> FALSE]
          \in Answers
    BY <2>1, <2>2 DEF Answers
  <2>4. a \in Answers
    BY <1>1, <2>3
  <2> QED  BY <1>1, <2>4
<1>3. Pos(token) \in 0 .. Total
  BY PosType DEF IInv, TypeOK
<1> QED  BY <1>2, <1>3, EmptySeq, Bounds DEF Fitting

LEMMA IInvRefuse ==
  ASSUME IInv, Refuse PROVE IInv'
<1>1. PICK code \in {300, 500} :
        Answered([NoAnswer EXCEPT !.http_code = code])
  BY DEF Refuse
<1>2. lost' = lost /\ lost \in BOOLEAN /\ faults' \in Nat
  BY FaultCounts DEF Refuse, IInv, TypeOK
<1> DEFINE a == [NoAnswer EXCEPT !.http_code = code]
<1>3. a \in Answers /\ Fitting(a) /\ a.http_code # 200
  BY NoPage
<1>4. Answered(a)
  BY <1>1
<1> HIDE DEF a
<1> QED  BY <1>2, <1>3, <1>4, IInvAnswered

LEMMA IInvCut ==
  ASSUME IInv, Cut PROVE IInv'
<1>1. NoAnswer = [NoAnswer EXCEPT !.http_code = 0]
  BY DEF NoAnswer
<1>2. NoAnswer \in Answers /\ Fitting(NoAnswer) /\ NoAnswer.http_code # 200
  BY <1>1, NoPage
<1>3. lost' = lost /\ lost \in BOOLEAN /\ faults' \in Nat /\ Answered(NoAnswer)
  BY FaultCounts DEF Cut, IInv, TypeOK
<1> QED  BY <1>2, <1>3, IInvAnswered

-----------------------------------------------------------------------------
(* The parsers.                                                            *)

(* The caller and its request do not notice.                               *)
LEMMA Unnoticed ==
  ASSUME IInv, Waiting, Waiting', pc # "server", pc' # "server",
         UNCHANGED <<request, caller>>, lost => lost', lost \in BOOLEAN
  PROVE  RequestInv' /\ CollectedInv'
<1>1. RequestInv'
  BY DEF IInv, RequestInv, Waiting, caller
<1>2. CollectedInv'
  BY DEF IInv, CollectedInv, InOrderOnce, Waiting, caller
<1> QED  BY <1>1, <1>2

LEMMA IInvNotParsed ==
  ASSUME IInv, NotParsed PROVE IInv'
<1>1. RequestInv' /\ CollectedInv'
  BY Unnoticed DEF NotParsed, Waiting, IInv, TypeOK
<1>2. TypeOK' /\ AnswerInv' /\ TagsFit'
  BY DEF IInv, TypeOK, AnswerInv, TagsFit, NotParsed, Stages, caller
<1>3. /\ response.http_code > 299 /\ response.token = 0
      /\ response.entries = << >> /\ ~response.array
  BY DEF IInv, ResponseInv, NotParsed
<1>4. Len(answer.page) \in Nat
  BY LenProperties DEF IInv, TypeOK, Answers
<1>5. ResponseInv'
  BY <1>3, <1>4, EmptySeq DEF ResponseInv, NotParsed
<1>6. MemoryInv'
  BY <1>3, EmptySeq DEF IInv, MemoryInv, Parsed, NotParsed
<1> QED  BY <1>1, <1>2, <1>5, <1>6 DEF IInv

(* What a parser writes to the response.                                   *)
Filled(r, entries, array, alloc, tok) ==
  [r EXCEPT !.entries = entries, !.array = array, !.alloc = alloc,
            !.token = tok]

LEMMA FilledType ==
  ASSUME NEW r \in Responses, NEW entries \in Seq(1 .. Total),
         NEW array \in BOOLEAN, NEW alloc \in Nat, NEW tok \in Tokens
  PROVE  LET new == Filled(r, entries, array, alloc, tok) IN
         /\ new \in Responses
         /\ new.http_code = r.http_code /\ new.entries = entries
         /\ (new.array <=> array) /\ new.alloc = alloc /\ new.token = tok
<1> DEFINE r1 == [r EXCEPT !.entries = entries]
           r2 == [r1 EXCEPT !.array = array]
           r3 == [r2 EXCEPT !.alloc = alloc]
           r4 == [r3 EXCEPT !.token = tok]
<1>1. Filled(r, entries, array, alloc, tok) = r4
  BY DEF Filled
<1>2. /\ r1 \in Responses
      /\ r1.http_code = r.http_code /\ r1.entries = entries
  BY DEF Responses
<1> HIDE DEF r1
<1>3. /\ r2 \in Responses
      /\ r2.http_code = r.http_code /\ r2.entries = entries
      /\ (r2.array <=> array)
  BY ZenonT(60), <1>2 DEF Responses
<1> HIDE DEF r2
<1>4. /\ r3 \in Responses
      /\ r3.http_code = r.http_code /\ r3.entries = entries
      /\ (r3.array <=> array) /\ r3.alloc = alloc
  BY <1>3 DEF Responses
<1> HIDE DEF r3
<1>5. /\ r4 \in Responses
      /\ r4.http_code = r.http_code /\ r4.entries = entries
      /\ (r4.array <=> array) /\ r4.alloc = alloc /\ r4.token = tok
  BY <1>4 DEF Responses
<1> QED  BY <1>1, <1>5

(* The same with an array that is there.                                   *)
FilledArray(r, entries, alloc, tok) ==
  [r EXCEPT !.entries = entries, !.array = TRUE, !.alloc = alloc,
            !.token = tok]

LEMMA FilledArrayType ==
  ASSUME NEW r \in Responses, NEW entries \in Seq(1 .. Total),
         NEW alloc \in Nat, NEW tok \in Tokens
  PROVE  LET new == FilledArray(r, entries, alloc, tok) IN
         /\ new \in Responses /\ new.array
         /\ new.http_code = r.http_code /\ new.entries = entries
         /\ new.alloc = alloc /\ new.token = tok
<1> DEFINE r1 == [r EXCEPT !.entries = entries]
           r2 == [r1 EXCEPT !.array = TRUE]
           r3 == [r2 EXCEPT !.alloc = alloc]
           r4 == [r3 EXCEPT !.token = tok]
<1>1. FilledArray(r, entries, alloc, tok) = r4
  BY DEF FilledArray
<1>2. /\ r1 \in Responses
      /\ r1.http_code = r.http_code /\ r1.entries = entries
  BY DEF Responses
<1> HIDE DEF r1
<1>3. /\ r2 \in Responses /\ r2.array
      /\ r2.http_code = r.http_code /\ r2.entries = entries
  BY ZenonT(60), <1>2 DEF Responses
<1> HIDE DEF r2
<1>4. /\ r3 \in Responses /\ r3.array
      /\ r3.http_code = r.http_code /\ r3.entries = entries
      /\ r3.alloc = alloc
  BY <1>3 DEF Responses
<1> HIDE DEF r3
<1>5. /\ r4 \in Responses /\ r4.array
      /\ r4.http_code = r.http_code /\ r4.entries = entries
      /\ r4.alloc = alloc /\ r4.token = tok
  BY <1>4 DEF Responses
<1> QED  BY <1>1, <1>5

LEMMA AllocateType ==
  ASSUME IInv, NEW blocks \in [Blocks -> Nat], Allocate(blocks)
  PROVE  /\ memory' \in [Blocks -> Nat]
         /\ \A b \in Blocks : memory'[b] = memory[b] + blocks[b]
BY DEF Allocate, IInv, TypeOK

LEMMA TokenOfIs ==
  ASSUME IInv, response.token = 0
  PROVE  TokenOf(response) = answer.token /\ answer.token \in Tokens
BY DEF TokenOf, IInv, TypeOK, Answers

(* What the answer a parser starts from is like.                           *)
LEMMA AtParse ==
  ASSUME IInv, pc = "parse"
  PROVE  /\ response \in Responses /\ response.token = 0
         /\ response.entries = << >> /\ ~response.array
         /\ response.alloc = 0 /\ response.http_code = answer.http_code
         /\ answer \in Answers /\ answer.page \in Seq(1 .. Total)
         /\ answer.token \in Tokens /\ answer.readable \in BOOLEAN
         /\ Len(answer.page) \in Nat
         /\ answer.http_code = 200 /\ ~answer.readable => lost
         /\ call # "list_versions" =>
              memory["array"] = 0 /\ memory["tag"] = 0
                /\ memory["token_list"] = 0
<1>1. answer.page \in Seq(1 .. Total) /\ answer \in Answers
      /\ answer.token \in Tokens /\ answer.readable \in BOOLEAN
  BY DEF IInv, TypeOK, Answers
<1>2. response \in Responses
  BY DEF IInv, TypeOK
<1>3. response.http_code = answer.http_code
      /\ (answer.http_code = 200 /\ ~answer.readable => lost)
  BY DEF IInv, AnswerInv
<1>4. /\ response.token = 0 /\ response.entries = << >>
      /\ ~response.array /\ response.alloc = 0
  BY DEF IInv, ResponseInv
<1>5. call # "list_versions" =>
        memory["array"] = 0 /\ memory["tag"] = 0 /\ memory["token_list"] = 0
  BY DEF IInv, MemoryInv, Parsed
<1> QED  BY <1>1, <1>2, <1>3, <1>4, <1>5, LenProperties

(* A step from parse to returned with a response that holds the page.      *)
LEMMA Returned ==
  ASSUME IInv, pc = "parse", pc' = "returned", response' \in Responses,
         response'.http_code = response.http_code,
         response'.token = answer.token,
         \/ response'.entries = answer.page
         \/ /\ response'.entries = << >>
            /\ answer.http_code = 200 => lost,
         call # "get_listable_tags",
         memory' \in [Blocks -> Nat], MemoryInv',
         UNCHANGED <<call, request, answer, caller, lost, faults>>
  PROVE  IInv'
<1>1. RequestInv' /\ CollectedInv'
  BY Unnoticed DEF Waiting, IInv, TypeOK
<1>2. TypeOK'
  BY DEF IInv, TypeOK, Stages, caller
<1>3. AnswerInv'
  BY DEF IInv, AnswerInv, caller
<1>4. TagsFit'
  BY DEF TagsFit
<1>5. response.http_code = answer.http_code /\ Len(answer.page) \in Nat
      /\ answer.token \in Tokens
  BY AtParse
<1>6. /\ Len(response'.entries) <= Len(answer.page)
      /\ \A i \in 1 .. Len(response'.entries) :
           response'.entries[i] = answer.page[i]
  BY <1>5, EmptySeq
<1>7. ResponseInv'
  BY <1>5, <1>6 DEF ResponseInv
<1> QED  BY <1>1, <1>2, <1>3, <1>4, <1>7 DEF IInv

LEMMA IInvParseDocument ==
  ASSUME IInv, ParseDocument PROVE IInv'
<1>1. pc = "parse" /\ call # "get_listable_tags"
      /\ call # "list_access_tokens" /\ pc' = "returned"
  BY DEF ParseDocument, DocumentCalls
<1>2. TokenOf(response) = answer.token /\ answer.token \in Tokens
      /\ response.token = 0
  BY <1>1, AtParse, TokenOfIs
<1>3. CASE Found
  <2> DEFINE blocks == [NoMemory EXCEPT !["array"] = 1, !["meta"] = MetasFound]
  <2>1. MetasFound \in Nat
    BY <1>1, AtParse DEF MetasFound
  <2>2. /\ blocks \in [Blocks -> Nat] /\ blocks["array"] = 1
        /\ blocks["tag"] = 0 /\ blocks["token_list"] = 0
    BY <2>1 DEF NoMemory, Blocks
  <2>3. Allocate(blocks)
    BY <1>3 DEF ParseDocument
  <2> HIDE DEF blocks
  <2>4. /\ memory' \in [Blocks -> Nat]
        /\ \A b \in Blocks : memory'[b] = memory[b] + blocks[b]
    BY <2>2, <2>3, AllocateType
  <2>6. /\ response' \in Responses /\ response'.array
        /\ response'.http_code = response.http_code
        /\ response'.entries = answer.page
        /\ response'.token = answer.token
    <3>1. /\ response \in Responses /\ answer.page \in Seq(1 .. Total)
          /\ Len(answer.page) \in Nat /\ answer.token \in Tokens
      BY <1>1, AtParse
    <3>2. response' = FilledArray(response, answer.page, Len(answer.page),
                                  answer.token)
      BY <1>2, <1>3 DEF ParseDocument, FilledArray
    <3> QED  BY <3>1, <3>2, FilledArrayType
  <2>7. MemoryInv'
    <3>1. call' = call
      BY DEF ParseDocument
    <3>2. call # "list_versions" =>
            memory'["array"] = 1 /\ memory'["tag"] = 0
              /\ memory'["token_list"] = 0
      BY <1>1, <2>2, <2>4, AtParse DEF Blocks
    <3>3. call # "list_versions" => call \in {"list_directory", "list_objects"}
      BY DEF ParseDocument, DocumentCalls
    <3> QED  BY <1>1, <2>6, <3>1, <3>2, <3>3 DEF MemoryInv, Parsed
  <2> QED  BY <1>1, <2>4, <2>6, <2>7, Returned DEF ParseDocument
<1>4. CASE ~Found
  <2>1. response' = [response EXCEPT !.token = answer.token]
        /\ memory' = memory
    BY <1>2, <1>4 DEF ParseDocument
  <2>2. /\ response' \in Responses /\ ~response'.array
        /\ response'.http_code = response.http_code
        /\ response'.entries = << >> /\ response'.token = answer.token
    BY <1>1, <1>2, <2>1, AtParse DEF Responses
  <2>3. answer.page = << >> \/ (answer.http_code = 200 => lost)
    BY <1>1, <1>4, AtParse DEF Found
  <2>4. memory' \in [Blocks -> Nat]
    BY <2>1 DEF IInv, TypeOK
  <2>5. call' = call
    BY DEF ParseDocument
  <2>6. MemoryInv'
    BY <1>1, <2>1, <2>2, <2>5, AtParse DEF MemoryInv, Parsed
  <2> QED  BY <1>1, <2>2, <2>3, <2>4, <2>6, Returned DEF ParseDocument
<1> QED  BY <1>3, <1>4

LEMMA IInvParseTokenList ==
  ASSUME IInv, ParseTokenList PROVE IInv'
<1>1. pc = "parse" /\ call = "list_access_tokens" /\ call' = call
  BY DEF ParseTokenList
<1>2. TokenOf(response) = answer.token /\ answer.token \in Tokens
      /\ response.token = 0
  BY <1>1, AtParse, TokenOfIs
<1>3. CASE answer.http_code = 0
  <2>1. pc' = "crashed" /\ response' = response /\ memory' = memory
    BY <1>3 DEF ParseTokenList
  <2>2. RequestInv' /\ CollectedInv'
    BY <1>1, <2>1, Unnoticed DEF ParseTokenList, Waiting, IInv, TypeOK
  <2>3. TypeOK' /\ AnswerInv' /\ ResponseInv' /\ TagsFit'
    BY <1>1, <2>1 DEF ParseTokenList, IInv, TypeOK, AnswerInv, ResponseInv,
                      TagsFit, Stages, caller
  <2>4. MemoryInv'
    BY <1>1, <2>1, AtParse DEF MemoryInv, Parsed
  <2> QED  BY <2>2, <2>3, <2>4 DEF IInv
<1>4. CASE answer.http_code # 0
  <2> DEFINE entries == IF answer.readable THEN answer.page ELSE << >>
             alloc == IF answer.readable THEN Len(answer.page) ELSE 0
             blocks == [NoMemory EXCEPT !["token_list"] =
                          IF answer.readable THEN 1 ELSE 0]
  <2>1. /\ blocks \in [Blocks -> Nat] /\ blocks["array"] = 0
        /\ blocks["tag"] = 0
        /\ blocks["token_list"] = IF answer.readable THEN 1 ELSE 0
    BY DEF NoMemory, Blocks
  <2>2. Allocate(blocks) /\ pc' = "returned"
    BY <1>4 DEF ParseTokenList
  <2>3. response' = Filled(response, entries, answer.readable, alloc,
                           answer.token)
    BY <1>2, <1>4 DEF ParseTokenList, Filled
  <2>4. entries \in Seq(1 .. Total) /\ alloc \in Nat
        /\ answer.readable \in BOOLEAN
    BY <1>1, AtParse, EmptySeq
  <2>5. entries = answer.page
          \/ (entries = << >> /\ (answer.http_code = 200 => lost))
    BY <1>1, AtParse
  <2> HIDE DEF blocks, entries, alloc
  <2>6. /\ memory' \in [Blocks -> Nat]
        /\ \A b \in Blocks : memory'[b] = memory[b] + blocks[b]
    BY <2>1, <2>2, AllocateType
  <2>7. /\ response' \in Responses /\ (response'.array <=> answer.readable)
        /\ response'.http_code = response.http_code
        /\ response'.entries = entries
        /\ response'.token = answer.token
    BY <1>1, <1>2, <2>3, <2>4, AtParse, FilledType
  <2>8. MemoryInv'
    <3>1. /\ memory'["array"] = 0 /\ memory'["tag"] = 0
          /\ memory'["token_list"] = IF answer.readable THEN 1 ELSE 0
      BY <1>1, <2>1, <2>6, AtParse DEF Blocks
    <3> QED  BY <1>1, <2>2, <2>7, <3>1 DEF MemoryInv, Parsed
  <2> QED  BY <1>1, <2>2, <2>5, <2>6, <2>7, <2>8, Returned DEF ParseTokenList
<1> QED  BY <1>3, <1>4

(* One field at a time.                                                    *)
LEMMA SetArray ==
  ASSUME NEW r \in Responses
  PROVE  LET new == [r EXCEPT !.array = TRUE] IN
         /\ new \in Responses /\ new.array
         /\ new.http_code = r.http_code /\ new.token = r.token
         /\ new.entries = r.entries /\ new.alloc = r.alloc
BY DEF Responses

LEMMA SetEntries ==
  ASSUME NEW r \in Responses, NEW entries \in Seq(1 .. Total)
  PROVE  LET new == [r EXCEPT !.entries = entries] IN
         /\ new \in Responses /\ new.entries = entries
         /\ new.http_code = r.http_code /\ new.token = r.token
         /\ (new.array <=> r.array) /\ new.alloc = r.alloc
BY DEF Responses

(* The tags of the answer are copied one by one.                           *)
LEMMA IInvStartTags ==
  ASSUME IInv, StartTags PROVE IInv'
<1>1. /\ pc = "parse" /\ pc' = "tags" /\ call = "get_listable_tags"
      /\ response.http_code <= 299
      /\ UNCHANGED <<call, request, answer, caller, lost, faults>>
  BY DEF StartTags
<1> DEFINE r1 == [response EXCEPT !.entries = << >>]
           r2 == [r1 EXCEPT !.array = TRUE]
           r3 == [r2 EXCEPT !.alloc = TagsAlloc]
<1>2. response' = r3
  BY DEF StartTags
<1>3. r1 \in Responses /\ r1.entries = << >> /\ r1.token = 0
      /\ r1.http_code = response.http_code
  BY <1>1, AtParse, EmptySeq DEF Responses
<1> HIDE DEF r1
<1>4. r2 \in Responses /\ r2.entries = << >> /\ r2.token = 0
      /\ r2.http_code = response.http_code /\ r2.array
  BY <1>3, SetArray
<1> HIDE DEF r2
<1>5. r3 \in Responses /\ r3.entries = << >> /\ r3.token = 0
      /\ r3.http_code = response.http_code /\ r3.array
      /\ r3.alloc = TagsAlloc
  BY <1>4, Bounds DEF Responses
<1> HIDE DEF r3
<1> DEFINE blocks == [NoMemory EXCEPT !["array"] = 1]
<1>6. /\ blocks \in [Blocks -> Nat] /\ blocks["array"] = 1
      /\ blocks["tag"] = 0 /\ blocks["token_list"] = 0
  BY DEF NoMemory, Blocks
<1>7. Allocate(blocks)
  BY DEF StartTags
<1> HIDE DEF blocks
<1>8. /\ memory' \in [Blocks -> Nat]
      /\ memory'["array"] = 1 /\ memory'["tag"] = 0
      /\ memory'["token_list"] = 0
  BY <1>1, <1>6, <1>7, AllocateType, AtParse DEF Blocks
<1>9. RequestInv' /\ CollectedInv'
  BY <1>1, Unnoticed DEF Waiting, IInv, TypeOK
<1>10. TypeOK'
  BY <1>1, <1>2, <1>5, <1>8 DEF IInv, TypeOK, Stages, caller
<1>11. AnswerInv'
  BY <1>1, <1>2, <1>5 DEF IInv, AnswerInv, caller
<1>12. ResponseInv'
  BY <1>1, <1>2, <1>5, AtParse, EmptySeq DEF ResponseInv
<1>13. MemoryInv'
  BY <1>1, <1>2, <1>5, <1>8, EmptySeq DEF MemoryInv, Parsed
<1>14. TagsFit'
  BY <1>2, <1>5, EmptySeq, Bounds DEF TagsFit
<1> QED  BY <1>9, <1>10, <1>11, <1>12, <1>13, <1>14 DEF IInv

(* While the tags are copied.                                              *)
LEMMA AtTags ==
  ASSUME IInv, pc = "tags"
  PROVE  /\ call = "get_listable_tags" /\ response \in Responses
         /\ response.token = 0 /\ response.array
         /\ response.http_code <= 299
         /\ response.http_code = answer.http_code
         /\ response.entries \in Seq(1 .. Total)
         /\ response.alloc \in Nat /\ answer.token \in Tokens
         /\ answer.page \in Seq(1 .. Total)
         /\ Len(response.entries) \in Nat /\ Len(answer.page) \in Nat
         /\ Len(response.entries) <= Len(answer.page)
         /\ Len(response.entries) <= response.alloc
         /\ \A i \in 1 .. Len(response.entries) :
              response.entries[i] = answer.page[i]
         /\ memory["array"] = 1 /\ memory["token_list"] = 0
         /\ memory["tag"] = Len(response.entries)
<1>1. /\ call = "get_listable_tags" /\ response.token = 0
      /\ response.array /\ response.http_code <= 299
      /\ Len(response.entries) <= Len(answer.page)
      /\ \A i \in 1 .. Len(response.entries) :
           response.entries[i] = answer.page[i]
  BY DEF IInv, ResponseInv
<1>2. /\ response \in Responses /\ response.entries \in Seq(1 .. Total)
      /\ response.alloc \in Nat
      /\ answer.page \in Seq(1 .. Total) /\ answer.token \in Tokens
  BY DEF IInv, TypeOK, Responses, Answers
<1>3. response.http_code = answer.http_code
  BY DEF IInv, AnswerInv
<1>4. Len(response.entries) <= response.alloc
  BY <1>1 DEF IInv, TagsFit
<1>5. /\ memory["array"] = 1 /\ memory["token_list"] = 0
      /\ memory["tag"] = Len(response.entries)
  BY <1>1 DEF IInv, MemoryInv, Parsed
<1> QED  BY <1>1, <1>2, <1>3, <1>4, <1>5, LenProperties

LEMMA IInvParseTag ==
  ASSUME IInv, ParseTag PROVE IInv'
<1>1. /\ pc = "tags" /\ Len(response.entries) < Len(answer.page)
      /\ UNCHANGED <<pc, call, request, answer, caller, lost, faults>>
  BY DEF ParseTag, MoreTags
<1> DEFINE k == Len(response.entries)
           tag == answer.page[k + 1]
           entries == Append(response.entries, tag)
           alloc == IF TagsFull THEN response.alloc + TagsAlloc
                    ELSE response.alloc
           r1 == [response EXCEPT !.alloc = alloc]
           r2 == [r1 EXCEPT !.entries = entries]
<1>2. tag \in 1 .. Total
  <2>1. k + 1 \in 1 .. Len(answer.page) /\ answer.page \in Seq(1 .. Total)
    BY <1>1, AtTags
  <2> QED  BY <2>1, ElementOfSeq
<1>3. /\ entries \in Seq(1 .. Total) /\ Len(entries) = k + 1
      /\ \A i \in 1 .. k : entries[i] = response.entries[i]
      /\ entries[k + 1] = tag
  BY <1>1, <1>2, AtTags, AppendProperties
<1>4. alloc \in Nat /\ k + 1 <= alloc
  BY <1>1, AtTags, Bounds DEF TagsFull
<1>5. response' = r2
  BY DEF ParseTag
<1>6. \A i \in 1 .. k + 1 : entries[i] = answer.page[i]
  BY <1>1, <1>3, AtTags
<1> HIDE DEF tag, entries, alloc
<1>7. r1 \in Responses /\ r1.alloc = alloc /\ r1.token = 0 /\ r1.array
      /\ r1.http_code = response.http_code
  BY <1>1, <1>4, AtTags DEF Responses
<1> HIDE DEF r1
<1>8. r2 \in Responses /\ r2.alloc = alloc /\ r2.token = 0 /\ r2.array
      /\ r2.http_code = response.http_code /\ r2.entries = entries
  BY <1>3, <1>7, SetEntries
<1> HIDE DEF r2
<1> DEFINE blocks == [NoMemory EXCEPT !["tag"] = 1]
<1>9. /\ blocks \in [Blocks -> Nat] /\ blocks["array"] = 0
      /\ blocks["tag"] = 1 /\ blocks["token_list"] = 0
  BY DEF NoMemory, Blocks
<1>10. Allocate(blocks)
  BY DEF ParseTag
<1> HIDE DEF blocks
<1>11. /\ memory' \in [Blocks -> Nat]
       /\ memory'["array"] = 1 /\ memory'["tag"] = k + 1
       /\ memory'["token_list"] = 0
  BY <1>1, <1>9, <1>10, AllocateType, AtTags DEF Blocks
<1>12. RequestInv' /\ CollectedInv'
  BY <1>1, Unnoticed DEF Waiting, IInv, TypeOK
<1>13. TypeOK'
  BY <1>1, <1>5, <1>8, <1>11 DEF IInv, TypeOK, caller
<1>14. AnswerInv'
  BY <1>1, <1>5, <1>8 DEF IInv, AnswerInv, caller
<1>15. ResponseInv'
  BY <1>1, <1>3, <1>5, <1>6, <1>8, AtTags DEF ResponseInv
<1>16. MemoryInv'
  BY <1>1, <1>3, <1>5, <1>8, <1>11, AtTags DEF MemoryInv, Parsed
<1>17. TagsFit'
  BY <1>3, <1>4, <1>5, <1>8 DEF TagsFit
<1> QED  BY <1>12, <1>13, <1>14, <1>15, <1>16, <1>17 DEF IInv

LEMMA IInvTagsNoMemory ==
  ASSUME IInv, TagsNoMemory PROVE IInv'
<1>1. /\ pc = "tags" /\ pc' = "returned" /\ lost'
      /\ lost' \in BOOLEAN
      /\ UNCHANGED <<call, request, answer, response, memory, caller>>
  BY DEF TagsNoMemory, MoreTags
<1>2. RequestInv' /\ CollectedInv'
  BY <1>1, Unnoticed DEF Waiting, IInv, TypeOK
<1>3. faults' \in Nat
  BY FaultCounts DEF TagsNoMemory
<1>4. TypeOK'
  BY <1>1, <1>3 DEF IInv, TypeOK, Stages, caller
<1>5. AnswerInv' /\ MemoryInv' /\ TagsFit'
  BY <1>1 DEF IInv, AnswerInv, MemoryInv, TagsFit, Parsed, caller
<1>6. ResponseInv'
  BY <1>1, AtTags DEF ResponseInv
<1> QED  BY <1>2, <1>4, <1>5, <1>6 DEF IInv

LEMMA IInvFinishTags ==
  ASSUME IInv, FinishTags PROVE IInv'
<1>1. /\ pc = "tags" /\ pc' = "returned"
      /\ ~(Len(response.entries) < Len(answer.page))
      /\ UNCHANGED <<call, request, answer, memory, caller, lost, faults>>
  BY DEF FinishTags, MoreTags
<1>2. response' = [response EXCEPT !.token = answer.token]
  BY <1>1, AtTags, TokenOfIs DEF FinishTags
<1>3. /\ response' \in Responses /\ response'.token = answer.token
      /\ response'.entries = response.entries /\ response'.array
      /\ response'.alloc = response.alloc
      /\ response'.http_code = response.http_code
  BY <1>1, <1>2, AtTags DEF Responses
<1>4. response.entries = answer.page
  BY <1>1, AtTags, SeqEqual
<1>5. RequestInv' /\ CollectedInv'
  BY <1>1, Unnoticed DEF Waiting, IInv, TypeOK
<1>6. TypeOK'
  BY <1>1, <1>3 DEF IInv, TypeOK, Stages, caller
<1>7. AnswerInv'
  BY <1>1, <1>3 DEF IInv, AnswerInv, caller
<1>8. ResponseInv'
  BY <1>1, <1>3, <1>4, AtTags DEF ResponseInv
<1>9. MemoryInv'
  BY <1>1, <1>3, AtTags DEF MemoryInv, Parsed
<1>10. TagsFit'
  BY <1>1, <1>3 DEF IInv, TagsFit
<1> QED  BY <1>5, <1>6, <1>7, <1>8, <1>9, <1>10 DEF IInv

-----------------------------------------------------------------------------
(* The caller.                                                             *)

(* What the destructor frees, per kind of block.                           *)
LEMMA FreedIs ==
  ASSUME NEW self, call \in Calls
  PROVE  /\ Freed(self)["meta"] = 0
         /\ call = "list_versions" => \A b \in Blocks : Freed(self)[b] = 0
         /\ Freed(self)["array"] =
              IF call \in {"list_directory", "list_objects",
                           "get_listable_tags"} /\ self.array
                THEN 1 ELSE 0
         /\ Freed(self)["tag"] =
              IF call = "get_listable_tags" THEN Len(self.entries) ELSE 0
         /\ Freed(self)["token_list"] =
              IF call = "list_access_tokens" /\ self.array THEN 1 ELSE 0
<1>1. call \in AllCalls
  BY ListingAssumption
<1>2. CASE call \in {"list_directory", "list_objects"}
  BY <1>2 DEF Freed, NoMemory, Blocks
<1>3. CASE call = "list_versions"
  BY <1>3 DEF Freed, NoMemory, Blocks
<1>4. CASE call = "get_listable_tags"
  BY <1>4 DEF Freed, NoMemory, Blocks
<1>5. CASE call = "list_access_tokens"
  BY <1>5 DEF Freed, NoMemory, Blocks
<1> QED  BY <1>1, <1>2, <1>3, <1>4, <1>5 DEF AllCalls, DocumentCalls

(* Nothing is freed that was not allocated, and all the destructor looks   *)
(* at is freed.                                                            *)
LEMMA Destroyed ==
  ASSUME IInv, pc = "returned", DestroyResponse
  PROVE  /\ memory' \in [Blocks -> Nat]
         /\ call # "list_versions" =>
              memory'["array"] = 0 /\ memory'["tag"] = 0
                /\ memory'["token_list"] = 0
<1> DEFINE freed == Freed(response)
<1>1. memory \in [Blocks -> Nat] /\ call \in Calls
  BY DEF IInv, TypeOK
<1>2. /\ freed["meta"] = 0
      /\ call = "list_versions" => \A b \in Blocks : freed[b] = 0
      /\ freed["array"] =
           IF call \in {"list_directory", "list_objects",
                        "get_listable_tags"} /\ response.array
             THEN 1 ELSE 0
      /\ freed["tag"] =
           IF call = "get_listable_tags" THEN Len(response.entries) ELSE 0
      /\ freed["token_list"] =
           IF call = "list_access_tokens" /\ response.array THEN 1 ELSE 0
  BY <1>1, FreedIs
<1>3. memory' = [b \in Blocks |-> memory[b] - freed[b]]
  BY DEF DestroyResponse
<1> HIDE DEF freed
<1>4. call # "list_versions" =>
        memory["array"] = freed["array"] /\ memory["tag"] = freed["tag"]
          /\ memory["token_list"] = freed["token_list"]
  BY <1>2 DEF IInv, MemoryInv, Parsed
<1>5. CASE call = "list_versions"
  <2>1. \A b \in Blocks : memory[b] - freed[b] = memory[b]
    BY <1>1, <1>2, <1>5
  <2> QED  BY <1>1, <1>3, <1>5, <2>1
<1>6. CASE call # "list_versions"
  <2>1. /\ memory["array"] - freed["array"] = 0
        /\ memory["tag"] - freed["tag"] = 0
        /\ memory["token_list"] - freed["token_list"] = 0
        /\ memory["meta"] - freed["meta"] = memory["meta"]
    BY <1>1, <1>2, <1>4, <1>6 DEF Blocks
  <2> QED  BY <1>1, <1>3, <2>1 DEF Blocks
<1> QED  BY <1>5, <1>6

(* A page that was returned.                                               *)
LEMMA AtReturned ==
  ASSUME IInv, pc = "returned", response.http_code = 200
  PROVE  LET entries == response.entries IN
         /\ entries \in Seq(1 .. Total) /\ collected \in Seq(1 .. Total)
         /\ Len(entries) \in Nat /\ Len(collected) \in Nat
         /\ Pos(token) \in 0 .. Total /\ response.token \in Tokens
         /\ Pos(token) + Len(entries) <= Total
         /\ \A i \in 1 .. Len(entries) : entries[i] = Pos(token) + i
         /\ response.token # 0 =>
              Pos(token) + Len(entries) <= Pos(response.token)
         /\ ~lost =>
              Pos(token) + Len(entries) =
                IF response.token = 0 THEN Total ELSE Pos(response.token)
<1> DEFINE entries == response.entries
           n == Len(answer.page)
<1>1. /\ entries \in Seq(1 .. Total) /\ collected \in Seq(1 .. Total)
      /\ answer.page \in Seq(1 .. Total)
      /\ response.token \in Tokens
  BY DEF IInv, TypeOK, Responses, Answers
<1>2. /\ Len(entries) <= n
      /\ \A i \in 1 .. Len(entries) : entries[i] = answer.page[i]
      /\ response.token \in {0, answer.token}
      /\ ~lost => entries = answer.page /\ response.token = answer.token
  BY DEF IInv, ResponseInv
<1>3. /\ Pos(token) + n <= Total
      /\ \A i \in 1 .. n : answer.page[i] = Pos(token) + i
      /\ answer.token # 0 => answer.token = Pos(token) + n + 1
      /\ answer.token = 0 => Pos(token) + n = Total
  BY DEF IInv, AnswerInv
<1>4. Pos(token) \in 0 .. Total /\ Pos(token) \in Nat
  BY PosType, Bounds DEF IInv, TypeOK
<1>5. Len(entries) \in Nat /\ Len(collected) \in Nat /\ n \in Nat
  BY <1>1, LenProperties
<1> HIDE DEF n, entries
<1>6. /\ Pos(token) + Len(entries) <= Total
      /\ \A i \in 1 .. Len(entries) : entries[i] = Pos(token) + i
  BY <1>2, <1>3, <1>4, <1>5, Bounds
<1>7. response.token # 0 =>
        /\ response.token = answer.token
        /\ Pos(response.token) = Pos(token) + n
  BY <1>2, <1>3, <1>4, <1>5 DEF Pos
<1>8. ~lost => Len(entries) = n
  BY <1>2 DEF entries, n
<1> QED  BY <1>1, <1>2, <1>3, <1>4, <1>5, <1>6, <1>7, <1>8 DEF entries

LEMMA IInvTakePage ==
  ASSUME IInv, TakePage PROVE IInv'
<1> DEFINE entries == response.entries
           p == Pos(token)
           both == collected \o entries
<1>1. /\ pc = "returned" /\ response.http_code = 200
      /\ pc' \in {"idle", "done"}
      /\ pc' = "done" <=> response.token = 0
      /\ collected' = both /\ token' = response.token
      /\ DestroyResponse
      /\ UNCHANGED <<call, request, answer, response, lost, faults>>
  BY DEF TakePage
<1>2. /\ entries \in Seq(1 .. Total) /\ collected \in Seq(1 .. Total)
      /\ Len(entries) \in Nat /\ Len(collected) \in Nat
      /\ p \in 0 .. Total /\ response.token \in Tokens
      /\ p + Len(entries) <= Total
      /\ \A i \in 1 .. Len(entries) : entries[i] = p + i
      /\ response.token # 0 => p + Len(entries) <= Pos(response.token)
      /\ ~lost => p + Len(entries) =
                    IF response.token = 0 THEN Total ELSE Pos(response.token)
  BY <1>1, AtReturned
<1>3. /\ both \in Seq(1 .. Total)
      /\ Len(both) = Len(collected) + Len(entries)
      /\ \A i \in 1 .. Len(collected) + Len(entries) :
           both[i] = IF i <= Len(collected) THEN collected[i]
                     ELSE entries[i - Len(collected)]
  BY <1>2, ConcatProperties
<1>4. /\ \A i \in 1 .. Len(collected) :
           collected[i] \in 1 .. Total /\ collected[i] <= p
      /\ \A i, j \in 1 .. Len(collected) : i < j => collected[i] < collected[j]
      /\ ~lost => collected = Upto(p)
  <2>1. \A i \in 1 .. Len(collected) : collected[i] \in 1 .. Total
    BY <1>2, ElementOfSeq
  <2> QED  BY <1>1, <2>1 DEF IInv, CollectedInv, InOrderOnce
<1>5. RequestInv' /\ AnswerInv' /\ ResponseInv'
  BY <1>1 DEF RequestInv, AnswerInv, ResponseInv, Waiting
<1>6. memory' \in [Blocks -> Nat]
      /\ (call # "list_versions" => memory'["array"] = 0
            /\ memory'["tag"] = 0 /\ memory'["token_list"] = 0)
  BY <1>1, Destroyed
<1>7. MemoryInv'
  BY <1>1, <1>6 DEF MemoryInv, Parsed
<1>8. TagsFit'
  BY <1>1 DEF IInv, TagsFit
<1>9. TypeOK'
  BY <1>1, <1>2, <1>3, <1>6 DEF IInv, TypeOK, Stages
<1>10. CollectedInv'
  <2> HIDE DEF entries, p, both
  <2> DEFINE c == Len(collected)
             n == Len(entries)
  <2>1. \A i \in 1 .. c + n :
          /\ i <= c => both[i] = collected[i] /\ both[i] \in Nat /\ both[i] <= p
          /\ i > c => both[i] = p + (i - c)
    <3> SUFFICES ASSUME NEW i \in 1 .. c + n
                 PROVE  /\ i <= c => both[i] = collected[i] /\ both[i] \in Nat
                                       /\ both[i] <= p
                        /\ i > c => both[i] = p + (i - c)
      OBVIOUS
    <3>1. i <= c => both[i] = collected[i] /\ both[i] \in Nat /\ both[i] <= p
      BY <1>2, <1>3, <1>4
    <3>2. i > c => i - c \in 1 .. n /\ both[i] = entries[i - c]
      BY <1>2, <1>3
    <3> QED  BY <1>2, <3>1, <3>2
  <2> HIDE DEF c, n
  <2>2. c \in Nat /\ n \in Nat /\ p \in Nat /\ Total \in Nat
        /\ Len(both) = c + n
    BY <1>2, <1>3, Bounds DEF c, n
  <2>3. \A i, j \in 1 .. Len(both) : i < j => both[i] < both[j]
    <3> SUFFICES ASSUME NEW i \in 1 .. c + n, NEW j \in 1 .. c + n, i < j
                 PROVE  both[i] < both[j]
      BY <2>2
    <3>1. CASE j <= c
      BY <1>4, <2>1, <2>2, <3>1 DEF c
    <3>2. CASE i <= c /\ j > c
      BY <2>1, <2>2, <3>2
    <3>3. CASE i > c
      BY <2>1, <2>2, <3>3
    <3> QED  BY <2>2, <3>1, <3>2, <3>3
  <2>4. \A i \in 1 .. Len(both) : both[i] <= p + n
    BY <2>1, <2>2
  <2>5. pc' # "done" =>
          \A i \in 1 .. Len(collected') : collected'[i] <= Pos(token')
    <3>1. SUFFICES ASSUME response.token # 0, NEW i \in 1 .. Len(both)
                   PROVE  both[i] <= Pos(response.token)
      BY <1>1
    <3>2. both[i] \in Nat
      BY <2>1, <2>2
    <3>3. Pos(response.token) \in Nat
      BY <1>2, PosType, Bounds
    <3> QED  BY <1>2, <2>2, <2>4, <3>1, <3>2, <3>3 DEF n
  <2>6. ~lost' =>
          collected' = Upto(IF pc' = "done" THEN Total ELSE Pos(token'))
    <3> SUFFICES ASSUME ~lost PROVE both = Upto(p + n)
      BY <1>1, <1>2 DEF n
    <3>1. /\ Upto(p) \in Seq(Nat) /\ Len(Upto(p)) = p
          /\ \A i \in 1 .. p : Upto(p)[i] = i
      BY <2>2, UptoType
    <3>2. c = p /\ \A i \in 1 .. c : collected[i] = i
      BY <1>4, <3>1 DEF c
    <3>3. p + n \in Nat
      BY <2>2
    <3>4. /\ Upto(p + n) \in Seq(Nat) /\ Len(Upto(p + n)) = p + n
          /\ \A i \in 1 .. p + n : Upto(p + n)[i] = i
      BY <3>3, UptoType
    <3>5. both \in Seq(Nat)
      <4>1. \A i \in 1 .. Total : i \in Nat
        OBVIOUS
      <4>2. Seq(1 .. Total) \subseteq Seq(Nat)
        BY <4>1, SeqMonotonic, Zenon
      <4> QED  BY <1>3, <4>2
    <3>6. \A i \in 1 .. Len(both) : both[i] = Upto(p + n)[i]
      BY <2>1, <2>2, <3>2, <3>4
    <3>7. Len(both) = Len(Upto(p + n))
      BY <2>2, <3>2, <3>4
    <3> HIDE DEF both
    <3> QED  BY <3>4, <3>5, <3>6, <3>7, SeqEqual
  <2> QED  BY <1>1, <2>3, <2>5, <2>6 DEF CollectedInv, InOrderOnce
<1> QED  BY <1>5, <1>7, <1>8, <1>9, <1>10 DEF IInv

LEMMA IInvAskAgain ==
  ASSUME IInv, AskAgain PROVE IInv'
<1>1. /\ pc = "returned" /\ DestroyResponse
      /\ \/ pc' = "idle" /\ response' = response
         \/ pc' = "built" /\ response' = InitResponse(response)
      /\ UNCHANGED <<call, request, answer, caller, lost, faults>>
  BY DEF AskAgain
<1>2. memory' \in [Blocks -> Nat]
      /\ (call # "list_versions" => memory'["array"] = 0
            /\ memory'["tag"] = 0 /\ memory'["token_list"] = 0)
  BY <1>1, Destroyed
<1>3. response' \in Responses
  BY <1>1, InitResponseType DEF IInv, TypeOK
<1>4. TypeOK'
  BY <1>1, <1>2, <1>3 DEF IInv, TypeOK, Stages, caller
<1>5. RequestInv'
  BY <1>1 DEF IInv, RequestInv, Waiting, caller
<1>6. CollectedInv'
  BY <1>1 DEF IInv, CollectedInv, InOrderOnce, caller
<1>7. AnswerInv' /\ ResponseInv'
  BY <1>1 DEF AnswerInv, ResponseInv, InitResponse
<1>8. MemoryInv'
  BY <1>1, <1>2 DEF MemoryInv, Parsed
<1>9. TagsFit'
  BY <1>1, InitResponseType DEF IInv, TagsFit, InitResponse
<1> QED  BY <1>4, <1>5, <1>6, <1>7, <1>8, <1>9 DEF IInv

-----------------------------------------------------------------------------
(* The theorems.                                                           *)

(* A step of nobody.                                                       *)
LEMMA IInvStutter ==
  ASSUME IInv, UNCHANGED vars PROVE IInv'
<1>1. TypeOK'
  BY DEF IInv, TypeOK, vars, caller
<1>2. RequestInv' /\ CollectedInv'
  BY DEF IInv, RequestInv, CollectedInv, InOrderOnce, Waiting, vars, caller
<1>3. AnswerInv' /\ ResponseInv'
  BY DEF IInv, AnswerInv, ResponseInv, vars, caller
<1>4. MemoryInv' /\ TagsFit'
  BY DEF IInv, MemoryInv, Parsed, TagsFit, vars, caller
<1> QED  BY <1>1, <1>2, <1>3, <1>4 DEF IInv

LEMMA IInvNext ==
  ASSUME IInv, [Next]_vars PROVE IInv'
<1>1. CASE ClientStep
  BY <1>1, IInvBuildRequest, IInvSetPaginationHeaders, IInvNotParsed,
     IInvParseDocument, IInvParseTokenList, IInvStartTags, IInvParseTag,
     IInvFinishTags, IInvTakePage, IInvAskAgain DEF ClientStep
<1>2. CASE AnswerPage
  BY <1>2, IInvAnswerPage
<1>3. CASE Environment
  BY <1>3, IInvAnswerEmpty, IInvAnswerGarbled, IInvRefuse, IInvCut,
     IInvTagsNoMemory DEF Environment
<1>4. CASE UNCHANGED vars
  BY <1>4, IInvStutter
<1> QED  BY <1>1, <1>2, <1>3, <1>4 DEF Next

(* The invariant holds, whatever fails and however often.                  *)
THEOREM Inductive == Spec => []IInv
<1>1. Init => IInv
  BY IInvInit
<1>2. IInv /\ [Next]_vars => IInv'
  BY IInvNext
<1> QED  BY <1>1, <1>2, PTL DEF Spec

(* The state of the loop stays in its types: no length, token or count of  *)
(* blocks leaves its range, and no destructor frees what is not there.     *)
THEOREM TypeCorrect == Spec => []TypeOK
<1>1. IInv => TypeOK
  BY DEF IInv
<1> QED  BY <1>1, Inductive, PTL

(* No entry is taken twice or out of order.                                *)
THEOREM EntriesInOrder == Spec => []InOrderOnce
<1>1. IInv => InOrderOnce
  BY DEF IInv, CollectedInv
<1> QED  BY <1>1, Inductive, PTL

(* The tags are written inside their array.                                *)
THEOREM TagsFitAlways == Spec => []TagsFit
<1>1. IInv => TagsFit
  BY DEF IInv
<1> QED  BY <1>1, Inductive, PTL

(* What the parsers allocate for a page is freed with its response.        *)
THEOREM NothingKept == Spec => []ArraysFreed
<1>1. IInv => ArraysFreed
  <2> SUFFICES ASSUME IInv, pc \in {"idle", "built", "done"},
                      call # "list_versions"
               PROVE  memory = [NoMemory EXCEPT !["meta"] = memory["meta"]]
    BY DEF ArraysFreed
  <2>1. /\ memory["array"] = 0 /\ memory["tag"] = 0
        /\ memory["token_list"] = 0
    BY DEF IInv, MemoryInv, Parsed
  <2>2. memory \in [Blocks -> Nat]
    BY DEF IInv, TypeOK
  <2> DEFINE kept == [NoMemory EXCEPT !["meta"] = memory["meta"]]
  <2>3. \A b \in Blocks : memory[b] = kept[b]
    BY <2>1 DEF NoMemory, Blocks
  <2>4. kept \in [Blocks -> Nat]
    BY <2>2 DEF NoMemory, Blocks
  <2> HIDE DEF kept
  <2>5. memory = kept
    BY <2>2, <2>3, <2>4
  <2> QED  BY <2>5 DEF kept
<1> QED  BY <1>1, Inductive, PTL

-----------------------------------------------------------------------------
(* The loop over the pages implements the enumeration of the entries.      *)

(* What is not seen from outside.                                          *)
LEMMA Unseen ==
  ASSUME UNCHANGED <<collected, lost>>,
         \/ pc' = pc
         \/ pc \notin {"done", "crashed"} /\ pc' \notin {"done", "crashed"}
  PROVE  UNCHANGED <<collected, pc \in {"done", "crashed"},
                     lost \/ pc = "crashed">>
OBVIOUS

LEMMA StartsEnumeration ==
  ASSUME Init PROVE Enum!Init
BY DEF Init, Enum!Init

LEMMA BreakStep ==
  ASSUME collected' = collected, lost' \/ pc' = "crashed",
         pc \notin {"done", "crashed"}
  PROVE  Enum!Break
<1>1. (lost' \/ pc' = "crashed") = TRUE
  BY Zenon
<1>2. (pc' \in {"done", "crashed"}) \in BOOLEAN
  OBVIOUS
<1> QED  BY <1>1, <1>2 DEF Enum!Break

(* A page taken before anything is lost ends where the beginning of the    *)
(* listing that has come out so far now ends.                              *)
LEMMA DeliverStep ==
  ASSUME IInv, IInv', TakePage, ~lost
  PROVE  Enum!Deliver
<1> DEFINE n == Pos(token) + Len(response.entries)
<1>1. /\ pc = "returned" /\ response.http_code = 200
      /\ pc' = IF response.token = 0 THEN "done" ELSE "idle"
      /\ collected' = collected \o response.entries
      /\ token' = response.token /\ lost' = lost
  BY DEF TakePage
<1>2. /\ Pos(token) \in Nat /\ Len(response.entries) \in Nat
      /\ n <= Total /\ Total \in Nat
      /\ n = IF response.token = 0 THEN Total ELSE Pos(response.token)
  BY <1>1, AtReturned, Bounds
<1>3. collected' = Upto(n)
  BY <1>1, <1>2 DEF IInv, CollectedInv
<1>4. collected = Upto(Pos(token))
  BY <1>1 DEF IInv, CollectedInv
<1>5. Len(collected) = Pos(token)
  BY <1>2, <1>4, UptoType
<1>6. n \in Len(collected) .. Total
  BY <1>2, <1>5
<1>7. Enum!Run(0, n) = Upto(n)
  BY <1>2 DEF Enum!Run, Upto
<1>8. pc' \in {"done", "crashed"} => n = Total
  BY <1>1, <1>2
<1> HIDE DEF n
<1>9. (pc' \in {"done", "crashed"}) \in BOOLEAN
  OBVIOUS
<1>10. (lost' \/ pc' = "crashed") = (lost \/ pc = "crashed")
  BY <1>1
<1>11. ~(pc \in {"done", "crashed"}) /\ ~(lost \/ pc = "crashed")
  BY <1>1
<1> QED  BY <1>3, <1>6, <1>7, <1>8, <1>9, <1>10, <1>11 DEF Enum!Deliver

(* Afterwards it starts behind what has come out.                          *)
LEMMA DeliverRestStep ==
  ASSUME IInv, TakePage, lost
  PROVE  Enum!DeliverRest
<1> DEFINE p == Pos(token)
           n == Len(response.entries)
<1>1. /\ pc = "returned" /\ response.http_code = 200
      /\ pc' = IF response.token = 0 THEN "done" ELSE "idle"
      /\ collected' = collected \o response.entries /\ lost' = lost
  BY DEF TakePage
<1>2. /\ response.entries \in Seq(1 .. Total)
      /\ collected \in Seq(1 .. Total)
      /\ n \in Nat /\ p \in 0 .. Total /\ p + n <= Total
      /\ \A i \in 1 .. n : response.entries[i] = p + i
      /\ Total \in Nat
  BY <1>1, AtReturned, Bounds
<1>3. response.entries = Enum!Run(p, n)
  <2>1. DOMAIN response.entries = 1 .. n
        /\ response.entries \in [1 .. n -> 1 .. Total]
    BY <1>2, LenProperties
  <2> QED  BY <1>2, <2>1 DEF Enum!Run
<1>4. collected # << >> => collected[Len(collected)] <= p
  <2>1. collected # << >> => Len(collected) \in 1 .. Len(collected)
    BY <1>2, EmptySeq
  <2> QED  BY <1>1, <2>1 DEF IInv, CollectedInv
<1>5. n \in 0 .. Total - p
  BY <1>2
<1> HIDE DEF p, n
<1>6. (lost' \/ pc' = "crashed") = (lost \/ pc = "crashed")
  BY <1>1
<1>7. ~(pc \in {"done", "crashed"}) /\ (lost \/ pc = "crashed")
  BY <1>1
<1>8. \E q \in 0 .. Total : \E m \in 0 .. Total - q :
        /\ collected # << >> => collected[Len(collected)] <= q
        /\ collected' = collected \o Enum!Run(q, m)
  <2>1. p \in 0 .. Total
    BY <1>2
  <2>2. collected' = collected \o Enum!Run(p, n)
    BY <1>1, <1>3
  <2> QED  BY <1>4, <1>5, <2>1, <2>2, Zenon
<1>9. (pc' \in {"done", "crashed"}) \in BOOLEAN
  OBVIOUS
<1> QED  BY <1>6, <1>7, <1>8, <1>9 DEF Enum!DeliverRest

LEMMA TakesEnumerationStep ==
  ASSUME IInv, IInv', [Next]_vars
  PROVE  [Enum!Next]_<<collected, pc \in {"done", "crashed"},
                       lost \/ pc = "crashed">>
<1> DEFINE unseen == UNCHANGED <<collected, pc \in {"done", "crashed"},
                                 lost \/ pc = "crashed">>
<1>1. CASE TakePage
  BY <1>1, DeliverStep, DeliverRestStep DEF Enum!Next
<1>2. CASE AnswerGarbled
  BY <1>2, BreakStep DEF AnswerGarbled, Answered, caller, Enum!Next
<1>3. CASE TagsNoMemory
  BY <1>3, BreakStep DEF TagsNoMemory, MoreTags, caller, Enum!Next
<1>4. CASE ParseTokenList
  <2>1. CASE answer.http_code = 0
    BY <1>4, <2>1, BreakStep DEF ParseTokenList, caller, Enum!Next
  <2>2. CASE answer.http_code # 0
    BY <1>4, <2>2, Unseen DEF ParseTokenList, caller
  <2> QED  BY <2>1, <2>2
<1>5. CASE \E limit \in Limits, include_meta \in IncludeMeta :
             BuildRequest(limit, include_meta)
  <2>1. unseen
    BY <1>5, Unseen DEF BuildRequest, caller
  <2> QED  BY <2>1
<1>6. CASE SetPaginationHeaders
  BY <1>6, Unseen DEF SetPaginationHeaders, caller
<1>7. CASE NotParsed \/ ParseDocument
  BY <1>7, Unseen DEF NotParsed, ParseDocument, caller
<1>8. CASE StartTags \/ ParseTag \/ FinishTags
  BY <1>8, Unseen DEF StartTags, ParseTag, FinishTags, caller
<1>9. CASE AskAgain
  BY <1>9, Unseen DEF AskAgain, caller
<1>10. CASE AnswerPage
  BY <1>10, Unseen DEF AnswerPage, Answered, caller
<1>11. CASE AnswerEmpty
  BY <1>11, Unseen DEF AnswerEmpty, Answered, caller
<1>12. CASE Refuse \/ Cut
  BY <1>12, Unseen DEF Refuse, Cut, Answered, caller
<1>13. CASE UNCHANGED vars
  BY <1>13, Unseen DEF vars, caller
<1> QED  BY <1>1, <1>2, <1>3, <1>4, <1>5, <1>6, <1>7, <1>8, <1>9, <1>10,
            <1>11, <1>12, <1>13 DEF Next, ClientStep, Environment

(* Whatever fails, seen from outside the loop delivers the entries in      *)
(* order, a page's worth at a time, all of them before it is done unless   *)
(* something could not be read, and none of them twice even then.          *)
THEOREM RefinesEnumeration == Spec => Enum!Safety
<1>1. Init => Enum!Init
  BY StartsEnumeration
<1>2. IInv /\ IInv' /\ [Next]_vars =>
        [Enum!Next]_<<collected, pc \in {"done", "crashed"},
                      lost \/ pc = "crashed">>
  BY TakesEnumerationStep
<1> QED  BY <1>1, <1>2, Inductive, PTL DEF Spec, Enum!Safety
=============================================================================
