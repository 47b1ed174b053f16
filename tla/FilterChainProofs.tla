-------------------------- MODULE FilterChainProofs --------------------------
(***************************************************************************)
(* What a response says of its call, whatever the operation, the filters   *)
(* in its chain, the options and the server: whether the request was sent, *)
(* and that data and errors do not come together.  And the headers of a    *)
(* request: each is there once per execution, the one signature is of all  *)
(* the others, and the server that computes it again finds the same.  The  *)
(* response object has the fields that the filters write.                  *)
(***************************************************************************)
EXTENDS FilterChain, SequenceTheorems, FiniteSetTheorems, NaturalsInduction,
        TLAPS

-----------------------------------------------------------------------------
(* The inductive invariant.                                                *)

FieldNames ==
  {"atmos_error", "version", "object_id", "system_metadata", "meta", "acl",
   "object_info", "entries", "token", "tags", "results", "version_id",
   "versions", "token_id", "token_list", "token_info"}

Responses == [http_code : Nat, local_error : BOOLEAN,
              written : SUBSET FieldNames, has : SUBSET AnswerParts]

ResponseType == response \in Responses

(* Before the answer, the response object is as it was made.               *)
Untouched ==
  pc \in {"idle", "request", "server"} =>
    /\ response.http_code = 0
    /\ ~response.local_error
    /\ response.written = {}
    /\ response.has = {}

SentInv ==
  /\ pc \in {"idle", "request"} => Len(sent) = 0 /\ sent = << >>
  /\ pc = "server" => Len(sent) = 1
  /\ pc \in {"response", "returned"} =>
       Len(sent) = IF response.local_error THEN 0 ELSE 1

(* The fields that may have been written when the code is this one.        *)
Allowed(code, fields) ==
  /\ code > 299 => fields \subseteq {"atmos_error"}
  /\ code = 0 => fields \subseteq {"tags"}
  /\ code \in 200 .. 299 => "atmos_error" \notin fields

(* An answer that never came has no parts.                                 *)
WrittenInv ==
  pc \in {"response", "returned"} =>
    /\ Allowed(response.http_code, response.written)
    /\ response.http_code = 0 => response.has = {}

IInv ==
  /\ pc \in {"idle", "request", "server", "response", "returned", "crashed"}
  /\ ResponseType
  /\ Untouched
  /\ SentInv
  /\ WrittenInv

-----------------------------------------------------------------------------
(* Records, and the one request of an execution.                           *)

LEMMA FreshType ==
  /\ FreshResponse \in Responses
  /\ FreshResponse.http_code = 0
  /\ ~FreshResponse.local_error
  /\ FreshResponse.written = {}
  /\ FreshResponse.has = {}
BY DEF FreshResponse, Responses

LEMMA WithWritten ==
  ASSUME NEW r \in Responses, NEW w \in SUBSET FieldNames
  PROVE  LET n == [r EXCEPT !.written = w] IN
         /\ n \in Responses
         /\ n.http_code = r.http_code
         /\ n.local_error = r.local_error
         /\ n.written = w
         /\ n.has = r.has
BY DEF Responses

WithAnswer(r, code, has) == [r EXCEPT !.http_code = code, !.has = has]

LEMMA WithAnswerType ==
  ASSUME NEW r \in Responses, NEW code \in Nat, NEW has \in SUBSET AnswerParts
  PROVE  LET new == WithAnswer(r, code, has) IN
         /\ new \in Responses
         /\ new.http_code = code
         /\ new.local_error <=> r.local_error
         /\ new.written = r.written
BY DEF Responses, WithAnswer

WithLocalError(r, w) ==
  [r EXCEPT !.http_code = 400, !.local_error = TRUE, !.written = w]

LEMMA WithLocalErrorType ==
  ASSUME NEW r \in Responses, NEW w \in SUBSET FieldNames
  PROVE  LET new == WithLocalError(r, w) IN
         /\ new \in Responses
         /\ new.http_code = 400
         /\ new.local_error
         /\ new.written = w
<1> DEFINE r1 == [r EXCEPT !.http_code = 400]
           r2 == [r1 EXCEPT !.local_error = TRUE]
           r3 == [r2 EXCEPT !.written = w]
<1>1. WithLocalError(r, w) = r3
  BY DEF WithLocalError
<1>2. r1 \in Responses /\ r1.http_code = 400
  BY DEF Responses
<1> HIDE DEF r1
<1>3. r2 \in Responses /\ r2.http_code = 400 /\ r2.local_error
  BY <1>2 DEF Responses
<1> HIDE DEF r2
<1>4. r3 \in Responses /\ r3.http_code = 400 /\ r3.local_error
      /\ r3.written = w
  BY <1>3 DEF Responses
<1> HIDE DEF r3
<1> QED  BY <1>1, <1>4

LEMMA FirstSent ==
  ASSUME NEW e
  PROVE  Len(Append(<< >>, e)) = 1
<1>1. << >> \in Seq({e})
  OBVIOUS
<1> QED  BY <1>1, AppendProperties

-----------------------------------------------------------------------------
(* Each kind of step preserves it.                                         *)

LEMMA InitInv == Init => IInv
<1> SUFFICES ASSUME Init PROVE IInv
  OBVIOUS
<1> QED
  BY FreshType DEF Init, IInv, ResponseType, Untouched, SentInv, WrittenInv

LEMMA PassOnStep ==
  ASSUME IInv, NEW filter, NEW headers, PassOn(filter, headers)
  PROVE  IInv'
BY DEF PassOn, IInv, ResponseType, Untouched, SentInv, WrittenInv, Allowed

LEMMA GiveUpStep ==
  ASSUME IInv, NEW filter, NEW headers, GiveUp(filter, headers)
  PROVE  IInv'
<1> DEFINE w == IF Operation[request.op].plain THEN response.written
                ELSE response.written \cup {"atmos_error"}
<1>1. response \in Responses /\ response.written = {}
  BY DEF GiveUp, IInv, ResponseType, Untouched
<1>2. w \in SUBSET FieldNames /\ w \subseteq {"atmos_error"}
  BY <1>1 DEF FieldNames
<1>3. response' = WithLocalError(response, w)
  BY DEF GiveUp, WithLocalError
<1> HIDE DEF w
<1>4. /\ response' \in Responses
      /\ response'.http_code = 400
      /\ response'.local_error
      /\ response'.written = w
  BY <1>1, <1>2, <1>3, WithLocalErrorType
<1>5. pc' \in {"response", "returned"} /\ sent' = << >> /\ Len(sent') = 0
  BY DEF GiveUp, IInv, SentInv
<1> QED
  BY <1>2, <1>4, <1>5
     DEF IInv, ResponseType, Untouched, SentInv, WrittenInv, Allowed

LEMMA ReturnStep ==
  ASSUME IInv, NEW filter, NEW fields \in SUBSET FieldNames,
         Allowed(response.http_code, fields), Return(filter, fields)
  PROVE  IInv'
<1> DEFINE w == response.written \cup fields
<1>1. response \in Responses /\ response.http_code \in Nat
  BY DEF IInv, ResponseType, Responses
<1>2. w \in SUBSET FieldNames
  BY <1>1 DEF Responses
<1>3. response' = [response EXCEPT !.written = w]
  BY DEF Return
<1>4. Allowed(response.http_code, w)
  BY DEF Return, IInv, WrittenInv, Allowed
<1> HIDE DEF w
<1>5. /\ response' \in Responses
      /\ response'.http_code = response.http_code
      /\ response'.local_error = response.local_error
      /\ response'.written = w
      /\ response'.has = response.has
  BY <1>1, <1>2, <1>3, WithWritten
<1>6. /\ pc = "response"
      /\ pc' \in {"response", "returned"}
      /\ sent' = sent
  BY DEF Return
<1>7. ResponseType' /\ Untouched'
  BY <1>5, <1>6 DEF ResponseType, Untouched
<1>8. SentInv'
  BY <1>5, <1>6 DEF IInv, SentInv
<1>9. WrittenInv'
  BY <1>4, <1>5, <1>6 DEF IInv, WrittenInv
<1> QED  BY <1>6, <1>7, <1>8, <1>9 DEF IInv

LEMMA SignStep ==
  ASSUME IInv, SignRequest
  PROVE  IInv'
BY DEF SignRequest, IInv, ResponseType, Untouched, SentInv, WrittenInv, Allowed

LEMMA SendStep ==
  ASSUME IInv, ExecuteCurlRequest
  PROVE  IInv'
<1>1. /\ pc = "request"
      /\ pc' = "server"
      /\ response' = response
      /\ sent = << >>
      /\ sent' = Append(sent, request.headers \o MadeUpType)
  BY DEF ExecuteCurlRequest, IInv, SentInv
<1>2. Len(sent') = 1
  BY <1>1, FirstSent
<1> QED
  BY <1>1, <1>2 DEF IInv, ResponseType, Untouched, SentInv, WrittenInv

LEMMA AnswerStep ==
  ASSUME IInv, NEW code \in Codes, NEW has \in SUBSET AnswerParts,
         Answer(code, has)
  PROVE  IInv'
<1>1. code \in Nat /\ code # 0
  BY CallsAssumption DEF CallsAssumption
<1>2. response \in Responses
  BY DEF IInv, ResponseType
<1>3. response' = WithAnswer(response, code, has)
  BY DEF Answer, WithAnswer
<1>4. /\ response' \in Responses
      /\ response'.http_code = code
      /\ response'.local_error <=> response.local_error
      /\ response'.written = response.written
  BY <1>1, <1>2, <1>3, WithAnswerType
<1>5. /\ pc = "server"
      /\ pc' = "response"
      /\ sent' = sent
      /\ response.written = {}
      /\ ~response.local_error
      /\ Len(sent) = 1
  BY DEF Answer, IInv, Untouched, SentInv
<1> QED
  BY <1>1, <1>4, <1>5
     DEF IInv, ResponseType, Untouched, SentInv, WrittenInv, Allowed

LEMMA TransportErrorStep ==
  ASSUME IInv, TransportError
  PROVE  IInv'
BY DEF TransportError, IInv, ResponseType, Untouched, SentInv, WrittenInv,
       Allowed

LEMMA CallStep ==
  ASSUME IInv, NEW op, NEW options, Call(op, options)
  PROVE  IInv'
BY DEF Call, IInv, ResponseType, Untouched, SentInv, WrittenInv

LEMMA CallAgainStep ==
  ASSUME IInv, CallAgain
  PROVE  IInv'
BY FreshType DEF CallAgain, IInv, ResponseType, Untouched, SentInv, WrittenInv

LEMMA RequestStep ==
  ASSUME IInv, RequestHalf
  PROVE  IInv'
<1>1. CASE AddDate \/ AddUid \/ SetContentHeaders
  BY <1>1, PassOnStep DEF AddDate, AddUid, SetContentHeaders
<1>2. CASE SignRequest
  BY <1>2, SignStep
<1>3. CASE SetWriteHeaders \/ UpdateObject
  BY <1>3, PassOnStep DEF SetWriteHeaders, UpdateObject
<1>4. CASE ChecksumFails \/ MarshalFails
  BY <1>4, GiveUpStep DEF ChecksumFails, MarshalFails
<1>5. CASE SetReadObjectHeaders \/ SetGetUserMetaHeaders \/ GetSystemMetadata
  BY <1>5, PassOnStep
     DEF SetReadObjectHeaders, SetGetUserMetaHeaders, GetSystemMetadata
<1>6. CASE SetPaginationHeaders \/ ListDirectory \/ GetListableTags
             \/ ListObjects
  BY <1>6, PassOnStep
     DEF SetPaginationHeaders, ListDirectory, GetListableTags, ListObjects
<1>7. CASE ParseCreateVersion \/ CreateAccessToken \/ PassThrough
  BY <1>7, PassOnStep DEF ParseCreateVersion, CreateAccessToken, PassThrough
<1>8. CASE ExecuteCurlRequest
  BY <1>8, SendStep
<1> QED
  BY <1>1, <1>2, <1>3, <1>4, <1>5, <1>6, <1>7, <1>8 DEF RequestHalf

(* The guard that most parsers have keeps data out of what is no success.  *)
LEMMA ParsedAllowed ==
  ASSUME IInv, pc = "response", NEW part \in AnswerParts,
         NEW fields \in SUBSET FieldNames, "atmos_error" \notin fields
  PROVE  /\ Parsed(part, fields) \in SUBSET FieldNames
         /\ "atmos_error" \notin Parsed(part, fields)
         /\ Allowed(response.http_code, Parsed(part, fields))
<1>1. response.http_code \in Nat
  BY DEF IInv, ResponseType, Responses
<1> QED  BY <1>1 DEF Parsed, IInv, WrittenInv, Allowed

(* The steps of a parser that writes at most one field, or a token with it.*)
LEMMA ParsedStep ==
  ASSUME IInv, NEW filter, NEW part \in AnswerParts,
         NEW fields \in SUBSET FieldNames, "atmos_error" \notin fields,
         \/ Return(filter, Parsed(part, fields))
         \/ Return(filter, Parsed(part, fields) \cup Parsed("token", {"token"}))
         \/ Return(filter, {})
  PROVE  IInv'
<1>1. pc = "response"
  BY DEF Return
<1>2. {"token"} \in SUBSET FieldNames /\ "token" \in AnswerParts
  BY DEF FieldNames, AnswerParts
<1>3. /\ Parsed(part, fields) \in SUBSET FieldNames
      /\ Allowed(response.http_code, Parsed(part, fields))
  BY <1>1, ParsedAllowed
<1>4. /\ Parsed("token", {"token"}) \in SUBSET FieldNames
      /\ Allowed(response.http_code, Parsed("token", {"token"}))
  BY <1>1, <1>2, ParsedAllowed
<1>5. Allowed(response.http_code,
              Parsed(part, fields) \cup Parsed("token", {"token"}))
  BY <1>3, <1>4 DEF Allowed
<1>6. Allowed(response.http_code, {})
  BY DEF Allowed
<1> QED  BY <1>3, <1>4, <1>5, <1>6, ReturnStep

LEMMA AtmosErrorStep ==
  ASSUME IInv, ParseAtmosError
  PROVE  IInv'
<1> DEFINE fields == IF /\ Operation[request.op].method
                             \notin {"DELETE", "PUT", "HEAD"}
                        /\ response.http_code > 399
                        /\ "document" \in response.has
                       THEN {"atmos_error"} ELSE {}
<1>1. response.http_code \in Nat
  BY DEF IInv, ResponseType, Responses
<1>2. fields \in SUBSET FieldNames /\ Allowed(response.http_code, fields)
  BY <1>1 DEF FieldNames, Allowed
<1> QED  BY <1>2, ReturnStep DEF ParseAtmosError

LEMMA ListableTagsStep ==
  ASSUME IInv, ParseListableTags
  PROVE  IInv'
<1> DEFINE tags == IF response.http_code <= 299 THEN {"tags"} ELSE {}
           token == Parsed("token", {"token"})
<1>1. Return("get_listable_tags", tags \cup token)
  BY DEF ParseListableTags
<1>2. pc = "response" /\ response.http_code \in Nat
  BY <1>1 DEF Return, IInv, ResponseType, Responses
<1>3. {"token"} \in SUBSET FieldNames /\ "token" \in AnswerParts
  BY DEF FieldNames, AnswerParts
<1>4. token \in SUBSET FieldNames /\ Allowed(response.http_code, token)
  BY <1>2, <1>3, ParsedAllowed
<1>5. tags \in SUBSET FieldNames /\ Allowed(response.http_code, tags)
  BY <1>2 DEF FieldNames, Allowed
<1> HIDE DEF tags, token
<1>6. Allowed(response.http_code, tags \cup token)
  BY <1>4, <1>5 DEF Allowed
<1> QED  BY <1>1, <1>4, <1>5, <1>6, ReturnStep

LEMMA ResponseStep ==
  ASSUME IInv, ResponseHalf
  PROVE  IInv'
<1> USE DEF FieldNames, AnswerParts
<1>1. CASE ReturnOnly
  <2>1. \A f : Return(f, {}) => IInv'
    BY ParsedStep
  <2> QED  BY <1>1, <2>1 DEF ReturnOnly
<1>2. CASE ParseAtmosError
  BY <1>2, AtmosErrorStep
<1>3. CASE ParseServiceInfo \/ ParseCreate
  <2>1. CASE ParseServiceInfo
    <3>1. {"version"} \in SUBSET FieldNames /\ "atmos_error" \notin {"version"}
      OBVIOUS
    <3> QED  BY <2>1, <3>1, ParsedStep DEF ParseServiceInfo
  <2>2. CASE ParseCreate
    <3>1. {"object_id"} \in SUBSET FieldNames
          /\ "atmos_error" \notin {"object_id"}
      OBVIOUS
    <3> QED  BY <2>2, <3>1, ParsedStep DEF ParseCreate
  <2> QED  BY <1>3, <2>1, <2>2
<1>4. CASE ParseReadObject \/ ParseGetUserMeta \/ ParseSystemMeta
             \/ ParseGetAcl \/ ParseGetInfo
  BY <1>4, ParsedStep
     DEF ParseReadObject, ParseGetUserMeta, ParseSystemMeta, ParseGetAcl,
         ParseGetInfo
<1>5. CASE ParseDirectory \/ ParseObjects \/ ParseVersions
             \/ ParseAccessTokens
  BY <1>5, ParsedStep
     DEF ParseDirectory, ParseObjects, ParseVersions, ParseAccessTokens
<1>6. CASE ParseListableTags
  BY <1>6, ListableTagsStep
<1>7. CASE ReturnVersion \/ ReturnToken \/ ParseTokenInfo
  BY <1>7, ParsedStep DEF ReturnVersion, ReturnToken, ParseTokenInfo
<1>8. CASE UnmarshalNothing
  BY <1>8
     DEF UnmarshalNothing, IInv, ResponseType, Untouched, SentInv, WrittenInv
<1> QED
  BY <1>1, <1>2, <1>3, <1>4, <1>5, <1>6, <1>7, <1>8 DEF ResponseHalf

LEMMA StutterStep ==
  ASSUME IInv, UNCHANGED vars
  PROVE  IInv'
BY DEF vars, IInv, ResponseType, Untouched, SentInv, WrittenInv, Allowed

LEMMA NextStep == IInv /\ [Next]_vars => IInv'
<1> SUFFICES ASSUME IInv, [Next]_vars PROVE IInv'
  OBVIOUS
<1>1. CASE \E op \in Calls : \E options \in OptionsOf(op) : Call(op, options)
  BY <1>1, CallStep
<1>2. CASE \E code \in Codes, has \in SUBSET AnswerParts : Answer(code, has)
  BY <1>2, AnswerStep
<1> QED
  BY <1>1, <1>2, CallAgainStep, RequestStep, TransportErrorStep, ResponseStep,
     StutterStep DEF Next

-----------------------------------------------------------------------------
(* The theorems.                                                           *)

(* The response object is well-formed and clean until the answer comes,    *)
(* one request is sent in an execution at most, and what is written goes   *)
(* with the code.                                                          *)
THEOREM Inductive == Spec => []IInv
BY InitInv, NextStep, PTL DEF Spec

(* The caller can tell from the response whether the server may have acted *)
(* on the request: no call that failed inside a filter was sent, and every *)
(* other was, once.                                                        *)
THEOREM SentOrFailed == Spec => []SentUnlessLocalError
<1>1. IInv => SentUnlessLocalError
  BY DEF IInv, SentInv, SentUnlessLocalError
<1> QED  BY <1>1, Inductive, PTL

(* Whatever the operation and the answer, a response with an error code    *)
(* has no data in it, a success no error, and one without an answer        *)
(* nothing but an empty list of tags.                                      *)
THEOREM NoDataWithErrors == Spec => []ErrorsCarryNoData
<1>1. IInv => ErrorsCarryNoData
  BY DEF IInv, WrittenInv, Allowed, ErrorsCarryNoData
<1> QED  BY <1>1, Inductive, PTL

-----------------------------------------------------------------------------
(* Induction over the naturals, for a set rather than a predicate.         *)

(* An induction over the naturals, for a set rather than a predicate: the  *)
(* least number outside it would have a predecessor in it.                 *)
LEMMA SetInduction ==
  ASSUME NEW G, 0 \in G, \A n \in Nat : n \in G => n + 1 \in G
  PROVE  \A n \in Nat : n \in G
<1> DEFINE T == {n \in Nat : n \notin G}
           R == {ss \in Nat \X Nat : ss[1] < ss[2]}
<1>1. SUFFICES ASSUME T # {} PROVE FALSE
  OBVIOUS
<1>2. IsWellFoundedOn(R, Nat)
  BY NatLessThanWellFounded, Zenon DEF OpToRel
<1>3. PICK x \in T : \A y \in T : <<y, x>> \notin R
  <2>1. T \subseteq Nat
    OBVIOUS
  <2> HIDE DEF T, R
  <2> QED  BY <1>1, <1>2, <2>1, WFMin
<1>4. \A y \in T : ~(y < x)
  BY <1>3
<1>5. x \in Nat /\ x # 0
  OBVIOUS
<1>6. x - 1 \in Nat /\ x - 1 \notin T
  BY <1>4, <1>5
<1> QED  BY <1>5, <1>6

-----------------------------------------------------------------------------
(* How often a header is there.                                            *)

At(name, headers) == {i \in 1 .. Len(headers) : headers[i].name = name}

(* The places of a header are finitely many, so that a count is a number.  *)
LEMMA AtFinite ==
  ASSUME NEW S, NEW headers \in Seq(S), NEW name
  PROVE  /\ IsFiniteSet(At(name, headers))
         /\ Count(name, headers) = Cardinality(At(name, headers))
         /\ Count(name, headers) \in Nat
<1>1. Len(headers) \in Nat
  BY LenProperties
<1>2. IsFiniteSet(1 .. Len(headers))
  BY <1>1, FS_Interval
<1>3. At(name, headers) \in SUBSET (1 .. Len(headers))
  BY DEF At
<1>4. IsFiniteSet(At(name, headers))
  BY <1>2, <1>3, FS_Subset
<1>5. Count(name, headers) = Cardinality(At(name, headers))
  BY DEF At, Count
<1> QED  BY <1>4, <1>5, FS_CardinalityType

(* No count means no header of this name.                                  *)
LEMMA CountNone ==
  ASSUME NEW S, NEW headers \in Seq(S), NEW name
  PROVE  Count(name, headers) = 0
           <=> \A i \in 1 .. Len(headers) : headers[i].name # name
<1>1. IsFiniteSet(At(name, headers))
      /\ Count(name, headers) = Cardinality(At(name, headers))
  BY AtFinite
<1>2. Cardinality(At(name, headers)) = 0 <=> At(name, headers) = {}
  BY <1>1, FS_EmptySet
<1> QED  BY <1>1, <1>2 DEF At

(* A list of headers that all differ in name has each once at most.        *)
LEMMA CountOnce ==
  ASSUME NEW S, NEW headers \in Seq(S), NEW name,
         \A i, j \in 1 .. Len(headers) :
           headers[i].name = name /\ headers[j].name = name => i = j
  PROVE  Count(name, headers) <= 1
<1>1. IsFiniteSet(At(name, headers))
      /\ Count(name, headers) = Cardinality(At(name, headers))
  BY AtFinite
<1>2. CASE At(name, headers) = {}
  BY <1>1, <1>2, FS_EmptySet
<1>3. CASE At(name, headers) # {}
  <2>1. PICK i : i \in At(name, headers)
    BY <1>3
  <2>2. At(name, headers) = {i}
    BY <2>1 DEF At
  <2>3. Cardinality({i}) = 1
    BY FS_Singleton
  <2> QED  BY <1>1, <2>2, <2>3
<1> QED  BY <1>2, <1>3

(* Counts add up when lists are joined.                                    *)
LEMMA CountConcat ==
  ASSUME NEW S, NEW s \in Seq(S), NEW t \in Seq(S), NEW name
  PROVE  Count(name, s \o t) = Count(name, s) + Count(name, t)
<1> DEFINE A == At(name, s)
           B == At(name, t)
           C == {j \in Len(s) + 1 .. Len(s) + Len(t) : j - Len(s) \in B}
           f == [i \in B |-> i + Len(s)]
<1>1. /\ Len(s) \in Nat /\ Len(t) \in Nat
      /\ s \o t \in Seq(S)
      /\ Len(s \o t) = Len(s) + Len(t)
      /\ \A i \in 1 .. Len(s) + Len(t) :
           (s \o t)[i] = IF i <= Len(s) THEN s[i] ELSE t[i - Len(s)]
  BY LenProperties, ConcatProperties
<1>2. /\ IsFiniteSet(A) /\ Count(name, s) = Cardinality(A)
      /\ IsFiniteSet(B) /\ Count(name, t) = Cardinality(B)
      /\ Count(name, s \o t) = Cardinality(At(name, s \o t))
      /\ Cardinality(A) \in Nat /\ Cardinality(B) \in Nat
  BY <1>1, AtFinite
<1>3. At(name, s \o t) = A \cup C
  BY <1>1 DEF At
<1>4. IsFiniteSet(C) /\ Cardinality(C) = Cardinality(B)
  <2>1. f \in [B -> C]
    BY <1>1 DEF At
  <2>2. \A i, j \in B : f[i] = f[j] => i = j
    BY <1>1 DEF At
  <2>3. \A j \in C : \E i \in B : f[i] = j
    <3>1. SUFFICES ASSUME NEW j \in C PROVE \E i \in B : f[i] = j
      OBVIOUS
    <3>2. j - Len(s) \in B /\ f[j - Len(s)] = j
      BY <1>1 DEF At
    <3> QED  BY <3>2
  <2> HIDE DEF f, B, C
  <2>4. f \in Bijection(B, C)
    BY <2>1, <2>2, <2>3 DEF Bijection, Injection, Surjection, IsInjective
  <2>5. ExistsBijection(B, C)
    BY <2>4 DEF ExistsBijection
  <2> QED  BY <1>2, <2>5, FS_Bijection
<1>5. A \cap C = {}
  BY <1>1 DEF At
<1> HIDE DEF A, B, C
<1>6. Cardinality(A \cup C) = Cardinality(A) + Cardinality(C)
  <2>1. Cardinality(A \cap C) = 0
    BY <1>5, FS_EmptySet
  <2>2. Cardinality(A \cup C)
          = Cardinality(A) + Cardinality(C) - Cardinality(A \cap C)
    BY <1>2, <1>4, FS_Union
  <2> QED  BY <1>2, <1>4, <2>1, <2>2
<1> QED  BY <1>2, <1>3, <1>4, <1>6

-----------------------------------------------------------------------------
(* What a caller asks for.                                                 *)

(* Select, by its recursion.                                               *)
Step(names, options, g, n) ==
  IF n = 0 THEN << >>
  ELSE IF names[n] \in options THEN Append(g[n - 1], names[n])
  ELSE g[n - 1]

Selects(names, options, m, g) ==
  g = [n \in 0 .. m |-> Step(names, options, g, n)]

(* The recursive function exists, and its values are lists of names.       *)
LEMMA SelectsExists ==
  ASSUME NEW names, NEW options
  PROVE  \A m \in Nat : \E g : Selects(names, options, m, g)
<1> DEFINE G == {m \in Nat : \E g : Selects(names, options, m, g)}
<1>1. 0 \in G
  <2> DEFINE g == [n \in 0 .. 0 |-> << >>]
  <2>1. Selects(names, options, 0, g)
    BY DEF Selects, Step
  <2> QED  BY <2>1
<1>2. ASSUME NEW m \in Nat, m \in G
      PROVE  m + 1 \in G
  <2>1. PICK g : Selects(names, options, m, g)
    BY <1>2
  <2> DEFINE h == [n \in 0 .. m + 1 |->
                     IF n = m + 1 THEN Step(names, options, g, n) ELSE g[n]]
  <2>2. \A n \in 0 .. m : h[n] = g[n] /\ g[n] = Step(names, options, g, n)
    BY <2>1 DEF Selects
  <2>3. h[m + 1] = Step(names, options, g, m + 1)
    OBVIOUS
  <2>4. \A n \in 0 .. m + 1 : h[n] = Step(names, options, h, n)
    <3>1. \A n \in 0 .. m + 1 :
            Step(names, options, h, n) = Step(names, options, g, n)
      BY <2>2 DEF Step
    <3> HIDE DEF h
    <3> QED  BY <2>2, <2>3, <3>1
  <2>5. h = [n \in 0 .. m + 1 |-> h[n]]
    OBVIOUS
  <2> HIDE DEF h
  <2>6. Selects(names, options, m + 1, h)
    BY <2>4, <2>5 DEF Selects
  <2> QED  BY <2>6
<1> HIDE DEF G
<1>3. \A m \in Nat : m \in G
  BY <1>1, <1>2, SetInduction
<1> QED  BY <1>3 DEF G

(* Select is built name by name.                                           *)
LEMMA SelectUnfold ==
  ASSUME NEW names, NEW options, Len(names) \in Nat
  PROVE  \E g : /\ Selects(names, options, Len(names), g)
                /\ Select(names, options) = g[Len(names)]
<1> DEFINE g == CHOOSE h : Selects(names, options, Len(names), h)
<1>1. Selects(names, options, Len(names), g)
  BY SelectsExists
<1>2. Select(names, options) = g[Len(names)]
  BY DEF Select, Selects, Step
<1> QED  BY <1>1, <1>2

(* Select leaves names out, and brings in none that was not there, nor one *)
(* more often.                                                             *)
LEMMA SelectProperties ==
  ASSUME NEW S, NEW names \in Seq(S), NEW options,
         \A i, j \in 1 .. Len(names) : names[i] = names[j] => i = j
  PROVE  LET s == Select(names, options) IN
         /\ s \in Seq(S)
         /\ \A i \in 1 .. Len(s) : \E j \in 1 .. Len(names) : s[i] = names[j]
         /\ \A i, j \in 1 .. Len(s) : s[i] = s[j] => i = j
<1>1. Len(names) \in Nat /\ \A n \in 1 .. Len(names) : names[n] \in S
  BY LenProperties, ElementOfSeq
<1>2. PICK g : /\ Selects(names, options, Len(names), g)
               /\ Select(names, options) = g[Len(names)]
  BY <1>1, SelectUnfold
<1>3. \A n \in 0 .. Len(names) : g[n] = Step(names, options, g, n)
  BY <1>2 DEF Selects
<1> DEFINE Good(m) ==
             /\ g[m] \in Seq(S)
             /\ \A i \in 1 .. Len(g[m]) : \E j \in 1 .. m : g[m][i] = names[j]
             /\ \A i, j \in 1 .. Len(g[m]) : g[m][i] = g[m][j] => i = j
           G == {m \in Nat : m <= Len(names) => Good(m)}
<1>4. 0 \in G
  <2>1. g[0] = << >>
    BY <1>1, <1>3 DEF Step
  <2>2. g[0] \in Seq(S) /\ Len(g[0]) = 0
    BY <2>1, EmptySeq
  <2> QED  BY <2>2
<1>5. ASSUME NEW m \in Nat, m \in G
      PROVE  m + 1 \in G
  <2>1. SUFFICES ASSUME m + 1 <= Len(names) PROVE Good(m + 1)
    OBVIOUS
  <2>2. Good(m)
    BY <1>1, <1>5, <2>1
  <2>3. g[m + 1] = IF names[m + 1] \in options
                     THEN Append(g[m], names[m + 1]) ELSE g[m]
    BY <1>1, <1>3, <2>1 DEF Step
  <2>4. CASE names[m + 1] \in options
    <3>1. names[m + 1] \in S /\ m + 1 \in 1 .. Len(names)
      BY <1>1, <2>1
    <3>2. Len(g[m]) \in Nat
      BY <2>2, LenProperties
    <3>3. /\ g[m + 1] \in Seq(S)
          /\ Len(g[m + 1]) = Len(g[m]) + 1
          /\ \A i \in 1 .. Len(g[m]) : g[m + 1][i] = g[m][i]
          /\ g[m + 1][Len(g[m]) + 1] = names[m + 1]
      BY <2>2, <2>3, <2>4, <3>1, AppendProperties
    <3>4. \A i \in 1 .. Len(g[m]) : g[m + 1][i] # names[m + 1]
      BY <1>1, <2>1, <2>2, <3>1, <3>3
    <3>5. \A i \in 1 .. Len(g[m + 1]) :
            i \in 1 .. Len(g[m]) \/ i = Len(g[m]) + 1
      BY <3>2, <3>3
    <3>6. \A i \in 1 .. Len(g[m + 1]) :
            \E j \in 1 .. m + 1 : g[m + 1][i] = names[j]
      <4>1. 1 .. m \subseteq 1 .. m + 1 /\ m + 1 \in 1 .. m + 1
        OBVIOUS
      <4> QED  BY <2>2, <3>3, <3>5, <4>1
    <3>7. \A i, j \in 1 .. Len(g[m + 1]) : g[m + 1][i] = g[m + 1][j] => i = j
      BY <2>2, <3>3, <3>4, <3>5
    <3> QED  BY <3>3, <3>6, <3>7
  <2>5. CASE names[m + 1] \notin options
    BY <2>2, <2>3, <2>5
  <2> QED  BY <2>4, <2>5
<1> HIDE DEF G
<1>6. Len(names) \in G
  BY <1>1, <1>4, <1>5, SetInduction
<1> QED  BY <1>1, <1>2, <1>6 DEF G

-----------------------------------------------------------------------------
(* The table of operations.                                                *)

(* f ++ g takes what f says first.                                         *)
Joins(t, f, g) ==
  /\ DOMAIN t = DOMAIN f \cup DOMAIN g
  /\ \A x \in DOMAIN f : t[x] = f[x]
  /\ \A x \in DOMAIN g : x \notin DOMAIN f => t[x] = g[x]

(* What ++ joins is there.                                                 *)
LEMMA Join ==
  ASSUME NEW f, NEW g
  PROVE  Joins(f ++ g, f, g)
<1> DEFINE t == [x \in DOMAIN f \cup DOMAIN g |->
                   IF x \in DOMAIN f THEN f[x] ELSE g[x]]
<1>1. f ++ g = t
  BY DEF ++
<1>2. /\ DOMAIN t = DOMAIN f \cup DOMAIN g
      /\ \A x \in DOMAIN f : t[x] = f[x]
      /\ \A x \in DOMAIN g : x \notin DOMAIN f => t[x] = g[x]
  OBVIOUS
<1> HIDE DEF t
<1> QED  BY <1>1, <1>2 DEF Joins

(* The operations of each group.                                           *)
LEMMA TableDomains ==
  /\ DOMAIN ServiceOps = {"get_service_information"}
  /\ DOMAIN CreateOps = {"create_object"}
  /\ DOMAIN DeleteOps = {"delete_object"}
  /\ DOMAIN ReadOps = {"read_object", "head_object"}
  /\ DOMAIN DeleteMetaOps = {"delete_user_meta"}
  /\ DOMAIN MetaOps = {"get_user_meta", "set_user_meta", "get_system_meta"}
  /\ DOMAIN AclOps = {"get_acl", "set_acl"}
  /\ DOMAIN UpdateOps = {"update_object"}
  /\ DOMAIN InfoOps = {"get_object_info", "rename_object"}
  /\ DOMAIN ListOps = {"list_directory", "get_listable_tags", "list_objects"}
  /\ DOMAIN VersionOps = {"create_version", "list_versions", "delete_version",
                          "restore_version"}
  /\ DOMAIN TokenOps = {"create_access_token", "delete_access_token",
                        "list_access_tokens", "get_access_token_info"}
BY DEF ServiceOps, CreateOps, DeleteOps, ReadOps, DeleteMetaOps, MetaOps,
   AclOps, UpdateOps, InfoOps, ListOps, VersionOps, TokenOps

(* The table is made of the groups, which have no operation in common.     *)
LEMMA Table ==
  /\ DOMAIN Operation =
       UNION {DOMAIN ServiceOps, DOMAIN CreateOps, DOMAIN DeleteOps,
              DOMAIN ReadOps, DOMAIN DeleteMetaOps, DOMAIN MetaOps,
              DOMAIN AclOps, DOMAIN UpdateOps, DOMAIN InfoOps, DOMAIN ListOps,
              DOMAIN VersionOps, DOMAIN TokenOps}
  /\ \A op \in DOMAIN ServiceOps : Operation[op] = ServiceOps[op]
  /\ \A op \in DOMAIN CreateOps : Operation[op] = CreateOps[op]
  /\ \A op \in DOMAIN DeleteOps : Operation[op] = DeleteOps[op]
  /\ \A op \in DOMAIN ReadOps : Operation[op] = ReadOps[op]
  /\ \A op \in DOMAIN DeleteMetaOps : Operation[op] = DeleteMetaOps[op]
  /\ \A op \in DOMAIN MetaOps : Operation[op] = MetaOps[op]
  /\ \A op \in DOMAIN AclOps : Operation[op] = AclOps[op]
  /\ \A op \in DOMAIN UpdateOps : Operation[op] = UpdateOps[op]
  /\ \A op \in DOMAIN InfoOps : Operation[op] = InfoOps[op]
  /\ \A op \in DOMAIN ListOps : Operation[op] = ListOps[op]
  /\ \A op \in DOMAIN VersionOps : Operation[op] = VersionOps[op]
  /\ \A op \in DOMAIN TokenOps : Operation[op] = TokenOps[op]
<1>1. /\ DOMAIN ObjectOps =
           UNION {DOMAIN CreateOps, DOMAIN DeleteOps, DOMAIN ReadOps, DOMAIN
              UpdateOps}
      /\ \A op \in DOMAIN CreateOps : ObjectOps[op] = CreateOps[op]
      /\ \A op \in DOMAIN DeleteOps : ObjectOps[op] = DeleteOps[op]
      /\ \A op \in DOMAIN ReadOps : ObjectOps[op] = ReadOps[op]
      /\ \A op \in DOMAIN UpdateOps : ObjectOps[op] = UpdateOps[op]
  <2> DEFINE T1 == CreateOps ++ DeleteOps
             T2 == T1 ++ ReadOps
             T3 == T2 ++ UpdateOps
  <2>1. Joins(T1, CreateOps, DeleteOps)
    BY Join DEF T1
  <2>2. Joins(T2, T1, ReadOps)
    BY Join DEF T2
  <2>3. Joins(T3, T2, UpdateOps)
    BY Join DEF T3
  <2>4. ObjectOps = T3
    BY DEF ObjectOps
  <2> HIDE DEF T1, T2, T3
  <2> QED  BY <2>1, <2>2, <2>3, <2>4, TableDomains DEF Joins
<1>2. /\ DOMAIN MetadataOps =
           UNION {DOMAIN DeleteMetaOps, DOMAIN MetaOps, DOMAIN AclOps, DOMAIN
              InfoOps}
      /\ \A op \in DOMAIN DeleteMetaOps : MetadataOps[op] = DeleteMetaOps[op]
      /\ \A op \in DOMAIN MetaOps : MetadataOps[op] = MetaOps[op]
      /\ \A op \in DOMAIN AclOps : MetadataOps[op] = AclOps[op]
      /\ \A op \in DOMAIN InfoOps : MetadataOps[op] = InfoOps[op]
  <2> DEFINE T1 == DeleteMetaOps ++ MetaOps
             T2 == T1 ++ AclOps
             T3 == T2 ++ InfoOps
  <2>1. Joins(T1, DeleteMetaOps, MetaOps)
    BY Join DEF T1
  <2>2. Joins(T2, T1, AclOps)
    BY Join DEF T2
  <2>3. Joins(T3, T2, InfoOps)
    BY Join DEF T3
  <2>4. MetadataOps = T3
    BY DEF MetadataOps
  <2> HIDE DEF T1, T2, T3
  <2> QED  BY <2>1, <2>2, <2>3, <2>4, TableDomains DEF Joins
<1>3. /\ DOMAIN OtherOps =
           UNION {DOMAIN ServiceOps, DOMAIN ListOps, DOMAIN VersionOps, DOMAIN
              TokenOps}
      /\ \A op \in DOMAIN ServiceOps : OtherOps[op] = ServiceOps[op]
      /\ \A op \in DOMAIN ListOps : OtherOps[op] = ListOps[op]
      /\ \A op \in DOMAIN VersionOps : OtherOps[op] = VersionOps[op]
      /\ \A op \in DOMAIN TokenOps : OtherOps[op] = TokenOps[op]
  <2> DEFINE T1 == ServiceOps ++ ListOps
             T2 == T1 ++ VersionOps
             T3 == T2 ++ TokenOps
  <2>1. Joins(T1, ServiceOps, ListOps)
    BY Join DEF T1
  <2>2. Joins(T2, T1, VersionOps)
    BY Join DEF T2
  <2>3. Joins(T3, T2, TokenOps)
    BY Join DEF T3
  <2>4. OtherOps = T3
    BY DEF OtherOps
  <2> HIDE DEF T1, T2, T3
  <2> QED  BY <2>1, <2>2, <2>3, <2>4, TableDomains DEF Joins
<1> DEFINE T == ObjectOps ++ MetadataOps
<1>4. Joins(T, ObjectOps, MetadataOps)
  BY Join DEF T
<1>5. Joins(Operation, T, OtherOps)
  BY Join DEF Operation, T
<1> HIDE DEF T
<1> QED  BY <1>1, <1>2, <1>3, <1>4, <1>5, TableDomains DEF Joins

(* The filters that operations bring with them.                            *)
OpFilters ==
  {"parse_service_info_response", "parse_create_response",
   "set_write_headers", "set_read_object_headers",
   "parse_read_object_response", "set_get_user_meta_headers",
   "parse_get_user_meta_response", "get_system_metadata",
   "parse_get_acl_response", "update_object", "parse_get_info_response",
   "list_directory", "set_pagination_headers", "get_listable_tags",
   "list_objects", "parse_create_version_response", "list_versions",
   "create_access_token", "parse_list_access_tokens_response",
   "parse_get_token_info_response"}

Includes == {"x-emc-include-meta", "x-emc-user-tags", "x-emc-system-tags"}

(* The headers of a write that its caller decides on.                      *)
WriteNames ==
  {"x-emc-meta", "x-emc-listable-meta", "x-emc-utf8", "x-emc-useracl",
   "x-emc-groupacl"}

(* The headers that a filter may add to a request with or without a body.  *)
Adds(filter, body, name) ==
  \/ filter = "add_date" /\ name = "Date"
  \/ filter = "add_uid" /\ name = "x-emc-uid"
  \/ /\ filter = "set_content_headers"
     /\ body
     /\ name \in {"Content-Type", "Content-Length"}
  \/ filter = "sign_request" /\ name = "x-emc-signature"
  \/ /\ filter \in {"set_write_headers", "create_access_token"}
     /\ name \in WriteNames \/ (~body /\ name = "Content-Type")
  \/ filter = "set_write_headers" /\ name \in ChecksumHeaders
  \/ /\ filter = "create_access_token"
     /\ name \in {"x-emc-objectid", "x-emc-path"}
  \/ /\ filter \in {"update_object", "set_read_object_headers"}
     /\ name = "Range"
  \/ /\ filter \in {"set_read_object_headers", "set_get_user_meta_headers",
                   "get_system_metadata", "list_directory",
                   "get_listable_tags", "list_objects"}
     /\ name = "x-emc-utf8"
  \/ /\ filter \in {"set_get_user_meta_headers", "get_system_metadata",
                   "get_listable_tags", "list_objects"}
     /\ name = "x-emc-tags"
  \/ /\ filter = "set_pagination_headers"
     /\ name \in {"x-emc-token", "x-emc-limit"}
  \/ filter \in {"list_directory", "list_objects"} /\ name \in Includes
  \/ filter = "parse_create_version_response" /\ name = "Content-Type"

(* The fields of the response, other than the error, that a filter writes. *)
Writes(filter, field) ==
  \/ filter = "parse_service_info_response" /\ field = "version"
  \/ filter = "parse_create_response" /\ field = "object_id"
  \/ /\ filter = "parse_read_object_response"
     /\ field \in {"system_metadata", "meta", "acl"}
  \/ filter = "parse_get_user_meta_response" /\ field = "meta"
  \/ filter = "get_system_metadata" /\ field = "system_metadata"
  \/ filter = "parse_get_acl_response" /\ field = "acl"
  \/ filter = "parse_get_info_response" /\ field = "object_info"
  \/ filter = "list_directory" /\ field \in {"entries", "token"}
  \/ filter = "get_listable_tags" /\ field \in {"tags", "token"}
  \/ filter = "list_objects" /\ field \in {"results", "token"}
  \/ filter = "parse_create_version_response" /\ field = "version_id"
  \/ filter = "list_versions" /\ field \in {"versions", "token"}
  \/ filter = "create_access_token" /\ field = "token_id"
  \/ /\ filter = "parse_list_access_tokens_response"
     /\ field \in {"token_list", "token"}
  \/ filter = "parse_get_token_info_response" /\ field = "token_info"

(* The lists of filters and of headers in the table.                       *)
FilterLists ==
  {<< >>, <<"parse_service_info_response">>,
   <<"parse_create_response", "set_write_headers">>,
   <<"set_read_object_headers", "parse_read_object_response">>,
   <<"set_get_user_meta_headers", "parse_get_user_meta_response">>,
   <<"set_write_headers">>, <<"get_system_metadata">>,
   <<"parse_get_acl_response">>, <<"set_write_headers", "update_object">>,
   <<"parse_get_info_response">>,
   <<"parse_read_object_response", "list_directory",
     "set_pagination_headers">>,
   <<"set_pagination_headers", "get_listable_tags">>,
   <<"list_objects", "set_pagination_headers">>,
   <<"parse_create_version_response">>,
   <<"list_versions", "set_pagination_headers">>,
   <<"create_access_token">>,
   <<"set_pagination_headers", "parse_list_access_tokens_response">>,
   <<"parse_get_token_info_response">>}

HeaderLists ==
  {<< >>, <<"x-emc-pool">>, <<"x-emc-utf8", "x-emc-tags", "x-emc-pool">>,
   <<"Content-Type">>, <<"x-emc-useracl", "x-emc-groupacl", "x-emc-pool">>,
   <<"x-emc-path", "Content-Type">>, <<"x-emc-force">>,
   <<"x-emc-version-oid">>}

OwnNames ==
  {"x-emc-path", "Content-Type", "x-emc-force", "x-emc-version-oid",
   "x-emc-pool", "x-emc-utf8", "x-emc-tags", "x-emc-useracl",
   "x-emc-groupacl"}

(* Filters that see to the content type of a request without a body.       *)
TypeSetters ==
  {"set_write_headers", "create_access_token",
   "parse_create_version_response"}

(* Operations whose request may have a body.                               *)
BodyOps ==
  {"create_object", "update_object", "create_access_token",
   "restore_version"}

(* What the proofs know of a row of the table: its lists are among the     *)
(* above.                                                                  *)
Lists(row) ==
  /\ row.filters \in FilterLists
  /\ row.always \in HeaderLists
  /\ row.given \in HeaderLists
  /\ row.given # <<"x-emc-path", "Content-Type">>
  /\ row.given # <<"Content-Type">>

(* What the operation adds itself, none of its filters adds, and it adds   *)
(* it once.                                                                *)
OwnOnce(row) ==
  /\ \A i \in 1 .. Len(row.always), j \in 1 .. Len(row.given) :
       row.always[i] # row.given[j]
  /\ \A k \in 1 .. Len(row.filters), body \in BOOLEAN :
       /\ \A i \in 1 .. Len(row.always) :
            ~Adds(row.filters[k], body, row.always[i])
       /\ \A j \in 1 .. Len(row.given) :
            ~Adds(row.filters[k], body, row.given[j])

(* A POST or a PUT gets its content type somewhere.                        *)
Typed(op, row) ==
  row.method \in {"POST", "PUT"} =>
    \/ \E i \in 1 .. Len(row.always) : row.always[i] = "Content-Type"
    \/ op = "restore_version"
    \/ \E k \in 1 .. Len(row.filters) : row.filters[k] \in TypeSetters

(* Who sees to the content type of an operation with a body:               *)
(* set_content_headers and nobody else, if there is one.                   *)
Bodies(op, row) ==
  /\ "body" \in row.options => op \in BodyOps
  /\ op \in BodyOps =>
       /\ \A k \in 1 .. Len(row.filters) :
            row.filters[k] # "parse_create_version_response"
       /\ \A i \in 1 .. Len(row.always) : row.always[i] # "Content-Type"

(* The response has room for what the filters write.                       *)
Fits(op, row) ==
  /\ op # "set_acl" =>
       \A k \in 1 .. Len(row.filters), field \in FieldNames :
         Writes(row.filters[k], field) => field \in row.fields
  /\ row.plain => row.method \in {"DELETE", "PUT", "HEAD"}
  /\ op \in Reusable => row.always = << >>

Row(op, row) ==
  /\ Lists(row)
  /\ OwnOnce(row)
  /\ Typed(op, row)
  /\ Bodies(op, row)
  /\ Fits(op, row)

(* The rows of the table, group by group.                                  *)
LEMMA ServiceRows == \A op \in DOMAIN ServiceOps : Row(op, ServiceOps[op])
<1> SUFFICES ASSUME NEW op \in DOMAIN ServiceOps PROVE Row(op, ServiceOps[op])
  OBVIOUS
<1> USE TableDomains DEF ServiceOps, Op
<1>1. Lists(ServiceOps[op])
  BY DEF Lists, FilterLists, HeaderLists
<1>2. OwnOnce(ServiceOps[op])
  BY DEF OwnOnce, Adds, Includes, WriteNames, ChecksumHeaders
<1>3. Typed(op, ServiceOps[op]) /\ Bodies(op, ServiceOps[op])
  BY DEF Typed, TypeSetters, Bodies, BodyOps, WriteOptions, ListOptions
<1>4. Fits(op, ServiceOps[op])
  BY DEF Fits, Writes, FieldNames, Reusable
<1> QED  BY <1>1, <1>2, <1>3, <1>4 DEF Row

LEMMA CreateRows == \A op \in DOMAIN CreateOps : Row(op, CreateOps[op])
<1> SUFFICES ASSUME NEW op \in DOMAIN CreateOps PROVE Row(op, CreateOps[op])
  OBVIOUS
<1> USE TableDomains DEF CreateOps, Op
<1>1. Lists(CreateOps[op])
  BY DEF Lists, FilterLists, HeaderLists
<1>2. OwnOnce(CreateOps[op])
  BY DEF OwnOnce, Adds, Includes, WriteNames, ChecksumHeaders
<1>3. Typed(op, CreateOps[op]) /\ Bodies(op, CreateOps[op])
  BY DEF Typed, TypeSetters, Bodies, BodyOps, WriteOptions, ListOptions
<1>4. Fits(op, CreateOps[op])
  BY DEF Fits, Writes, FieldNames, Reusable
<1> QED  BY <1>1, <1>2, <1>3, <1>4 DEF Row

LEMMA DeleteRows == \A op \in DOMAIN DeleteOps : Row(op, DeleteOps[op])
<1> SUFFICES ASSUME NEW op \in DOMAIN DeleteOps PROVE Row(op, DeleteOps[op])
  OBVIOUS
<1> USE TableDomains DEF DeleteOps, Op
<1>1. Lists(DeleteOps[op])
  BY DEF Lists, FilterLists, HeaderLists
<1>2. OwnOnce(DeleteOps[op])
  BY DEF OwnOnce, Adds, Includes, WriteNames, ChecksumHeaders
<1>3. Typed(op, DeleteOps[op]) /\ Bodies(op, DeleteOps[op])
  BY DEF Typed, TypeSetters, Bodies, BodyOps, WriteOptions, ListOptions
<1>4. Fits(op, DeleteOps[op])
  BY DEF Fits, Writes, FieldNames, Reusable
<1> QED  BY <1>1, <1>2, <1>3, <1>4 DEF Row

LEMMA ReadRows == \A op \in DOMAIN ReadOps : Row(op, ReadOps[op])
<1> SUFFICES ASSUME NEW op \in DOMAIN ReadOps PROVE Row(op, ReadOps[op])
  OBVIOUS
<1> USE TableDomains DEF ReadOps, Op
<1>1. Lists(ReadOps[op])
  BY DEF Lists, FilterLists, HeaderLists
<1>2. OwnOnce(ReadOps[op])
  BY DEF OwnOnce, Adds, Includes, WriteNames, ChecksumHeaders
<1>3. Typed(op, ReadOps[op]) /\ Bodies(op, ReadOps[op])
  BY DEF Typed, TypeSetters, Bodies, BodyOps, WriteOptions, ListOptions
<1>4. Fits(op, ReadOps[op])
  BY DEF Fits, Writes, FieldNames, Reusable
<1> QED  BY <1>1, <1>2, <1>3, <1>4 DEF Row

LEMMA DeleteMetaRows ==
  \A op \in DOMAIN DeleteMetaOps : Row(op, DeleteMetaOps[op])
<1> SUFFICES ASSUME NEW op \in DOMAIN DeleteMetaOps
             PROVE  Row(op, DeleteMetaOps[op])
  OBVIOUS
<1> USE TableDomains DEF DeleteMetaOps, Op
<1>1. Lists(DeleteMetaOps[op])
  BY DEF Lists, FilterLists, HeaderLists
<1>2. OwnOnce(DeleteMetaOps[op])
  BY DEF OwnOnce, Adds, Includes, WriteNames, ChecksumHeaders
<1>3. Typed(op, DeleteMetaOps[op]) /\ Bodies(op, DeleteMetaOps[op])
  BY DEF Typed, TypeSetters, Bodies, BodyOps, WriteOptions, ListOptions
<1>4. Fits(op, DeleteMetaOps[op])
  BY DEF Fits, Writes, FieldNames, Reusable
<1> QED  BY <1>1, <1>2, <1>3, <1>4 DEF Row

LEMMA MetaRows == \A op \in DOMAIN MetaOps : Row(op, MetaOps[op])
<1> SUFFICES ASSUME NEW op \in DOMAIN MetaOps PROVE Row(op, MetaOps[op])
  OBVIOUS
<1> USE TableDomains DEF MetaOps, Op
<1>1. Lists(MetaOps[op])
  BY DEF Lists, FilterLists, HeaderLists
<1>2. OwnOnce(MetaOps[op])
  BY DEF OwnOnce, Adds, Includes, WriteNames, ChecksumHeaders
<1>3. Typed(op, MetaOps[op]) /\ Bodies(op, MetaOps[op])
  BY DEF Typed, TypeSetters, Bodies, BodyOps, WriteOptions, ListOptions
<1>4. Fits(op, MetaOps[op])
  BY DEF Fits, Writes, FieldNames, Reusable
<1> QED  BY <1>1, <1>2, <1>3, <1>4 DEF Row

LEMMA AclRows == \A op \in DOMAIN AclOps : Row(op, AclOps[op])
<1> SUFFICES ASSUME NEW op \in DOMAIN AclOps PROVE Row(op, AclOps[op])
  OBVIOUS
<1> USE TableDomains DEF AclOps, Op
<1>1. Lists(AclOps[op])
  BY DEF Lists, FilterLists, HeaderLists
<1>2. OwnOnce(AclOps[op])
  BY DEF OwnOnce, Adds, Includes, WriteNames, ChecksumHeaders
<1>3. Typed(op, AclOps[op]) /\ Bodies(op, AclOps[op])
  BY DEF Typed, TypeSetters, Bodies, BodyOps, WriteOptions, ListOptions
<1>4. Fits(op, AclOps[op])
  BY DEF Fits, Writes, FieldNames, Reusable
<1> QED  BY <1>1, <1>2, <1>3, <1>4 DEF Row

LEMMA UpdateRows == \A op \in DOMAIN UpdateOps : Row(op, UpdateOps[op])
<1> SUFFICES ASSUME NEW op \in DOMAIN UpdateOps PROVE Row(op, UpdateOps[op])
  OBVIOUS
<1> USE TableDomains DEF UpdateOps, Op
<1>1. Lists(UpdateOps[op])
  BY DEF Lists, FilterLists, HeaderLists
<1>2. OwnOnce(UpdateOps[op])
  BY DEF OwnOnce, Adds, Includes, WriteNames, ChecksumHeaders
<1>3. Typed(op, UpdateOps[op]) /\ Bodies(op, UpdateOps[op])
  BY DEF Typed, TypeSetters, Bodies, BodyOps, WriteOptions, ListOptions
<1>4. Fits(op, UpdateOps[op])
  BY DEF Fits, Writes, FieldNames, Reusable
<1> QED  BY <1>1, <1>2, <1>3, <1>4 DEF Row

LEMMA InfoRows == \A op \in DOMAIN InfoOps : Row(op, InfoOps[op])
<1> SUFFICES ASSUME NEW op \in DOMAIN InfoOps PROVE Row(op, InfoOps[op])
  OBVIOUS
<1> USE TableDomains DEF InfoOps, Op
<1>1. Lists(InfoOps[op])
  BY DEF Lists, FilterLists, HeaderLists
<1>2. OwnOnce(InfoOps[op])
  BY DEF OwnOnce, Adds, Includes, WriteNames, ChecksumHeaders
<1>3. Typed(op, InfoOps[op]) /\ Bodies(op, InfoOps[op])
  BY DEF Typed, TypeSetters, Bodies, BodyOps, WriteOptions, ListOptions
<1>4. Fits(op, InfoOps[op])
  BY DEF Fits, Writes, FieldNames, Reusable
<1> QED  BY <1>1, <1>2, <1>3, <1>4 DEF Row

LEMMA ListRows == \A op \in DOMAIN ListOps : Row(op, ListOps[op])
<1> SUFFICES ASSUME NEW op \in DOMAIN ListOps PROVE Row(op, ListOps[op])
  OBVIOUS
<1> USE TableDomains DEF ListOps, Op
<1>1. Lists(ListOps[op])
  <2> USE DEF Lists, FilterLists, HeaderLists
  <2>1. CASE op = "list_directory"
    BY <2>1
  <2>2. CASE op = "get_listable_tags"
    BY <2>2
  <2>3. CASE op = "list_objects"
    BY <2>3
  <2> QED  BY <2>1, <2>2, <2>3
<1>2. OwnOnce(ListOps[op])
  BY DEF OwnOnce, Adds, Includes, WriteNames, ChecksumHeaders
<1>3. Typed(op, ListOps[op]) /\ Bodies(op, ListOps[op])
  BY DEF Typed, TypeSetters, Bodies, BodyOps, WriteOptions, ListOptions
<1>4. Fits(op, ListOps[op])
  <2> USE DEF Fits, Writes, FieldNames, Reusable
  <2>1. CASE op = "list_directory"
    BY <2>1
  <2>2. CASE op = "get_listable_tags"
    BY <2>2
  <2>3. CASE op = "list_objects"
    BY <2>3
  <2> QED  BY <2>1, <2>2, <2>3
<1> QED  BY <1>1, <1>2, <1>3, <1>4 DEF Row

LEMMA VersionRows == \A op \in DOMAIN VersionOps : Row(op, VersionOps[op])
<1> SUFFICES ASSUME NEW op \in DOMAIN VersionOps PROVE Row(op, VersionOps[op])
  OBVIOUS
<1> USE TableDomains DEF VersionOps, Op
<1>1. Lists(VersionOps[op])
  BY DEF Lists, FilterLists, HeaderLists
<1>2. OwnOnce(VersionOps[op])
  BY DEF OwnOnce, Adds, Includes, WriteNames, ChecksumHeaders
<1>3. Typed(op, VersionOps[op]) /\ Bodies(op, VersionOps[op])
  BY DEF Typed, TypeSetters, Bodies, BodyOps, WriteOptions, ListOptions
<1>4. Fits(op, VersionOps[op])
  BY DEF Fits, Writes, FieldNames, Reusable
<1> QED  BY <1>1, <1>2, <1>3, <1>4 DEF Row

LEMMA TokenRows == \A op \in DOMAIN TokenOps : Row(op, TokenOps[op])
<1> SUFFICES ASSUME NEW op \in DOMAIN TokenOps PROVE Row(op, TokenOps[op])
  OBVIOUS
<1> USE TableDomains DEF TokenOps, Op
<1>1. Lists(TokenOps[op])
  BY DEF Lists, FilterLists, HeaderLists
<1>2. OwnOnce(TokenOps[op])
  BY DEF OwnOnce, Adds, Includes, WriteNames, ChecksumHeaders
<1>3. Typed(op, TokenOps[op]) /\ Bodies(op, TokenOps[op])
  BY DEF Typed, TypeSetters, Bodies, BodyOps, WriteOptions, ListOptions
<1>4. Fits(op, TokenOps[op])
  BY DEF Fits, Writes, FieldNames, Reusable
<1> QED  BY <1>1, <1>2, <1>3, <1>4 DEF Row

(* Every row of the table is of the kind the proofs rely on.               *)
LEMMA Rows == \A op \in DOMAIN Operation : Row(op, Operation[op])
BY Table, ServiceRows, CreateRows, DeleteRows, ReadRows, DeleteMetaRows,
   MetaRows, AclRows, UpdateRows, InfoRows, ListRows, VersionRows, TokenRows

(* No two filters of an operation add the same header.                     *)
NoClash(list) ==
  \A i, j \in 1 .. Len(list), body \in BOOLEAN, name \in HeaderNames :
    /\ Adds(list[i], body, name)
    /\ Adds(list[j], body, name)
    => i = j

(* Lists of up to three filters.                                           *)
LEMMA ShortSeq ==
  ASSUME NEW S, NEW list,
         \/ list = << >>
         \/ \E f \in S : list = <<f>>
         \/ \E f, g \in S : list = <<f, g>>
         \/ \E f, g, h \in S : list = <<f, g, h>>
  PROVE  list \in Seq(S) /\ Len(list) \in 0 .. 3
<1>1. CASE list = << >>
  BY <1>1
<1>2. CASE \E f \in S : list = <<f>>
  BY <1>2
<1>3. CASE \E f, g \in S : list = <<f, g>>
  BY <1>3
<1>4. CASE \E f, g, h \in S : list = <<f, g, h>>
  BY <1>4
<1> QED  BY <1>1, <1>2, <1>3, <1>4

(* The lists of filters that operations have.                              *)
LEMMA FilterListType ==
  ASSUME NEW list \in FilterLists
  PROVE  list \in Seq(OpFilters) /\ Len(list) \in 0 .. 3
<1>1. CASE list = << >>
  BY <1>1, ShortSeq
<1>2. CASE list \in {<<"parse_service_info_response">>,
                    <<"set_write_headers">>, <<"get_system_metadata">>,
                    <<"parse_get_acl_response">>,
                    <<"parse_get_info_response">>,
                    <<"parse_create_version_response">>,
                    <<"create_access_token">>,
                    <<"parse_get_token_info_response">>}
  <2>1. \E f \in OpFilters : list = <<f>>
    BY <1>2 DEF OpFilters
  <2> QED  BY <2>1, ShortSeq
<1>3. CASE list \in
        {<<"parse_create_response", "set_write_headers">>,
         <<"set_read_object_headers", "parse_read_object_response">>,
         <<"set_get_user_meta_headers", "parse_get_user_meta_response">>,
         <<"set_write_headers", "update_object">>}
  <2>1. \E f, g \in OpFilters : list = <<f, g>>
    BY <1>3 DEF OpFilters
  <2> QED  BY <2>1, ShortSeq
<1>4. CASE list \in
        {<<"set_pagination_headers", "get_listable_tags">>,
         <<"list_objects", "set_pagination_headers">>,
         <<"list_versions", "set_pagination_headers">>,
         <<"set_pagination_headers", "parse_list_access_tokens_response">>}
  <2>1. \E f, g \in OpFilters : list = <<f, g>>
    BY <1>4 DEF OpFilters
  <2> QED  BY <2>1, ShortSeq
<1>5. CASE list = <<"parse_read_object_response", "list_directory",
                    "set_pagination_headers">>
  <2>1. \E f, g, h \in OpFilters : list = <<f, g, h>>
    BY <1>5 DEF OpFilters
  <2> QED  BY <2>1, ShortSeq
<1> QED  BY <1>1, <1>2, <1>3, <1>4, <1>5 DEF FilterLists

LEMMA FilterListClash ==
  ASSUME NEW list \in FilterLists
  PROVE  NoClash(list)
<1> USE DEF NoClash, Adds, Includes, WriteNames, ChecksumHeaders
<1>1. CASE Len(list) \in 0 .. 1
  BY <1>1
<1>2. CASE list \in {<<"parse_create_response", "set_write_headers">>,
                     <<"set_read_object_headers",
                       "parse_read_object_response">>,
                     <<"set_get_user_meta_headers",
                       "parse_get_user_meta_response">>}
  BY <1>2
<1>3. CASE list = <<"set_write_headers", "update_object">>
  BY <1>3
<1>4. CASE list = <<"parse_read_object_response", "list_directory",
                    "set_pagination_headers">>
  BY <1>4
<1>5. CASE list = <<"set_pagination_headers", "get_listable_tags">>
  BY <1>5
<1>6. CASE list = <<"list_objects", "set_pagination_headers">>
  BY <1>6
<1>7. CASE list = <<"list_versions", "set_pagination_headers">>
  BY <1>7
<1>8. CASE list = <<"set_pagination_headers",
                    "parse_list_access_tokens_response">>
  BY <1>8
<1> HIDE DEF NoClash
<1> QED  BY <1>1, <1>2, <1>3, <1>4, <1>5, <1>6, <1>7, <1>8 DEF FilterLists

(* The lists of headers that operations add themselves name none twice.    *)
LEMMA HeaderListFacts ==
  ASSUME NEW list \in HeaderLists
  PROVE  /\ list \in Seq(OwnNames)
         /\ \A i, j \in 1 .. Len(list) : list[i] = list[j] => i = j
<1>1. \/ list = << >>
      \/ \E f \in OwnNames : list = <<f>>
      \/ \E f, g \in OwnNames : list = <<f, g>>
      \/ \E f, g, h \in OwnNames : list = <<f, g, h>>
  BY DEF HeaderLists, OwnNames
<1>2. \A i, j \in 1 .. Len(list) : list[i] = list[j] => i = j
  BY DEF HeaderLists
<1> QED  BY <1>1, <1>2, ShortSeq

-----------------------------------------------------------------------------
(* The chain: the filters of the operation, last added first, and those    *)
(* that every call has.                                                    *)

LEMMA ChainShape ==
  ASSUME NEW op \in DOMAIN Operation
  PROVE  LET list == Operation[op].filters
             k == Len(list)
             chain == Chain(op)
         IN /\ k \in 0 .. 3
            /\ Len(chain) = k + 6
            /\ \A i \in 1 .. k : chain[i] = list[k + 1 - i]
            /\ \A i \in 1 .. k : chain[i] \in OpFilters
            /\ chain[k + 1] = "parse_atmos_error"
            /\ chain[k + 2] = "add_date"
            /\ chain[k + 3] = "add_uid"
            /\ chain[k + 4] = "set_content_headers"
            /\ chain[k + 5] = "sign_request"
            /\ chain[k + 6] = "execute_curl_request"
<1> DEFINE list == Operation[op].filters
           k == Len(list)
           all == DefaultFilters \o list
           All == OpFilters \cup {"execute_curl_request", "sign_request",
                    "set_content_headers", "add_uid", "add_date",
                    "parse_atmos_error"}
<1>1. list \in FilterLists
  BY Rows DEF Row, Lists
<1>2. list \in Seq(OpFilters) /\ k \in 0 .. 3
  BY <1>1, FilterListType
<1>3. /\ DefaultFilters \in Seq(All) /\ Len(DefaultFilters) = 6
      /\ DefaultFilters[1] = "execute_curl_request"
      /\ DefaultFilters[2] = "sign_request"
      /\ DefaultFilters[3] = "set_content_headers"
      /\ DefaultFilters[4] = "add_uid"
      /\ DefaultFilters[5] = "add_date"
      /\ DefaultFilters[6] = "parse_atmos_error"
  BY DEF DefaultFilters, OpFilters
<1>4. OpFilters \subseteq All
  OBVIOUS
<1>5. list \in Seq(All)
  BY <1>2, <1>4, SeqMonotonic
<1> HIDE DEF list, All
<1>6. /\ Len(all) = 6 + k
      /\ \A i \in 1 .. 6 + k :
           all[i] = IF i <= 6 THEN DefaultFilters[i] ELSE list[i - 6]
  <2>1. /\ Len(all) = Len(DefaultFilters) + Len(list)
        /\ \A i \in 1 .. Len(DefaultFilters) + Len(list) :
             all[i] = IF i <= Len(DefaultFilters) THEN DefaultFilters[i]
                      ELSE list[i - Len(DefaultFilters)]
    BY <1>3, <1>5, ConcatProperties
  <2> QED  BY <1>3, <2>1
<1> HIDE DEF all, k
<1>7. Chain(op) = [i \in 1 .. k + 6 |-> all[k + 7 - i]]
  <2>1. Chain(op) = RunOrder(all)
    BY DEF Chain, all, list
  <2>2. Len(all) = k + 6
    BY <1>2, <1>6
  <2>3. RunOrder(all) = [i \in 1 .. k + 6 |-> all[k + 6 + 1 - i]]
    BY <2>2 DEF RunOrder
  <2>4. \A i \in 1 .. k + 6 : k + 6 + 1 - i = k + 7 - i
    BY <1>2
  <2> QED  BY <2>1, <2>3, <2>4
<1>8. Len(Chain(op)) = k + 6
  BY <1>2, <1>7
<1>9. \A i \in 1 .. k + 6 :
        Chain(op)[i] = IF i > k THEN DefaultFilters[k + 7 - i]
                       ELSE list[k + 1 - i]
  <2>1. SUFFICES ASSUME NEW i \in 1 .. k + 6
                 PROVE  Chain(op)[i] = IF i > k THEN DefaultFilters[k + 7 - i]
                                       ELSE list[k + 1 - i]
    OBVIOUS
  <2>2. Chain(op)[i] = all[k + 7 - i] /\ k + 7 - i \in 1 .. 6 + k
    BY <1>2, <1>7
  <2> QED  BY <1>2, <1>6, <2>2
<1>10. \A i \in 1 .. k : list[k + 1 - i] \in OpFilters
  BY <1>2, ElementOfSeq DEF k
<1>11. /\ k + 1 \in 1 .. k + 6 /\ k + 2 \in 1 .. k + 6 /\ k + 3 \in 1 .. k + 6
       /\ k + 4 \in 1 .. k + 6 /\ k + 5 \in 1 .. k + 6 /\ k + 6 \in 1 .. k + 6
  BY <1>2
<1>12. /\ k + 7 - (k + 1) = 6 /\ k + 7 - (k + 2) = 5 /\ k + 7 - (k + 3) = 4
       /\ k + 7 - (k + 4) = 3 /\ k + 7 - (k + 5) = 2 /\ k + 7 - (k + 6) = 1
  BY <1>2
<1>13. /\ Chain(op)[k + 1] = "parse_atmos_error"
       /\ Chain(op)[k + 2] = "add_date"
       /\ Chain(op)[k + 3] = "add_uid"
       /\ Chain(op)[k + 4] = "set_content_headers"
       /\ Chain(op)[k + 5] = "sign_request"
       /\ Chain(op)[k + 6] = "execute_curl_request"
  BY <1>2, <1>3, <1>9, <1>11, <1>12
<1>14. \A i \in 1 .. k : Chain(op)[i] = list[k + 1 - i]
  BY <1>2, <1>9
<1> QED  BY <1>2, <1>8, <1>10, <1>13, <1>14 DEF k, list

(* Where in the chain a filter is.                                         *)
LEMMA ChainPlaces ==
  ASSUME NEW op \in DOMAIN Operation, NEW i \in 1 .. Len(Chain(op))
  PROVE  LET n == Len(Chain(op))
             f == Chain(op)[i]
         IN /\ n \in 6 .. 9
            /\ f = "execute_curl_request" <=> i = n
            /\ f = "sign_request" <=> i = n - 1
            /\ f = "set_content_headers" <=> i = n - 2
            /\ f = "add_uid" <=> i = n - 3
            /\ f = "add_date" <=> i = n - 4
            /\ f = "parse_atmos_error" <=> i = n - 5
            /\ i <= n - 6 => f \in OpFilters
<1> DEFINE k == Len(Operation[op].filters)
<1>1. /\ k \in 0 .. 3 /\ Len(Chain(op)) = k + 6
      /\ \A j \in 1 .. k : Chain(op)[j] \in OpFilters
      /\ Chain(op)[k + 1] = "parse_atmos_error"
      /\ Chain(op)[k + 2] = "add_date"
      /\ Chain(op)[k + 3] = "add_uid"
      /\ Chain(op)[k + 4] = "set_content_headers"
      /\ Chain(op)[k + 5] = "sign_request"
      /\ Chain(op)[k + 6] = "execute_curl_request"
  BY ChainShape
<1> HIDE DEF k
<1>2. \/ i \in 1 .. k \/ i = k + 1 \/ i = k + 2 \/ i = k + 3 \/ i = k + 4
      \/ i = k + 5 \/ i = k + 6
  BY <1>1
<1> QED  BY <1>1, <1>2 DEF OpFilters

(* What the filters that every call has add.                               *)
LEMMA DefaultAdds ==
  ASSUME NEW filter \in {"execute_curl_request", "sign_request",
                         "set_content_headers", "add_uid", "add_date",
                         "parse_atmos_error"},
         NEW body \in BOOLEAN, NEW name, Adds(filter, body, name)
  PROVE  \/ filter = "add_date" /\ name = "Date"
         \/ filter = "add_uid" /\ name = "x-emc-uid"
         \/ /\ filter = "set_content_headers"
            /\ body
            /\ name \in {"Content-Type", "Content-Length"}
         \/ filter = "sign_request" /\ name = "x-emc-signature"
BY DEF Adds

(* What the filters of the operations do not add.                          *)
LEMMA OpAdds ==
  ASSUME NEW filter \in OpFilters, NEW body \in BOOLEAN, NEW name,
         Adds(filter, body, name)
  PROVE  /\ name \notin {"Date", "x-emc-uid", "x-emc-signature",
                         "Content-Length"}
         /\ name = "Content-Type" =>
              ~body \/ filter = "parse_create_version_response"
BY DEF Adds, OpFilters, WriteNames, Includes, ChecksumHeaders

(* Whatever the operation, one filter of its chain adds a header at most.  *)
LEMMA AddsOnce ==
  ASSUME NEW op \in DOMAIN Operation, NEW body \in BOOLEAN,
         body => op \in BodyOps,
         NEW i \in 1 .. Len(Chain(op)), NEW j \in 1 .. Len(Chain(op)),
         NEW name \in HeaderNames,
         Adds(Chain(op)[i], body, name), Adds(Chain(op)[j], body, name)
  PROVE  i = j
<1> DEFINE list == Operation[op].filters
           k == Len(list)
           c == Chain(op)
           Default == {"execute_curl_request", "sign_request",
                       "set_content_headers", "add_uid", "add_date",
                       "parse_atmos_error"}
<1>1. /\ list \in FilterLists
      /\ op \in BodyOps => \A q \in 1 .. k :
                             list[q] # "parse_create_version_response"
  BY Rows DEF Row, Lists, Bodies
<1>2. /\ k \in 0 .. 3 /\ Len(c) = k + 6
      /\ \A q \in 1 .. k : c[q] = list[k + 1 - q] /\ c[q] \in OpFilters
  BY ChainShape
<1>3. \A q \in 1 .. Len(c) : q <= k \/ c[q] \in Default
  BY ChainPlaces, <1>2
<1>4. CASE i <= k /\ j <= k
  <2>1. NoClash(list)
    BY <1>1, FilterListClash
  <2>2. k + 1 - i \in 1 .. Len(list) /\ k + 1 - j \in 1 .. Len(list)
    BY <1>2, <1>4
  <2>3. Adds(list[k + 1 - i], body, name) /\ Adds(list[k + 1 - j], body, name)
    BY <1>2, <1>4
  <2>4. k + 1 - i = k + 1 - j
    BY <2>1, <2>2, <2>3 DEF NoClash
  <2> QED  BY <1>2, <2>4
<1>5. ASSUME NEW a \in 1 .. Len(c), NEW b \in 1 .. Len(c), a <= k, ~(b <= k),
             Adds(c[a], body, name), Adds(c[b], body, name)
      PROVE  FALSE
  <2>1. c[a] \in OpFilters /\ c[b] \in Default
    BY <1>2, <1>3, <1>5
  <2>2. /\ name \notin {"Date", "x-emc-uid", "x-emc-signature",
                        "Content-Length"}
        /\ name = "Content-Type" =>
             ~body \/ c[a] = "parse_create_version_response"
    BY <1>5, <2>1, OpAdds
  <2>3. name = "Content-Type" /\ body
    BY <1>5, <2>1, <2>2, DefaultAdds
  <2>4. k + 1 - a \in 1 .. k /\ c[a] = list[k + 1 - a]
    BY <1>2, <1>5
  <2> QED  BY <1>1, <2>2, <2>3, <2>4
<1>6. CASE ~(i <= k) /\ ~(j <= k)
  <2>1. c[i] \in Default /\ c[j] \in Default
    BY <1>3, <1>6
  <2> HIDE DEF c
  <2>2. c[i] = c[j] /\ c[i] \in {"add_date", "add_uid", "set_content_headers",
                                 "sign_request"}
    BY <2>1, DefaultAdds DEF c
  <2> QED  BY <2>2, ChainPlaces DEF c
<1> QED
  <2>1. i \in 1 .. Len(c) /\ j \in 1 .. Len(c)
    OBVIOUS
  <2> QED  BY <1>4, <1>5, <1>6, <2>1

(* What the operation adds before the chain runs, no filter adds.          *)
LEMMA OwnNotAdded ==
  ASSUME NEW op \in DOMAIN Operation, NEW body \in BOOLEAN,
         body => op \in BodyOps, NEW i \in 1 .. Len(Chain(op)), NEW name,
         \/ \E j \in 1 .. Len(Operation[op].always) :
              name = Operation[op].always[j]
         \/ \E j \in 1 .. Len(Operation[op].given) :
              name = Operation[op].given[j]
  PROVE  ~Adds(Chain(op)[i], body, name)
<1> DEFINE row == Operation[op]
           k == Len(row.filters)
           c == Chain(op)
           Default == {"execute_curl_request", "sign_request",
                       "set_content_headers", "add_uid", "add_date",
                       "parse_atmos_error"}
<1>1. /\ OwnOnce(row) /\ Bodies(op, row)
      /\ row.always \in HeaderLists
      /\ row.given \in HeaderLists
      /\ row.given # <<"x-emc-path", "Content-Type">>
      /\ row.given # <<"Content-Type">>
  BY Rows DEF Row, Lists
<1>2. /\ k \in 0 .. 3 /\ Len(c) = k + 6
      /\ \A q \in 1 .. k : c[q] = row.filters[k + 1 - q] /\ c[q] \in OpFilters
  BY ChainShape
<1>3. \A q \in 1 .. Len(c) : q <= k \/ c[q] \in Default
  BY ChainPlaces, <1>2
<1>4. CASE i <= k
  <2>1. k + 1 - i \in 1 .. k /\ c[i] = row.filters[k + 1 - i]
    BY <1>2, <1>4
  <2> QED  BY <1>1, <2>1 DEF OwnOnce
<1>5. CASE ~(i <= k)
  <2>1. SUFFICES ASSUME Adds(c[i], body, name) PROVE FALSE
    OBVIOUS
  <2>2. name \in {"Date", "x-emc-uid", "x-emc-signature", "Content-Length"}
          \/ (name = "Content-Type" /\ body)
    BY <1>3, <1>5, <2>1, DefaultAdds
  <2>3. name \in OwnNames
    <3>1. row.always \in Seq(OwnNames) /\ row.given \in Seq(OwnNames)
      BY <1>1, HeaderListFacts
    <3> QED  BY <3>1, ElementOfSeq
  <2>4. name = "Content-Type" /\ body
    BY <2>2, <2>3 DEF OwnNames
  <2>5. \A j \in 1 .. Len(row.given) : row.given[j] # "Content-Type"
    BY <1>1 DEF HeaderLists
  <2> QED  BY <1>1, <2>4, <2>5 DEF Bodies
<1> QED  BY <1>4, <1>5

(* A request with a body, and every POST and PUT, gets a content type.     *)
LEMMA TypeAdded ==
  ASSUME NEW op \in DOMAIN Operation, NEW body \in BOOLEAN,
         op = "restore_version" => body,
         Operation[op].method \in {"POST", "PUT"}
  PROVE  \/ \E j \in 1 .. Len(Operation[op].always) :
              Operation[op].always[j] = "Content-Type"
         \/ \E i \in 1 .. Len(Chain(op)) :
              Adds(Chain(op)[i], body, "Content-Type")
<1> DEFINE row == Operation[op]
           k == Len(row.filters)
           c == Chain(op)
<1>1. Typed(op, row)
  BY Rows DEF Row
<1>2. /\ k \in 0 .. 3 /\ Len(c) = k + 6
      /\ \A q \in 1 .. k : c[q] = row.filters[k + 1 - q]
      /\ c[k + 4] = "set_content_headers"
  BY ChainShape
<1>3. CASE body
  <2>1. k + 4 \in 1 .. Len(c) /\ Adds(c[k + 4], body, "Content-Type")
    BY <1>2, <1>3 DEF Adds
  <2> QED  BY <2>1
<1>4. CASE ~body
  <2>1. ASSUME NEW q \in 1 .. k, row.filters[q] \in TypeSetters
        PROVE  \E i \in 1 .. Len(c) : Adds(c[i], body, "Content-Type")
    <3>1. k + 1 - q \in 1 .. k /\ k + 1 - q \in 1 .. Len(c)
          /\ k + 1 - (k + 1 - q) = q
      BY <1>2
    <3>2. c[k + 1 - q] \in TypeSetters
      BY <1>2, <2>1, <3>1
    <3>3. Adds(c[k + 1 - q], body, "Content-Type")
      BY <1>4, <3>2 DEF Adds, TypeSetters
    <3> QED  BY <3>1, <3>3
  <2> QED  BY <1>1, <1>4, <2>1 DEF Typed
<1> QED  BY <1>3, <1>4

-----------------------------------------------------------------------------
(* The invariant of headers.                                               *)

(* Whatever a caller may ask for.                                          *)
AllOptions ==
  HeaderNames \cup UNION {Operation[op].options : op \in DOMAIN Operation}

Requests ==
  [op : Calls \cup {"none"}, options : SUBSET AllOptions, body : BOOLEAN,
   headers : Seq(Headers), runs : 0 .. MaxRuns]

(* Only some operations have bodies, and restore_version always has one.   *)
RequestType ==
  /\ request \in Requests
  /\ IF pc = "idle"
       THEN /\ request.op = "none"
            /\ ~request.body
            /\ request.headers = << >>
            /\ request.runs = 0
       ELSE /\ request.op \in Calls
            /\ request.body => request.op \in BodyOps
            /\ request.op = "restore_version" => request.body
            /\ request.runs >= 1

(* It is always some filter's turn, and the last one's to send.            *)
DepthInv ==
  /\ pc \in {"request", "server", "response", "crashed"} =>
       depth \in 1 .. Len(Chain(request.op))
  /\ pc = "server" => depth = Len(Chain(request.op))

(* A filter that adds this header is still to have its turn.               *)
Ahead(name) ==
  /\ pc = "request"
  /\ \E i \in depth .. Len(Chain(request.op)) :
       Adds(Chain(request.op)[i], request.body, name)

(* The executions in which the header may have been added.                 *)
Turns(name) == IF Ahead(name) THEN request.runs - 1 ELSE request.runs

(* Those of a checksum are not added when they are there.                  *)
CountInv ==
  \A name \in HeaderNames :
    Count(name, request.headers)
      <= IF name \in ChecksumHeaders THEN 1 ELSE Turns(name)

(* Every turn of sign_request signs one string.                            *)
SignedInv ==
  /\ \E S : signed \in Seq(S)
  /\ Len(signed) <= Turns("x-emc-signature")

(* The content type that curl would make up is there, or will be.          *)
TypeInv ==
  pc = "request" /\ Operation[request.op].method \in {"POST", "PUT"} =>
    Ahead("Content-Type") \/ Has("Content-Type")

(* The one signature among the headers is of the others.                   *)
SignedBy(strings, method, headers) ==
  \E i \in 1 .. Len(headers) :
    LET others == SubSeq(headers, 1, i - 1)
                    \o SubSeq(headers, i + 1, Len(headers))
    IN /\ headers[i].name = "x-emc-signature"
       /\ \A j \in 1 .. Len(others) : others[j].name # "x-emc-signature"
       /\ strings[headers[i].value] = StringToSign(method, others)

Signed(headers) == SignedBy(signed, Operation[request.op].method, headers)

(* From sign_request to the server the signature is of what is there.      *)
SignatureInv ==
  /\ sent \in Seq(Seq(Headers))
  /\ pc = "request" /\ depth = Len(Chain(request.op)) /\ request.runs = 1 =>
       Signed(request.headers)
  /\ pc = "server" /\ request.runs = 1 => Signed(sent[1])

CodeInv == response.http_code \in Codes \cup {0, 400}

HInv ==
  /\ pc \in {"idle", "request", "server", "response", "returned", "crashed"}
  /\ RequestType
  /\ DepthInv
  /\ CountInv
  /\ SignedInv
  /\ TypeInv
  /\ SignatureInv
  /\ CodeInv

-----------------------------------------------------------------------------
(* An empty request is of no operation.                                    *)
LEMMA NoneIsNoCall == "none" \notin Calls /\ Calls \subseteq DOMAIN Operation
<1>1. Calls \subseteq DOMAIN Operation
  BY CallsAssumption DEF CallsAssumption
<1>2. "none" \notin DOMAIN Operation
  BY Table, TableDomains
<1> QED  BY <1>1, <1>2

LEMMA HasCounts ==
  ASSUME request.headers \in Seq(Headers), NEW name
  PROVE  Has(name) <=> Count(name, request.headers) # 0
BY CountNone DEF Has

(* A list of headers with these names.                                     *)
LEMMA NamedType ==
  ASSUME NEW names \in Seq(HeaderNames)
  PROVE  /\ Named(names) \in Seq(Headers)
         /\ Len(Named(names)) = Len(names)
         /\ \A i \in 1 .. Len(names) : Named(names)[i].name = names[i]
<1>1. Len(names) \in Nat /\ \A i \in 1 .. Len(names) : names[i] \in HeaderNames
  BY LenProperties, ElementOfSeq
<1>2. \A i \in 1 .. Len(names) : [name |-> names[i], value |-> 0] \in Headers
  BY <1>1 DEF Headers
<1> DEFINE e(i) == [name |-> names[i], value |-> 0]
<1>3. Named(names) = [i \in 1 .. Len(names) |-> e(i)]
  BY DEF Named
<1>4. \A i \in 1 .. Len(names) : e(i).name = names[i]
  OBVIOUS
<1>5. \A i \in 1 .. Len(names) : e(i) \in Headers
  BY <1>2
<1> HIDE DEF e
<1>6. [i \in 1 .. Len(names) |-> e(i)] \in Seq(Headers)
  BY <1>1, <1>5, IsASeq
<1> QED  BY <1>1, <1>3, <1>4, <1>6

(* Distinct names, each once.                                              *)
LEMMA NamedCount ==
  ASSUME NEW names \in Seq(HeaderNames), NEW name,
         \A i, j \in 1 .. Len(names) : names[i] = names[j] => i = j
  PROVE  /\ Count(name, Named(names)) \in 0 .. 1
         /\ Count(name, Named(names)) # 0
              <=> \E i \in 1 .. Len(names) : names[i] = name
<1>1. /\ Named(names) \in Seq(Headers)
      /\ Len(Named(names)) = Len(names)
      /\ \A i \in 1 .. Len(names) : Named(names)[i].name = names[i]
  BY NamedType
<1>2. Count(name, Named(names)) \in Nat
  BY <1>1, AtFinite
<1>3. Count(name, Named(names)) <= 1
  BY <1>1, CountOnce
<1>4. Count(name, Named(names)) = 0
        <=> \A i \in 1 .. Len(Named(names)) : Named(names)[i].name # name
  BY <1>1, CountNone
<1> QED  BY <1>1, <1>2, <1>3, <1>4

(* The request with other headers.                                         *)
LEMMA WithHeaders ==
  ASSUME NEW r \in Requests, NEW headers \in Seq(Headers)
  PROVE  LET n == [r EXCEPT !.headers = headers] IN
         /\ n \in Requests
         /\ n.op = r.op
         /\ n.body = r.body
         /\ n.headers = headers
         /\ n.runs = r.runs
BY DEF Requests

-----------------------------------------------------------------------------
(* What a filter adds on the way in.                                       *)

(* The filter is the one to add these headers, and adds each once.         *)
Contributes(filter, headers) ==
  /\ headers \in Seq(Headers)
  /\ \A name \in HeaderNames :
       /\ Count(name, headers) \in 0 .. 1
       /\ Count(name, headers) # 0 =>
            /\ Adds(filter, request.body, name)
            /\ name \in ChecksumHeaders => ~Has(name)

(* A filter that has to see to the content type does.                      *)
SetsType(filter, headers) ==
  Adds(filter, request.body, "Content-Type") =>
    Has("Content-Type") \/ Count("Content-Type", headers) # 0

(* The types of what a request consists of, while there is one.            *)
LEMMA RequestFacts ==
  ASSUME HInv, pc # "idle"
  PROVE  /\ request \in Requests
         /\ request.op \in DOMAIN Operation
         /\ request.op \in Calls
         /\ request.body \in BOOLEAN
         /\ request.body => request.op \in BodyOps
         /\ request.op = "restore_version" => request.body
         /\ request.headers \in Seq(Headers)
         /\ request.runs \in Nat
         /\ request.runs >= 1
         /\ request.runs \in 0 .. MaxRuns
         /\ Len(Chain(request.op)) \in 6 .. 9
<1>1. request \in Requests /\ request.op \in Calls
      /\ (request.body => request.op \in BodyOps) /\ request.runs >= 1
      /\ (request.op = "restore_version" => request.body)
  BY DEF HInv, RequestType
<1>2. /\ request.body \in BOOLEAN
      /\ request.headers \in Seq(Headers)
      /\ request.runs \in 0 .. MaxRuns
  BY <1>1 DEF Requests
<1>3. MaxRuns \in Nat
  BY CallsAssumption DEF CallsAssumption
<1>4. request.op \in DOMAIN Operation
  BY <1>1, NoneIsNoCall
<1>5. Len(Chain(request.op)) \in 6 .. 9
  <2> DEFINE k == Len(Operation[request.op].filters)
  <2>1. k \in 0 .. 3 /\ Len(Chain(request.op)) = k + 6
    BY <1>4, ChainShape
  <2> HIDE DEF k
  <2> QED  BY <2>1
<1> QED  BY <1>1, <1>2, <1>3, <1>4, <1>5

(* The counts, when the filter whose turn it is adds its headers.          *)
LEMMA CountStep ==
  ASSUME HInv, NEW filter, NEW headers, pc = "request", AtFilter(filter),
         Contributes(filter, headers),
         request' = [request EXCEPT !.headers = @ \o headers],
         \/ pc' = "request" /\ depth' = depth + 1
         \/ pc' \in {"response", "returned"}
  PROVE  /\ CountInv'
         /\ \A name : Ahead(name)' => Ahead(name)
         /\ request' \in Requests
         /\ request'.op = request.op /\ request'.body = request.body
         /\ request'.runs = request.runs
         /\ request'.headers = request.headers \o headers
         /\ request'.headers \in Seq(Headers)
<1>1. /\ request \in Requests
      /\ request.op \in DOMAIN Operation
      /\ request.body \in BOOLEAN
      /\ request.body => request.op \in BodyOps
      /\ request.headers \in Seq(Headers)
      /\ request.runs \in Nat
      /\ Len(Chain(request.op)) \in 6 .. 9
  BY RequestFacts
<1>2. /\ headers \in Seq(Headers)
      /\ request.headers \o headers \in Seq(Headers)
  BY <1>1, ConcatProperties DEF Contributes
<1>3. /\ request' \in Requests
      /\ request'.op = request.op /\ request'.body = request.body
      /\ request'.runs = request.runs
      /\ request'.headers = request.headers \o headers
  BY <1>1, <1>2, WithHeaders
<1>4. depth \in 1 .. Len(Chain(request.op))
      /\ Chain(request.op)[depth] = filter
  BY DEF HInv, DepthInv, AtFilter
<1>5. \A name : Ahead(name)' => Ahead(name)
  BY <1>3, <1>4 DEF Ahead
<1>6. \A name \in HeaderNames : Adds(filter, request.body, name) =>
        Ahead(name) /\ ~Ahead(name)'
  <2>1. SUFFICES ASSUME NEW name \in HeaderNames,
                        Adds(filter, request.body, name)
                 PROVE  Ahead(name) /\ ~Ahead(name)'
    OBVIOUS
  <2>2. Ahead(name)
    <3>1. depth \in depth .. Len(Chain(request.op))
      BY <1>1, <1>4
    <3> QED  BY <1>4, <2>1, <3>1 DEF Ahead
  <2>3. ASSUME Ahead(name)' PROVE FALSE
    <3>1. PICK i \in depth + 1 .. Len(Chain(request.op)) :
            Adds(Chain(request.op)[i], request.body, name)
      BY <1>3, <2>3 DEF Ahead
    <3>2. i \in 1 .. Len(Chain(request.op)) /\ i # depth
      BY <1>1, <1>4
    <3> QED  BY <1>1, <1>4, <2>1, <3>1, <3>2, AddsOnce
  <2> QED  BY <2>2, <2>3
<1>7. CountInv'
  <2>1. SUFFICES ASSUME NEW name \in HeaderNames
                 PROVE  Count(name, request.headers \o headers)
                          <= IF name \in ChecksumHeaders THEN 1
                             ELSE Turns(name)'
    BY <1>3 DEF CountInv
  <2>2. Count(name, request.headers \o headers)
          = Count(name, request.headers) + Count(name, headers)
    BY <1>1, <1>2, CountConcat
  <2>3. /\ Count(name, headers) \in 0 .. 1
        /\ Count(name, headers) # 0 =>
             /\ Adds(filter, request.body, name)
             /\ name \in ChecksumHeaders => ~Has(name)
    BY DEF Contributes
  <2>4. Count(name, request.headers) \in Nat
    BY <1>1, AtFinite
  <2>5. Count(name, request.headers)
          <= IF name \in ChecksumHeaders THEN 1 ELSE Turns(name)
    BY DEF HInv, CountInv
  <2>6. CASE name \in ChecksumHeaders
    <3>1. Has(name) <=> Count(name, request.headers) # 0
      BY <1>1, HasCounts
    <3> QED  BY <2>2, <2>3, <2>4, <2>5, <2>6, <3>1
  <2>7. CASE name \notin ChecksumHeaders
    <3>1. CASE Adds(filter, request.body, name)
      <4>1. Turns(name) = request.runs - 1 /\ Turns(name)' = request.runs
        BY <1>3, <1>6, <3>1 DEF Turns
      <4> QED  BY <1>1, <2>2, <2>3, <2>4, <2>5, <2>7, <4>1
    <3>2. CASE ~Adds(filter, request.body, name)
      <4>1. Turns(name) <= Turns(name)' /\ Turns(name) \in Int
            /\ Turns(name)' \in Int
        BY <1>1, <1>3, <1>5 DEF Turns
      <4> QED  BY <2>2, <2>3, <2>4, <2>5, <2>7, <3>2, <4>1
    <3> QED  BY <3>1, <3>2
  <2> QED  BY <2>6, <2>7
<1> QED  BY <1>2, <1>3, <1>5, <1>7

(* A filter that adds headers and passes the request on.                   *)
LEMMA PassOnHeaders ==
  ASSUME HInv, NEW filter, NEW headers, PassOn(filter, headers),
         filter \notin {"sign_request", "execute_curl_request"},
         Contributes(filter, headers), SetsType(filter, headers)
  PROVE  HInv'
<1> DEFINE n == Len(Chain(request.op))
<1>1. /\ pc = "request" /\ pc' = "request"
      /\ AtFilter(filter)
      /\ request' = [request EXCEPT !.headers = @ \o headers]
      /\ depth' = depth + 1
      /\ response' = response /\ sent' = sent /\ signed' = signed
  BY DEF PassOn
<1>2. /\ request \in Requests
      /\ request.op \in DOMAIN Operation
      /\ request.op \in Calls
      /\ request.headers \in Seq(Headers)
      /\ request.runs \in Nat
      /\ request.runs >= 1
      /\ n \in 6 .. 9
  BY <1>1, RequestFacts
<1>3. /\ CountInv'
      /\ \A name : Ahead(name)' => Ahead(name)
      /\ request' \in Requests
      /\ request'.op = request.op /\ request'.body = request.body
      /\ request'.runs = request.runs
      /\ request'.headers = request.headers \o headers
      /\ request'.headers \in Seq(Headers)
  BY <1>1, CountStep
<1>4. depth \in 1 .. n /\ Chain(request.op)[depth] = filter
  BY <1>1 DEF HInv, DepthInv, AtFilter
<1>5. depth' \in 1 .. n - 1
  <2>1. depth # n /\ depth # n - 1
    BY <1>2, <1>4, ChainPlaces
  <2> QED  BY <1>1, <1>2, <1>4, <2>1
<1>6. RequestType'
  BY <1>1, <1>3 DEF HInv, RequestType
<1>7. DepthInv'
  BY <1>1, <1>2, <1>3, <1>5 DEF DepthInv
<1>8. SignedInv'
  <2>1. \E S : signed \in Seq(S)
    BY DEF HInv, SignedInv
  <2>2. Turns("x-emc-signature") <= Turns("x-emc-signature")'
        /\ Turns("x-emc-signature") \in Int
        /\ Turns("x-emc-signature")' \in Int
    BY <1>2, <1>3 DEF Turns
  <2>3. Len(signed) <= Turns("x-emc-signature") /\ Len(signed) \in Nat
    BY <2>1, LenProperties DEF HInv, SignedInv
  <2> QED  BY <1>1, <2>1, <2>2, <2>3 DEF SignedInv
<1>9. TypeInv'
  <2>1. SUFFICES ASSUME Operation[request.op].method \in {"POST", "PUT"}
                 PROVE  Ahead("Content-Type")' \/ Has("Content-Type")'
    BY <1>1, <1>3 DEF TypeInv
  <2>2. Ahead("Content-Type") \/ Has("Content-Type")
    BY <1>1, <2>1 DEF HInv, TypeInv
  <2>3. CASE Has("Content-Type") \/ Count("Content-Type", headers) # 0
    <3>1. /\ Count("Content-Type", request.headers \o headers)
               = Count("Content-Type", request.headers)
                   + Count("Content-Type", headers)
          /\ Count("Content-Type", request.headers) \in Nat
          /\ Count("Content-Type", headers) \in Nat
      BY <1>2, CountConcat, AtFinite DEF Contributes
    <3>2. Has("Content-Type") <=> Count("Content-Type", request.headers) # 0
      BY <1>2, HasCounts
    <3>3. Count("Content-Type", request'.headers) # 0
      BY <1>3, <2>3, <3>1, <3>2
    <3>4. \E i \in 1 .. Len(request'.headers) :
            request'.headers[i].name = "Content-Type"
      BY <1>3, <3>3, CountNone
    <3> QED  BY <3>4 DEF Has
  <2>4. CASE Ahead("Content-Type") /\ ~Has("Content-Type")
               /\ Count("Content-Type", headers) = 0
    <3>1. ~Adds(filter, request.body, "Content-Type")
      BY <2>4 DEF SetsType
    <3>2. PICK i \in depth .. n : Adds(Chain(request.op)[i], request.body, "Content-Type")
      BY <2>4 DEF Ahead
    <3>3. i \in depth + 1 .. n
      BY <1>4, <3>1, <3>2
    <3>4. \E j \in depth' .. n : Adds(Chain(request.op)[j], request.body, "Content-Type")
      BY <1>1, <3>2, <3>3
    <3> QED  BY <1>1, <1>3, <3>4 DEF Ahead
  <2> QED  BY <2>2, <2>3, <2>4
<1>10. SignatureInv'
  <2>1. depth' # Len(Chain(request'.op))
    BY <1>2, <1>3, <1>5
  <2> QED  BY <1>1, <2>1 DEF HInv, SignatureInv
<1> QED
  BY <1>1, <1>3, <1>6, <1>7, <1>8, <1>9, <1>10 DEF HInv, CodeInv

(* A step that leaves the request alone, and is not on the way in.         *)
LEMMA QuietStep ==
  ASSUME HInv, pc \in {"server", "response"},
         pc' \in {"response", "returned", "crashed"},
         request' = request, signed' = signed, sent' = sent, CodeInv',
         pc' # "returned" => depth' \in 1 .. Len(Chain(request.op))
  PROVE  HInv'
<1>1. RequestType' /\ DepthInv'
  BY DEF HInv, RequestType, DepthInv
<1>2. \A name : Turns(name)' = Turns(name)
  BY DEF Turns, Ahead
<1>3. CountInv' /\ SignedInv'
  BY <1>2 DEF HInv, CountInv, SignedInv
<1>4. TypeInv' /\ SignatureInv'
  BY DEF HInv, TypeInv, SignatureInv
<1> QED  BY <1>1, <1>3, <1>4 DEF HInv

(* The response of a filter that gives up.                                 *)
LEMMA GiveUpResponse ==
  ASSUME IInv, NEW filter, NEW headers, GiveUp(filter, headers)
  PROVE  /\ response'.http_code = 400
         /\ response'.written = IF Operation[request.op].plain
                                  THEN response.written
                                  ELSE response.written \cup {"atmos_error"}
<1> DEFINE w == IF Operation[request.op].plain THEN response.written
                ELSE response.written \cup {"atmos_error"}
<1>1. response \in Responses
  BY DEF IInv, ResponseType
<1>2. w \in SUBSET FieldNames
  BY <1>1 DEF Responses, FieldNames
<1>3. response' = WithLocalError(response, w)
  BY DEF GiveUp, WithLocalError
<1> HIDE DEF w
<1>4. response'.http_code = 400 /\ response'.written = w
  BY <1>1, <1>2, <1>3, WithLocalErrorType
<1> QED  BY <1>4 DEF w

(* A filter that adds headers and gives up.                                *)
LEMMA GiveUpHeaders ==
  ASSUME IInv, HInv, NEW filter, NEW headers, GiveUp(filter, headers),
         Contributes(filter, headers)
  PROVE  HInv'
<1> DEFINE n == Len(Chain(request.op))
<1>1. /\ pc = "request"
      /\ pc' = IF depth = 1 THEN "returned" ELSE "response"
      /\ AtFilter(filter)
      /\ request' = [request EXCEPT !.headers = @ \o headers]
      /\ depth' = depth - 1
      /\ sent' = sent /\ signed' = signed
  BY DEF GiveUp
<1>2. /\ request \in Requests
      /\ request.op \in DOMAIN Operation
      /\ request.headers \in Seq(Headers)
      /\ request.runs \in Nat
      /\ n \in 6 .. 9
  BY <1>1, RequestFacts
<1>3. /\ CountInv'
      /\ \A name : Ahead(name)' => Ahead(name)
      /\ request' \in Requests
      /\ request'.op = request.op /\ request'.body = request.body
      /\ request'.runs = request.runs
      /\ request'.headers \in Seq(Headers)
  BY <1>1, CountStep
<1>4. depth \in 1 .. n
  BY <1>1 DEF HInv, DepthInv
<1>5. RequestType'
  BY <1>1, <1>3 DEF HInv, RequestType
<1>6. DepthInv'
  BY <1>1, <1>2, <1>3, <1>4 DEF DepthInv
<1>7. SignedInv'
  <2>1. \E S : signed \in Seq(S)
    BY DEF HInv, SignedInv
  <2>2. Turns("x-emc-signature") <= Turns("x-emc-signature")'
        /\ Turns("x-emc-signature") \in Int
        /\ Turns("x-emc-signature")' \in Int
    BY <1>2, <1>3 DEF Turns
  <2>3. Len(signed) <= Turns("x-emc-signature") /\ Len(signed) \in Nat
    BY <2>1, LenProperties DEF HInv, SignedInv
  <2> QED  BY <1>1, <2>1, <2>2, <2>3 DEF SignedInv
<1>8. TypeInv' /\ SignatureInv'
  BY <1>1 DEF HInv, TypeInv, SignatureInv
<1>9. CodeInv'
  BY GiveUpResponse DEF CodeInv
<1> QED
  BY <1>1, <1>3, <1>5, <1>6, <1>7, <1>8, <1>9 DEF HInv

(* A filter that returns, an answer, or none, leaves the request alone.    *)
LEMMA ReturnHeaders ==
  ASSUME IInv, HInv, NEW filter, NEW fields \in SUBSET FieldNames,
         Return(filter, fields)
  PROVE  HInv'
<1>1. /\ pc = "response"
      /\ pc' = IF depth = 1 THEN "returned" ELSE "response"
      /\ depth' = depth - 1
      /\ request' = request /\ signed' = signed /\ sent' = sent
  BY DEF Return
<1>2. depth \in 1 .. Len(Chain(request.op)) /\ Len(Chain(request.op)) \in 6 .. 9
  BY <1>1, RequestFacts DEF HInv, DepthInv
<1>3. response'.http_code = response.http_code
  BY DEF Return, IInv, ResponseType, Responses
<1>4. CodeInv'
  BY <1>3 DEF HInv, CodeInv
<1> QED  BY <1>1, <1>2, <1>4, QuietStep

LEMMA AnswerHeaders ==
  ASSUME IInv, HInv, NEW code \in Codes, NEW has, Answer(code, has)
  PROVE  HInv'
<1>1. /\ pc = "server" /\ pc' = "response"
      /\ depth' = depth - 1
      /\ request' = request /\ signed' = signed /\ sent' = sent
      /\ response' = [response EXCEPT !.http_code = code, !.has = has]
  BY DEF Answer
<1>2. depth' \in 1 .. Len(Chain(request.op))
  <2> DEFINE n == Len(Chain(request.op))
  <2>1. n \in 6 .. 9
    BY <1>1, RequestFacts
  <2>2. depth = n
    BY <1>1 DEF HInv, DepthInv
  <2> HIDE DEF n
  <2>3. depth' \in 1 .. n
    BY <1>1, <2>1, <2>2
  <2> QED  BY <2>3 DEF n
<1>3. response'.http_code = code
  BY <1>1 DEF IInv, ResponseType, Responses
<1>4. CodeInv'
  BY <1>3 DEF CodeInv
<1> QED  BY <1>1, <1>2, <1>4, QuietStep

LEMMA TransportErrorHeaders ==
  ASSUME HInv, TransportError
  PROVE  HInv'
<1>1. /\ pc = "server" /\ pc' = "response"
      /\ depth' = depth - 1
      /\ request' = request /\ signed' = signed /\ sent' = sent
      /\ response' = response
  BY DEF TransportError
<1>2. depth' \in 1 .. Len(Chain(request.op))
  <2> DEFINE n == Len(Chain(request.op))
  <2>1. n \in 6 .. 9
    BY <1>1, RequestFacts
  <2>2. depth = n
    BY <1>1 DEF HInv, DepthInv
  <2> HIDE DEF n
  <2>3. depth' \in 1 .. n
    BY <1>1, <2>1, <2>2
  <2> QED  BY <2>3 DEF n
<1> QED  BY <1>1, <1>2, QuietStep DEF HInv, CodeInv

LEMMA UnmarshalHeaders ==
  ASSUME HInv, UnmarshalNothing
  PROVE  HInv'
<1>1. /\ pc = "response" /\ pc' = "crashed"
      /\ depth' = depth
      /\ request' = request /\ signed' = signed /\ sent' = sent
      /\ response' = response
  BY DEF UnmarshalNothing
<1>2. depth \in 1 .. Len(Chain(request.op))
  BY <1>1 DEF HInv, DepthInv
<1> QED  BY <1>1, <1>2, QuietStep DEF HInv, CodeInv

(* The caller executes its request again: its headers are still there.     *)
LEMMA CallAgainHeaders ==
  ASSUME HInv, CallAgain
  PROVE  HInv'
<1>1. /\ pc = "returned" /\ pc' = "request"
      /\ request.op \in Reusable
      /\ request.runs < MaxRuns
      /\ request' = [request EXCEPT !.runs = @ + 1]
      /\ response' = FreshResponse
      /\ sent' = << >> /\ depth' = 1 /\ signed' = signed
  BY DEF CallAgain
<1>2. /\ request \in Requests
      /\ request.op \in DOMAIN Operation
      /\ request.op \in Calls
      /\ request.body \in BOOLEAN
      /\ request.body => request.op \in BodyOps
      /\ request.op = "restore_version" => request.body
      /\ request.headers \in Seq(Headers)
      /\ request.runs \in Nat
      /\ request.runs >= 1
      /\ Len(Chain(request.op)) \in 6 .. 9
  BY <1>1, RequestFacts
<1>3. MaxRuns \in Nat
  BY CallsAssumption DEF CallsAssumption
<1>4. /\ request' \in Requests
      /\ request'.op = request.op /\ request'.body = request.body
      /\ request'.headers = request.headers
      /\ request'.runs = request.runs + 1
  <2> DEFINE m == request.runs + 1
  <2>1. m \in 0 .. MaxRuns
    BY <1>1, <1>2, <1>3
  <2>2. request' = [request EXCEPT !.runs = m]
    BY <1>1
  <2> HIDE DEF m
  <2>3. /\ request' \in Requests
        /\ request'.op = request.op /\ request'.body = request.body
        /\ request'.headers = request.headers
        /\ request'.runs = m
    BY <1>2, <2>1, <2>2 DEF Requests
  <2> QED  BY <2>3 DEF m
<1>5. RequestType'
  BY <1>1, <1>2, <1>4 DEF RequestType
<1>6. DepthInv' /\ depth' # Len(Chain(request'.op))
  <2>1. 1 \in 1 .. Len(Chain(request'.op)) /\ 1 # Len(Chain(request'.op))
    <3> DEFINE n == Len(Chain(request'.op))
    <3>1. n \in 6 .. 9
      BY <1>2, <1>4
    <3> HIDE DEF n
    <3>2. 1 \in 1 .. n /\ 1 # n
      BY <3>1
    <3> QED  BY <3>2 DEF n
  <2> QED  BY <1>1, <2>1 DEF DepthInv
<1>7. \A name : Turns(name) = request.runs
                /\ Turns(name)' \in Int /\ Turns(name)' >= request.runs
  BY <1>1, <1>2, <1>4 DEF Turns, Ahead
<1>8. CountInv'
  <2>1. \A name \in HeaderNames : Count(name, request.headers) \in Nat
    BY <1>2, AtFinite
  <2> QED  BY <1>2, <1>4, <1>7, <2>1 DEF HInv, CountInv
<1>9. SignedInv'
  <2>1. Len(signed) \in Nat
    BY LenProperties DEF HInv, SignedInv
  <2> QED  BY <1>1, <1>2, <1>7, <2>1 DEF HInv, SignedInv
<1>10. TypeInv'
  <2>1. SUFFICES ASSUME Operation[request.op].method \in {"POST", "PUT"}
                 PROVE  Ahead("Content-Type")' \/ Has("Content-Type")'
    BY <1>4 DEF TypeInv
  <2>2. Operation[request.op].always = << >>
    BY <1>1, <1>2, Rows DEF Row, Fits
  <2>3. \E i \in 1 .. Len(Chain(request.op)) :
          Adds(Chain(request.op)[i], request.body, "Content-Type")
    BY <1>2, <2>1, <2>2, TypeAdded
  <2> QED  BY <1>1, <1>4, <2>3 DEF Ahead
<1>11. SignatureInv'
  <2>1. sent' \in Seq(Seq(Headers))
    BY <1>1
  <2> QED  BY <1>1, <1>6, <2>1 DEF SignatureInv
<1>12. CodeInv'
  BY <1>1 DEF CodeInv, FreshResponse
<1> QED
  BY <1>1, <1>5, <1>6, <1>8, <1>9, <1>10, <1>11, <1>12 DEF HInv

-----------------------------------------------------------------------------
(* The operation's own headers.                                            *)

(* What an operation adds is there once, and nothing of it is for a filter.*)
LEMMA OwnHeaders ==
  ASSUME NEW op \in DOMAIN Operation, NEW options
  PROVE  LET names == Operation[op].always \o Select(Operation[op].given, options)
         IN /\ names \in Seq(HeaderNames)
            /\ \A i \in 1 .. Len(names) :
                 /\ names[i] \in OwnNames
                 /\ \/ \E j \in 1 .. Len(Operation[op].always) :
                         names[i] = Operation[op].always[j]
                    \/ \E j \in 1 .. Len(Operation[op].given) :
                         names[i] = Operation[op].given[j]
            /\ \A i, j \in 1 .. Len(names) : names[i] = names[j] => i = j
            /\ \A j \in 1 .. Len(Operation[op].always) :
                 \E i \in 1 .. Len(names) : names[i] = Operation[op].always[j]
<1> DEFINE a == Operation[op].always
           g == Operation[op].given
           s == Select(g, options)
           names == a \o s
<1>1. a \in HeaderLists /\ g \in HeaderLists
      /\ \A i \in 1 .. Len(a), j \in 1 .. Len(g) : a[i] # g[j]
  BY Rows DEF Row, Lists, OwnOnce
<1> HIDE DEF a, g
<1>2. /\ a \in Seq(OwnNames) /\ g \in Seq(OwnNames)
      /\ \A i, j \in 1 .. Len(a) : a[i] = a[j] => i = j
      /\ \A i, j \in 1 .. Len(g) : g[i] = g[j] => i = j
  BY <1>1, HeaderListFacts
<1>3. /\ s \in Seq(OwnNames)
      /\ \A i \in 1 .. Len(s) : \E j \in 1 .. Len(g) : s[i] = g[j]
      /\ \A i, j \in 1 .. Len(s) : s[i] = s[j] => i = j
  BY <1>2, SelectProperties
<1> HIDE DEF s
<1>4. /\ names \in Seq(OwnNames)
      /\ Len(names) = Len(a) + Len(s)
      /\ Len(a) \in Nat /\ Len(s) \in Nat
      /\ \A i \in 1 .. Len(a) + Len(s) :
           names[i] = IF i <= Len(a) THEN a[i] ELSE s[i - Len(a)]
  BY <1>2, <1>3, ConcatProperties, LenProperties
<1> HIDE DEF names
<1>5. \A i \in 1 .. Len(names) :
        \/ i \in 1 .. Len(a) /\ names[i] = a[i]
        \/ i - Len(a) \in 1 .. Len(s) /\ names[i] = s[i - Len(a)]
  BY <1>4
<1>6. OwnNames \subseteq HeaderNames
  BY DEF OwnNames, HeaderNames
<1>7. names \in Seq(HeaderNames)
  BY <1>4, <1>6, SeqMonotonic
<1>8. \A i \in 1 .. Len(names) :
        /\ names[i] \in OwnNames
        /\ \/ \E j \in 1 .. Len(a) : names[i] = a[j]
           \/ \E j \in 1 .. Len(g) : names[i] = g[j]
  <2>1. \A i \in 1 .. Len(names) : names[i] \in OwnNames
    BY <1>4, ElementOfSeq
  <2>2. SUFFICES ASSUME NEW i \in 1 .. Len(names)
                 PROVE  \/ \E j \in 1 .. Len(a) : names[i] = a[j]
                        \/ \E j \in 1 .. Len(g) : names[i] = g[j]
    BY <2>1
  <2>3. CASE i \in 1 .. Len(a) /\ names[i] = a[i]
    BY <2>3
  <2>4. CASE i - Len(a) \in 1 .. Len(s) /\ names[i] = s[i - Len(a)]
    BY <1>3, <2>4
  <2> QED  BY <1>5, <2>3, <2>4
<1>9. \A i, j \in 1 .. Len(names) : names[i] = names[j] => i = j
  <2>1. SUFFICES ASSUME NEW i \in 1 .. Len(names), NEW j \in 1 .. Len(names),
                        names[i] = names[j]
                 PROVE  i = j
    OBVIOUS
  <2>2. \A p \in 1 .. Len(a), q \in 1 .. Len(s) : a[p] # s[q]
    BY <1>1, <1>3
  <2>3. CASE i \in 1 .. Len(a) /\ j \in 1 .. Len(a)
    BY <1>2, <1>4, <2>1, <2>3
  <2>4. CASE i - Len(a) \in 1 .. Len(s) /\ j - Len(a) \in 1 .. Len(s)
    <3>1. s[i - Len(a)] = s[j - Len(a)]
      BY <1>4, <2>1, <2>4
    <3>2. i - Len(a) = j - Len(a)
      BY <1>3, <2>4, <3>1
    <3> QED  BY <1>4, <3>2
  <2> QED  BY <1>5, <2>1, <2>2, <2>3, <2>4
<1>10. \A j \in 1 .. Len(a) : \E i \in 1 .. Len(names) : names[i] = a[j]
  BY <1>4
<1> QED  BY <1>7, <1>8, <1>9, <1>10 DEF a, g, s, names

(* A new call.                                                             *)
LEMMA CallHeaders ==
  ASSUME IInv, HInv, NEW op \in Calls, NEW options \in OptionsOf(op),
         Call(op, options)
  PROVE  HInv'
<1> DEFINE names == Operation[op].always \o Select(Operation[op].given, options)
           body == "body" \in options \/ op = "restore_version"
<1>1. /\ pc = "idle" /\ pc' = "request"
      /\ request' = [op |-> op, options |-> options, body |-> body,
                     headers |-> Named(names), runs |-> 1]
      /\ depth' = 1
      /\ response' = response /\ sent' = sent /\ signed' = signed
  BY DEF Call
<1>2. op \in DOMAIN Operation
  BY NoneIsNoCall
<1>3. /\ names \in Seq(HeaderNames)
      /\ \A i \in 1 .. Len(names) :
           /\ names[i] \in OwnNames
           /\ \/ \E j \in 1 .. Len(Operation[op].always) :
                   names[i] = Operation[op].always[j]
              \/ \E j \in 1 .. Len(Operation[op].given) :
                   names[i] = Operation[op].given[j]
      /\ \A i, j \in 1 .. Len(names) : names[i] = names[j] => i = j
      /\ \A j \in 1 .. Len(Operation[op].always) :
           \E i \in 1 .. Len(names) : names[i] = Operation[op].always[j]
  BY <1>2, OwnHeaders
<1> HIDE DEF names
<1>4. Named(names) \in Seq(Headers)
  BY <1>3, NamedType
<1>5. options \in SUBSET AllOptions
  <2>1. options \subseteq {"x-emc-utf8"} \cup Operation[op].options
                          \cup {Operation[op].given[i] :
                                  i \in 1 .. Len(Operation[op].given)}
    BY DEF OptionsOf
  <2>2. Operation[op].options \subseteq AllOptions
    BY <1>2 DEF AllOptions
  <2>3. "x-emc-utf8" \in AllOptions
    BY DEF AllOptions, HeaderNames
  <2>4. \A i \in 1 .. Len(Operation[op].given) :
          Operation[op].given[i] \in AllOptions
    <3>1. Operation[op].given \in Seq(OwnNames)
      BY <1>2, Rows, HeaderListFacts DEF Row, Lists
    <3>2. OwnNames \subseteq AllOptions
      BY DEF AllOptions, OwnNames, HeaderNames
    <3> QED  BY <3>1, <3>2, ElementOfSeq
  <2> QED  BY <2>1, <2>2, <2>3, <2>4
<1>6. body \in BOOLEAN /\ (body => op \in BodyOps)
      /\ (op = "restore_version" => body)
  <2>1. ASSUME "body" \in options PROVE op \in BodyOps
    <3>1. \/ "body" \in Operation[op].options
          \/ \E i \in 1 .. Len(Operation[op].given) :
               Operation[op].given[i] = "body"
      BY <2>1 DEF OptionsOf
    <3>2. Operation[op].given \in Seq(OwnNames) /\ Bodies(op, Operation[op])
      BY <1>2, Rows, HeaderListFacts DEF Row, Lists
    <3>3. \A i \in 1 .. Len(Operation[op].given) :
            Operation[op].given[i] # "body"
      BY <3>2, ElementOfSeq DEF OwnNames
    <3> QED  BY <3>1, <3>2, <3>3 DEF Bodies
  <2> QED  BY <2>1 DEF BodyOps
<1> HIDE DEF body
<1>7. MaxRuns \in Nat \ {0}
  BY CallsAssumption DEF CallsAssumption
<1>8. /\ request' \in Requests
      /\ request'.op = op
      /\ request'.body <=> body
      /\ request'.headers = Named(names)
      /\ request'.runs = 1
  BY <1>1, <1>4, <1>5, <1>6, <1>7 DEF Requests
<1>9. RequestType'
  BY <1>1, <1>6, <1>8 DEF RequestType
<1>10. Len(Chain(op)) \in 6 .. 9
  <2> DEFINE k == Len(Operation[op].filters)
  <2>1. k \in 0 .. 3 /\ Len(Chain(op)) = k + 6
    BY <1>2, ChainShape
  <2> HIDE DEF k
  <2> QED  BY <2>1
<1>11. DepthInv' /\ depth' # Len(Chain(op))
  <2>1. 1 \in 1 .. Len(Chain(op)) /\ 1 # Len(Chain(op))
    <3> DEFINE n == Len(Chain(op))
    <3>1. n \in 6 .. 9
      BY <1>10
    <3> HIDE DEF n
    <3>2. 1 \in 1 .. n /\ 1 # n
      BY <3>1
    <3> QED  BY <3>2 DEF n
  <2> QED  BY <1>1, <1>8, <2>1 DEF DepthInv
<1>12. \A name : Turns(name)' = IF Ahead(name)' THEN 0 ELSE 1
  BY <1>8 DEF Turns
<1>13. CountInv'
  <2>1. SUFFICES ASSUME NEW name \in HeaderNames
                 PROVE  Count(name, Named(names))
                          <= IF name \in ChecksumHeaders THEN 1
                             ELSE Turns(name)'
    BY <1>8 DEF CountInv
  <2>2. /\ Count(name, Named(names)) \in 0 .. 1
        /\ Count(name, Named(names)) # 0
             => \E i \in 1 .. Len(names) : names[i] = name
    BY <1>3, NamedCount
  <2>3. ASSUME Count(name, Named(names)) # 0, Ahead(name)' PROVE FALSE
    <3>1. PICK i \in 1 .. Len(names) : names[i] = name
      BY <2>2, <2>3
    <3>2. \/ \E j \in 1 .. Len(Operation[op].always) :
               name = Operation[op].always[j]
          \/ \E j \in 1 .. Len(Operation[op].given) :
               name = Operation[op].given[j]
      BY <1>3, <3>1
    <3>3. PICK k \in 1 .. Len(Chain(op)) : Adds(Chain(op)[k], request'.body, name)
      BY <1>1, <1>8, <2>3 DEF Ahead
    <3>4. request'.body \in BOOLEAN /\ (request'.body => op \in BodyOps)
      BY <1>6, <1>8 DEF Requests
    <3> QED  BY <1>2, <3>2, <3>3, <3>4, OwnNotAdded
  <2> QED  BY <1>12, <2>2, <2>3
<1>14. SignedInv'
  <2>1. \E S : signed \in Seq(S)
    BY DEF HInv, SignedInv
  <2>2. Len(signed) \in Nat /\ Len(signed) <= 0
    BY <1>1, <2>1, LenProperties DEF HInv, SignedInv, RequestType, Turns, Ahead
  <2> QED  BY <1>1, <1>12, <2>1, <2>2 DEF SignedInv
<1>15. TypeInv'
  <2>1. SUFFICES ASSUME Operation[op].method \in {"POST", "PUT"}
                 PROVE  Ahead("Content-Type")' \/ Has("Content-Type")'
    BY <1>8 DEF TypeInv
  <2>2. request'.body \in BOOLEAN /\ (op = "restore_version" => request'.body)
    BY <1>6, <1>8 DEF Requests
  <2>3. CASE \E j \in 1 .. Len(Operation[op].always) :
               Operation[op].always[j] = "Content-Type"
    <3>1. \E i \in 1 .. Len(names) : names[i] = "Content-Type"
      BY <1>3, <2>3
    <3>2. \E i \in 1 .. Len(Named(names)) : Named(names)[i].name = "Content-Type"
      BY <1>3, <3>1, NamedType
    <3> QED  BY <1>8, <3>2 DEF Has
  <2>4. CASE \E i \in 1 .. Len(Chain(op)) :
               Adds(Chain(op)[i], request'.body, "Content-Type")
    BY <1>1, <1>8, <2>4 DEF Ahead
  <2> QED  BY <1>2, <2>1, <2>2, <2>3, <2>4, TypeAdded
<1>16. SignatureInv'
  BY <1>1, <1>8, <1>11 DEF HInv, SignatureInv
<1>17. CodeInv'
  BY <1>1 DEF HInv, CodeInv
<1> QED
  BY <1>1, <1>9, <1>11, <1>13, <1>14, <1>15, <1>16, <1>17 DEF HInv

-----------------------------------------------------------------------------
(* Signing, and sending.                                                   *)

(* The request without the signature that was added last is what was       *)
(* signed.                                                                 *)
LEMMA LastAdded ==
  ASSUME NEW headers \in Seq(Headers), NEW h \in Headers
  PROVE  LET all == Append(headers, h)
             n == Len(headers) + 1
         IN /\ all \in Seq(Headers)
            /\ Len(all) = n
            /\ n \in 1 .. Len(all)
            /\ all[n] = h
            /\ SubSeq(all, 1, n - 1) \o SubSeq(all, n + 1, Len(all)) = headers
            /\ all = headers \o <<h>>
<1> DEFINE all == Append(headers, h)
           n == Len(headers) + 1
           front == SubSeq(all, 1, n - 1)
<1>1. /\ Len(headers) \in Nat
      /\ all \in Seq(Headers)
      /\ Len(all) = Len(headers) + 1
      /\ \A i \in 1 .. Len(headers) : all[i] = headers[i]
      /\ all[Len(headers) + 1] = h
      /\ all = headers \o <<h>>
  BY LenProperties, AppendProperties, AppendIsConcat
<1> HIDE DEF all
<1>2. \A i \in 1 .. n - 1 : all[i] \in Headers
  BY <1>1, ElementOfSeq
<1>3. /\ front \in Seq(Headers)
      /\ Len(front) = Len(headers)
      /\ \A i \in 1 .. Len(headers) : front[i] = headers[i]
  <2>1. /\ front \in Seq(Headers)
        /\ Len(front) = IF 1 <= n - 1 THEN n - 1 - 1 + 1 ELSE 0
        /\ \A i \in 1 .. n - 1 - 1 + 1 : front[i] = all[1 + i - 1]
    BY <1>1, <1>2, SubSeqProperties
  <2>2. Len(front) = Len(headers)
    BY <1>1, <2>1
  <2>3. \A i \in 1 .. Len(headers) : front[i] = headers[i]
    BY <1>1, <2>1
  <2> QED  BY <2>1, <2>2, <2>3
<1> HIDE DEF front
<1>4. front = headers
  BY <1>3, SeqEqual
<1>5. SubSeq(all, n + 1, Len(all)) = << >>
  BY <1>1, SubSeqEmpty
<1>6. headers \o << >> = headers
  BY ConcatEmptySeq
<1> QED  BY <1>1, <1>4, <1>5, <1>6 DEF all, front

(* sign_request signs what is there and adds the signature.                *)
LEMMA SignHeaders ==
  ASSUME IInv, HInv, SignRequest
  PROVE  HInv'
<1> DEFINE n == Len(Chain(request.op))
           s == StringToSign(Operation[request.op].method, request.headers)
           h == [name |-> "x-emc-signature", value |-> Len(signed')]
<1>1. /\ pc = "request" /\ pc' = "request"
      /\ AtFilter("sign_request")
      /\ signed' = Append(signed, s)
      /\ request' = [request EXCEPT !.headers = Append(request.headers, h)]
      /\ depth' = depth + 1
      /\ response' = response /\ sent' = sent
  BY DEF SignRequest
<1>2. /\ request \in Requests
      /\ request.op \in DOMAIN Operation
      /\ request.op \in Calls
      /\ request.body \in BOOLEAN
      /\ request.headers \in Seq(Headers)
      /\ request.runs \in Nat
      /\ request.runs >= 1
      /\ n \in 6 .. 9
  BY <1>1, RequestFacts
<1>3. depth = n - 1 /\ depth \in 1 .. n
  <2>1. depth \in 1 .. n /\ Chain(request.op)[depth] = "sign_request"
    BY <1>1 DEF HInv, DepthInv, AtFilter
  <2> QED  BY <1>2, <2>1, ChainPlaces
<1>4. PICK S : signed \in Seq(S)
  BY DEF HInv, SignedInv
<1>5. /\ Len(signed) \in Nat
      /\ signed' \in Seq(S \cup {s})
      /\ Len(signed') = Len(signed) + 1
      /\ signed'[Len(signed')] = s
  <2>1. signed \in Seq(S \cup {s})
    BY <1>4, SeqMonotonic
  <2> HIDE DEF s
  <2>2. Len(signed) \in Nat
    BY <2>1, LenProperties
  <2> QED  BY <1>1, <2>1, <2>2, AppendProperties
<1>6. h \in Headers
  BY <1>5 DEF Headers, HeaderNames
<1>7. /\ Append(request.headers, h) \in Seq(Headers)
      /\ Append(request.headers, h) = request.headers \o <<h>>
      /\ <<h>> \in Seq(Headers)
  BY <1>2, <1>6, LastAdded
<1> HIDE DEF h, s
<1>8. /\ request' \in Requests
      /\ request'.op = request.op /\ request'.body = request.body
      /\ request'.runs = request.runs
      /\ request'.headers = Append(request.headers, h)
  BY <1>1, <1>2, <1>7, WithHeaders
<1>9. RequestType'
  BY <1>1, <1>8 DEF HInv, RequestType
<1>10. depth' = n /\ DepthInv'
  BY <1>1, <1>2, <1>3, <1>8 DEF DepthInv
<1>11. \A name : ~Ahead(name)' /\ Turns(name)' = request.runs
  <2>1. Chain(request.op)[n] = "execute_curl_request"
    <3>1. n \in 1 .. n
      BY <1>2
    <3> QED  BY <1>2, <3>1, ChainPlaces
  <2>2. \A name : ~Adds("execute_curl_request", request.body, name)
    BY DEF Adds
  <2>3. \A name : ~Ahead(name)'
    BY <1>2, <1>8, <1>10, <2>1, <2>2 DEF Ahead
  <2> QED  BY <1>8, <2>3 DEF Turns
<1>12. Turns("x-emc-signature") = request.runs - 1
  <2>1. Chain(request.op)[depth] = "sign_request"
    BY <1>1 DEF AtFilter
  <2>2. Adds("sign_request", request.body, "x-emc-signature")
    BY DEF Adds
  <2>3. depth \in depth .. n
    BY <1>2, <1>3
  <2>4. Ahead("x-emc-signature")
    BY <1>1, <2>1, <2>2, <2>3 DEF Ahead
  <2> QED  BY <2>4 DEF Turns
<1>13. \A name : /\ Count(name, request.headers) \in Nat
                 /\ Count(name, request'.headers)
                      = Count(name, request.headers) + Count(name, <<h>>)
                 /\ Count(name, <<h>>) \in 0 .. 1
                 /\ Count(name, <<h>>) # 0 => name = "x-emc-signature"
  <2>1. SUFFICES ASSUME NEW name
                 PROVE /\ Count(name, request.headers) \in Nat
                       /\ Count(name, request'.headers)
                            = Count(name, request.headers) + Count(name, <<h>>)
                       /\ Count(name, <<h>>) \in 0 .. 1
                       /\ Count(name, <<h>>) # 0 => name = "x-emc-signature"
    OBVIOUS
  <2> DEFINE one == <<h>>
  <2>7. one \in Seq(Headers) /\ Len(one) = 1 /\ one[1] = h
    BY <1>7
  <2>2. Count(name, request.headers) \in Nat /\ Count(name, one) \in Nat
        /\ Count(name, request'.headers)
             = Count(name, request.headers) + Count(name, one)
    <3>1. request'.headers = request.headers \o one
      BY <1>7, <1>8
    <3> HIDE DEF one
    <3> QED  BY <1>2, <2>7, <3>1, AtFinite, CountConcat
  <2> HIDE DEF one
  <2>3. \A i \in 1 .. Len(one) : i = 1 /\ one[i].name = h.name
    BY <2>7
  <2>4. Count(name, one) <= 1
    <3>1. \A i, j \in 1 .. Len(one) :
            one[i].name = name /\ one[j].name = name => i = j
      BY <2>3
    <3> QED  BY <2>7, <3>1, CountOnce
  <2>5. h.name = "x-emc-signature"
    BY DEF h
  <2>6. name # "x-emc-signature" => Count(name, one) = 0
    BY <2>7, <2>3, <2>5, CountNone
  <2> QED  BY <2>2, <2>4, <2>6 DEF one
<1>14. CountInv'
  <2>1. SUFFICES ASSUME NEW name \in HeaderNames
                 PROVE  Count(name, request'.headers)
                          <= IF name \in ChecksumHeaders THEN 1
                             ELSE Turns(name)'
    BY DEF CountInv
  <2>2. Count(name, request.headers)
          <= IF name \in ChecksumHeaders THEN 1 ELSE Turns(name)
    BY DEF HInv, CountInv
  <2>3. Turns(name) \in Int /\ Turns(name) <= request.runs
    BY <1>2 DEF Turns
  <2>4. CASE name = "x-emc-signature"
    BY <1>2, <1>11, <1>12, <1>13, <2>2, <2>4 DEF ChecksumHeaders
  <2>5. CASE name # "x-emc-signature"
    BY <1>2, <1>11, <1>13, <2>2, <2>3, <2>5
  <2> QED  BY <2>4, <2>5
<1>15. SignedInv'
  <2>1. Len(signed) <= request.runs - 1
    BY <1>12 DEF HInv, SignedInv
  <2> QED  BY <1>2, <1>5, <1>11, <2>1 DEF SignedInv
<1>16. TypeInv'
  <2>1. SUFFICES ASSUME Operation[request.op].method \in {"POST", "PUT"}
                 PROVE  Has("Content-Type")'
    BY <1>8 DEF TypeInv
  <2>2. ~Ahead("Content-Type")
    <3>1. \A i \in depth .. n : i = n - 1 \/ i = n
      BY <1>2, <1>3
    <3>2. Chain(request.op)[n] = "execute_curl_request"
          /\ Chain(request.op)[n - 1] = "sign_request"
      BY <1>1, <1>2, <1>3, ChainPlaces DEF AtFilter
    <3>3. ~Adds("execute_curl_request", request.body, "Content-Type")
          /\ ~Adds("sign_request", request.body, "Content-Type")
      BY DEF Adds
    <3> QED  BY <3>1, <3>2, <3>3 DEF Ahead
  <2>3. Has("Content-Type")
    BY <1>1, <2>1, <2>2 DEF HInv, TypeInv
  <2>4. Count("Content-Type", request'.headers) # 0
    BY <1>2, <1>13, <2>3, HasCounts
  <2>5. request'.headers \in Seq(Headers)
    BY <1>7, <1>8
  <2> QED  BY <2>4, <2>5, CountNone DEF Has
<1>17. SignatureInv'
  <2>1. ASSUME request.runs = 1 PROVE Signed(request.headers)'
    <3>1. Count("x-emc-signature", request.headers) <= 0
      <4>1. "x-emc-signature" \in HeaderNames \ ChecksumHeaders
        BY DEF HeaderNames, ChecksumHeaders
      <4> QED  BY <1>12, <2>1, <4>1 DEF HInv, CountInv
    <3>2. \A i \in 1 .. Len(request.headers) :
            request.headers[i].name # "x-emc-signature"
      BY <1>2, <1>13, <3>1, CountNone
    <3> DEFINE all == Append(request.headers, h)
               i == Len(request.headers) + 1
    <3>3. /\ i \in 1 .. Len(all)
          /\ all[i] = h
          /\ SubSeq(all, 1, i - 1) \o SubSeq(all, i + 1, Len(all))
               = request.headers
      <4>1. request.headers \in Seq(Headers) /\ h \in Headers
        BY <1>2, <1>6
      <4> HIDE DEF h
      <4> QED  BY <4>1, LastAdded
    <3>4. h.name = "x-emc-signature" /\ h.value = Len(signed')
      BY DEF h
    <3>5. signed'[h.value]
            = StringToSign(Operation[request'.op].method, request.headers)
      BY <1>5, <1>8, <3>4 DEF s
    <3> HIDE DEF i, all
    <3>6. \E q \in 1 .. Len(all) :
            LET others == SubSeq(all, 1, q - 1) \o SubSeq(all, q + 1, Len(all))
            IN /\ all[q].name = "x-emc-signature"
               /\ \A j \in 1 .. Len(others) : others[j].name # "x-emc-signature"
               /\ signed'[all[q].value]
                    = StringToSign(Operation[request'.op].method, others)
      BY <3>2, <3>3, <3>4, <3>5
    <3>7. request'.headers = all
      BY <1>8 DEF all
    <3> QED  BY <3>6, <3>7, <1>8 DEF Signed, SignedBy
  <2> QED  BY <1>1, <1>8, <2>1 DEF HInv, SignatureInv, Signed
<1> QED
  BY <1>1, <1>9, <1>10, <1>14, <1>15, <1>16, <1>17 DEF HInv, CodeInv

(* What is sent is what was signed, the signature aside: for a POST or a   *)
(* PUT the content type is there, so that curl makes up none.              *)
LEMMA SendHeaders ==
  ASSUME IInv, HInv, ExecuteCurlRequest
  PROVE  HInv'
<1> DEFINE n == Len(Chain(request.op))
<1>1. /\ pc = "request" /\ pc' = "server"
      /\ AtFilter("execute_curl_request")
      /\ sent' = Append(sent, request.headers \o MadeUpType)
      /\ depth' = depth /\ request' = request
      /\ response' = response /\ signed' = signed
  BY DEF ExecuteCurlRequest
<1>2. /\ request.op \in DOMAIN Operation
      /\ request.headers \in Seq(Headers)
      /\ request.runs \in Nat
      /\ n \in 6 .. 9
  BY <1>1, RequestFacts
<1>3. depth = n /\ depth \in 1 .. n
  <2>1. depth \in 1 .. n /\ Chain(request.op)[depth] = "execute_curl_request"
    BY <1>1 DEF HInv, DepthInv, AtFilter
  <2> QED  BY <1>2, <2>1, ChainPlaces
<1>4. \A name : ~Ahead(name)
  <2>1. Chain(request.op)[n] = "execute_curl_request"
    BY <1>1, <1>3 DEF AtFilter
  <2>2. \A name : ~Adds("execute_curl_request", request.body, name)
    BY DEF Adds
  <2>3. \A i \in depth .. n : i = n
    BY <1>2, <1>3
  <2> QED  BY <2>1, <2>2, <2>3 DEF Ahead
<1>5. MadeUpType = << >>
  BY <1>1, <1>4 DEF HInv, TypeInv, MadeUpType
<1>6. sent = << >>
  BY <1>1 DEF IInv, SentInv
<1>7. request.headers \o << >> = request.headers
  BY <1>2, ConcatEmptySeq
<1>8. sent' = Append(<< >>, request.headers)
  BY <1>1, <1>5, <1>6, <1>7
<1>9. sent' \in Seq(Seq(Headers)) /\ sent'[1] = request.headers
  <2>1. << >> \in Seq(Seq(Headers)) /\ Len(<< >>) = 0
    BY EmptySeq
  <2> QED  BY <1>2, <1>8, <2>1, AppendProperties
<1>10. RequestType' /\ DepthInv'
  BY <1>1, <1>3 DEF HInv, RequestType, DepthInv
<1>11. \A name : Turns(name)' = Turns(name)
  BY <1>1, <1>4 DEF Turns, Ahead
<1>12. CountInv' /\ SignedInv'
  BY <1>1, <1>11 DEF HInv, CountInv, SignedInv
<1>13. TypeInv'
  BY <1>1 DEF TypeInv
<1>14. SignatureInv'
  <2>1. request.runs = 1 => Signed(request.headers)
    BY <1>1, <1>3 DEF HInv, SignatureInv
  <2> QED  BY <1>1, <1>9, <2>1 DEF SignatureInv, Signed
<1> QED
  BY <1>1, <1>10, <1>12, <1>13, <1>14 DEF HInv, CodeInv

LEMMA CountEmpty == \A name : Count(name, << >>) = 0
<1> SUFFICES ASSUME NEW name PROVE Count(name, << >>) = 0
  OBVIOUS
<1> DEFINE at == {i \in 1 .. Len(<< >>) : << >>[i].name = name}
<1>1. at = {}
  OBVIOUS
<1>2. Count(name, << >>) = Cardinality(at)
  BY DEF Count
<1> HIDE DEF at
<1> QED  BY <1>1, <1>2, FS_EmptySet

LEMMA InitHeaders == Init => HInv
<1> SUFFICES ASSUME Init PROVE HInv
  OBVIOUS
<1>1. /\ pc = "idle" /\ request = NoRequest /\ response = FreshResponse
      /\ sent = << >> /\ signed = << >>
  BY DEF Init
<1>2. << >> \in Seq(Headers) /\ << >> \in Seq(Seq(Headers)) /\ Len(<< >>) = 0
  BY EmptySeq
<1>3. RequestType
  <2>1. MaxRuns \in Nat
    BY CallsAssumption DEF CallsAssumption
  <2>2. {} \in SUBSET AllOptions
    OBVIOUS
  <2> QED  BY <1>1, <1>2, <2>1, <2>2 DEF RequestType, Requests, NoRequest
<1>4. \A name : Turns(name) = 0
  BY <1>1 DEF Turns, Ahead, NoRequest
<1>5. CountInv
  <2>1. request.headers = << >>
    BY <1>1 DEF NoRequest
  <2> QED  BY <1>4, <2>1, CountEmpty DEF CountInv
<1>6. SignedInv
  BY <1>1, <1>2, <1>4 DEF SignedInv
<1>7. DepthInv /\ TypeInv
  BY <1>1 DEF DepthInv, TypeInv
<1>8. SignatureInv
  BY <1>1, <1>2 DEF SignatureInv
<1>9. CodeInv
  BY <1>1 DEF CodeInv, FreshResponse
<1> QED  BY <1>1, <1>3, <1>5, <1>6, <1>7, <1>8, <1>9 DEF HInv

-----------------------------------------------------------------------------
(* Headers each of which is among these names, and there once at most.     *)

Brings(headers, names) ==
  /\ headers \in Seq(Headers)
  /\ \A name : Count(name, headers) \in 0 .. 1
  /\ \A name : Count(name, headers) # 0 => name \in names

(* Nothing, one header, the headers that a caller asks for, or two such    *)
(* lists.                                                                  *)
LEMMA BringsNothing ==
  ASSUME NEW names
  PROVE  Brings(<< >>, names)
<1>1. << >> \in Seq(Headers) /\ Len(<< >>) = 0
  BY EmptySeq
<1> QED  BY <1>1, CountEmpty DEF Brings

LEMMA BringsNamed ==
  ASSUME NEW name \in HeaderNames
  PROVE  /\ Brings(Named(<<name>>), {name})
         /\ Count(name, Named(<<name>>)) # 0
<1> DEFINE one == <<name>>
<1>1. /\ one \in Seq(HeaderNames)
      /\ \A i, j \in 1 .. Len(one) : one[i] = one[j] => i = j
      /\ \A i \in 1 .. Len(one) : one[i] = name
      /\ 1 \in 1 .. Len(one)
  OBVIOUS
<1> HIDE DEF one
<1>2. /\ Named(one) \in Seq(Headers)
      /\ \A n : /\ Count(n, Named(one)) \in 0 .. 1
                /\ Count(n, Named(one)) # 0
                     <=> \E i \in 1 .. Len(one) : one[i] = n
  BY <1>1, NamedType, NamedCount
<1>3. Brings(Named(one), {name}) /\ Count(name, Named(one)) # 0
  BY <1>1, <1>2 DEF Brings
<1> QED  BY <1>3 DEF one

LEMMA BringsChosen ==
  ASSUME NEW names \in Seq(HeaderNames),
         \A i, j \in 1 .. Len(names) : names[i] = names[j] => i = j
  PROVE  Brings(Chosen(names), {names[i] : i \in 1 .. Len(names)})
<1> DEFINE s == Select(names, request.options)
<1>1. /\ s \in Seq(HeaderNames)
      /\ \A i \in 1 .. Len(s) : \E j \in 1 .. Len(names) : s[i] = names[j]
      /\ \A i, j \in 1 .. Len(s) : s[i] = s[j] => i = j
  BY SelectProperties
<1>2. Chosen(names) = Named(s)
  BY DEF Chosen
<1> HIDE DEF s
<1>3. /\ Named(s) \in Seq(Headers)
      /\ \A n : /\ Count(n, Named(s)) \in 0 .. 1
                /\ Count(n, Named(s)) # 0
                     <=> \E i \in 1 .. Len(s) : s[i] = n
  BY <1>1, NamedType, NamedCount
<1> DEFINE N == {names[i] : i \in 1 .. Len(names)}
<1>4. \A i \in 1 .. Len(s) : s[i] \in N
  BY <1>1
<1> HIDE DEF N
<1>5. Brings(Named(s), N)
  BY <1>3, <1>4 DEF Brings
<1> QED  BY <1>2, <1>5 DEF N

LEMMA BringsBoth ==
  ASSUME NEW s, NEW N, Brings(s, N), NEW t, NEW M, Brings(t, M),
         N \cap M = {}
  PROVE  Brings(s \o t, N \cup M)
<1>1. s \in Seq(Headers) /\ t \in Seq(Headers)
  BY DEF Brings
<1>2. s \o t \in Seq(Headers)
  BY <1>1, ConcatProperties
<1>3. \A name : Count(name, s \o t) = Count(name, s) + Count(name, t)
  BY <1>1, CountConcat
<1>4. \A name : /\ Count(name, s) \in 0 .. 1
                /\ Count(name, t) \in 0 .. 1
                /\ Count(name, s) # 0 => name \in N
                /\ Count(name, t) # 0 => name \in M
  BY DEF Brings
<1>5. \A name : /\ Count(name, s \o t) \in 0 .. 1
                /\ Count(name, s \o t) # 0 => name \in N \cup M
  BY <1>3, <1>4
<1> QED  BY <1>2, <1>5 DEF Brings

(* A filter may add such a list if it is the one to add these headers.     *)
LEMMA BringsContributes ==
  ASSUME NEW filter, NEW headers, NEW N, Brings(headers, N),
         \A name \in N : /\ Adds(filter, request.body, name)
                         /\ name \in ChecksumHeaders => ~Has(name)
  PROVE  Contributes(filter, headers)
BY DEF Brings, Contributes

-----------------------------------------------------------------------------
(* Filter by filter.                                                       *)

WriteList ==
  <<"x-emc-meta", "x-emc-listable-meta", "x-emc-utf8", "x-emc-useracl",
    "x-emc-groupacl">>

(* The headers that the filters of writes start with.                      *)
LEMMA WriteListNames ==
  Brings(Chosen(WriteList), WriteNames)
<1>1. /\ WriteList \in Seq(HeaderNames)
      /\ \A i, j \in 1 .. Len(WriteList) : WriteList[i] = WriteList[j] => i = j
      /\ {WriteList[i] : i \in 1 .. Len(WriteList)} = WriteNames
  BY DEF WriteList, HeaderNames, WriteNames
<1> QED  BY <1>1, BringsChosen

LEMMA WriteHeadersBring ==
  ASSUME request.body \in BOOLEAN
  PROVE  /\ Brings(WriteHeaders,
                   (IF request.body THEN {} ELSE {"Content-Type"})
                     \cup WriteNames)
         /\ ~request.body => Count("Content-Type", WriteHeaders) # 0
<1> DEFINE type == IF request.body THEN << >> ELSE Named(<<"Content-Type">>)
           N == IF request.body THEN {} ELSE {"Content-Type"}
<1>1. /\ Brings(type, N)
      /\ ~request.body => Count("Content-Type", type) # 0
  <2>1. "Content-Type" \in HeaderNames
    BY DEF HeaderNames
  <2> QED  BY <2>1, BringsNamed, BringsNothing
<1>2. WriteHeaders = type \o Chosen(WriteList)
  BY DEF WriteHeaders, WriteList
<1>3. N \cap WriteNames = {}
  BY DEF WriteNames
<1> HIDE DEF type, N
<1>4. Brings(type \o Chosen(WriteList), N \cup WriteNames)
  BY <1>1, <1>3, WriteListNames, BringsBoth
<1>5. Count("Content-Type", type \o Chosen(WriteList))
        = Count("Content-Type", type) + Count("Content-Type", Chosen(WriteList))
      /\ Count("Content-Type", type) \in 0 .. 1
      /\ Count("Content-Type", Chosen(WriteList)) \in 0 .. 1
  BY <1>1, WriteListNames, CountConcat DEF Brings
<1> QED  BY <1>1, <1>2, <1>4, <1>5 DEF N

(* The filters that add only what the caller asks for.                     *)
LEMMA ChosenContributes ==
  ASSUME NEW filter, NEW names \in Seq(HeaderNames),
         \A i, j \in 1 .. Len(names) : names[i] = names[j] => i = j,
         \A i \in 1 .. Len(names) :
           /\ Adds(filter, request.body, names[i])
           /\ names[i] \notin ChecksumHeaders
  PROVE  Contributes(filter, Chosen(names))
<1>1. Brings(Chosen(names), {names[i] : i \in 1 .. Len(names)})
  BY BringsChosen
<1> QED  BY <1>1, BringsContributes

(* Two filters after the other's way: no type.                             *)
LEMMA PlainPassOn ==
  ASSUME HInv, NEW filter, NEW headers, PassOn(filter, headers),
         filter \notin {"sign_request", "execute_curl_request"},
         Contributes(filter, headers),
         ~Adds(filter, request.body, "Content-Type")
  PROVE  HInv'
BY PassOnHeaders DEF SetsType

(* The default filters that add headers.                                   *)
LEMMA DefaultFilterSteps ==
  ASSUME HInv, AddDate \/ AddUid \/ SetContentHeaders
  PROVE  HInv'
<1> USE DEF Adds
<1>1. CASE AddDate
  <2> DEFINE h == [name |-> "Date", value |-> request.runs]
             one == <<h>>
  <2>1. PassOn("add_date", one) /\ pc = "request"
    BY <1>1 DEF AddDate, PassOn
  <2>2. h \in Headers /\ h.name = "Date"
    BY <2>1, RequestFacts DEF Headers, HeaderNames
  <2> HIDE DEF h
  <2>3. one \in Seq(Headers) /\ Len(one) = 1
        /\ \A i \in 1 .. Len(one) : i = 1 /\ one[i].name = "Date"
    BY <2>2
  <2> HIDE DEF one
  <2>4. \A name : /\ Count(name, one) \in Nat
                  /\ Count(name, one) <= 1
                  /\ Count(name, one) # 0 => name = "Date"
    <3>1. \A name : Count(name, one) \in Nat
      BY <2>3, AtFinite
    <3>2. \A name : Count(name, one) <= 1
      BY <2>3, CountOnce
    <3>3. \A name : name # "Date" => Count(name, one) = 0
      BY <2>3, CountNone
    <3> QED  BY <3>1, <3>2, <3>3
  <2>5. Contributes("add_date", one)
    BY <2>3, <2>4 DEF Contributes, ChecksumHeaders
  <2> QED  BY <2>1, <2>5, PlainPassOn
<1>2. CASE AddUid
  <2>1. PassOn("add_uid", Named(<<"x-emc-uid">>))
    BY <1>2 DEF AddUid
  <2>2. "x-emc-uid" \in HeaderNames \ ChecksumHeaders
    BY DEF HeaderNames, ChecksumHeaders
  <2>3. Contributes("add_uid", Named(<<"x-emc-uid">>))
    <3>1. Brings(Named(<<"x-emc-uid">>), {"x-emc-uid"})
      BY <2>2, BringsNamed
    <3>2. Adds("add_uid", request.body, "x-emc-uid")
      OBVIOUS
    <3> HIDE DEF Adds
    <3> QED  BY <2>2, <3>1, <3>2, BringsContributes
  <2> QED  BY <2>1, <2>3, PlainPassOn
<1>3. CASE SetContentHeaders
  <2> DEFINE two == <<"Content-Type", "Content-Length">>
             headers == IF request.body THEN Named(two) ELSE << >>
             N == {"Content-Type", "Content-Length"}
  <2>1. PassOn("set_content_headers", headers) /\ pc = "request"
    BY <1>3 DEF SetContentHeaders, PassOn
  <2>2. /\ two \in Seq(HeaderNames)
        /\ \A i, j \in 1 .. Len(two) : two[i] = two[j] => i = j
        /\ \A i \in 1 .. Len(two) : two[i] \in N
        /\ \E i \in 1 .. Len(two) : two[i] = "Content-Type"
    BY DEF HeaderNames
  <2> HIDE DEF two
  <2>3. /\ Named(two) \in Seq(Headers)
        /\ \A n : /\ Count(n, Named(two)) \in 0 .. 1
                  /\ Count(n, Named(two)) # 0
                       <=> \E i \in 1 .. Len(two) : two[i] = n
    BY <2>2, NamedType, NamedCount
  <2>4. CASE request.body
    <3>1. Brings(headers, N) /\ Count("Content-Type", headers) # 0
      BY <2>2, <2>3, <2>4 DEF Brings
    <3>2. Contributes("set_content_headers", headers)
      <4>1. \A name \in N : Adds("set_content_headers", request.body, name)
                            /\ name \notin ChecksumHeaders
        BY <2>4 DEF ChecksumHeaders
      <4> HIDE DEF Adds, headers, N
      <4> QED  BY <3>1, <4>1, BringsContributes
    <3>3. SetsType("set_content_headers", headers)
      BY <3>1 DEF SetsType
    <3> HIDE DEF headers
    <3> QED  BY <2>1, <3>2, <3>3, PassOnHeaders
  <2>5. CASE ~request.body
    <3>1. headers = << >>
      BY <2>5
    <3>2. Contributes("set_content_headers", << >>)
      BY BringsNothing, BringsContributes
    <3>3. ~Adds("set_content_headers", request.body, "Content-Type")
      BY <2>5
    <3> HIDE DEF headers, Adds
    <3> QED  BY <2>1, <3>1, <3>2, <3>3, PlainPassOn
  <2> QED  BY <2>4, <2>5
<1> QED  BY <1>1, <1>2, <1>3

(* Lists of one, two and three names.                                      *)
LEMMA OneName ==
  ASSUME NEW a \in HeaderNames
  PROVE  LET names == <<a>> IN
         /\ names \in Seq(HeaderNames)
         /\ \A i, j \in 1 .. Len(names) : names[i] = names[j] => i = j
         /\ {names[i] : i \in 1 .. Len(names)} = {a}
OBVIOUS

LEMMA TwoNames ==
  ASSUME NEW a \in HeaderNames, NEW b \in HeaderNames, a # b
  PROVE  LET names == <<a, b>> IN
         /\ names \in Seq(HeaderNames)
         /\ \A i, j \in 1 .. Len(names) : names[i] = names[j] => i = j
         /\ {names[i] : i \in 1 .. Len(names)} = {a, b}
OBVIOUS

LEMMA ThreeNames ==
  ASSUME NEW a \in HeaderNames, NEW b \in HeaderNames, NEW c \in HeaderNames,
         a # b, a # c, b # c
  PROVE  LET names == <<a, b, c>> IN
         /\ names \in Seq(HeaderNames)
         /\ \A i, j \in 1 .. Len(names) : names[i] = names[j] => i = j
         /\ {names[i] : i \in 1 .. Len(names)} = {a, b, c}
OBVIOUS

(* Header names that are not those of checksums.                           *)
LEMMA SimpleNames ==
  /\ {"Range", "x-emc-utf8", "x-emc-tags", "x-emc-token", "x-emc-limit",
      "x-emc-include-meta", "x-emc-user-tags", "x-emc-system-tags",
      "x-emc-path", "x-emc-objectid"} \subseteq HeaderNames \ ChecksumHeaders
  /\ {"Content-Type", "x-emc-wschecksum", "x-emc-generate-checksum"}
       \subseteq HeaderNames
BY DEF HeaderNames, ChecksumHeaders

(* The lists that the filters choose from.                                 *)
LEMMA ChosenBrings ==
  /\ Brings(Chosen(<<"Range">>), {"Range"})
  /\ Brings(Chosen(<<"Range", "x-emc-utf8">>), {"Range", "x-emc-utf8"})
  /\ Brings(Chosen(<<"x-emc-utf8", "x-emc-tags">>),
            {"x-emc-utf8", "x-emc-tags"})
  /\ Brings(Chosen(<<"x-emc-tags", "x-emc-utf8">>),
            {"x-emc-tags", "x-emc-utf8"})
  /\ Brings(Chosen(<<"x-emc-token", "x-emc-limit">>),
            {"x-emc-token", "x-emc-limit"})
  /\ Brings(Chosen(<<"x-emc-utf8">>), {"x-emc-utf8"})
  /\ Brings(Chosen(<<"x-emc-path">>), {"x-emc-path"})
  /\ Brings(Chosen(<<"x-emc-include-meta", "x-emc-user-tags",
                     "x-emc-system-tags">>), Includes)
<1>1. \A a \in HeaderNames : 
        Brings(Chosen(<<a>>), {a})
  <2> SUFFICES ASSUME NEW a \in HeaderNames
               PROVE  Brings(Chosen(<<a>>), {a})
    OBVIOUS
  <2> DEFINE names == <<a>>
             N == {a}
  <2>1. /\ names \in Seq(HeaderNames)
        /\ \A i, j \in 1 .. Len(names) : names[i] = names[j] => i = j
        /\ {names[i] : i \in 1 .. Len(names)} = N
    BY OneName
  <2> HIDE DEF names, N
  <2>2. Brings(Chosen(names), N)
    BY <2>1, BringsChosen
  <2> QED  BY <2>2 DEF names, N
<1>2. \A a, b \in HeaderNames : a # b => 
        Brings(Chosen(<<a, b>>), {a, b})
  <2> SUFFICES ASSUME NEW a \in HeaderNames, NEW b \in HeaderNames, a # b
               PROVE  Brings(Chosen(<<a, b>>), {a, b})
    OBVIOUS
  <2> DEFINE names == <<a, b>>
             N == {a, b}
  <2>1. /\ names \in Seq(HeaderNames)
        /\ \A i, j \in 1 .. Len(names) : names[i] = names[j] => i = j
        /\ {names[i] : i \in 1 .. Len(names)} = N
    BY TwoNames
  <2> HIDE DEF names, N
  <2>2. Brings(Chosen(names), N)
    BY <2>1, BringsChosen
  <2> QED  BY <2>2 DEF names, N
<1>3. \A a, b, c \in HeaderNames : a # b /\ a # c /\ b # c => 
        Brings(Chosen(<<a, b, c>>), {a, b, c})
  <2> SUFFICES ASSUME NEW a \in HeaderNames, NEW b \in HeaderNames,
                      NEW c \in HeaderNames, a # b, a # c, b # c
               PROVE  Brings(Chosen(<<a, b, c>>), {a, b, c})
    OBVIOUS
  <2> DEFINE names == <<a, b, c>>
             N == {a, b, c}
  <2>1. /\ names \in Seq(HeaderNames)
        /\ \A i, j \in 1 .. Len(names) : names[i] = names[j] => i = j
        /\ {names[i] : i \in 1 .. Len(names)} = N
    BY ThreeNames
  <2> HIDE DEF names, N
  <2>2. Brings(Chosen(names), N)
    BY <2>1, BringsChosen
  <2> QED  BY <2>2 DEF names, N
<1> QED  BY <1>1, <1>2, <1>3, SimpleNames DEF Includes

(* A filter that adds such a list, with no content type in it.             *)
LEMMA BringsStep ==
  ASSUME HInv, NEW filter, NEW headers, NEW N, PassOn(filter, headers),
         filter \notin {"sign_request", "execute_curl_request"},
         Brings(headers, N), N \cap ChecksumHeaders = {},
         \A name \in N : Adds(filter, request.body, name),
         ~Adds(filter, request.body, "Content-Type")
  PROVE  HInv'
BY BringsContributes, PlainPassOn

(* The filters that add only what the caller asks for.                     *)
LEMMA ChosenFilterSteps ==
  ASSUME HInv,
         \/ UpdateObject \/ SetReadObjectHeaders \/ SetGetUserMetaHeaders
         \/ GetSystemMetadata \/ SetPaginationHeaders \/ GetListableTags
  PROVE  HInv'
<1> USE ChosenBrings
<1>1. \A N : N \subseteq {"Range", "x-emc-utf8", "x-emc-tags", "x-emc-token",
                          "x-emc-limit"} => N \cap ChecksumHeaders = {}
  BY DEF ChecksumHeaders
<1>2. CASE UpdateObject
  <2>1. /\ Adds("update_object", request.body, "Range")
        /\ ~Adds("update_object", request.body, "Content-Type")
    BY DEF Adds
  <2> QED  BY <1>1, <1>2, <2>1, BringsStep DEF UpdateObject
<1>3. CASE SetReadObjectHeaders
  <2>1. /\ Adds("set_read_object_headers", request.body, "Range")
        /\ Adds("set_read_object_headers", request.body, "x-emc-utf8")
        /\ ~Adds("set_read_object_headers", request.body, "Content-Type")
    BY DEF Adds
  <2> QED  BY <1>1, <1>3, <2>1, BringsStep DEF SetReadObjectHeaders
<1>4. CASE SetGetUserMetaHeaders
  <2>1. /\ Adds("set_get_user_meta_headers", request.body, "x-emc-utf8")
        /\ Adds("set_get_user_meta_headers", request.body, "x-emc-tags")
        /\ ~Adds("set_get_user_meta_headers", request.body, "Content-Type")
    BY DEF Adds
  <2> QED  BY <1>1, <1>4, <2>1, BringsStep DEF SetGetUserMetaHeaders
<1>5. CASE GetSystemMetadata
  <2>1. /\ Adds("get_system_metadata", request.body, "x-emc-utf8")
        /\ Adds("get_system_metadata", request.body, "x-emc-tags")
        /\ ~Adds("get_system_metadata", request.body, "Content-Type")
    BY DEF Adds
  <2> QED  BY <1>1, <1>5, <2>1, BringsStep DEF GetSystemMetadata
<1>6. CASE SetPaginationHeaders
  <2>1. /\ Adds("set_pagination_headers", request.body, "x-emc-token")
        /\ Adds("set_pagination_headers", request.body, "x-emc-limit")
        /\ ~Adds("set_pagination_headers", request.body, "Content-Type")
    BY DEF Adds
  <2> QED  BY <1>1, <1>6, <2>1, BringsStep DEF SetPaginationHeaders
<1>7. CASE GetListableTags
  <2>1. /\ Adds("get_listable_tags", request.body, "x-emc-tags")
        /\ Adds("get_listable_tags", request.body, "x-emc-utf8")
        /\ ~Adds("get_listable_tags", request.body, "Content-Type")
    BY DEF Adds
  <2> QED  BY <1>1, <1>7, <2>1, BringsStep DEF GetListableTags
<1> QED  BY <1>2, <1>3, <1>4, <1>5, <1>6, <1>7

LEMMA IncludesBring == Brings(IncludeHeaders, Includes)
BY ChosenBrings, BringsNothing DEF IncludeHeaders

(* The two listings.                                                       *)
LEMMA ListingSteps ==
  ASSUME HInv, ListDirectory \/ ListObjects
  PROVE  HInv'
<1>1. CASE ListDirectory
  <2> DEFINE N == {"x-emc-utf8"} \cup Includes
             headers == Chosen(<<"x-emc-utf8">>) \o IncludeHeaders
  <2>1. Brings(headers, N)
    <3>1. {"x-emc-utf8"} \cap Includes = {}
      BY DEF Includes
    <3>2. Brings(Chosen(<<"x-emc-utf8">>), {"x-emc-utf8"})
      BY ChosenBrings
    <3> QED  BY <3>1, <3>2, IncludesBring, BringsBoth
  <2>2. /\ \A name \in N : Adds("list_directory", request.body, name)
        /\ ~Adds("list_directory", request.body, "Content-Type")
        /\ N \cap ChecksumHeaders = {}
    BY DEF Adds, Includes, ChecksumHeaders
  <2>3. PassOn("list_directory", headers)
    BY <1>1 DEF ListDirectory
  <2> HIDE DEF N, headers
  <2> QED  BY <2>1, <2>2, <2>3, BringsStep
<1>2. CASE ListObjects
  <2> DEFINE M == {"x-emc-utf8"} \cup {"x-emc-tags"}
             N == M \cup Includes
             utf8 == Chosen(<<"x-emc-utf8">>)
             tags == Named(<<"x-emc-tags">>)
             headers == (utf8 \o tags) \o IncludeHeaders
  <2>1. Brings(headers, N)
    <3>1. M \cap Includes = {} /\ {"x-emc-utf8"} \cap {"x-emc-tags"} = {}
      BY DEF Includes
    <3>2. Brings(utf8, {"x-emc-utf8"})
      BY ChosenBrings
    <3>3. Brings(tags, {"x-emc-tags"})
      BY BringsNamed, SimpleNames
    <3> HIDE DEF utf8, tags
    <3>4. Brings(utf8 \o tags, M)
      BY <3>1, <3>2, <3>3, BringsBoth
    <3> HIDE DEF M
    <3> QED  BY <3>1, <3>4, IncludesBring, BringsBoth
  <2>2. /\ \A name \in N : Adds("list_objects", request.body, name)
        /\ ~Adds("list_objects", request.body, "Content-Type")
        /\ N \cap ChecksumHeaders = {}
    BY DEF Adds, Includes, ChecksumHeaders
  <2>3. PassOn("list_objects", headers)
    BY <1>2 DEF ListObjects
  <2> HIDE DEF N, headers
  <2> QED  BY <2>1, <2>2, <2>3, BringsStep
<1> QED  BY <1>1, <1>2

(* set_write_headers: the caller's headers, then the checksums.            *)
LEMMA WriteHeadersContribute ==
  ASSUME HInv, pc # "idle",
         NEW filter \in {"set_write_headers", "create_access_token"}
  PROVE  /\ Contributes(filter, WriteHeaders)
         /\ SetsType(filter, WriteHeaders)
         /\ ~request.body => Count("Content-Type", WriteHeaders) # 0
<1> DEFINE N == (IF request.body THEN {} ELSE {"Content-Type"})
                \cup WriteNames
<1>1. request.body \in BOOLEAN
  BY DEF HInv, RequestType, Requests
<1>2. /\ Brings(WriteHeaders, N)
      /\ ~request.body => Count("Content-Type", WriteHeaders) # 0
  BY <1>1, WriteHeadersBring
<1>3. \A name \in N : Adds(filter, request.body, name)
                      /\ name \notin ChecksumHeaders
  BY <1>1 DEF Adds, WriteNames, ChecksumHeaders
<1>4. Adds(filter, request.body, "Content-Type") => ~request.body
  BY DEF Adds, WriteNames, ChecksumHeaders
<1> HIDE DEF N
<1>5. Contributes(filter, WriteHeaders)
  BY <1>2, <1>3, BringsContributes
<1> QED  BY <1>2, <1>4, <1>5 DEF SetsType

(* The caller's headers and the checksums: a checksum that is there already*)
(* is not added.                                                           *)
LEMMA SetWriteHeadersStep ==
  ASSUME HInv, SetWriteHeaders
  PROVE  HInv'
<1> DEFINE sum == IF SumsBody THEN Named(<<"x-emc-wschecksum">>) ELSE << >>
           generate == IF Generates THEN Named(<<"x-emc-generate-checksum">>)
                       ELSE << >>
           S == IF SumsBody THEN {"x-emc-wschecksum"} ELSE {}
           G == IF Generates THEN {"x-emc-generate-checksum"} ELSE {}
           type == IF request.body THEN {} ELSE {"Content-Type"}
           N == type \cup WriteNames
           headers == (WriteHeaders \o sum) \o generate
           M == (N \cup S) \cup G
<1>1. PassOn("set_write_headers", headers) /\ pc = "request"
  BY DEF SetWriteHeaders, PassOn
<1>2. request.body \in BOOLEAN
  BY DEF HInv, RequestType, Requests
<1>3. Brings(sum, S) /\ Brings(generate, G)
  BY SimpleNames, BringsNamed, BringsNothing
<1>4. N \cap S = {} /\ (N \cup S) \cap G = {}
  BY DEF WriteNames
<1>5. /\ Brings(WriteHeaders, N)
      /\ ~request.body => Count("Content-Type", WriteHeaders) # 0
  BY <1>2, WriteHeadersBring
<1>6. \A name \in M : /\ Adds("set_write_headers", request.body, name)
                      /\ name \in ChecksumHeaders => ~Has(name)
  BY <1>2 DEF Adds, WriteNames, ChecksumHeaders, SumsBody, Generates
<1>7. Adds("set_write_headers", request.body, "Content-Type") => ~request.body
  BY DEF Adds, WriteNames, ChecksumHeaders
<1> HIDE DEF sum, generate, S, G, N
<1>8. Brings(WriteHeaders \o sum, N \cup S)
  BY <1>3, <1>4, <1>5, BringsBoth
<1> DEFINE s == WriteHeaders \o sum
           NS == N \cup S
<1>9. Count("Content-Type", s)
        = Count("Content-Type", WriteHeaders) + Count("Content-Type", sum)
  BY <1>3, <1>5, CountConcat DEF Brings
<1>10. Brings(s, NS) /\ NS \cap G = {}
  BY <1>4, <1>8
<1> HIDE DEF s, NS
<1>11. Brings(s \o generate, NS \cup G)
  BY <1>3, <1>10, BringsBoth
<1>12. Count("Content-Type", s \o generate)
         = Count("Content-Type", s) + Count("Content-Type", generate)
  BY <1>3, <1>10, CountConcat DEF Brings
<1>13. headers = s \o generate /\ M = NS \cup G
  BY DEF s, NS
<1> HIDE DEF headers, M
<1>14. Contributes("set_write_headers", headers)
  BY <1>6, <1>11, <1>13, BringsContributes
<1>15. /\ Count("Content-Type", WriteHeaders) \in Nat
       /\ Count("Content-Type", sum) \in Nat
       /\ Count("Content-Type", generate) \in Nat
  BY <1>3, <1>5 DEF Brings
<1>16. SetsType("set_write_headers", headers)
  BY <1>5, <1>7, <1>9, <1>12, <1>13, <1>15 DEF SetsType
<1> QED  BY <1>1, <1>14, <1>16, PassOnHeaders

(* create_access_token: the object or its path, and the caller's headers.  *)
LEMMA TokenTargetBrings ==
  Brings(TokenTarget, {"x-emc-objectid", "x-emc-path"})
<1>1. /\ Brings(Named(<<"x-emc-objectid">>), {"x-emc-objectid"})
      /\ Brings(Chosen(<<"x-emc-path">>), {"x-emc-path"})
  BY SimpleNames, BringsNamed, ChosenBrings
<1> QED  BY <1>1 DEF TokenTarget, Brings

LEMMA TokenContributes ==
  ASSUME HInv, pc # "idle"
  PROVE  /\ Contributes("create_access_token", TokenTarget \o WriteHeaders)
         /\ SetsType("create_access_token", TokenTarget \o WriteHeaders)
<1> DEFINE type == IF request.body THEN {} ELSE {"Content-Type"}
           N == type \cup WriteNames
           T == {"x-emc-objectid", "x-emc-path"}
           M == T \cup N
           headers == TokenTarget \o WriteHeaders
<1>1. request.body \in BOOLEAN
  BY DEF HInv, RequestType, Requests
<1>2. /\ Brings(WriteHeaders, N)
      /\ ~request.body => Count("Content-Type", WriteHeaders) # 0
  BY <1>1, WriteHeadersBring
<1>3. Brings(TokenTarget, T)
  BY TokenTargetBrings
<1>4. T \cap N = {}
  BY DEF WriteNames
<1>5. \A name \in M : Adds("create_access_token", request.body, name)
                      /\ name \notin ChecksumHeaders
  BY <1>1 DEF Adds, WriteNames, ChecksumHeaders
<1>6. Adds("create_access_token", request.body, "Content-Type")
        => ~request.body
  BY DEF Adds, WriteNames
<1> HIDE DEF N, T
<1>7. Brings(headers, M)
  BY <1>2, <1>3, <1>4, BringsBoth
<1>8. Count("Content-Type", headers)
        = Count("Content-Type", TokenTarget)
            + Count("Content-Type", WriteHeaders)
  BY <1>2, <1>3, CountConcat DEF Brings
<1>9. /\ Count("Content-Type", TokenTarget) \in Nat
      /\ Count("Content-Type", WriteHeaders) \in Nat
  BY <1>2, <1>3 DEF Brings
<1> HIDE DEF headers, M
<1>10. Contributes("create_access_token", headers)
  BY <1>5, <1>7, BringsContributes
<1>11. SetsType("create_access_token", headers)
  BY <1>2, <1>6, <1>8, <1>9 DEF SetsType
<1> QED  BY <1>10, <1>11 DEF headers

(* The two filters that may give up.                                       *)
LEMMA GiveUpSteps ==
  ASSUME IInv, HInv, ChecksumFails \/ MarshalFails
  PROVE  HInv'
<1>1. CASE ChecksumFails
  <2>1. GiveUp("set_write_headers", WriteHeaders) /\ pc # "idle"
    BY <1>1 DEF ChecksumFails, GiveUp
  <2> QED  BY <2>1, WriteHeadersContribute, GiveUpHeaders
<1>2. CASE MarshalFails
  <2>1. GiveUp("create_access_token", TokenTarget \o WriteHeaders)
        /\ pc # "idle"
    BY <1>2 DEF MarshalFails, GiveUp
  <2> QED  BY <2>1, TokenContributes, GiveUpHeaders
<1> QED  BY <1>1, <1>2

LEMMA CreateAccessTokenStep ==
  ASSUME HInv, CreateAccessToken
  PROVE  HInv'
<1>1. PassOn("create_access_token", TokenTarget \o WriteHeaders)
      /\ pc # "idle"
  BY DEF CreateAccessToken, PassOn
<1> QED  BY <1>1, TokenContributes, PassOnHeaders

(* create_version sets the content type that is not there.                 *)
LEMMA ParseCreateVersionStep ==
  ASSUME HInv, ParseCreateVersion
  PROVE  HInv'
<1> DEFINE headers == IF Has("Content-Type") THEN << >>
                      ELSE Named(<<"Content-Type">>)
<1>1. PassOn("parse_create_version_response", headers) /\ pc = "request"
  BY DEF ParseCreateVersion, PassOn
<1>2. Adds("parse_create_version_response", request.body, "Content-Type")
      /\ "Content-Type" \notin ChecksumHeaders
  BY DEF Adds, ChecksumHeaders
<1>3. Brings(headers, {"Content-Type"})
  BY SimpleNames, BringsNamed, BringsNothing
<1>4. ~Has("Content-Type") => Count("Content-Type", headers) # 0
  BY SimpleNames, BringsNamed
<1> HIDE DEF headers
<1>5. Contributes("parse_create_version_response", headers)
  BY <1>2, <1>3, BringsContributes
<1>6. SetsType("parse_create_version_response", headers)
  BY <1>4 DEF SetsType
<1> QED  BY <1>1, <1>5, <1>6, PassOnHeaders

(* The filters that only work on the answer.                               *)
LEMMA PassThroughStep ==
  ASSUME HInv, PassThrough
  PROVE  HInv'
<1>1. PICK filter \in ResponseFilters : PassOn(filter, << >>)
  BY DEF PassThrough
<1>2. /\ filter \notin {"sign_request", "execute_curl_request"}
      /\ ~Adds(filter, request.body, "Content-Type")
  BY DEF ResponseFilters, Adds
<1>3. Contributes(filter, << >>)
  BY BringsNothing, BringsContributes
<1> QED  BY <1>1, <1>2, <1>3, PlainPassOn

(* Every filter, on the way in.                                            *)
LEMMA RequestHeaders ==
  ASSUME IInv, HInv, RequestHalf
  PROVE  HInv'
<1>1. CASE AddDate \/ AddUid \/ SetContentHeaders
  BY <1>1, DefaultFilterSteps
<1>2. CASE SignRequest
  BY <1>2, SignHeaders
<1>3. CASE SetWriteHeaders \/ ChecksumFails \/ MarshalFails
  BY <1>3, SetWriteHeadersStep, GiveUpSteps
<1>4. CASE \/ UpdateObject \/ SetReadObjectHeaders \/ SetGetUserMetaHeaders
           \/ GetSystemMetadata \/ SetPaginationHeaders \/ GetListableTags
  BY <1>4, ChosenFilterSteps
<1>5. CASE ListDirectory \/ ListObjects
  BY <1>5, ListingSteps
<1>6. CASE ParseCreateVersion \/ CreateAccessToken \/ PassThrough
  BY <1>6, ParseCreateVersionStep, CreateAccessTokenStep, PassThroughStep
<1>7. CASE ExecuteCurlRequest
  BY <1>7, SendHeaders
<1> QED  BY <1>1, <1>2, <1>3, <1>4, <1>5, <1>6, <1>7 DEF RequestHalf

(* What a filter writes, and that it returns.                              *)
Writing(filter, fields) ==
  /\ Return(filter, fields)
  /\ fields \in SUBSET FieldNames
  /\ \A field \in fields \ {"atmos_error"} : Writes(filter, field)
  /\ "atmos_error" \in fields =>
       Operation[request.op].method \notin {"DELETE", "PUT", "HEAD"}

(* Fields that are the filter's to write.                                  *)
Own(filter, fields) ==
  /\ fields \in SUBSET FieldNames
  /\ "atmos_error" \notin fields
  /\ \A field \in fields : Writes(filter, field)

(* The fields that each parser writes are its own.                         *)
LEMMA OwnFields ==
  /\ Own("parse_service_info_response", {"version"})
  /\ Own("parse_create_response", {"object_id"})
  /\ Own("parse_read_object_response", {"system_metadata", "meta", "acl"})
  /\ Own("parse_get_user_meta_response", {"meta"})
  /\ Own("get_system_metadata", {"system_metadata"})
  /\ Own("parse_get_acl_response", {"acl"})
  /\ Own("parse_get_info_response", {"object_info"})
  /\ Own("list_directory", {"entries"}) /\ Own("list_directory", {"token"})
  /\ Own("get_listable_tags", {"tags", "token"})
  /\ Own("list_objects", {"results"}) /\ Own("list_objects", {"token"})
  /\ Own("parse_create_version_response", {"version_id"})
  /\ Own("list_versions", {"versions"}) /\ Own("list_versions", {"token"})
  /\ Own("create_access_token", {"token_id"})
  /\ Own("parse_list_access_tokens_response", {"token_list"})
  /\ Own("parse_list_access_tokens_response", {"token"})
  /\ Own("parse_get_token_info_response", {"token_info"})
BY DEF Own, FieldNames, Writes

(* A parser that writes its fields, a token with them, or nothing.         *)
LEMMA WritingParsed ==
  ASSUME NEW filter, NEW part, NEW fields, Own(filter, fields),
         \/ Return(filter, {})
         \/ Return(filter, fields)
         \/ Return(filter, Parsed(part, fields))
         \/ /\ Return(filter, Parsed(part, fields)
                                \cup Parsed("token", {"token"}))
            /\ Own(filter, {"token"})
  PROVE  \E w : Writing(filter, w)
<1>1. \A w : w \in {{}, fields, Parsed(part, fields)} =>
        /\ w \in SUBSET FieldNames
        /\ "atmos_error" \notin w
        /\ \A field \in w : Writes(filter, field)
  BY DEF Parsed, Own
<1>2. Parsed("token", {"token"}) \subseteq {"token"}
  BY DEF Parsed
<1>3. CASE \/ Return(filter, {})
           \/ Return(filter, fields)
           \/ Return(filter, Parsed(part, fields))
  <2>1. \A w : w \in {{}, fields, Parsed(part, fields)}
                 /\ Return(filter, w) => Writing(filter, w)
    BY <1>1 DEF Writing
  <2> QED  BY <1>3, <2>1
<1>4. CASE /\ Return(filter, Parsed(part, fields)
                               \cup Parsed("token", {"token"}))
           /\ Own(filter, {"token"})
  <2> DEFINE w == Parsed(part, fields) \cup Parsed("token", {"token"})
  <2>1. /\ w \in SUBSET FieldNames
        /\ "atmos_error" \notin w
        /\ \A field \in w : Writes(filter, field)
    BY <1>1, <1>2, <1>4 DEF Own
  <2>2. Return(filter, w)
    BY <1>4
  <2> HIDE DEF w
  <2> QED  BY <2>1, <2>2 DEF Writing
<1> QED  BY <1>3, <1>4

(* Every filter, on the way out, writes fields that are its own; or the    *)
(* unmarshaller crashes.                                                   *)
LEMMA ResponseWrites ==
  ASSUME ResponseHalf
  PROVE  UnmarshalNothing \/ \E filter, w : Writing(filter, w)
<1>1. CASE ReturnOnly
  <2>1. PICK filter : Return(filter, {})
    BY <1>1 DEF ReturnOnly
  <2>2. Writing(filter, {})
    BY <2>1 DEF Writing
  <2> QED  BY <2>2
<1>2. CASE ParseAtmosError
  <2> DEFINE w == IF /\ Operation[request.op].method
                          \notin {"DELETE", "PUT", "HEAD"}
                     /\ response.http_code > 399
                     /\ "document" \in response.has
                    THEN {"atmos_error"} ELSE {}
  <2>1. Writing("parse_atmos_error", w)
    BY <1>2 DEF ParseAtmosError, Writing, FieldNames
  <2> QED  BY <2>1
<1>3. CASE ParseListableTags
  <2> DEFINE w == (IF response.http_code <= 299 THEN {"tags"} ELSE {})
                    \cup Parsed("token", {"token"})
  <2>1. w \subseteq {"tags", "token"}
    BY DEF Parsed
  <2>2. Return("get_listable_tags", w)
    BY <1>3 DEF ParseListableTags
  <2> HIDE DEF w
  <2>3. Writing("get_listable_tags", w)
    BY <2>1, <2>2, OwnFields DEF Writing, Own
  <2> QED  BY <2>3
<1>4. CASE ParseServiceInfo
  <2>1. \E w : Writing("parse_service_info_response", w)
    BY <1>4, OwnFields, WritingParsed DEF ParseServiceInfo
  <2> QED  BY <2>1
<1>5. CASE ParseCreate
  <2>1. \E w : Writing("parse_create_response", w)
    BY <1>5, OwnFields, WritingParsed DEF ParseCreate
  <2> QED  BY <2>1
<1>6. CASE ParseReadObject
  <2>1. \E w : Writing("parse_read_object_response", w)
    BY <1>6, OwnFields, WritingParsed DEF ParseReadObject
  <2> QED  BY <2>1
<1>7. CASE ParseGetUserMeta
  <2>1. \E w : Writing("parse_get_user_meta_response", w)
    BY <1>7, OwnFields, WritingParsed DEF ParseGetUserMeta
  <2> QED  BY <2>1
<1>8. CASE ParseSystemMeta
  <2>1. \E w : Writing("get_system_metadata", w)
    BY <1>8, OwnFields, WritingParsed DEF ParseSystemMeta
  <2> QED  BY <2>1
<1>9. CASE ParseGetAcl
  <2>1. \E w : Writing("parse_get_acl_response", w)
    BY <1>9, OwnFields, WritingParsed DEF ParseGetAcl
  <2> QED  BY <2>1
<1>10. CASE ParseGetInfo
  <2>1. \E w : Writing("parse_get_info_response", w)
    BY <1>10, OwnFields, WritingParsed DEF ParseGetInfo
  <2> QED  BY <2>1
<1>11. CASE ReturnVersion
  <2>1. \E w : Writing("parse_create_version_response", w)
    BY <1>11, OwnFields, WritingParsed DEF ReturnVersion
  <2> QED  BY <2>1
<1>12. CASE ReturnToken
  <2>1. \E w : Writing("create_access_token", w)
    BY <1>12, OwnFields, WritingParsed DEF ReturnToken
  <2> QED  BY <2>1
<1>13. CASE ParseTokenInfo
  <2>1. \E w : Writing("parse_get_token_info_response", w)
    BY <1>13, OwnFields, WritingParsed DEF ParseTokenInfo
  <2> QED  BY <2>1
<1>14. CASE ParseDirectory
  <2>1. \E w : Writing("list_directory", w)
    BY <1>14, OwnFields, WritingParsed DEF ParseDirectory
  <2> QED  BY <2>1
<1>15. CASE ParseObjects
  <2>1. \E w : Writing("list_objects", w)
    BY <1>15, OwnFields, WritingParsed DEF ParseObjects
  <2> QED  BY <2>1
<1>16. CASE ParseVersions
  <2>1. \E w : Writing("list_versions", w)
    BY <1>16, OwnFields, WritingParsed DEF ParseVersions
  <2> QED  BY <2>1
<1>17. CASE ParseAccessTokens
  <2>1. \E w : Writing("parse_list_access_tokens_response", w)
    BY <1>17, OwnFields, WritingParsed DEF ParseAccessTokens
  <2> QED  BY <2>1
<1> QED
  BY <1>1, <1>2, <1>3, <1>4, <1>5, <1>6, <1>7, <1>8, <1>9, <1>10, <1>11,
     <1>12, <1>13, <1>14, <1>15, <1>16, <1>17
     DEF ResponseHalf

(* No filter, on the way out, does anything to the request.                *)
LEMMA ResponseHeaders ==
  ASSUME IInv, HInv, ResponseHalf
  PROVE  HInv'
<1>1. CASE UnmarshalNothing
  BY <1>1, UnmarshalHeaders
<1>2. CASE \E filter, w : Writing(filter, w)
  BY <1>2, ReturnHeaders DEF Writing
<1> QED  BY <1>1, <1>2, ResponseWrites

LEMMA StutterHeaders ==
  ASSUME HInv, UNCHANGED vars
  PROVE  HInv'
<1>1. /\ pc' = pc /\ depth' = depth /\ request' = request
      /\ response' = response /\ sent' = sent /\ signed' = signed
  BY DEF vars
<1>2. RequestType' /\ DepthInv' /\ CodeInv'
  BY <1>1 DEF HInv, RequestType, DepthInv, CodeInv
<1>3. \A name : Turns(name)' = Turns(name) /\ (Ahead(name)' <=> Ahead(name))
  BY <1>1 DEF Turns, Ahead
<1>4. CountInv' /\ SignedInv'
  BY <1>1, <1>3 DEF HInv, CountInv, SignedInv
<1>5. TypeInv'
  BY <1>1, <1>3 DEF HInv, TypeInv, Has
<1>6. SignatureInv'
  BY <1>1 DEF HInv, SignatureInv, Signed, SignedBy
<1> QED  BY <1>1, <1>2, <1>4, <1>5, <1>6 DEF HInv

(* The invariant is inductive.                                             *)
LEMMA NextHeaders == IInv /\ HInv /\ [Next]_vars => HInv'
<1> SUFFICES ASSUME IInv, HInv, [Next]_vars PROVE HInv'
  OBVIOUS
<1>1. CASE \E op \in Calls : \E options \in OptionsOf(op) : Call(op, options)
  BY <1>1, CallHeaders
<1>2. CASE \E code \in Codes, has \in SUBSET AnswerParts : Answer(code, has)
  BY <1>2, AnswerHeaders
<1> QED
  BY <1>1, <1>2, CallAgainHeaders, RequestHeaders, TransportErrorHeaders,
     ResponseHeaders, StutterHeaders DEF Next

-----------------------------------------------------------------------------
(* The response object fits, whatever is called but set_acl.               *)

Fit == request.op # "set_acl" => WritesFitResponse

(* The filters of a chain write fields of its operation, unless it is      *)
(* set_acl.                                                                *)
LEMMA FilterFits ==
  ASSUME NEW op \in DOMAIN Operation, op # "set_acl",
         NEW i \in 1 .. Len(Chain(op)), NEW field \in FieldNames,
         Writes(Chain(op)[i], field)
  PROVE  field \in Operation[op].fields
<1> DEFINE list == Operation[op].filters
           k == Len(list)
<1>1. /\ k \in 0 .. 3
      /\ Len(Chain(op)) = k + 6
      /\ \A j \in 1 .. k : Chain(op)[j] = list[k + 1 - j]
  BY ChainShape
<1>2. \A j \in 1 .. k, f \in FieldNames :
        Writes(list[j], f) => f \in Operation[op].fields
  BY Rows DEF Row, Fits
<1>3. CASE i <= k
  <2>1. k + 1 - i \in 1 .. k
    BY <1>1, <1>3
  <2>2. Chain(op)[i] = list[k + 1 - i]
    BY <1>1, <1>3
  <2> HIDE DEF list, k
  <2> QED  BY <1>2, <2>1, <2>2
<1>4. CASE i > k
  <2>1. Chain(op)[i] \in {"parse_atmos_error", "add_date", "add_uid",
            "set_content_headers", "sign_request", "execute_curl_request"}
    <3>1. i \in {k + 1, k + 2, k + 3, k + 4, k + 5, k + 6}
      BY <1>1, <1>4
    <3> QED  BY <3>1, ChainShape
  <2>2. \A f \in {"parse_atmos_error", "add_date", "add_uid",
            "set_content_headers", "sign_request", "execute_curl_request"} :
          ~Writes(f, field)
    BY DEF Writes
  <2> QED  BY <2>1, <2>2
<1> QED  BY <1>1, <1>3, <1>4

(* A filter that writes its own fields writes fields that are there. The   *)
(* error is written for a POST or a GET only, none of which has a plain    *)
(* response.                                                               *)
LEMMA FitReturn ==
  ASSUME IInv, HInv, Fit, NEW filter, NEW w, Writing(filter, w)
  PROVE  Fit'
<1> DEFINE row == Operation[request.op]
<1>1. /\ pc = "response"
      /\ Chain(request.op)[depth] = filter
      /\ response' = [response EXCEPT !.written = @ \cup w]
      /\ request' = request
  BY DEF Writing, Return, AtFilter
<1>2. request.op \in DOMAIN Operation
  BY <1>1, RequestFacts
<1>3. depth \in 1 .. Len(Chain(request.op))
  BY <1>1 DEF HInv, DepthInv
<1>4. response'.written = response.written \cup w
  BY <1>1 DEF IInv, ResponseType, Responses
<1>5. SUFFICES ASSUME request.op # "set_acl"
               PROVE  /\ response'.written \ {"atmos_error"} \subseteq row.fields
                      /\ "atmos_error" \in response'.written => ~row.plain
  BY <1>1 DEF Fit, WritesFitResponse
<1>6. request.op # "none"
  BY <1>2, Table, TableDomains
<1>7. /\ response.written \ {"atmos_error"} \subseteq row.fields
      /\ "atmos_error" \in response.written => ~row.plain
  BY <1>5, <1>6 DEF Fit, WritesFitResponse
<1>8. \A field \in w \ {"atmos_error"} : field \in row.fields
  BY <1>1, <1>2, <1>3, <1>5, FilterFits DEF Writing
<1>9. "atmos_error" \in w => ~row.plain
  BY <1>2, Rows DEF Writing, Row, Fits
<1> QED  BY <1>4, <1>7, <1>8, <1>9

(* A filter that gives up looks at the kind of the response first.         *)
LEMMA FitGiveUp ==
  ASSUME IInv, HInv, Fit, NEW filter, NEW headers, GiveUp(filter, headers)
  PROVE  Fit'
<1>1. /\ pc = "request" /\ response.written = {}
      /\ request' = [request EXCEPT !.headers = @ \o headers]
  BY DEF GiveUp, IInv, Untouched
<1>2. request \in Requests
  BY <1>1, RequestFacts
<1>3. request'.op = request.op
  BY <1>1, <1>2 DEF Requests
<1>4. response'.written = IF Operation[request.op].plain THEN {}
                          ELSE {"atmos_error"}
  BY <1>1, GiveUpResponse
<1> QED  BY <1>3, <1>4 DEF Fit, WritesFitResponse

(* On the way in, nothing has been written.                                *)
LEMMA FitClean ==
  ASSUME response'.written = {}
  PROVE  Fit'
BY DEF Fit, WritesFitResponse

(* On the way in only a filter that gives up writes.                       *)
LEMMA FitRequest ==
  ASSUME IInv, HInv, Fit, RequestHalf
  PROVE  Fit'
<1>1. CASE ChecksumFails \/ MarshalFails
  BY <1>1, FitGiveUp DEF ChecksumFails, MarshalFails
<1>2. CASE ~(ChecksumFails \/ MarshalFails)
  <2>1. pc = "request" /\ response' = response
    BY <1>2 DEF RequestHalf, AddDate, AddUid, SetContentHeaders, SignRequest,
       SetWriteHeaders, UpdateObject, SetReadObjectHeaders,
       SetGetUserMetaHeaders, GetSystemMetadata, SetPaginationHeaders,
       ListDirectory, GetListableTags, ListObjects, ParseCreateVersion,
       CreateAccessToken, PassThrough, ExecuteCurlRequest, PassOn
  <2> QED  BY <2>1, FitClean DEF IInv, Untouched
<1> QED  BY <1>1, <1>2

(* The fit is inductive.                                                   *)
LEMMA NextFit == IInv /\ HInv /\ Fit /\ [Next]_vars => Fit'
<1> SUFFICES ASSUME IInv, HInv, Fit, [Next]_vars PROVE Fit'
  OBVIOUS
<1>1. CASE \E op \in Calls : \E options \in OptionsOf(op) : Call(op, options)
  BY <1>1, FitClean DEF Call, IInv, Untouched
<1>2. CASE CallAgain
  BY <1>2, FitClean DEF CallAgain, FreshResponse
<1>3. CASE RequestHalf
  BY <1>3, FitRequest
<1>4. CASE \E code \in Codes, has \in SUBSET AnswerParts : Answer(code, has)
  <2>1. response'.written = {}
    BY <1>4 DEF Answer, IInv, Untouched, ResponseType, Responses
  <2> QED  BY <2>1, FitClean
<1>5. CASE TransportError
  BY <1>5, FitClean DEF TransportError, IInv, Untouched
<1>6. CASE ResponseHalf
  <2>1. CASE UnmarshalNothing
    BY <2>1 DEF UnmarshalNothing, Fit, WritesFitResponse
  <2> QED  BY <1>6, <2>1, ResponseWrites, FitReturn
<1>7. CASE UNCHANGED vars
  BY <1>7 DEF vars, Fit, WritesFitResponse
<1> QED  BY <1>1, <1>2, <1>3, <1>4, <1>5, <1>6, <1>7 DEF Next

(* The fields are those of the operations.                                 *)
LEMMA AllFields == FieldNames \subseteq Fields
<1> DEFINE Of(op) == Operation[op].fields
<1>1. /\ Of("get_service_information") = {"version"}
      /\ "get_service_information" \in DOMAIN Operation
  BY Table, TableDomains DEF ServiceOps, Op
<1>2. Of("create_object") = {"object_id"} /\ "create_object" \in DOMAIN Operation
  BY Table, TableDomains DEF CreateOps, Op
<1>3. /\ Of("get_object_info") = {"object_info"}
      /\ "get_object_info" \in DOMAIN Operation
  BY Table, TableDomains DEF InfoOps, Op
<1>4. /\ Of("list_directory")
           = {"system_metadata", "meta", "acl", "entries", "token"}
      /\ "list_directory" \in DOMAIN Operation
      /\ Of("get_listable_tags") = {"tags", "token"}
      /\ "get_listable_tags" \in DOMAIN Operation
      /\ Of("list_objects") = {"results", "token"}
      /\ "list_objects" \in DOMAIN Operation
  BY Table, TableDomains DEF ListOps, Op
<1>5. /\ Of("create_version") = {"version_id"}
      /\ "create_version" \in DOMAIN Operation
      /\ Of("list_versions") = {"versions", "token"}
      /\ "list_versions" \in DOMAIN Operation
  BY Table, TableDomains DEF VersionOps, Op
<1>6. /\ Of("create_access_token") = {"token_id"}
      /\ "create_access_token" \in DOMAIN Operation
      /\ Of("list_access_tokens") = {"token_list", "token"}
      /\ "list_access_tokens" \in DOMAIN Operation
      /\ Of("get_access_token_info") = {"token_info"}
      /\ "get_access_token_info" \in DOMAIN Operation
  BY Table, TableDomains DEF TokenOps, Op
<1>7. \A op \in DOMAIN Operation : \A field \in Of(op) : field \in Fields
  BY DEF Fields
<1> DEFINE U == UNION {Operation[op].fields : op \in DOMAIN Operation}
<1>8. "atmos_error" \in Fields
  <2>1. Fields = U \cup {"atmos_error"}
    BY DEF Fields
  <2> HIDE DEF U
  <2> QED  BY <2>1
<1> HIDE DEF Of
<1> QED
  BY <1>1, <1>2, <1>3, <1>4, <1>5, <1>6, <1>7, <1>8 DEF FieldNames

-----------------------------------------------------------------------------
(* What the invariant says of the properties.                              *)
LEMMA HInvTypeOK == IInv /\ HInv => TypeOK
<1> SUFFICES ASSUME IInv, HInv PROVE TypeOK
  OBVIOUS
<1>1. /\ request.op \in Calls \cup {"none"}
      /\ request.headers \in Seq(Headers)
      /\ request.runs \in 0 .. MaxRuns
  BY DEF HInv, RequestType, Requests
<1>2. response.written \subseteq Fields /\ response.has \subseteq AnswerParts
  BY AllFields DEF IInv, ResponseType, Responses
<1>3. Len(signed) <= request.runs
  <2>1. /\ Len(signed) \in Nat
        /\ Len(signed) <= Turns("x-emc-signature")
    BY LenProperties DEF HInv, SignedInv
  <2>2. request.runs \in Nat
    BY <1>1, CallsAssumption DEF CallsAssumption
  <2> QED  BY <2>1, <2>2 DEF Turns
<1>4. sent \in Seq(Seq(Headers))
  BY DEF HInv, SignatureInv
<1> QED
  BY <1>1, <1>2, <1>3, <1>4 DEF TypeOK, HInv, DepthInv, CodeInv

LEMMA HInvOnce == HInv => HeadersOnce
<1> SUFFICES ASSUME HInv, NEW name \in HeaderNames
             PROVE  Count(name, request.headers)
                      <= IF name \in ChecksumHeaders THEN 1 ELSE request.runs
  BY DEF HeadersOnce
<1>1. /\ request.headers \in Seq(Headers)
      /\ request.runs \in 0 .. MaxRuns
      /\ MaxRuns \in Nat
  BY CallsAssumption DEF HInv, RequestType, Requests, CallsAssumption
<1>2. Count(name, request.headers) \in Nat
  BY <1>1, AtFinite
<1>3. Count(name, request.headers)
        <= IF name \in ChecksumHeaders THEN 1 ELSE Turns(name)
  BY DEF HInv, CountInv
<1> QED  BY <1>1, <1>2, <1>3 DEF Turns

LEMMA HInvVerifies == HInv => SignatureVerifies
BY DEF HInv, SignatureInv, Signed, SignedBy, SignatureVerifies

-----------------------------------------------------------------------------
(* The theorems.                                                           *)

(* Each header is on the request as often as the filter that adds it has   *)
(* had its turn, and the signature is of all the others.                   *)
THEOREM HeadersInductive == Spec => [](IInv /\ HInv)
BY InitInv, InitHeaders, NextStep, NextHeaders, PTL DEF Spec

(* No call runs past an end of its chain, and no execution signs twice.    *)
THEOREM TypeCorrect == Spec => []TypeOK
BY HeadersInductive, HInvTypeOK, PTL

(* Whatever the operation and whatever the caller asked for, no header is  *)
(* added twice in one execution of its request.                            *)
THEOREM OncePerExecution == Spec => []HeadersOnce
BY HeadersInductive, HInvOnce, PTL

(* What sign_request signs is what the server computes from the headers it *)
(* receives, whatever filters the operation has.                           *)
THEOREM ServerVerifies == Spec => []SignatureVerifies
BY HeadersInductive, HInvVerifies, PTL

(* The filters of every operation but set_acl write to nothing that the    *)
(* caller's response object does not have.                                 *)
THEOREM ResponsesFit ==
  Spec => [](request.op # "set_acl" => WritesFitResponse)
<1>1. Init => Fit
  BY DEF Init, NoRequest, Fit, WritesFitResponse
<1>2. Fit <=> (request.op # "set_acl" => WritesFitResponse)
  BY DEF Fit
<1> QED  BY <1>1, <1>2, HeadersInductive, NextFit, PTL DEF Spec
=============================================================================
