------------------------------- MODULE Signing -------------------------------
(***************************************************************************)
(* What a client signs: AtmosClient_canonicalize_request for a request,    *)
(* and AtmosClient_get_shareable_url_internal for a link that is opened    *)
(* without the client.  One call from its beginning to what the server     *)
(* makes of the result, with memory that runs out on the way.              *)
(***************************************************************************)
EXTENDS Strings, FiniteSets

CONSTANTS
  Jobs,       \* the calls: requests to sign and links to make
  Slack,      \* how much more than needed is allocated (256 in the code)
  MaxFaults   \* bound on failures to allocate

Texts == Seq(Chars)

(* A header value that is absent is an empty text.                         *)
SignJobs == [call: {"sign_request"}, verb: Texts, type: Texts, range: Texts,
             date: Texts, uri: Texts, headers: Seq(Texts)]

(* An empty port or disposition is not given.                              *)
LinkJobs == [call: {"shareable_url"}, host: Texts, port: Texts, uri: Texts,
             uid: Texts, expires: Texts, disposition: Texts]

ASSUME SigningAssumption ==
  /\ Jobs \subseteq SignJobs \cup LinkJobs
  /\ Slack \in Nat \ {0}
  /\ MaxFaults \in Nat

VARIABLES
  pc,           \* where the one thread of control is
  job,          \* the call and its arguments
  headers,      \* emc_sorted_headers: those prepared, then those to append
  firstheader,  \* no header has been appended yet
  loop,         \* the header that is being normalised
  pieces,       \* what is still to be appended
  buffer,       \* hash_string, then url
  hash_string,  \* the text that was signed
  url,          \* the link that was returned
  lost          \* how many pieces could not be appended

vars == <<pc, job, headers, firstheader, loop, pieces, buffer, hash_string,
          url, lost>>

Init ==
  /\ job \in Jobs
  /\ pc = IF job.call = "sign_request" THEN "headers" ELSE "link"
  /\ headers = << >>
  /\ firstheader = TRUE
  /\ loop = StartLoop(<< >>)
  /\ pieces = << >>
  /\ buffer = NoBuffer
  /\ hash_string = << >>
  /\ url = << >>
  /\ lost = 0

-----------------------------------------------------------------------------
(* AtmosClient_canonicalize_request: the headers.                          *)

MoreHeaders == Len(headers) < Len(job.headers)

TakeHeader ==
  /\ pc = "headers"
  /\ MoreHeaders
  /\ loop' = StartLoop(LowercaseHeader(job.headers[Len(headers) + 1]))
  /\ pc' = "normalize"
  /\ UNCHANGED <<job, headers, firstheader, pieces, buffer, hash_string, url,
                 lost>>

NormalizeStep ==
  /\ pc = "normalize"
  /\ ~LoopEnds(loop)
  /\ loop' = LoopStep(loop)
  /\ UNCHANGED <<pc, job, headers, firstheader, pieces, buffer, hash_string,
                 url, lost>>

NormalizeEnd ==
  /\ pc = "normalize"
  /\ LoopEnds(loop)
  /\ headers' = Append(headers, LoopResult(loop))
  /\ pc' = "headers"
  /\ UNCHANGED <<job, firstheader, loop, pieces, buffer, hash_string, url,
                 lost>>

(* The order of the characters, as strcmp sees them.                       *)
Order == <<"\n", " ", "%20", "%26", "%2B", "%3F", "&", "+", ",", ":", "?",
           "GET", "S", "X", "disposition=", "expires=", "host",
           "signature=", "uid=", "x", "y", "z">>

Rank(c) == CHOOSE k \in DOMAIN Order : Order[k] = c

(* AtmosUtil_cstring_cmp: s is not behind t.                               *)
NotBehind(s, t) ==
  \E k \in 0 .. Len(s) :
    /\ k <= Len(t)
    /\ \A m \in 1 .. k : s[m] = t[m]
    /\ k < Len(s) => k < Len(t) /\ Rank(s[k + 1]) < Rank(t[k + 1])

Sorted(texts) ==
  \A m, n \in DOMAIN texts : m < n => NotBehind(texts[m], texts[n])

(* An optional text, and a text that there is.                             *)
Optional(text) == IF text = << >> THEN << >> ELSE <<text>>

NewLine == <<"\n">>

(* Everything in front of the headers.                                     *)
SignPieces(req) ==
  <<req.verb, NewLine>> \o Optional(req.type) \o <<NewLine>>
    \o Optional(req.range) \o <<NewLine>> \o Optional(req.date)
    \o <<NewLine, Lowercase(req.uri), NewLine>>

(* qsort.                                                                  *)
SortHeaders ==
  /\ pc = "headers"
  /\ ~MoreHeaders
  /\ \E perm \in [DOMAIN headers -> DOMAIN headers] :
       LET sorted == [k \in DOMAIN headers |-> headers[perm[k]]] IN
       /\ \A k, m \in DOMAIN headers : perm[k] = perm[m] => k = m
       /\ Sorted(sorted)
       /\ headers' = sorted
  /\ pieces' = SignPieces(job)
  /\ pc' = "hash"
  /\ UNCHANGED <<job, firstheader, loop, buffer, hash_string, url, lost>>

(* Only headers whose names begin with "x-emc".                            *)
IsEmc(header) == header # << >> /\ header[1] = "x"

(* The next header, behind a line break unless it is the first.            *)
AppendHeader ==
  /\ pc = "hash"
  /\ pieces = << >>
  /\ headers # << >>
  /\ headers' = Tail(headers)
  /\ IF IsEmc(Head(headers))
       THEN /\ pieces' = (IF firstheader THEN << >> ELSE <<NewLine>>)
                           \o <<Head(headers)>>
            /\ firstheader' = FALSE
       ELSE UNCHANGED <<pieces, firstheader>>
  /\ UNCHANGED <<pc, job, loop, buffer, hash_string, url, lost>>

-----------------------------------------------------------------------------
(* AtmosClient_get_shareable_url_internal.                                 *)

(* Slip: the disposition is added to the link and not signed.              *)
LinkHashPieces_NoDisposition(link) ==
  <<<<"GET", "\n">>, Lowercase(link.uri), NewLine, link.uid, NewLine,
    link.expires>>

LinkHashPieces(link) ==
  <<<<"GET", "\n">>, Lowercase(link.uri), NewLine, link.uid, NewLine,
    link.expires>>
    \o IF link.disposition = << >> THEN << >>
       ELSE <<NewLine, link.disposition>>

(* What HMAC and base64 make of a text: one of its characters is not safe  *)
(* in a query.                                                             *)
Signature == <<"S", "+">>

(* Slip: the signature is put into the link as it is.                      *)
UrlPieces_RawSignature(link) ==
  <<link.host>> \o Optional(link.port) \o
  <<link.uri, <<"?", "uid=">>, Escape(link.uid), <<"&", "expires=">>,
    link.expires, <<"&", "signature=">>, Signature>>
    \o IF link.disposition = << >> THEN << >>
       ELSE <<<<"&", "disposition=">>, Escape(link.disposition)>>

UrlPieces(link) ==
  <<link.host>> \o Optional(link.port) \o
  <<link.uri, <<"?", "uid=">>, Escape(link.uid), <<"&", "expires=">>,
    link.expires, <<"&", "signature=">>, Escape(Signature)>>
    \o IF link.disposition = << >> THEN << >>
       ELSE <<<<"&", "disposition=">>, Escape(link.disposition)>>

StartLink ==
  /\ pc = "link"
  /\ pieces' = LinkHashPieces(job)
  /\ pc' = "hash"
  /\ UNCHANGED <<job, headers, firstheader, loop, buffer, hash_string, url,
                 lost>>

-----------------------------------------------------------------------------
(* Both: a text is built and signed.                                       *)

Appending == pc \in {"hash", "url"} /\ pieces # << >>

AppendPiece ==
  /\ Appending
  /\ buffer' = CstringAppend(buffer, Head(pieces), Slack)
  /\ pieces' = Tail(pieces)
  /\ UNCHANGED <<pc, job, headers, firstheader, loop, hash_string, url, lost>>

(* Slip: the new size is noted although there is no memory.                *)
AppendFails_SizeNoted ==
  /\ Appending
  /\ MustGrow(buffer, Head(pieces))
  /\ lost < MaxFaults
  /\ buffer' = [buffer EXCEPT !.size = @ + Len(Head(pieces)) + Slack]
  /\ pieces' = Tail(pieces)
  /\ lost' = lost + 1
  /\ UNCHANGED <<pc, job, headers, firstheader, loop, hash_string, url>>

(* The next piece is a value that AtmosUtil_cstring_append_utf8 escapes.   *)
MustEscape ==
  /\ pc = "url"
  /\ LET done == Len(UrlPieces(job)) - Len(pieces) IN
       /\ done > 0
       /\ UrlPieces(job)[done] \in {<<"?", "uid=">>, <<"&", "signature=">>,
                                    <<"&", "disposition=">>}

(* realloc fails, or curl_easy_escape returns nothing although there is    *)
(* room: the buffer stays what it was, without the piece, and the caller   *)
(* is not told.                                                            *)
AppendFails ==
  /\ Appending
  /\ MustGrow(buffer, Head(pieces)) \/ MustEscape
  /\ lost < MaxFaults
  /\ pieces' = Tail(pieces)
  /\ lost' = lost + 1
  /\ UNCHANGED <<pc, job, headers, firstheader, loop, buffer, hash_string,
                 url>>

(* AtmosClient_sign takes the length of the text, which may be no text.    *)
Sign ==
  /\ pc = "hash"
  /\ pieces = << >>
  /\ headers = << >>
  /\ IF buffer.allocated = 0
       THEN /\ pc' = "crashed"
            /\ UNCHANGED <<hash_string, pieces, buffer>>
       ELSE /\ hash_string' = buffer.text
            /\ buffer' = NoBuffer
            /\ IF job.call = "sign_request"
                 THEN pc' = "done" /\ UNCHANGED pieces
                 ELSE pc' = "url" /\ pieces' = UrlPieces(job)
  /\ UNCHANGED <<job, headers, firstheader, loop, url, lost>>

ReturnUrl ==
  /\ pc = "url"
  /\ pieces = << >>
  /\ url' = buffer.text
  /\ pc' = "done"
  /\ UNCHANGED <<job, headers, firstheader, loop, pieces, buffer, hash_string,
                 lost>>

Next ==
  \/ TakeHeader \/ NormalizeStep \/ NormalizeEnd \/ SortHeaders
  \/ AppendHeader
  \/ StartLink
  \/ AppendPiece \/ AppendFails
  \/ Sign \/ ReturnUrl

Spec == Init /\ [][Next]_vars

-----------------------------------------------------------------------------
(* The server, which is not part of the repository.                        *)

(* A header in its normal form, said without a loop: these characters stay.*)
FirstColon(header, c) ==
  header[c] = ":" /\ \A k \in 1 .. c - 1 : header[k] # ":"

Stays(header, k) ==
  \/ header[k] # " "
  \/ /\ k < Len(header)
     /\ header[k + 1] \notin {" ", ","}
     /\ ~FirstColon(header, k + 1)
     /\ ~ \E c \in 1 .. k - 1 :
           FirstColon(header, c) /\ \A m \in c + 1 .. k : header[m] = " "

(* How many of the first k characters stay.                                *)
Kept(header, k) == Cardinality({n \in 1 .. k : Stays(header, n)})

NormalForm(header) ==
  [m \in 1 .. Kept(header, Len(header)) |->
     header[CHOOSE k \in DOMAIN header :
              Stays(header, k) /\ Kept(header, k) = m]]

(* The parts of a text between two delimiters: where each begins.          *)
Between(text, from, to) == SubSeq(text, from, to - 1)

UnescapeChar(c) ==
  CASE c \in {"%20", "+"} -> " " [] c = "%26" -> "&" [] c = "%2B" -> "+"
    [] c = "%3F" -> "?" [] OTHER -> c

Unescape(text) == [k \in DOMAIN text |-> UnescapeChar(text[k])]

(* The value of a parameter: what stands behind its name, up to the next   *)
(* "&"; empty if it is not there.                                          *)
QueryParameter(text, name) ==
  LET begins == {k \in 2 .. Len(text) :
                   text[k] = name /\ text[k - 1] \in {"?", "&"}}
      ends(k) == {m \in k .. Len(text) + 1 :
                    m = Len(text) + 1 \/ text[m] = "&"}
  IN IF begins = {} THEN << >>
     ELSE LET k == CHOOSE k \in begins : \A n \in begins : k <= n
              m == CHOOSE m \in ends(k) : \A n \in ends(k) : m <= n
          IN Unescape(Between(text, k + 1, m))

(* The resource of a link: behind the host and the port, up to the "?".    *)
Resource(text, skip) ==
  LET stops == {m \in 1 .. Len(text) + 1 : m = Len(text) + 1 \/ text[m] = "?"}
      stop == CHOOSE m \in stops : \A n \in stops : m <= n
  IN Between(text, skip + 1, stop)

(* The server opens a link if it is a link to this host and the signature  *)
(* is that of the text it puts together itself.                            *)
Endpoint == job.host \o job.port

Opens(link) ==
  LET disposition == QueryParameter(link, "disposition=") IN
  /\ Len(Endpoint) <= Len(link)
  /\ Between(link, 1, Len(Endpoint) + 1) = Endpoint
  /\ QueryParameter(link, "signature=") = Signature
  /\ hash_string =
       <<"GET", "\n">> \o Lowercase(Resource(link, Len(Endpoint))) \o NewLine
         \o QueryParameter(link, "uid=") \o NewLine
         \o QueryParameter(link, "expires=")
         \o IF disposition = << >> THEN << >> ELSE NewLine \o disposition

(* It serves what was asked for.                                           *)
ServesAsked(link) ==
  /\ Resource(link, Len(Endpoint)) = job.uri
  /\ QueryParameter(link, "expires=") = job.expires
  /\ QueryParameter(link, "disposition=") = job.disposition

-----------------------------------------------------------------------------
(* Properties.                                                             *)

(* The loop stays inside the header, and everything has its type.          *)
TypeOK ==
  /\ pc \in {"headers", "normalize", "link", "hash", "url", "done", "crashed"}
  /\ job \in SignJobs \cup LinkJobs
  /\ headers \in Seq(Texts)
  /\ firstheader \in BOOLEAN
  /\ loop \in Loops
  /\ loop.i \in 0 .. Len(loop.header)
  /\ loop.j \in 0 .. Len(loop.header)
  /\ pieces \in Seq(Texts)
  /\ buffer \in Buffers
  /\ hash_string \in Texts
  /\ url \in Texts
  /\ lost \in 0 .. MaxFaults

(* AtmosUtil_cstring_append never writes behind the end of its buffer: the *)
(* text and its zero fit into what was allocated, and bufsz is never more  *)
(* than that, also after a realloc that failed.                            *)
Fits ==
  /\ buffer.size <= buffer.allocated
  /\ buffer.allocated > 0 => Len(buffer.text) + 1 <= buffer.allocated

(* AtmosUtil_normalize_whitespace works in place: what it has still to     *)
(* read is what the header was when it began.                              *)
UnreadIntact ==
  pc = "normalize" =>
    LET input == LowercaseHeader(job.headers[Len(headers) + 1])
        n == Len(input)
    IN /\ Len(loop.header) = n
       /\ loop.j <= loop.i
       /\ \A k \in loop.i + 1 .. n : loop.header[k] = input[k]

(* Where the lines of a text begin and end.                                *)
LinesOf(text) ==
  {p \in (1 .. Len(text)) \X (1 .. Len(text)) :
     /\ p[1] <= p[2]
     /\ p[1] = 1 \/ text[p[1] - 1] = "\n"
     /\ p[2] = Len(text) \/ text[p[2] + 1] = "\n"
     /\ \A k \in p[1] .. p[2] : text[k] # "\n"}

(* The string that is signed has five lines and then the x-emc headers in  *)
(* their normal form, each on a line and none behind one it precedes,      *)
(* whatever their case and spacing and in whichever order the filters      *)
(* added them.                                                             *)
StringToSign ==
  pc = "done" /\ job.call = "sign_request" /\ lost = 0 =>
    LET Form(k) == NormalForm(LowercaseHeader(job.headers[k]))
        emc == {k \in DOMAIN job.headers : IsEmc(Form(k))}
        head == job.verb \o NewLine \o job.type \o NewLine \o job.range
                  \o NewLine \o job.date \o NewLine \o Lowercase(job.uri)
                  \o NewLine
        tail == SubSeq(hash_string, Len(head) + 1, Len(hash_string))
        lines == LinesOf(tail)
        Line(p) == SubSeq(tail, p[1], p[2])
    IN /\ SubSeq(hash_string, 1, Len(head)) = head
       /\ {Line(p) : p \in lines} = {Form(k) : k \in emc}
       /\ Cardinality(lines) = Cardinality(emc)
       /\ \A p, q \in lines : p[1] < q[1] => NotBehind(Line(p), Line(q))

(* A link opens and serves what it was made for, with delimiters and       *)
(* spaces in the user's id and the disposition.                            *)
LinkOpens ==
  pc = "done" /\ job.call = "shareable_url" /\ lost = 0 =>
    Opens(url) /\ ServesAsked(url)

(* A link that lost a piece because memory ran out, or because it could    *)
(* not be escaped, is not taken for another one: it does not open, or it   *)
(* serves what was asked for.                                              *)
LostPieceNoticed ==
  pc = "done" /\ job.call = "shareable_url" /\ lost = 1 /\ Opens(url) =>
    ServesAsked(url)
=============================================================================
