# Verification of atmos-client-c

TLA+ models of the Atmos C SDK (`src/lib`), model-checked with TLC on small
instances; what the models promise for safety is proved for all instances with TLAPS.

The SDK is a sequential library. It starts no threads, keeps nothing on disk and
never retries by itself. What is hard about it is what happens *between* its
calls: a checksum object that the caller carries from request to request while
requests fail, are lost or are executed again; a request that keeps what the
filters of an earlier execution put on it; chains of filters that run inside out
and cast one response object to several classes; response objects that are used
for page after page of a listing.

## 1. Inventory

| Component | Source | State | Operations |
|---|---|---|---|
| AtmosChecksum | `atmos_common.c` 227-485 | digest context, byte count, mode, algorithm | init, destroy, update, update_file, get_state, get_value, verify_response |
| Writing an object | `atmos_create.c`, `atmos_update.c`, `atmos_common.c` 76-225 | request (kind, body, range, metadata, ACL, checksum pointer), its headers, the position of a file body | request init and setters, `AtmosFilter_update_object`, `AtmosFilter_set_write_headers`, the filter that digests a file as it is sent, `AtmosFilter_parse_create_response` |
| Filter chain and signing | `atmos_client.c`, `atmos.c` | the chain, the request's headers, the response object | some 26 operations (with namespace and keypool variants), default filters, canonical string and signature, error parsing |
| Paginated listings | `atmos_read.c` 739-1615, `atmos_versions.c`, `atmos_access_tokens.c` | token and limit of the request; results and token of the response | directories, objects, listable tags, versions, access tokens |
| Metadata, tags, ACLs | `atmos_util.c` 205-1032, `atmos_common.c` 47-71 | fixed-size arrays with counts | building and parsing of the `x-emc-*` headers and of XML metadata |
| Read object, object info, system metadata | `atmos_read.c` | response fields | one filter each |
| Versions, access tokens | `atmos_versions.c`, `atmos_access_tokens.c` | ids and lists in responses | create, list, delete, restore, info |
| Service information | `atmos_service_info.c` | version text | one GET |
| Strings | `atmos_util.c` 25-136 | a buffer and its size | append with reallocation, lower case, white space in place |
| Base64, HMAC, dates | `atmos_util.c` | none | conversions |
| Document bindings | `xmlbind/`, `policy*.xsd` | none | code generated at build time |
| rest-client-c, curl, OpenSSL, libxml2, the Atmos server | outside the repository | | modelled from how `src/lib` uses them, where they matter |

How they interact. A client operation builds a list of filters by prepending
(`RestFilter_add`), so the filter added last runs first. Each filter works on the
request, calls the next one, and works on the response when that returns; the
innermost one does the transfer. A filter that fails returns without calling the
next. Filters share the request's header list and the response object, which each
of them casts to the class it expects. A write request points to the caller's
`AtmosChecksum`, which outlives the request.

What is hard, and what makes each component correct:

* **Checksum and writes.** The checksum is advanced before the request is sent.
  Failures on either side of that point, a lost reply, a file that changes, a
  request executed again with its file where the failure left it: under a
  checksum none of them may lead to wrong data in
  the object, to data counted as stored that are not, or to a checksum that
  succeeds for another object. Whether the caller gets anywhere afterwards is a
  liveness question.
* **Chain and signing.** What is signed has to be what is sent, for every
  operation and combination of inputs; a content type must be chosen before
  signing; no two filters may add the same header; a parser may only write to
  fields the caller's response object has; an error leaves no data behind and a
  success no error; a local failure sends nothing. The text that is signed has to
  be the one the server puts together, whatever the case, the spacing and the order
  of the headers, and also when memory runs out, or nothing is escaped, while it is built.
* **Ranges.** A read and an update touch the bytes the caller asked for, with every
  way to say which and the -1 that stands for an end not set, executed once or again.
* **Listings.** The pages of a listing together hold each entry once, whatever
  request and response objects the caller reuses and whichever pages fail; the
  loop the documentation describes ends.
* **Metadata, tags and ACLs.** What a caller attaches is what the server keeps and
  what a later call reads, with delimiters and spaces inside the texts, entries
  that are skipped, and the system's entries in the same header, in both encodings.

The hazards behind these properties are listed in `PROJECT.json`, each at its
line, with the properties that would notice it going wrong.

## 2. Modules

| Module | Models | State and actions |
|---|---|---|
| `AtmosChecksum` | the checksum object | `Checksum` is the C struct with the digest taken as the bytes it covers (a collision-free digest); `ChecksumInit`, `Update`, `UpdateFile`, `GetState`, `GetValue`, `VerifyResponse` are its functions. Errors of the digest library are parameters: of `*_Init` (`Outcomes`), of `*_Update` (`hashed`) and of `*_Final` (`finished`). |
| `WriteObject` | a caller that stores `Source` with a create and appends, or with whole-object writes | `checksum`, `request`, `file` and `response` are the client's objects, `wire` and `objects` the server's side, `object_id` and `acked` what the caller knows. One action per step: `BuildRequest`, `Execute`, `UpdateObject`, `SetWriteHeaders` (with its error returns), `Deliver`, the server, `Unwind` (the response filters), and what the caller does with the outcome (`Accept`, `Retry`). `file` is the body's file from the beginning of the body on, with its position; `request.from` remembers where it stood when the client was called. |
| `AppendLog` | what storing piece by piece promises | `stored` grows by one piece, then `acked` follows |
| `FilterChain` | one call of any operation of the client | `Operation` is the table of the operations in `atmos_client.c`: method, class of the response object, filters in the order they are added, headers the operation adds itself. `depth` walks the chain inwards (`RequestHalf`) and outwards (`ResponseHalf`), with one action per filter half. |
| `Listing` | a caller that reads a listing page by page with one of the five paginated operations | `request` and `response` are the client's objects, `memory` counts what the parsers have allocated, `answer` is what came back, `token` and `collected` are the caller's. `BuildRequest`, `SetPaginationHeaders`, the server's answers (`AnswerPage`, `AnswerEmpty`, `AnswerGarbled`, `Refuse`, `Cut`), the response filters (`NotParsed`, `ParseDocument`, `ParseTokenList`, `StartTags`, `ParseTag`, `TagsNoMemory`, `FinishTags`) and what the caller does then (`TakePage`, `AskAgain`). |
| `Enumeration` | what a paged listing promises | `out` grows in order, then `finished`; a process that dies on the way (`broken`) |
| `RangedAccess` | a caller that reads and updates parts of one object | `request` has the two numbers of the C struct, `choice` what the caller asked for; `object` is the server's, `copy` the caller's, `unsure` that an answer to an update was lost. `BuildRead` and `BuildUpdate` with the setters, the two filters (`SetReadObjectHeaders`, `UpdateObject`), the server and the connection (`Serve`, `Refuse`, `CutOff`, `LoseReply`), the caller (`Accept`, `Reexecute`, `GiveUp`). |
| `Strings` | string helpers of `atmos_util.c` | operators only: `CstringAppend`, `Lowercase`, `LowercaseHeader`, `Escape`, and `LoopStep`, one round of the loop that normalises white space |
| `Signing` | building the text of a signature, or a shareable link, from the first header to the finished string | `loop` is the header being normalised with its two indices, `pieces` what is still to be appended, `buffer` the string that grows, `lost` how many pieces were lost because memory ran out or `curl_easy_escape` returned nothing. One action per round of the loop (`NormalizeStep`), `SortHeaders`, `AppendHeader`, `AppendPiece` and `AppendFails`, `Sign`, `ReturnUrl`. |
| `MetadataHeaders` | the conversions between lists of metadata, tags and ACL entries and header texts | operators only, one per function of `atmos_util.c`: `MetadataHeader`, `AclHeader`, `TagsHeader`, `ParseMetaHeaderString`, `ParseSystemMeta`, `ParseAcl`, `AclPermission` and their parts |
| `Metadata` | the operations that use them on one object, one after the other | `request`, `headers`, `answer` and `response` are those of the current call, `object` what the server keeps, `wanted` what the calls meant it to keep. `BuildRequest`, one action per request filter (`SetWriteHeaders`, `DeleteUserMeta`, `SetAcl`, `SetGetUserMetaHeaders`, `SetSystemMetaHeaders`, `SetReadObjectHeaders`, `GetAcl`, `ListWithMeta`), the server (`Store`, `Refuse`, `Deliver`, `DeliverListing`), one action per response filter (`ParseGetUserMeta`, `ParseSystemMetadata`, `ParseGetAcl`, `ParseReadObject`, `ParseEntryMeta`). |
| `MCWriteObject`, `MCFilterChain`, `MCListing`, `MCMetadata`, `MCRangedAccess`, `MCSigning` | instances for TLC | |
| `WriteObjectProofs` | lemmas on the checksum operators, `VerifyResponseIsExact`, `TypeCorrect`, `Inductive` and what follows from it | |
| `FilterChainProofs` | `SentOrFailed`, `NoDataWithErrors`, `TypeCorrect`, `OncePerExecution`, `ServerVerifies`, `ResponsesFit`; lemmas on the chain and the table of operations | |
| `MetadataProofs` | lemmas on the conversions of headers, `WritesStoreAsGiven`, `DeleteRemovesOnlyNamed`, `MetadataIsReadBack`, `AclIsReadBack`, `SystemMetaApart`, `TypesHold` | |
| `RangedAccessProofs` | `ReadsWhatWasAsked`, `UpdatesWhatWasAsked`, `CopyStaysTrue`, `TypeCorrect` | |
| `WriteObjectHeaderProofs` | `TransferBeginsInPlace`, `HeaderStaysCurrent`, `WsChecksumDescribesObject`, `GeneratedVerifies`, `GeneratedAccepts`, `RebuiltHeaderMatches` | |
| `SigningProofs` | `TypeCorrect`, `StringFits`, `LoopReadsInput`, `LinkBuilt`, `LinksOpen`, `OneLost`, `LossNoticed` | |
| `SigningStringProofs` | `HeadersNormal`, `StringsSigned` | |
| `ListingProofs` | `Inductive`, `RefinesEnumeration` and what else follows from it | |

`WriteObject` extends `AtmosChecksum` and instantiates `AppendLog` with the
refinement mapping `stored <- Stored` (the content of the caller's object),
`acked <- acked`. `Listing` instantiates `Enumeration` with `out <- collected` and
`finished <- (pc \in {"done", "crashed"})` and
`broken <- (lost \/ pc = "crashed")`, where `lost` remembers that a page arrived and could not
be read. `Metadata` extends
`MetadataHeaders`, `Signing` extends `Strings`.

Operators whose comment begins with "Slip" are not part of the models. They are
plausible mistakes in the code; each property is run against one of them and has
to fail.

### What the models abstract

* Data: a byte is a model value, a digest is the sequence of bytes it covers, an
  object id is its index in `objects`. In `FilterChain` a header is its name and
  a number (the time for `Date`, the index of the signed string for the
  signature); the text of the metadata headers is in `MetadataHeaders`.
* In `Listing` an entry is its position, a token the position it continues from.
  Its parsers assume what the loop does: an initialised response for each page.
* In `MetadataHeaders` a text is a sequence of words. A comma, an equals sign, a
  space and a non-ASCII character are words of their own, since the code looks
  for them, and so are their escaped forms; any other run of characters is one
  word. The words are a constant, `Words`. Escaping is what `curl_easy_escape` does to
  those four; a percent sign in a caller's text is left out (`Unescaped`).
  Two of the 13 system names are kept, `objname`, whose value is decoded, and `size`, for the twelve that are not.
* `CallerAssumption` of `Metadata` lists what the code leaves to its caller. A name is
  not empty (a tag without text is an empty part of a header) and outside the UTF-8 mode
  has no space in front, which the parsers skip; no metadata are attached under a
  name of the system's, since the response filters tell the two apart by their names; a
  principal, which is never escaped, is none of the delimiters. For names to delete or to
  ask for see section 5. A name is also attached in one kind only, listable or not, in
  all calls (`MetadataAssumption`): what a server does with a name that changes
  its kind is not in the repository.
* The server of `Metadata` takes a header apart at its commas, and the text of an
  entry at its first equals sign; it unescapes if the request carries
  `x-emc-utf8`, and puts a comma, or a comma and a space, between the entries of
  an answer. In the document of a listing texts are not escaped, the two kinds of entries
  come in either order, and one that is not listable has a flag or none; if the caller
  limits only the user's or only the system's metadata by tags the other kind is
  there in full or not at all. A header with an empty part or without text it may refuse, or read
  without that part. The repository does not say, so both are modelled.
* In `Strings` and `Signing` a text is a sequence of characters without the zero
  at its end. The characters the code looks for are themselves (a space, a comma, a
  colon, the delimiters of a query); one that stands for nothing stands for any run
  of others, as do the fixed words `GET` or `expires=`. The signature is one
  text with a `+` in it, which is what makes it need escaping.
* The server of `RangedAccess` reads a `Range` header as `test_read_object_range` and
  `test_update_object_range` expect; it refuses a range that is not there and an
  update that does not fill its range; of two `Range` headers it may take either.
* The caller of `WriteObject` reacts to a failure in one of four ways (`Policies`):
  a new request with the checksum it has (`reuse`), a new request with a checksum made
  anew from what was acknowledged (`rebuild`), the same request executed once more
  with its file as the failure left it (`reexecute`), or after
  taking the file back to where the body begins (`rewind`). Nothing in `src/lib`
  rewinds a file: the filter takes back its own reading only, and only if
  `fseeko` works. For a new request the caller's file stands where the body
  begins, which is what the tests see to (`fseek` before every file body, e.g.
  `tests/test_atmos.c:5242`). The file goes on behind the body, with the rest of
  the source, so that a transfer from further on finds bytes to send; one that
  comes to the end of the file sends what there is, and the server gets a
  shorter body.
* A step has at most one fault: `*_Update` and `*_Final` do not fail in the same
  execution of `AtmosFilter_set_write_headers`.
* In `Metadata` the entries of a listing are read in two passes, as in the code:
  `CountNodes` is the length of an array and `CopiedNodes` what is written to it, so that
  passes that disagree show as entries that are empty or missing (`ParseUserNodes`).
* The 64 KB pieces a file is digested in are one step: nothing runs between them
  and the digest does not depend on them.
* The server is external: it stores a write if its range fits and its
  `x-emc-wschecksum` describes the object after the write (which is what
  `lib/atmos_common.h:178-179` relies on), and refuses it otherwise.
* A failed call leaves the response object `http_code` 0 (transport) or 400 (a
  filter of the client), as in the code; a caller builds a fresh response object
  for each execution.

## 3. Runs

| Run | Question | Answer |
|---|---|---|
| `ws_all` | Create and append under a wschecksum, with every fault, every reaction of the caller and every outcome of `AtmosChecksum_init`: can wrong data be stored or counted as stored? | No, also when a request is executed again with its file somewhere else. The object is always a beginning of the source, acknowledged data are in it, after each success the checksum object describes the object, a header in flight is the current state of the checksum, and a transfer begins where the file stood when the client was called, whatever was digested before. The inductive invariant of the proofs holds. |
| `ws_rebuild` | Does a caller that re-creates its checksum after each failure get everything stored? | Yes, once faults stop; the whole implements `AppendLog` including its liveness. |
| `generate` | Does `AtmosChecksum_verify_response` catch damage, and accept what is undamaged? | Yes: what verifies is what the caller wrote unless the digest library lost bytes (section 5), wherever the file stood when it was sent, and an undamaged write verifies for a fresh checksum object and a file body that was sent once, if `*_Final` does not fail. |
| `ranges` | Do reads and updates of parts of an object touch the bytes `atmos_read.h` and `atmos_update.h` say, when transfers fail, answers are lost and requests are executed again? Can the caller keep a true copy? | Yes, with one exception: `set_range_offset_size(0, 0)` reads the whole object. |
| `calls` | For all operations but `set_acl`: is what is signed what is sent, is no header added twice, does the response tell what happened? | Yes. |
| `signing` | Is the string to sign in its normal form for every header of up to four characters and every order of up to three headers? Do links open? Does everything stay inside its buffer, also without memory? | Yes. A piece lost for lack of memory, or because it could not be escaped, gives a request or link that the server refuses, or a link to the same resource. |
| `paging` | Five entries read page by page with each operation, with every fault: does the caller take each entry once and in order, does it end with all of them, is the array of tags large enough and freed? Does the loop end once faults stop, and is it an enumeration of the listing seen from outside? | Yes; an answer that could not be read is the one way to end without all entries, and the caller is not told. What is not freed is in section 5. |
| `metadata` | In both modes: does the server keep what was attached, metadata and ACLs, do later reads find it, are system and user metadata kept apart, does a deletion touch only what it names? | Yes. In UTF-8 mode for texts with any of the delimiters. In the other mode entries that cannot be sent are left out and no other entry suffers from that; leading spaces of a value are lost; names to delete must not have commas (section 5). Groups other than `other` are left out. |
| `ws_reuse`, `set_acl`, `no_body`, `lost_page` | Where the code and its documentation or tests disagree | Each run ends in a counterexample, see section 5. |

### Bounds

* `Source` has three bytes, the first two equal, so that a byte stored twice or
  in the wrong place can pass for the one that belongs there. `Cut` splits it
  into one byte and two (a create, and an append longer than one byte), three
  single bytes (two appends in a row) or everything at once.
* `MaxFaults = 3` and `MaxExecutions = 5 or 6` let a create and an append both
  fail, be retried and fail again in another way. There are two positions at which a
  piece can be lost (before and after the server acts) and one at which the
  checksum advances, so that three faults reach every combination for one piece.
  For generated checksums `MaxFaults = 5`: a damaged write that verifies by accident,
  as in section 5, takes four. The file of a body is at most three bytes long, so a
  transfer that starts further on finds the whole body behind it, a part of it, or nothing.
* `MaxOptions = 3` lets a call combine any three of the things it may ask for; the
  conditions of every filter look at no more than two of them.
  `MaxRuns = 2` is the first execution of a request and one that finds the
  headers of an earlier one.
* `Codes = {200, 201, 304, 500}` has a member on each side of every comparison of
  `http_code` in the filters (200, 201, 299, 399), and 0 and 400 come from the
  client itself.
* `Total = 5` with pages of at most three, or two by a limit, takes two to five pages, so that
  a page can fail at the start, in the middle and at the end, and a token
  can be used twice. `TagsAlloc = 2` (100 in the code) makes the array of tags grow
  within a page.
* `MaxLength = 3` and `MaxFaults = 2` for ranges: a range can begin and end at the
  first, a middle and the last byte and one behind it, and an update can lose its
  answer, be executed again and lose it again.
* `Slack = 2` (256 in the code) makes a buffer grow several times in one text;
  `MaxFaults = 6` lets every piece of a link's text get lost. Header values of up
  to four characters hold each pair of the characters the loop tells apart in
  each place, and one character of lookahead behind them.
* `MaxCalls = 3`, `MaxEntries = 2`: one call attaches, another replaces or deletes,
  a third one reads; a header holds an entry before or behind another
  one, and the system's. The entries include an empty value, a leading
  space, all delimiters and a non-ASCII character at once, two values of one name, and
  a name with a comma; the ACL entries the group `other`, a user of that name, and
  another group and user of one name.

`CHECK_DEADLOCK FALSE`: a behaviour ends when the caller has stored or read
everything, has used up its executions or calls, or has crashed.

The `generate` run leaves out `filechange`: in that mode a file is digested as it
is read for the transfer, so a file that changed before is stored, and verified,
as it is then. `SignatureVerifies` is about the first execution of a request: a
request executed again still carries its first `Date` and signature and signs
them as well, and what a server makes of that is not in the repository.

### Fairness

`FairSpec` is weakly fair to the client's steps and to the server's. The client
is one thread that runs each call to completion, and the transfer returns when
the server answers or the connection breaks. Faults are not fair: they need not
happen, and `MaxFaults` ends them. A caller that may give up promises nothing, so
liveness is checked for the `rebuild` policy, which always tries again. `AppendLog` is
weakly fair to its one next-state action. In `Listing`, `FairSpec` is weakly fair to
`ClientStep`, for the same reason, and to `AnswerPage`: a server whose failures are
over answers. `Enumeration` is weakly fair to its one action. `RangedAccess` is
weakly fair to `ClientStep` and to `Serve`, for the same reasons. A caller there
that does not know what its object holds asks for all of it.

## 4. Proofs

For `WriteObject`: for every source, way of cutting it, mode, set of faults and bound that satisfy
`ConstantsAssumption` and `NullAssumption`:

* `TypeCorrect`: `Spec => []TypeOK`. `TypeOK` alone is not inductive (that
  `acked` stays within the source needs to know which piece the request carries),
  hence `TypeInv`: `TypeOK` with `RequestInv` (the request is the piece that
  starts at `acked`), `WireInv` (what the server received is that request) and
  `IdsInv` (ids are those of objects that exist).
* `Inductive`: `Spec => []IInv`, where `IInv` is `TypeInv` and, under a
  wschecksum, `WsInv`. Its parts are `DigestInv` (a digest never covers more bytes
  than its offset says), `StoredIsPrefix`, `ObjectInv` (the object ends at
  `acked` or one piece further: the piece whose acknowledgement was lost),
  `HeaderInv` (a header covers at least what the object will hold, and one that covers
  just that, with a complete digest, ends in the body of its request), `FileInv` (the
  checksum is never behind the object, and a file that was digested and not brought
  back has all bytes up to its position in the digest)
  and `ResponseInv` (a success is reported only for a write that was done). The
  argument: the server stores a write only if the header describes the object
  after it. If bytes are missing from the digest its offset is too large for that. So
  is the offset of a header that was digested from further on in the file than
  the body begins: the bytes in front are in it already, from the execution that left
  the file there. What is left is a complete digest that
  ends in the request's body, which is the piece after
  `acked`, and its length fixes where the object ends; so whatever precedes is a
  beginning of the source that was there before, and a transfer from somewhere
  else in the file is stored only if its bytes are those of the body.
* `WsStoredIsPrefix`, `WsAckedIsStored` and `WsKeepsLog` (every step is a step of
  `AppendLog` or stutters) follow from `Inductive`.
* `TransferBeginsInPlace`, `HeaderStaysCurrent`, `WsChecksumDescribesObject`: `IInv` says
  what a header may describe, not where a transfer begins or what the caller's checksum
  has become in the meantime. `BodyInv` adds the first (from the call of the client to
  the transfer a file stands where it stood at the call, which is the beginning of the body
  on a first execution, and it reaches to the end of the body at least). The theorem says nothing
  of where that is on a later execution, since the code does not; what comes
  of it is `WsStoredIsPrefix` and `GeneratedVerifies`.
  `CurrentInv` adds the second (once a header is on a request only a body that passes the
  digesting filter could move the checksum, and those have no header), and
  `DescribesInv` follows the id of the object through the response filters. The
  first two hold in every mode.
* `GeneratedVerifies`, `GeneratedAccepts`: both follow from `GenInv`, for generated
  checksums without the fault `filechange` (`GenAssumption`). Its parts are
  `GenDigestInv` (a digest that lost nothing ends in the body of a request that got a
  success, and counts as many bytes as the request added if the body passed once),
  `GenRequestInv` (the first execution digests the body, later ones digest only a
  file) and `GenResponseInv` (a success carries the checksum of what was stored).
  What verifies is then a digest that ends in what was sent and is as long. All that is ever read of
  the file passes the digest, so the digest is at least as long as the position
  the file has reached: where it is just as long as what was sent, the
  file was sent from its beginning.
* `RebuiltHeaderMatches`: for callers that only use the policy `rebuild`, whatever the
  faults. `RebuildInv` says where the checksum stands: it is the digest of the
  bytes up to `acked` until the filter has set the header, and of those up to
  `Cut[acked]` from there until the write has failed, provided that no byte was lost
  (`IsBeginning`). `ContentIsBeginning` is the other side: after an undamaged
  write the object is the source up to `Cut[acked]`, also when the piece was already
  there because its acknowledgement had been lost. With the policy `reuse` the
  property fails (`ws_reuse`).
* `SigningProofs!TypeCorrect`, `StringFits`, `LoopReadsInput`: memory safety of building
  a text, for every request, link and header and every number of failed
  reallocations. `Fits` alone is not inductive: `FittingBuffer` adds that the
  size the caller keeps is the size of the buffer, and that there is no text without a
  buffer. The first allocation only has room for the zero because more than the
  string is allocated, hence `Slack # 0` in `SigningAssumption`. `UnreadIntact` rests
  on the write index staying behind the read index (`InPlace`), `TypeOK` on which of
  the two calls is at which place (`PcInv`).
* `LinkBuilt`, `LinksOpen`: what a link says, for every host, port, path, user, time of
  expiry and disposition. `LinkInv` holds while no reallocation has failed: the text
  in the buffer is the pieces in front of those that are left (`Built`, which names the
  texts on the way, so that no induction over the pieces is needed), the signed text is
  `HashText` and the finished link `UrlText`. `BuiltOpens` then reads the link as the
  server does. Each part of it sits at its offset (`Has`, `Parts`), and the name of a
  parameter stands behind a delimiter in one place only, because what is escaped
  contains no delimiter (`EscapedText`) and the rest of the link none by `PlainLink`
  (`ParameterAt`, `ParameterAbsent`, `PartsFound`). `PlainLink` is the hypothesis of
  `LinksOpen`: the code escapes the user's id, the signature and the disposition but
  neither host, port nor path, so these must be free of `?` and of the names of the
  parameters, and the time of expiry is a number. It cannot be dropped: `LinkOpens`
  fails for a path with a `?` in it. That `uid` and `disposition` are free of `Escaped`
  only says that the characters that stand for `%20` and its like come from escaping.
  All links of the run `signing` are plain.
* `OneLost`, `LossNoticed`: `LostPieceNoticed`, a link of which one piece was lost because
  a reallocation or an escape failed. `LostInv` says which links there can be: if the piece belonged
  to the text that is signed, the link is whole and serves what was asked for
  whatever its signature (`BuiltOpens`); if it belonged to the link, the signed text is
  whole and the link is what one gets without the piece (`Lose`, `BuiltLost`).
  `LostLink` shows that the server opens the latter only if the piece was empty, so that
  nothing was lost. It compares what was signed with what the server finds
  (`OpensSees`). Without a value, the host, the port or the path the text the server
  puts together is too short, or the signature is (`ValueLost`). Without `?uid=` the
  whole rest is the path and the text too long (`UidLost`); without `&signature=`
  there is no signature (`SignatureLost`); without `&disposition=` the signature
  is too long (`DispositionLost`). Without `&expires=` the length is right: the digits of
  the time end up behind the user's id. Then the line of the time is empty, where
  the signed text has a digit (`ExpiresLost`); that is what `Dated` is for, and `%lld` in
  `AtmosClient_get_shareable_url_internal` prints at least one. `PlainLink` is the
  hypothesis of `LinksOpen`.
* `HeadersNormal`: `Spec => [](IInv /\ HeadersInv)`. `AtmosUtil_normalize_whitespace`
  is a loop with a state of its own, so what it computes is an invariant and no induction
  over the header is needed. `Normalizing` says what the loop has done so far: what
  stands in front of its write index are those of the characters it has read that
  `Stays` keeps, in their order (`Written`, by `Kept`, the number of characters that
  stay), and its two flags tell whether the first colon has been seen and whether there
  was only white space since (`Flags`). `NormalForm` says the same of the whole header
  without a loop. `LoopStepNormalizing` has one case per branch of the loop; the inner
  loop behind the colon, which may run up to the end of the header, is
  `TrimNormalizing` and `TrimEndNormalizing`.
* `StringsSigned`: `StringToSign` for every request whose headers have no line break in
  them (`PlainRequest`: with one the lines of the string are no longer the headers; the
  code does not look for it). `StringInv` holds while no reallocation has failed: there is a list of all headers, sorted and each of them prepared
  (`Whole`, with the permutation `qsort` chose), of which the last are still to
  be appended (`Behind`), and the buffer and the pieces that are left make up
  the five lines and the x-emc headers among the first (`Completes`, `Lines`).
  `Lines` gives each header the place at which it stands, a line break before and
  behind it, and no character that is none of theirs; `LinesFound` reads
  the string as the property does, by its line breaks, and finds these places. The
  permutation is onto (`PermOnto`), so that nothing is signed twice or left out
  (`EmcSame`), also when several headers have the same text.
* `ListingProofs!Inductive`: `Spec => []IInv` for `Listing`, for every number of
  entries, limit, size of page, growth of the array of tags and any faults. Its
  parts are `RequestInv` (a request asks for the caller's token and no other, also
  when it is executed again and carries its headers twice), `AnswerInv` (the page on
  its way back is the one behind what the caller has, and its token points to
  the entry behind it), `ResponseInv` (the response holds a beginning of that page,
  all of it unless something was lost), `CollectedInv` (what the caller has ends
  where its token points to) and `MemoryInv` (what is allocated is what the
  destructor of that response will free). `InOrderOnce` is not inductive without the first four:
  whether the next page overlaps what was collected depends on the token of the
  request, which was copied from a response two steps before.
* `RefinesEnumeration`: `Spec => Enum!Safety`. A page taken is a `Deliver`, or a
  `DeliverRest` once something was lost; an answer that cannot be read, an array that
  cannot grow and the missing body are a `Break`; all other steps stutter.
  `EntriesInOrder`, `TagsFitAlways`, `NothingKept` and `TypeCorrect` follow from
  `Inductive` alone.
* `FilterChainProofs!Inductive`: `Spec => []IInv` for `FilterChain`, whose parts are
  `Untouched` (the response object is fresh until an answer or a filter's own error
  comes, so a filter that gives up or a failed transfer adds to nothing old),
  `SentInv` and `WrittenInv` (what is written goes with the code, and without an
  answer there is nothing to parse). `SentOrFailed` and `NoDataWithErrors` follow from
  it. Nothing in this proof looks at the order of the filters or at the table of
  operations: the two hold for any chain made of these filters.
* `FilterChainProofs!HeadersInductive`: `Spec => [](IInv /\ HInv)`. Here the
  order and the table are what counts. `Adds(filter, body, name)` says which headers a
  filter may add. `AddsOnce` shows, from the rows of the table (`Rows`), that no two
  filters of one chain add the same header, `OwnNotAdded` that no filter adds what the
  operation adds itself, and `TypeAdded` that every POST and PUT gets a content type from
  somebody. The invariant counts: a header is on the request as often as the
  request was executed, and once less if the filter that adds it has not had its turn
  (`Ahead`, `Turns`, `CountInv`); the checksum headers, which are only added when they
  are not there, once. `SignedInv` is the same for the signed strings. `TypeInv`
  says that the content type of a POST or a PUT is there or still to come, hence there at
  the end of the chain, so that curl makes up none. `SignatureInv` follows the
  signature from `sign_request` to the server: taken out again (`LastAdded`) the
  headers are those that were signed, and in a first execution there is no other.
  `TypeCorrect`, `OncePerExecution` and `ServerVerifies` follow. `ResponsesFit` has
  an invariant of its own: `FilterFits` shows from the table that a filter writes
  fields of the operation it is installed for, unless that is `set_acl`, and
  that the class of a response that has no room for the API's error goes with a method
  whose errors are not parsed.
* `RangedAccessProofs!Inductive`: `Spec => []IInv` for `RangedAccess`, for objects of
  any length and every range the setters can make. `RequestInv` ties the two numbers
  of the C struct and the header to what was chosen, `ReadInv` and `UpdateInv` the
  object to the caller's copy while a request is under way: the object is the copy,
  or the copy with the update done, and it can only be the latter if the caller knows
  or is unsure. That this survives another execution is `UpdateAgain`: an update of
  a range by as many bytes, or up to the end, done to its own result changes
  nothing (`OverlayAgain`, element by element). `SameSpan` is the arithmetic of the
  -1 that stands for no number, where `NothingAtStart` is the one exception.
* `MetadataProofs!WritesInvariant`: `Spec => []WriteInv` for `Metadata`, for any words,
  entries, names and ACLs that satisfy `WordsAssumption`, `MetadataAssumption` and
  `CallerAssumption`, any number of them in a request and any number of calls. Its parts are
  `RequestInv` (the lists of a request are the caller's, each name in them once),
  `HeadersInv` (a request carries the headers of its operation and no others) and `StoreInv`
  (what the server keeps is what the calls meant it to keep, and came from entries that
  can be sent). `StoreInv` survives a call because a header, cut at its commas, gives
  back the entries that were not left out, each in one part (`MetadataHeaderIs`), and the
  names of a deletion or the entries of an ACL likewise (`JoinedParts`). That is
  where the escapes, the check for characters that cannot be sent and the separators of
  the code have to fit together. `WritesStoreAsGiven` and `DeleteRemovesOnlyNamed` follow.
* `ReadsInvariant`: `Spec => []ReadInv`, which adds to `WriteInv` that the answer is one the
  server gives for what it keeps (`AnswerInv`) and that the response object of a call is
  empty until its filter parses that answer. `MetadataIsReadBack` then follows the text of
  a header through the parser: it falls into the pairs that went into it (`ParsedPairs`),
  none of which is taken for a system's (`Drawn`, `ReadFrom`); in a listing the filter
  counts the entries of each kind and then copies them one by one, and `CarriedRead` shows that
  the two agree (`Carries`). `AclIsReadBack` is the same for principals, where
  a group and a user may have one name.
* `SystemMetaApart`: the header of the system's metadata is asked for by names that are
  never encoded, so what the server sees are the pieces between their commas.
  `SplitBoth` and `TrimmedJoin` say that joining names and cutting the result gives
  the pieces of each, without the spaces in front, and `Whole` that no piece of another
  name is a system's.
* `TypesHold`: `TypeOK` needs `TypeInv` (headers and response of the call before are made of
  words) and that cutting, joining and unescaping lead from texts to texts (`CutTyped`,
  `JoinTyped`).
* `VerifyResponseIsExact`, `VerifyResponseOtherModes`: what
  `AtmosChecksum_verify_response` returns, with the C precedence of its guard.

Every safety invariant and action property of a passing run is the conclusion of
one of these theorems. Only model-checked is liveness, and with it `EventuallySure` and all of `ImplementsLog`
and `ImplementsEnumeration` that is not safety: liveness and `ENABLED` are beyond the
prover. So is what a function computes by recursion over data of any length, wherever
the library's induction theorems would be needed: they take an operator as a parameter,
which none of the installed provers can instantiate. `SetInduction` in
`FilterChainProofs` and `MetadataProofs` is an induction over the naturals for a set
in their place. It is enough for the recursive functions of `Metadata` (`Concat`, `Split`
and the lists the parsers build), whose value up to `n` is the element of a set for each `n`.

## 5. Where the code and its documentation disagree

Shown by a run:

* `ws_reuse`: `atmos_common.h:211-215` tells callers who append more than once to go
  on with the same checksum object for all operations. After a failed append that object is ahead
  of the server, and every later append is refused. Nothing wrong is stored.
* `set_acl`: `AtmosClient_set_acl` installs the response filter of `get_acl`,
  whose response class is larger than the `AtmosResponse` it is given.
* `no_body`: after a transport error the parsers of `list_access_tokens` and
  `get_token_info` hand the missing body to an unmarshaller that takes its length.
* `lost_page`, `EndIsComplete`: a page of objects, of a directory or of versions whose document does not parse (or for
  which `xmlReadMemory` has no memory) is a success without entries, and its token
  is taken; a caller that follows the tokens as `atmos_client.h:788-790` says ends
  without those entries. When the array of tags cannot grow, `get_listable_tags` returns a
  success with some of the tags and without the token, which is how a listing ends; the
  run has both calls, and ends at the first it finds. `ImplementsEnumeration` allows
  for either as the step `Break`.

Modelled as the code has it, without a run of its own:

* `AtmosChecksum_update` only logs that the digest library failed, and counts the bytes
  that were not digested. Under a wschecksum the count goes into the header and the
  server refuses it; `AtmosChecksum_verify_response` does not look at it. A checksum object
  that transfers broken off have left at the very digest of a damaged body verifies that
  body if the digest of its own bytes fails. `VerifiedIsStored` is about digests
  that lost nothing.
* A request that is executed again sends its file from where the execution before
  left it. Under a wschecksum the server refuses what is not the body, and a
  generated checksum does not verify. Without a checksum (mode `NONE`) the bytes
  behind the body, or fewer bytes than announced, are stored for it, and
  the caller is told that all went well. No text in the repository says
  who rewinds the file.
* A failed `*_Final` leaves no digest: under a wschecksum the filter reports it and the
  checksum object is ahead by a piece that was not sent; `verify_response` says that an
  undamaged write does not verify.
* After a failed `*_Init`, `AtmosChecksum_update` tolerates the null context and
  `AtmosChecksum_get_value` reads through it (`WriteObject` then goes to the stage
  `crashed`).
* The parsers that are meant to run only after a success also run when no answer
  came, since `http_code` is 0 then; `get_listable_tags` leaves an empty list
  (`ErrorsCarryNoData` says that this is all).
* The destructors of directory and object listings forget the metadata of their
  entries, and that of a list of versions frees nothing (`ArraysFreed` leaves the
  two out).
* When the first entries of a list are skipped for their characters (`atmos_util.c:359`)
  the metadata header begins with a comma; it is commas only, or nothing
  at all, if all are skipped. A server that overlooks this keeps the right
  entries (`metadata`), one that does not refuses the call (`Malformed` in `Metadata`).
* Outside the UTF-8 mode the names `delete_user_meta` is given are neither checked nor
  encoded. One with a comma is two names to the server, which then deletes
  entries the caller did not name (`CallerAssumption` excludes such names in that
  mode).
* The names `get_system_meta` is given are not encoded in either mode. One that has a
  system's name between two commas asks for that one as well (`Whole` in `Metadata`).
* `set_range_offset_size(0, 0)` sets the end to -1, which is the mark for no end:
  the header is `Bytes=0-` and the whole object is read (`NothingAtStart` in
  `RangedAccess`).
* A reallocation that fails, or a `curl_easy_escape` that returns nothing, loses a piece
  of a string and nobody is told (`AppendFails`). If all fail `AtmosClient_sign` takes the length of a null pointer
  (`Signing` then goes to `crashed`).
* A shareable link to a path with a `?` names another object: everything else in the query
  is escaped, the path is not (`PlainLink` in `SigningProofs`).

## 6. Plan

1. *(done)* `AtmosChecksum`, `WriteObject`, `AppendLog` and their proofs.
2. *(done)* `FilterChain`.
3. *(done)* `Listing` and `Enumeration`.
4. *(done)* `MetadataHeaders` and `Metadata`, but for the lengths of arrays and
   buffers.
5. *(done)* `RangedAccess`, `Strings` and `Signing`.
6. *(done)* `ListingProofs`.
7. *(done)* `FilterChainProofs` and `RangedAccessProofs`.
8. *(done)* `WriteObjectHeaderProofs` and `SigningStringProofs`.
9. *(done)* `MetadataProofs`.
10. The array limits of metadata, tags and ACL entries.

Not planned: the conversions of `atmos_util.c` that keep no state (base64, HMAC,
dates), which are calls into OpenSSL and libc; the generated document bindings;
the fixed buffers of paths and headers, whose `snprintf` cuts off what is too long
(a link to a path longer than `ATMOS_PATH_MAX` is a link to the beginning of that
path); the curl transfer itself.
