------------------------------ MODULE Metadata ------------------------------
(***************************************************************************)
(* The user metadata and the ACL of one object, written and read through   *)
(* the headers of MetadataHeaders: create_object, set_user_meta,           *)
(* delete_user_meta, set_acl and the operations that read them, with a     *)
(* server that takes the headers apart and puts them together again; and   *)
(* the metadata that a listing carries in its document (list_directory,    *)
(* whose code for them list_objects repeats).                              *)
(***************************************************************************)
EXTENDS MetadataHeaders

CONSTANTS
  Operations,   \* the operations the caller uses
  Utf8Modes,    \* the values of the client's enable_utf8_metadata
  Entries,      \* the metadata entries a caller attaches
  Names,        \* the names a caller deletes or asks for, in either mode
  AclEntries,   \* the ACL entries a caller gives
  MaxEntries,   \* bound on the entries and on the names of a request
  MaxCalls      \* bound on the calls of a behaviour

Writes == {"create_object", "set_user_meta", "delete_user_meta", "set_acl"}
Reads == {"get_user_meta", "get_system_meta", "get_acl", "read_object",
          "list_directory"}

UserMetaReads == {"get_user_meta", "read_object", "list_directory"}
SystemMetaReads == {"get_system_meta", "read_object", "list_directory"}
AclReads == {"get_acl", "read_object"}

ASSUME MetadataAssumption ==
  /\ Operations \subseteq Writes \cup Reads
  /\ Utf8Modes \subseteq BOOLEAN
  /\ \A e \in Entries : /\ e \in [name: Texts, value: Texts, listable: BOOLEAN]
                        /\ Unescaped(e.name) /\ Unescaped(e.value)
  /\ \A e, f \in Entries : e.name = f.name => e.listable = f.listable
  /\ AclEntries \subseteq [principal: Words, type: {"user", "group"},
                          permission: DOMAIN PermissionString]
  /\ {"7", "x", "y", "true"} \subseteq Words
  /\ Names \in [BOOLEAN -> SUBSET Texts]
  /\ \A mode \in BOOLEAN : \A n \in Names[mode] : Unescaped(n)
  /\ MaxEntries \in Nat
  /\ MaxCalls \in Nat

(* What a caller has to see to, since the code does not.  A name is not    *)
(* empty, and outside the UTF-8 mode has no space at its start; a name to  *)
(* delete or to ask for has no comma there, and no metadata is attached    *)
(* under a name of the system's.  A principal is neither a delimiter nor a *)
(* space: it is never escaped.  Nor are the names of get_system_meta: none *)
(* but a system's is such a name between two of its commas.                *)
Usable(name, mode) == name # << >> /\ (mode \/ name[1] # Space)

Whole(name) ==
  \/ name \in SystemNames
  \/ \A i \in DOMAIN Split(name) : SkipSpaces(Split(name)[i]) \notin SystemNames

ASSUME CallerAssumption ==
  /\ \A mode \in Utf8Modes, e \in Entries : Usable(e.name, mode)
  /\ \A mode \in Utf8Modes : \A n \in Names[mode] :
       /\ Usable(n, mode) /\ Whole(n)
       /\ mode \/ \A i \in DOMAIN n : n[i] # Comma
  /\ \A e \in Entries : e.name \notin SystemNames
  /\ \A a \in AclEntries : a.principal \notin {Comma, Equals, Space}

VARIABLES
  pc,        \* where the one thread of control is
  utf8,      \* enable_utf8_metadata of the client
  request,   \* the operation with the caller's lists
  headers,   \* the request's headers: a function from names to texts
  answer,    \* the server's answer: its code, headers and document
  response,  \* the response object
  object,    \* what the server keeps
  wanted,    \* history: what the calls that succeeded asked it to keep
  calls      \* calls so far

vars == <<pc, utf8, request, headers, answer, response, object, wanted, calls>>

NoHeaders == [h \in {} |-> << >>]

Header(name, text) == [h \in {name} |-> text]

(* listable, meta: the value of each name.                                 *)
NewObject == [meta |-> NoHeaders, listable |-> NoHeaders, acl |-> << >>]

NoRequest == [op |-> "none", meta |-> << >>, listable_meta |-> << >>,
              acl |-> << >>, names |-> << >>]

(* system, user: the nodes of an entry's two lists of metadata.            *)
NoDocument == [system |-> << >>, user |-> << >>]

NoAnswer == [http_code |-> 0, headers |-> NoHeaders, document |-> NoDocument]

NoResponse == [http_code |-> 0, meta |-> << >>, listable_meta |-> << >>,
               acl |-> << >>, system |-> NoSystemMeta]

Init ==
  /\ pc = "idle"
  /\ utf8 \in Utf8Modes
  /\ request = NoRequest
  /\ headers = NoHeaders
  /\ answer = NoAnswer
  /\ response = NoResponse
  /\ object = NewObject
  /\ wanted = NewObject
  /\ calls = 0

-----------------------------------------------------------------------------
(* The caller's request and its headers.                                   *)

(* Lists without a name twice.                                             *)
ListsOf(S, Key(_)) ==
  {s \in SeqOf(S, MaxEntries) :
     \A i, j \in DOMAIN s : i # j => Key(s[i]) # Key(s[j])}

EntryLists == ListsOf(Entries, LAMBDA e : e.name)
AclLists == ListsOf(AclEntries, LAMBDA a : <<a.principal, a.type>>)
NameLists == [mode \in BOOLEAN |-> ListsOf(Names[mode], LAMBDA n : n)]

(* The lists that an operation takes.                                      *)
EntriesFor(op) ==
  IF op \in {"create_object", "set_user_meta"} THEN EntryLists ELSE {<< >>}

AclFor(op) ==
  IF op \in {"create_object", "set_acl"} THEN AclLists ELSE {<< >>}

NamesFor(op) ==
  IF op \in {"get_user_meta", "get_system_meta", "list_directory"}
    THEN NameLists[utf8]
  ELSE IF op = "delete_user_meta" THEN NameLists[utf8] \ {<< >>}
  ELSE {<< >>}

Pairs(entries, listable) ==
  LET kept == Chosen(entries, {i \in DOMAIN entries :
                                 entries[i].listable = listable}) IN
  [i \in DOMAIN kept |-> [name |-> kept[i].name, value |-> kept[i].value]]

(* ..._init of request and response, add_metadata, add_acl and add_tag.    *)
BuildRequest(op, entries, acl, names) ==
  /\ pc = "idle"
  /\ calls < MaxCalls
  /\ Len(entries) + Len(acl) <= MaxEntries
  /\ request' = [op |-> op, meta |-> Pairs(entries, FALSE),
                 listable_meta |-> Pairs(entries, TRUE),
                 acl |-> acl, names |-> names]
  /\ headers' = NoHeaders
  /\ response' = NoResponse
  /\ calls' = calls + 1
  /\ pc' = "built"
  /\ UNCHANGED <<utf8, answer, object, wanted>>

Utf8Header == IF utf8 THEN Header("x-emc-utf8", <<"true">>) ELSE NoHeaders

MetaHeaders ==
  (IF request.meta # << >>
     THEN Header("x-emc-meta", MetadataHeader(request.meta, utf8))
     ELSE NoHeaders)
  ++ (IF request.listable_meta # << >>
        THEN Header("x-emc-listable-meta",
                    MetadataHeader(request.listable_meta, utf8))
        ELSE NoHeaders)

(* The headers of AtmosUtil_set_acl_header, each if it has an entry.       *)
AclHeaders ==
  (IF AclSent(request.acl, "user") # << >>
     THEN Header("x-emc-useracl", AclHeader(request.acl, "user"))
     ELSE NoHeaders)
  ++ (IF AclSent(request.acl, "group") # << >>
        THEN Header("x-emc-groupacl", AclHeader(request.acl, "group"))
        ELSE NoHeaders)

TagsHeaderOf(name, tags, encoded) ==
  IF tags # << >> THEN Header(name, TagsHeader(tags, encoded)) ELSE NoHeaders

TagsHeaders(encoded) == TagsHeaderOf("x-emc-tags", request.names, encoded)

(* add_user_tag for the user's names, add_system_tag for the system's.     *)
SystemPlaces == {i \in DOMAIN request.names : request.names[i] \in SystemNames}
UserTags == Chosen(request.names, DOMAIN request.names \ SystemPlaces)
SystemTags == Chosen(request.names, SystemPlaces)

Send(new) ==
  /\ pc = "built"
  /\ headers' = new
  /\ pc' = "sent"
  /\ UNCHANGED <<utf8, request, answer, response, object, wanted, calls>>

(* AtmosFilter_set_write_headers.                                          *)
SetWriteHeaders ==
  /\ request.op \in {"create_object", "set_user_meta"}
  /\ Send(MetaHeaders ++ Utf8Header ++ AclHeaders)

(* AtmosClient_delete_user_meta.                                           *)
DeleteUserMeta ==
  /\ request.op = "delete_user_meta"
  /\ Send(Utf8Header ++ TagsHeaders(utf8))

(* AtmosClient_set_acl.                                                    *)
SetAcl ==
  /\ request.op = "set_acl"
  /\ Send(AclHeaders)

(* AtmosFilter_set_get_user_meta_headers.                                  *)
SetGetUserMetaHeaders ==
  /\ request.op = "get_user_meta"
  /\ Send(Utf8Header ++ TagsHeaders(utf8))

(* AtmosFilter_get_system_metadata, on the way in: the names it asks for   *)
(* are never encoded.                                                      *)
SetSystemMetaHeaders ==
  /\ request.op = "get_system_meta"
  /\ Send(Utf8Header ++ TagsHeaders(FALSE))

(* AtmosFilter_set_read_object_headers, without its ranges.                *)
SetReadObjectHeaders ==
  /\ request.op = "read_object"
  /\ Send(Utf8Header)

(* AtmosClient_get_acl: the ACL is not encoded.                            *)
GetAcl ==
  /\ request.op = "get_acl"
  /\ Send(NoHeaders)

(* AtmosFilter_list_directory and AtmosFilter_list_objects, on the way in, *)
(* with include_meta set: of the two lists of tags one is encoded.         *)
ListWithMeta ==
  /\ request.op = "list_directory"
  /\ Send(Utf8Header ++ Header("x-emc-include-meta", <<"true">>)
            ++ TagsHeaderOf("x-emc-user-tags", UserTags, utf8)
            ++ TagsHeaderOf("x-emc-system-tags", SystemTags, FALSE))

-----------------------------------------------------------------------------
(* The server.  It reads an escaped text as one when x-emc-utf8 says so.   *)

ServerUtf8 == "x-emc-utf8" \in DOMAIN headers

(* A header without text is not sent.                                      *)
HeaderParts(name) ==
  IF name \notin DOMAIN headers \/ headers[name] = << >> THEN << >>
  ELSE [i \in DOMAIN Split(headers[name]) |->
          SkipSpaces(Split(headers[name])[i])]

DelimiterOf(part) == SelectInSeq(part, LAMBDA word : word = Equals)

(* The entries of a header, by name, parts that are empty left out.        *)
SentMeta(name) ==
  LET parts == {part \in ToSet(HeaderParts(name)) : DelimiterOf(part) > 1}
      NameOf(part) == Decode(SubSeq(part, 1, DelimiterOf(part) - 1),
                             ServerUtf8)
      ValueOf(part) == Decode(SubSeq(part, DelimiterOf(part) + 1, Len(part)),
                              ServerUtf8) IN
  [n \in {NameOf(part) : part \in parts} |->
     ValueOf(CHOOSE part \in parts : NameOf(part) = n)]

NamesIn(header) ==
  {Decode(part, ServerUtf8) : part \in ToSet(HeaderParts(header))}

SentNames == NamesIn("x-emc-tags")

SentAcl ==
  LET Of(name, type) ==
        [i \in DOMAIN HeaderParts(name) |->
           LET part == HeaderParts(name)[i] IN
           [principal |-> part[1], type |-> type,
            permission |-> CHOOSE p \in DOMAIN PermissionString :
                             PermissionString[p] = part[3]]] IN
  Of("x-emc-useracl", "user") \o Of("x-emc-groupacl", "group")

Without(f, names) == [n \in DOMAIN f \ names |-> f[n]]

(* A metadata header whose parts are not all of the form name=value.       *)
Malformed ==
  \E name \in {"x-emc-meta", "x-emc-listable-meta"} :
    \E part \in ToSet(HeaderParts(name)) : DelimiterOf(part) <= 1

(* What a request leaves of the object, after set_user_meta or create.     *)
Stored ==
  LET base == IF request.op = "create_object" THEN NewObject ELSE object IN
  CASE request.op \in {"create_object", "set_user_meta"} ->
         [meta |-> SentMeta("x-emc-meta") ++ base.meta,
          listable |-> SentMeta("x-emc-listable-meta") ++ base.listable,
          acl |-> base.acl \o SentAcl]
    [] request.op = "delete_user_meta" ->
         [object EXCEPT !.meta = Without(@, SentNames),
                        !.listable = Without(@, SentNames)]
    [] request.op = "set_acl" -> [object EXCEPT !.acl = SentAcl]

(* What the caller asked for: outside the UTF-8 mode entries that would    *)
(* need it are left out with a warning, and so is a group that is not      *)
(* 'other'.                                                                *)
Plain(text) == {text[i] : i \in DOMAIN text} \cap {Comma, Equals, Umlaut} = {}

Sendable(e) == utf8 \/ (Plain(e.name) /\ Plain(e.value))

Asked(meta) ==
  LET valid == {e \in ToSet(meta) : Sendable(e)} IN
  [n \in {e.name : e \in valid} |-> (CHOOSE e \in valid : e.name = n).value]

AclWanted ==
  Chosen(request.acl,
         {i \in DOMAIN request.acl :
            request.acl[i].type = "group" => request.acl[i].principal = "other"})

Wanted ==
  LET base == IF request.op = "create_object" THEN NewObject ELSE wanted IN
  CASE request.op \in {"create_object", "set_user_meta"} ->
         [meta |-> Asked(request.meta) ++ base.meta,
          listable |-> Asked(request.listable_meta) ++ base.listable,
          acl |-> base.acl \o AclWanted]
    [] request.op = "delete_user_meta" ->
         [wanted EXCEPT !.meta = Without(@, ToSet(request.names)),
                        !.listable = Without(@, ToSet(request.names))]
    [] request.op = "set_acl" -> [wanted EXCEPT !.acl = AclWanted]

Store ==
  /\ pc = "sent"
  /\ request.op \in Writes
  /\ object' = Stored
  /\ wanted' = Wanted
  /\ answer' = [NoAnswer EXCEPT !.http_code = 200]
  /\ pc' = "answered"
  /\ UNCHANGED <<utf8, request, headers, response, calls>>

(* A server may refuse a malformed header or overlook its empty parts.     *)
Refuse ==
  /\ pc = "sent"
  /\ request.op \in Writes
  /\ Malformed
  /\ answer' = [NoAnswer EXCEPT !.http_code = 400]
  /\ pc' = "answered"
  /\ UNCHANGED <<utf8, request, headers, response, object, wanted, calls>>

SystemMeta ==
  [n \in SystemNames |-> IF n = <<"size">> THEN <<"7">> ELSE <<"x", Space, "y">>]

(* The texts of some entries of a function from names to values.           *)
MetaTexts(f, names) ==
  LET order == SetToSeq(DOMAIN f \cap names) IN
  [i \in DOMAIN order |->
     Encode(order[i], ServerUtf8) \o <<Equals>> \o Encode(f[order[i]], ServerUtf8)]

NamesAsked(f) == IF SentNames = {} THEN DOMAIN f ELSE SentNames

SystemAsked ==
  IF request.op = "get_system_meta" THEN NamesAsked(SystemMeta)
  ELSE SystemNames

AclTexts(type) ==
  LET kept == Chosen(object.acl, {i \in DOMAIN object.acl :
                                    object.acl[i].type = type}) IN
  [i \in DOMAIN kept |-> <<kept[i].principal, Equals,
                           PermissionString[kept[i].permission]>>]

HeaderOf(name, texts, separator) ==
  IF texts = << >> THEN NoHeaders ELSE Header(name, Join(texts, separator))

UserMetaTexts(f) ==
  IF request.op \in UserMetaReads THEN MetaTexts(f, NamesAsked(f)) ELSE << >>

(* The server's answer: entries after a comma or a comma and a space, the  *)
(* system metadata among the user's always for an object that is read.     *)
Deliver(separator, with_system) ==
  /\ pc = "sent"
  /\ request.op \in Reads
  /\ request.op # "list_directory"
  /\ with_system => request.op # "get_acl"
  /\ request.op \in SystemMetaReads => with_system
  /\ LET system == IF with_system THEN MetaTexts(SystemMeta, SystemAsked)
                   ELSE << >> IN
     answer' =
       [NoAnswer EXCEPT
        !.http_code = 200,
        !.headers =
          HeaderOf("x-emc-meta", system \o UserMetaTexts(object.meta),
                   separator)
          ++ HeaderOf("x-emc-listable-meta", UserMetaTexts(object.listable),
                      separator)
          ++ (IF request.op \in AclReads
                THEN HeaderOf("x-emc-useracl", AclTexts("user"), separator)
                       ++ HeaderOf("x-emc-groupacl", AclTexts("group"),
                                   separator)
                ELSE NoHeaders)
          ++ (IF ServerUtf8 THEN Header("x-emc-utf8", <<"true">>)
              ELSE NoHeaders)]
  /\ pc' = "answered"
  /\ UNCHANGED <<utf8, request, headers, response, object, wanted, calls>>

(* The nodes of a list, each with its name, value and listable flag.       *)
Nodes(f, names, flag) ==
  LET order == SetToSeq(DOMAIN f \cap names) IN
  [i \in DOMAIN order |->
     [name |-> order[i], value |-> f[order[i]], listable |-> flag]]

(* Tags limit the metadata of an entry.  The repository does not say what  *)
(* tags of the user's names alone do to the system's, and the reverse.     *)
ListedNames(f, header, rest) ==
  IF NamesIn(header) # {} THEN NamesIn(header)
  ELSE IF request.names = << >> \/ rest THEN DOMAIN f
  ELSE {}

(* An entry of a listing.  Texts in a document are not escaped; a node     *)
(* that is not listable may say so or have no flag, and the system's have  *)
(* none.                                                                   *)
DeliverListing(listable_first, flag, rest) ==
  /\ pc = "sent"
  /\ request.op = "list_directory"
  /\ LET UserNodes(f, own_flag) ==
           Nodes(f, ListedNames(f, "x-emc-user-tags", rest), own_flag)
         regular == UserNodes(object.meta, flag)
         listable == UserNodes(object.listable, "true") IN
     answer' =
       [NoAnswer EXCEPT
          !.http_code = 200,
          !.document =
             [system |-> Nodes(SystemMeta,
                               ListedNames(SystemMeta, "x-emc-system-tags",
                                           rest),
                               "none"),
              user |-> IF listable_first THEN listable \o regular
                       ELSE regular \o listable]]
  /\ pc' = "answered"
  /\ UNCHANGED <<utf8, request, headers, response, object, wanted, calls>>

-----------------------------------------------------------------------------
(* The response.                                                           *)

AnswerUtf8 == "x-emc-utf8" \in DOMAIN answer.headers

(* AtmosUtil_parse_user_meta_headers, for one of its two headers.          *)
UserMeta(name) ==
  IF name \notin DOMAIN answer.headers THEN << >>
  ELSE ParseMetaHeaderString(answer.headers[name], AnswerUtf8)

AclOf(name, type) ==
  IF name \notin DOMAIN answer.headers THEN << >>
  ELSE ParseAcl(answer.headers[name], type)

Return(parsed) ==
  /\ pc = "answered"
  /\ response' = [parsed EXCEPT !.http_code = answer.http_code]
  /\ pc' = "idle"
  /\ UNCHANGED <<utf8, request, headers, answer, object, wanted, calls>>

(* AtmosFilter_parse_get_user_meta_response.                               *)
ParseGetUserMeta ==
  /\ request.op = "get_user_meta"
  /\ Return([response EXCEPT
               !.meta = @ \o UserMeta("x-emc-meta"),
               !.listable_meta = @ \o UserMeta("x-emc-listable-meta")])

SystemMetaOf ==
  IF "x-emc-meta" \notin DOMAIN answer.headers THEN response.system
  ELSE ParseSystemMeta(answer.headers["x-emc-meta"], AnswerUtf8)

(* AtmosUtil_parse_acl_headers.                                            *)
AclParsed ==
  AclOf("x-emc-useracl", "user") \o AclOf("x-emc-groupacl", "group")

(* AtmosFilter_get_system_metadata, on the way out.                        *)
ParseSystemMetadata ==
  /\ request.op = "get_system_meta"
  /\ Return([response EXCEPT !.system = SystemMetaOf])

(* AtmosFilter_parse_get_acl_response.                                     *)
ParseGetAcl ==
  /\ request.op = "get_acl"
  /\ Return([response EXCEPT !.acl = @ \o AclParsed])

(* AtmosFilter_parse_read_object_response.                                 *)
ParseReadObject ==
  /\ request.op = "read_object"
  /\ Return([response EXCEPT
               !.meta = @ \o UserMeta("x-emc-meta"),
               !.listable_meta = @ \o UserMeta("x-emc-listable-meta"),
               !.acl = @ \o AclParsed,
               !.system = SystemMetaOf])

(* AtmosUtil_parse_meta leaves the flag alone if the node has none, and    *)
(* its caller has set it to 0.                                             *)
IsListable(node) == node.listable = "true"

(* Slip: the flag is set to 0 once, in front of the first node.            *)
CountNodes_FlagKept(listable) ==
  LET nodes == answer.document.user
      Flag(i) == \E j \in 1 .. i :
                   /\ IsListable(nodes[j])
                   /\ \A k \in j + 1 .. i : nodes[k].listable = "none"
  IN Cardinality({i \in DOMAIN nodes : Flag(i) = listable})

(* AtmosObjectMetadata_parse_usermeta, for one of its two lists: the first *)
(* pass counts the nodes of the kind and allocates as many entries.        *)
CountNodes(listable) ==
  LET nodes == answer.document.user IN
  Cardinality({i \in DOMAIN nodes : IsListable(nodes[i]) = listable})

(* The second pass copies them, one behind the other.                      *)
CopiedNodes(listable) ==
  LET nodes == answer.document.user IN
  Chosen(nodes, {i \in DOMAIN nodes : IsListable(nodes[i]) = listable})

(* What is in the array: an entry that nothing is copied to stays empty,   *)
(* what is copied behind its end is not in it.                             *)
ParseUserNodes(listable) ==
  LET copied == CopiedNodes(listable) IN
  [i \in 1 .. CountNodes(listable) |->
     IF i <= Len(copied)
       THEN [name |-> copied[i].name, value |-> copied[i].value]
       ELSE [name |-> << >>, value |-> << >>]]

(* AtmosObjectMetadata_parse_system_meta.                                  *)
ParseSystemNodes ==
  LastValues(answer.document.system, SystemNames, response.system,
             LAMBDA node : SystemValue(node, FALSE))

(* AtmosDirectoryEntry_parse_entry, AtmosObjectListing_parse_entry.        *)
ParseEntryMeta ==
  /\ request.op = "list_directory"
  /\ Return([response EXCEPT !.meta = ParseUserNodes(FALSE),
                             !.listable_meta = ParseUserNodes(TRUE),
                             !.system = ParseSystemNodes])

(* The answer to a write carries nothing to parse, although set_acl        *)
(* installs the parser of get_acl (FilterChain has what that may do).      *)
ReturnWrite ==
  /\ request.op \in Writes
  /\ Return(response)

-----------------------------------------------------------------------------
Next ==
  \/ \E op \in Operations :
       \E entries \in EntriesFor(op), acl \in AclFor(op),
          names \in NamesFor(op) :
         BuildRequest(op, entries, acl, names)
  \/ SetWriteHeaders \/ DeleteUserMeta \/ SetAcl
  \/ SetGetUserMetaHeaders \/ SetSystemMetaHeaders \/ SetReadObjectHeaders
  \/ GetAcl \/ ListWithMeta
  \/ Store \/ Refuse
  \/ \E separator \in {<<Comma>>, <<Comma, Space>>}, with_system \in BOOLEAN :
       Deliver(separator, with_system)
  \/ \E listable_first, rest \in BOOLEAN, flag \in {"false", "none"} :
       DeliverListing(listable_first, flag, rest)
  \/ ParseGetUserMeta \/ ParseSystemMetadata \/ ParseGetAcl
  \/ ParseReadObject \/ ParseEntryMeta \/ ReturnWrite

Spec == Init /\ [][Next]_vars
-----------------------------------------------------------------------------
(* Properties.                                                             *)

Lists == Seq([name: Texts, value: Texts])

Acls == Seq([principal: Words, type: {"user", "group"},
             permission: DOMAIN PermissionString])

TypeOK ==
  /\ pc \in {"idle", "built", "sent", "answered"}
  /\ utf8 \in Utf8Modes
  /\ request \in [op: Operations \cup {"none"}, meta: Lists,
                  listable_meta: Lists, acl: Acls, names: Seq(Texts)]
  /\ \A h \in DOMAIN headers : headers[h] \in Texts
  /\ answer.http_code \in {0, 200, 400}
  /\ response \in [http_code: {0, 200, 400}, meta: Lists,
                   listable_meta: Lists, acl: Acls,
                   system: [SystemNames -> Texts]]
  /\ calls \in 0 .. MaxCalls

Read(ops) ==
  pc = "idle" /\ request.op \in ops /\ response.http_code = 200

(* Outside the UTF-8 mode a header loses the spaces at the start of a      *)
(* value.                                                                  *)
AsRead(value) ==
  IF utf8 \/ request.op = "list_directory" THEN value ELSE SkipSpaces(value)

(* Which of all names a read may bring back: those asked for with tags, or *)
(* all of them; of the kind of names a listing has no tags for, when it    *)
(* has some for the other kind, all or none.                               *)
Readable(all, tags) ==
  LET asked == ToSet(IF request.op = "list_directory" THEN tags
                     ELSE request.names) IN
  IF asked # {} THEN {asked}
  ELSE IF request.names = << >> THEN {all}
  ELSE {all, {}}

(* A list of the response holds what calls before it stored, each name     *)
(* once.                                                                   *)
ReadsBackAs(list, kept) ==
  \E asked \in Readable(DOMAIN kept, UserTags) :
    LET names == DOMAIN kept \cap asked IN
    /\ ToSet(list) = {[name |-> n, value |-> AsRead(kept[n])] : n \in names}
    /\ Len(list) = Cardinality(names)

(* After the call the server keeps what the calls asked for: what reaches  *)
(* it through commas, escapes and left-out entries is every valid entry,   *)
(* of the kind it was given, no name is changed, added or removed that no  *)
(* request named, and a refused call changes nothing.                      *)
StoredAsGiven ==
  pc = "idle" =>
    /\ object.meta = wanted.meta
    /\ object.listable = wanted.listable
    /\ ToSet(object.acl) = ToSet(wanted.acl)

(* What earlier calls wrote is what get_user_meta, read_object and a       *)
(* listing find, each entry in the list it was given for, whatever the     *)
(* system metadata around it, the spaces after the commas of a header and  *)
(* the flags in a document.                                                *)
ReadsBack ==
  Read(UserMetaReads) =>
    /\ ReadsBackAs(response.meta, wanted.meta)
    /\ ReadsBackAs(response.listable_meta, wanted.listable)

Given(principal, type) ==
  LET aces == {a \in ToSet(wanted.acl) : a.principal = principal
                                            /\ a.type = type} IN
  IF aces = {} THEN "none" ELSE (CHOOSE a \in aces : TRUE).permission

(* get_acl and read_object give every principal the permission it was      *)
(* given, and none to a group of the name of a user or the other way       *)
(* round.                                                                  *)
AclReadsBack ==
  Read(AclReads) =>
    \A a \in AclEntries, type \in {"user", "group"} :
      AclPermission(response.acl, a.principal, type)
        = Given(a.principal, type)

(* The system metadata asked for come out of the header they share with    *)
(* the user's, or out of the document of a listing, each with its value,   *)
(* and the others stay empty.                                              *)
SystemApart ==
  Read(SystemMetaReads) =>
    \E asked \in Readable(SystemNames, SystemTags) :
      \A n \in SystemNames :
        response.system[n] = IF n \in asked THEN SystemMeta[n] ELSE << >>

(* delete_user_meta removes no name but those it was given, as             *)
(* lib/atmos_client.h describes its parameter meta_names, with commas in   *)
(* them in the UTF-8 mode.                                                 *)
DeletesOnlyNamed ==
  [][request.op = "delete_user_meta" =>
       /\ DOMAIN object.meta \subseteq
            DOMAIN object'.meta \cup ToSet(request.names)
       /\ DOMAIN object.listable \subseteq
            DOMAIN object'.listable \cup ToSet(request.names)]_vars
=============================================================================
