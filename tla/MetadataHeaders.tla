--------------------------- MODULE MetadataHeaders ---------------------------
(***************************************************************************)
(* The conversions of lib/atmos_util.c between lists of metadata, ACL      *)
(* entries and tags and the text of the headers that carry them.           *)
(*                                                                         *)
(* A text is a sequence of words.  A comma, an equals sign and a space,    *)
(* which delimit something, are words of their own, Umlaut stands for the  *)
(* bytes that are not printable ASCII, and any other word for a run of     *)
(* plain characters.  The escaped forms are words as well.                 *)
(***************************************************************************)
EXTENDS Integers, Sequences, SequencesExt

CONSTANT Words

Texts == Seq(Words)

Comma == "comma"
Equals == "equals"
Space == "space"
Umlaut == "umlaut"

(* curl_easy_escape and curl_easy_unescape.                                *)
EscapedWord ==
  [word \in {Comma, Equals, Space, Umlaut} |->
     CASE word = Comma -> "escaped_comma"
       [] word = Equals -> "escaped_equals"
       [] word = Space -> "escaped_space"
       [] word = Umlaut -> "escaped_umlaut"]

Replace(text, table) ==
  [i \in DOMAIN text |->
     IF text[i] \in DOMAIN table THEN table[text[i]] ELSE text[i]]

Escape(text) == Replace(text, EscapedWord)
Unescape(text) == Replace(text, AntiFunction(EscapedWord))

(* That none of a caller's words looks like an escaped one.                *)
Unescaped(text) == \A i \in DOMAIN text : text[i] \notin Range(EscapedWord)

Encode(text, utf8) == IF utf8 THEN Escape(text) ELSE text
Decode(text, utf8) == IF utf8 THEN Unescape(text) ELSE text

(* Texts appended one after the other, with a separator between them, and  *)
(* a text cut at every comma.                                              *)
Concat(texts) ==
  LET upTo[n \in 0 .. Len(texts)] ==
        IF n = 0 THEN << >> ELSE upTo[n - 1] \o texts[n]
  IN upTo[Len(texts)]

Join(texts, separator) ==
  Concat([i \in DOMAIN texts |->
            (IF i > 1 THEN separator ELSE << >>) \o texts[i]])

Split(text) ==
  LET upTo[n \in 0 .. Len(text)] ==
        IF n = 0 THEN << << >> >>
        ELSE LET parts == upTo[n - 1] IN
             IF text[n] = Comma THEN Append(parts, << >>)
             ELSE [parts EXCEPT ![Len(parts)] = Append(@, text[n])]
  IN upTo[Len(text)]

(* A text without its leading spaces.                                      *)
SkipSpaces(text) ==
  LET first == SelectInSeq(text, LAMBDA word : word # Space) IN
  IF first = 0 THEN << >> ELSE SubSeq(text, first, Len(text))

(* The elements of a list at some of its places, in their order.           *)
Chosen(list, places) ==
  LET upTo[n \in 0 .. Len(list)] ==
        IF n = 0 THEN << >>
        ELSE IF n \in places THEN Append(upTo[n - 1], list[n])
        ELSE upTo[n - 1]
  IN upTo[Len(list)]

(* f, and g where f has no value.                                          *)
f ++ g ==
  [x \in DOMAIN f \cup DOMAIN g |-> IF x \in DOMAIN f THEN f[x] ELSE g[x]]

-----------------------------------------------------------------------------
(* Building headers.                                                       *)

(* AtmosUtil_meta_char_check: whether there is an invalid character.       *)
MetaCharCheck(text) == \E i \in DOMAIN text : text[i] \in {Comma, Equals, Umlaut}

(* Slip: the value is not checked.                                         *)
Skipped_NameOnly(entry, utf8) == ~utf8 /\ MetaCharCheck(entry.name)

(* Outside the UTF-8 mode an entry with an invalid character is left out.  *)
Skipped(entry, utf8) ==
  ~utf8 /\ (MetaCharCheck(entry.name) \/ MetaCharCheck(entry.value))

(* Slip: the name is encoded, the value is not.                            *)
EntryText_RawValue(entry, utf8) ==
  Encode(entry.name, utf8) \o <<Equals>> \o entry.value

EntryText(entry, utf8) ==
  Encode(entry.name, utf8) \o <<Equals>> \o Encode(entry.value, utf8)

(* AtmosUtil_set_metadata_header: the comma depends on the position in the *)
(* list, not on what is in the header already.                             *)
MetadataHeader(meta, utf8) ==
  Concat([i \in DOMAIN meta |->
            IF Skipped(meta[i], utf8) THEN << >>
            ELSE (IF i > 1 THEN <<Comma>> ELSE << >>)
                   \o EntryText(meta[i], utf8)])

(* AtmosUtil_get_permission_string.                                        *)
PermissionString ==
  [none |-> "NONE", read |-> "READ", read_write |-> "WRITE",
   full |-> "FULL_CONTROL", read_acl |-> "READ_ACL",
   write_acl |-> "WRITE_ACL", execute |-> "EXECUTE"]

(* The entries of one type; the only group is 'other'.                     *)
AclSent(acl, type) ==
  Chosen(acl, {i \in DOMAIN acl :
                 /\ acl[i].type = type
                 /\ type = "group" => acl[i].principal = "other"})

(* AtmosUtil_set_acl_header, for one of its two headers.                   *)
AclHeader(acl, type) ==
  Join([i \in DOMAIN AclSent(acl, type) |->
          <<AclSent(acl, type)[i].principal, Equals,
            PermissionString[AclSent(acl, type)[i].permission]>>],
       <<Comma, Space>>)

(* Slip: the tags are not encoded.                                         *)
TagsHeader_Raw(tags, utf8) == Join(tags, <<Comma, Space>>)

(* AtmosUtil_set_tags_header, AtmosUtil_set_tags_header2.                  *)
TagsHeader(tags, utf8) ==
  Join([i \in DOMAIN tags |-> Encode(tags[i], utf8)], <<Comma, Space>>)

-----------------------------------------------------------------------------
(* Parsing headers.                                                        *)

(* Slip: the spaces before the name stay.                                  *)
ParseEntry_KeepsSpaces(part) ==
  LET delimiter == SelectInSeq(part, LAMBDA word : word = Equals) IN
  IF delimiter = 0 THEN [name |-> part, value |-> << >>]
  ELSE [name |-> SubSeq(part, 1, delimiter - 1),
        value |-> SkipSpaces(SubSeq(part, delimiter + 1, Len(part)))]

(* AtmosUtil_parse_meta_header_entry.                                      *)
ParseEntry(part) ==
  LET entry == SkipSpaces(part)
      delimiter == SelectInSeq(entry, LAMBDA word : word = Equals) IN
  IF delimiter = 0 THEN [name |-> entry, value |-> << >>]
  ELSE [name |-> SubSeq(entry, 1, delimiter - 1),
        value |-> SkipSpaces(SubSeq(entry, delimiter + 1, Len(entry)))]

ParseEntries(text) ==
  LET parts == Split(text) IN [i \in DOMAIN parts |-> ParseEntry(parts[i])]

(* ATMOS_SYSTEM_META_NAMES, of which two are kept: one that is never       *)
(* encoded and the one that is.                                            *)
SystemNames == {<<"size">>, <<"objname">>}

(* Slip: the system entries stay.                                          *)
ParseMetaHeaderString_KeepsSystem(text, utf8) ==
  [i \in DOMAIN ParseEntries(text) |->
     [name |-> Decode(ParseEntries(text)[i].name, utf8),
      value |-> Decode(ParseEntries(text)[i].value, utf8)]]

(* AtmosUtil_parse_meta_header_string.                                     *)
ParseMetaHeaderString(text, utf8) ==
  LET entries == ParseEntries(text)
      user == Chosen(entries, {i \in DOMAIN entries :
                                 entries[i].name \notin SystemNames}) IN
  [i \in DOMAIN user |-> [name |-> Decode(user[i].name, utf8),
                          value |-> Decode(user[i].value, utf8)]]

(* Slip: no system entry is decoded.                                       *)
SystemValue_Raw(entry, utf8) == entry.value

(* AtmosUtil_set_system_meta_entry: the object's name is decoded.          *)
SystemValue(entry, utf8) ==
  IF entry.name = <<"objname">> THEN Decode(entry.value, utf8)
  ELSE entry.value

(* The value of the last entry of each name, if there is one.              *)
LastValues(entries, names, default, Value(_)) ==
  [name \in names |->
     LET places == {i \in DOMAIN entries : entries[i].name = name} IN
     IF places = {} THEN default[name] ELSE Value(entries[Max(places)])]

NoSystemMeta == [name \in SystemNames |-> << >>]

(* Slip: any entry is taken for a system entry.                            *)
ParseSystemMeta_AnyName(text, utf8) ==
  LET entries == ParseEntries(text) IN
  LastValues(entries,
             SystemNames \cup {entries[i].name : i \in DOMAIN entries},
             NoSystemMeta, LAMBDA entry : SystemValue(entry, utf8))

(* AtmosUtil_parse_system_meta_header: the last entry of a name counts.    *)
ParseSystemMeta(text, utf8) ==
  LastValues(ParseEntries(text), SystemNames, NoSystemMeta,
             LAMBDA entry : SystemValue(entry, utf8))

(* AtmosUtil_parse_acl.  A permission that is not known leaves the zero of *)
(* a fresh response, which is ATMOS_PERM_NONE.                             *)
ParseAcl(text, type) ==
  [i \in DOMAIN ParseEntries(text) |->
     LET entry == ParseEntries(text)[i]
         known == {p \in DOMAIN PermissionString :
                     entry.value = <<PermissionString[p]>>} IN
     [principal |-> entry.name[1], type |-> type,
      permission |-> IF known = {} THEN "none"
                     ELSE CHOOSE p \in known : TRUE]]

(* Slip: a user and a group of one name are one principal.                 *)
AclPermission_AnyType(acl, principal, type) ==
  LET first == SelectInSeq(acl, LAMBDA a : a.principal = principal) IN
  IF first = 0 THEN "none" ELSE acl[first].permission

(* AtmosUtil_get_acl_permission.                                           *)
AclPermission(acl, principal, type) ==
  LET first == SelectInSeq(acl, LAMBDA a : a.principal = principal
                                             /\ a.type = type) IN
  IF first = 0 THEN "none" ELSE acl[first].permission

(* The words of the code's own.                                            *)
ASSUME WordsAssumption ==
  /\ {Comma, Equals, Space, Umlaut} \cup Range(EscapedWord) \subseteq Words
  /\ Range(PermissionString) \cup {"size", "objname"} \subseteq Words
=============================================================================
