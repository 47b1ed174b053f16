----------------------------- MODULE MCMetadata -----------------------------
(* Instances of Metadata for TLC.                                          *)
EXTENDS Metadata

Entry(name, value, listable) ==
  [name |-> name, value |-> value, listable |-> listable]

(* Plain and empty values, values with a space before, between and a       *)
(* delimiter or an umlaut in them, and a name that needs escapes.          *)
SomeEntries ==
  {Entry(<<"a">>, <<"x">>, FALSE),
   Entry(<<"a">>, <<"y", Space, "x">>, FALSE),
   Entry(<<"b">>, << >>, TRUE),
   Entry(<<"c">>, <<Space, "x">>, FALSE),
   Entry(<<"d">>, <<"x", Comma, "a", Equals, Umlaut>>, TRUE),
   Entry(<<"a", Comma, "b">>, <<"x">>, FALSE)}

(* Outside the UTF-8 mode a name with a comma is two names to the server:  *)
(* tags, unlike metadata, are not checked.  The caller gives none.         *)
PlainNames == {<<"a">>, <<"b">>, <<"size">>}
SomeNames == [mode \in BOOLEAN |->
                IF mode THEN PlainNames \cup {<<"a", Comma, "b">>}
                ELSE PlainNames]

Ace(principal, type, permission) ==
  [principal |-> principal, type |-> type, permission |-> permission]

SomeAclEntries ==
  {Ace("other", "group", "read"), Ace("other", "user", "full"),
   Ace("staff", "group", "full"), Ace("staff", "user", "none")}

AnyWord == STRING
AllOperations == Writes \cup Reads
=============================================================================
