----------------------------- MODULE MCSigning -----------------------------
(* Instances of Signing for TLC.                                           *)
EXTENDS Signing

(* Every value of at most four characters that the loop tells apart.       *)
Values == UNION {[1 .. n -> {" ", ",", ":", "y"}] : n \in 0 .. 4}

Names == {<<"X">>, <<"x", " ">>, <<"z">>}

Request(list, optional) ==
  [call |-> "sign_request", verb |-> <<"GET">>, type |-> optional,
   range |-> optional, date |-> <<"y">>, uri |-> <<"X", "z">>,
   headers |-> list]

(* One header at a time, with and without a type and a range.              *)
OneHeader ==
  {Request(<<name \o <<":">> \o value>>, optional) :
     name \in Names, value \in Values, optional \in {<< >>}}
    \cup {Request(<< >>, optional) : optional \in {<< >>, <<"y">>}}

SomeHeaders ==
  {<<"X", ":", "y">>, <<"x", " ", ":", " ", "y">>, <<"x", "y", ":", "X">>,
   <<"z", ":", "y">>, <<"X", ":">>}

(* Several headers, in every order, some of them equal.                    *)
ManyHeaders ==
  {Request(hs, <<"y">>) : hs \in UNION {[1 .. n -> SomeHeaders] : n \in 2 .. 3}}

Links ==
  [call: {"shareable_url"}, host: {<<"host">>}, port: {<< >>, <<":", "y">>},
   uri: {<<"X", "z">>},
   uid: {<<"y">>, <<"&", "expires=", "z">>, <<"?", "expires=", "+">>},
   expires: {<<"y">>}, disposition: {<< >>, <<"y", " ", "&", "x">>}]

EveryJob == OneHeader \cup ManyHeaders \cup Links
=============================================================================
