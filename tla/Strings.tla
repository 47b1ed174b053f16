------------------------------- MODULE Strings -------------------------------
(***************************************************************************)
(* The string helpers of lib/atmos_util.c that signing relies on: the      *)
(* string that grows as it is appended to, lower case, escaping, and the   *)
(* loop that normalises the white space of a header in place.              *)
(*                                                                         *)
(* A text is a sequence of characters, without the terminating zero.  A    *)
(* character that the code does not look for stands for any run of such    *)
(* characters.  "X" and "x" are one letter in its two cases.               *)
(***************************************************************************)
EXTENDS Integers, Sequences

Chars == {" ", ",", ":", "\n", "&", "?", "+", "%20", "%26", "%2B", "%3F",
          "X", "x", "y", "z", "GET", "host", "S", "uid=", "expires=",
          "signature=", "disposition="}

LowerChar(c) == IF c = "X" THEN "x" ELSE c

(* AtmosUtil_lowercase.                                                    *)
Lowercase(text) == [k \in DOMAIN text |-> LowerChar(text[k])]

(* AtmosUtil_lowercaseheader: up to the first colon, which every header    *)
(* has.                                                                    *)
LowercaseHeader(header) ==
  [k \in DOMAIN header |->
     IF \E c \in 1 .. k : header[c] = ":" THEN header[k]
     ELSE LowerChar(header[k])]

EscapeChar(c) ==
  CASE c = " " -> "%20" [] c = "&" -> "%26" [] c = "+" -> "%2B"
    [] c = "?" -> "%3F" [] OTHER -> c

(* curl_easy_escape, on the characters a query would take for its own.     *)
Escape(text) == [k \in DOMAIN text |-> EscapeChar(text[k])]

-----------------------------------------------------------------------------
(* The string that grows.  text is the string in the buffer, size what the *)
(* caller's bufsz says; allocated is 0 as long as there is no buffer.      *)

Buffers == [text: Seq(Chars), size: Nat, allocated: Nat]

NoBuffer == [text |-> << >>, size |-> 0, allocated |-> 0]

(* Slip: the terminating zero is not counted.                              *)
MustGrow_NoZero(buf, str) ==
  buf.allocated = 0 \/ Len(buf.text) + Len(str) > buf.size

MustGrow(buf, str) ==
  buf.allocated = 0 \/ Len(buf.text) + Len(str) + 1 > buf.size

(* AtmosUtil_cstring_append, and AtmosUtil_cstring_append_utf8 with an     *)
(* escaped string: room for the string and slack (256) more, and what      *)
(* becomes of the buffer if there is memory.                               *)
CstringAppend(buf, str, slack) ==
  IF MustGrow(buf, str)
    THEN LET newsize == buf.size + Len(str) + slack IN
         [text |-> buf.text \o str, size |-> newsize, allocated |-> newsize]
    ELSE [buf EXCEPT !.text = @ \o str]

-----------------------------------------------------------------------------
(* AtmosUtil_normalize_whitespace.  i and j count from 0, as in the code.  *)
(* trimming is the inner loop behind the first colon.                      *)

Loops == [header: Seq(Chars), i: Nat, j: Nat, sepfound: BOOLEAN,
          trimming: BOOLEAN]

StartLoop(header) ==
  [header |-> header, i |-> 0, j |-> 0, sepfound |-> FALSE, trimming |-> FALSE]

(* The loop is over, and header[j] = 0 ends the text.                      *)
LoopEnds(loop) == loop.i >= Len(loop.header) /\ ~loop.trimming

LoopResult(loop) == SubSeq(loop.header, 1, loop.j)

(* The character at i, and the one behind it: "" behind the last one.      *)
This(loop) == loop.header[loop.i + 1]
NextChar(loop) ==
  IF loop.i + 2 <= Len(loop.header) THEN loop.header[loop.i + 2] ELSE ""

(* Slip: the colons of a value are taken for separators too.               *)
SpaceGoes_AnyColon(loop) == NextChar(loop) \in {"", " ", ",", ":"}

(* The tests for a space that is left out.                                 *)
SpaceGoes(loop) ==
  \/ NextChar(loop) \in {"", " ", ","}
  \/ ~loop.sepfound /\ NextChar(loop) = ":"

Skip(loop) == [loop EXCEPT !.i = @ + 1]

(* header[j++] = header[i].                                                *)
Put(loop) ==
  [loop EXCEPT !.header[loop.j + 1] = This(loop), !.j = @ + 1, !.i = @ + 1]

(* Slip: a comma gets the space behind it that it should have.             *)
LoopStep_SpaceAfterComma(loop) ==
  IF loop.trimming
    THEN IF loop.i < Len(loop.header) /\ This(loop) = " "
           THEN Skip(loop)
           ELSE [loop EXCEPT !.trimming = FALSE]
  ELSE IF This(loop) = " "
    THEN IF SpaceGoes(loop) THEN Skip(loop) ELSE Put(loop)
  ELSE IF This(loop) = ":" /\ ~loop.sepfound
    THEN [Put(loop) EXCEPT !.sepfound = TRUE, !.trimming = TRUE]
  ELSE IF This(loop) = ","
    THEN [Put(loop) EXCEPT !.header[loop.j + 2] = " ", !.j = loop.j + 2]
  ELSE Put(loop)

(* One round of the loop, or one of its inner loop.                        *)
LoopStep(loop) ==
  IF loop.trimming
    THEN IF loop.i < Len(loop.header) /\ This(loop) = " "
           THEN Skip(loop)
           ELSE [loop EXCEPT !.trimming = FALSE]
  ELSE IF This(loop) = " "
    THEN IF SpaceGoes(loop) THEN Skip(loop) ELSE Put(loop)
  ELSE IF This(loop) = ":" /\ ~loop.sepfound
    THEN [Put(loop) EXCEPT !.sepfound = TRUE, !.trimming = TRUE]
  ELSE Put(loop)
=============================================================================
