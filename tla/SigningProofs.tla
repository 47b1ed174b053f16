---------------------------- MODULE SigningProofs ----------------------------
(* Memory safety of Signing for every request and every link, every amount *)
(* by which a buffer grows and any number of failures to allocate: the     *)
(* string that grows stays inside its buffer, and the loop that normalises *)
(* white space in place stays inside the header and never writes over what *)
(* it has still to read.  And what a link that lost none of its pieces     *)
(* means to the server: the object it was made for, until it expires, to   *)
(* the user whose signature is in it.  A link that lost one of its pieces  *)
(* means the same, or the server does not open it.                         *)
EXTENDS Signing, SequenceTheorems, TLAPS, WellFoundedInduction

-----------------------------------------------------------------------------
(* The operators on texts.                                                 *)

(* Converting each character on its own gives a text of the same length.   *)
LEMMA CharwiseType ==
  ASSUME NEW text \in Texts, NEW new,
         new = [k \in DOMAIN text |-> new[k]],
         \A k \in DOMAIN text : new[k] \in Chars
  PROVE  new \in Texts /\ Len(new) = Len(text)
<1>1. DOMAIN text = 1 .. Len(text) /\ Len(text) \in Nat
  BY LenProperties DEF Texts
<1>2. new \in [1 .. Len(text) -> Chars]
  BY <1>1
<1>3. new \in Seq(Chars)
  BY <1>1, <1>2, SeqDef
<1>4. Len(new) = Len(text)
  BY <1>1, <1>2, <1>3, LenProperties
<1> QED  BY <1>3, <1>4 DEF Texts

LEMMA CharsType ==
  /\ \A c \in Chars : LowerChar(c) \in Chars /\ EscapeChar(c) \in Chars
  /\ {"\n", "GET", "?", "uid=", "&", "expires=", "signature=",
      "disposition=", "S", "+"} \subseteq Chars
BY DEF Chars, LowerChar, EscapeChar

LEMMA TextChar ==
  ASSUME NEW text \in Texts, NEW k \in DOMAIN text
  PROVE  text[k] \in Chars
BY LenProperties, ElementOfSeq DEF Texts

LEMMA LowercaseType ==
  ASSUME NEW text \in Texts PROVE Lowercase(text) \in Texts
<1> DEFINE new == Lowercase(text)
<1>1. new = [k \in DOMAIN text |-> new[k]]
  BY DEF Lowercase
<1>2. \A k \in DOMAIN text : new[k] \in Chars
  BY CharsType, TextChar DEF Lowercase
<1> HIDE DEF new
<1>3. new \in Texts
  BY <1>1, <1>2, CharwiseType
<1> QED  BY <1>3 DEF new

LEMMA LowercaseHeaderType ==
  ASSUME NEW text \in Texts PROVE LowercaseHeader(text) \in Texts
<1> DEFINE new == LowercaseHeader(text)
<1>1. new = [k \in DOMAIN text |-> new[k]]
  BY DEF LowercaseHeader
<1>2. \A k \in DOMAIN text : new[k] \in Chars
  BY CharsType, TextChar DEF LowercaseHeader
<1> HIDE DEF new
<1>3. new \in Texts
  BY <1>1, <1>2, CharwiseType
<1> QED  BY <1>3 DEF new

LEMMA EscapeType ==
  ASSUME NEW text \in Texts PROVE Escape(text) \in Texts
<1> DEFINE new == Escape(text)
<1>1. new = [k \in DOMAIN text |-> new[k]]
  BY DEF Escape
<1>2. \A k \in DOMAIN text : new[k] \in Chars
  BY CharsType, TextChar DEF Escape
<1> HIDE DEF new
<1>3. new \in Texts
  BY <1>1, <1>2, CharwiseType
<1> QED  BY <1>3 DEF new

(* The pieces of each text are texts.                                      *)
LEMMA FixedTexts ==
  /\ NewLine \in Texts /\ Signature \in Texts /\ << >> \in Texts
  /\ <<"GET", "\n">> \in Texts
  /\ <<"?", "uid=">> \in Texts
  /\ <<"&", "expires=">> \in Texts
  /\ <<"&", "signature=">> \in Texts
  /\ <<"&", "disposition=">> \in Texts
BY CharsType DEF Texts, NewLine, Signature

LEMMA ConcatTexts ==
  ASSUME NEW s \in Seq(Texts), NEW t \in Seq(Texts)
  PROVE  s \o t \in Seq(Texts)
BY ConcatProperties

LEMMA OptionalType ==
  ASSUME NEW text \in Texts PROVE Optional(text) \in Seq(Texts)
BY DEF Optional

LEMMA SignPiecesType ==
  ASSUME NEW req \in SignJobs PROVE SignPieces(req) \in Seq(Texts)
<1>1. /\ req.verb \in Texts /\ req.type \in Texts /\ req.range \in Texts
      /\ req.date \in Texts /\ req.uri \in Texts
  BY DEF SignJobs
<1>2. Lowercase(req.uri) \in Texts /\ NewLine \in Texts
  BY <1>1, LowercaseType, FixedTexts
<1> DEFINE a == <<req.verb, NewLine>>  b == Optional(req.type)
           c == <<NewLine>>  d == Optional(req.range)
           e == Optional(req.date)
           f == <<NewLine, Lowercase(req.uri), NewLine>>
<1>3. /\ a \in Seq(Texts) /\ b \in Seq(Texts) /\ c \in Seq(Texts)
      /\ d \in Seq(Texts) /\ e \in Seq(Texts) /\ f \in Seq(Texts)
  BY <1>1, <1>2, OptionalType
<1>4. SignPieces(req) = a \o b \o c \o d \o c \o e \o f
  BY DEF SignPieces
<1> HIDE DEF a, b, c, d, e, f
<1> QED  BY <1>3, <1>4, ConcatTexts

LEMMA LinkHashPiecesType ==
  ASSUME NEW link \in LinkJobs PROVE LinkHashPieces(link) \in Seq(Texts)
<1>1. /\ link.uri \in Texts /\ link.uid \in Texts /\ link.expires \in Texts
      /\ link.disposition \in Texts
  BY DEF LinkJobs
<1>2. /\ Lowercase(link.uri) \in Texts /\ NewLine \in Texts
      /\ <<"GET", "\n">> \in Texts
  BY <1>1, LowercaseType, FixedTexts
<1> DEFINE a == <<<<"GET", "\n">>, Lowercase(link.uri), NewLine, link.uid,
                  NewLine, link.expires>>
           b == IF link.disposition = << >> THEN << >>
                ELSE <<NewLine, link.disposition>>
<1>3. a \in Seq(Texts) /\ b \in Seq(Texts)
  BY <1>1, <1>2
<1>4. LinkHashPieces(link) = a \o b
  BY DEF LinkHashPieces
<1> HIDE DEF a, b
<1> QED  BY <1>3, <1>4, ConcatTexts

LEMMA UrlPiecesType ==
  ASSUME NEW link \in LinkJobs PROVE UrlPieces(link) \in Seq(Texts)
<1>1. /\ link.host \in Texts /\ link.port \in Texts /\ link.uri \in Texts
      /\ link.uid \in Texts /\ link.expires \in Texts
      /\ link.disposition \in Texts
  BY DEF LinkJobs
<1>2. /\ Escape(link.uid) \in Texts /\ Escape(Signature) \in Texts
      /\ Escape(link.disposition) \in Texts
  BY <1>1, EscapeType, FixedTexts
<1> DEFINE a == <<link.host>>  b == Optional(link.port)
           c == <<link.uri, <<"?", "uid=">>, Escape(link.uid),
                  <<"&", "expires=">>, link.expires, <<"&", "signature=">>,
                  Escape(Signature)>>
           d == IF link.disposition = << >> THEN << >>
                ELSE <<<<"&", "disposition=">>, Escape(link.disposition)>>
<1>3. a \in Seq(Texts) /\ b \in Seq(Texts)
  BY <1>1, OptionalType
<1>4. c \in Seq(Texts)
  BY <1>1, <1>2, FixedTexts
<1>5. d \in Seq(Texts)
  BY <1>1, <1>2, FixedTexts
<1>6. UrlPieces(link) = a \o b \o c \o d
  BY DEF UrlPieces
<1> HIDE DEF a, b, c, d
<1> QED  BY <1>3, <1>4, <1>5, <1>6, ConcatTexts

-----------------------------------------------------------------------------
(* The string that grows.                                                  *)

(* The size the caller keeps is the size of the buffer, and the text fits, *)
(* its zero included.                                                      *)
FittingBuffer(buf) ==
  /\ buf \in Buffers
  /\ buf.size = buf.allocated
  /\ buf.allocated = 0 => buf.text = << >>
  /\ buf.allocated > 0 => Len(buf.text) + 1 <= buf.allocated

LEMMA NoBufferFits == FittingBuffer(NoBuffer)
BY DEF FittingBuffer, NoBuffer, Buffers

LEMMA CstringAppendFits ==
  ASSUME NEW buf, FittingBuffer(buf), NEW str \in Texts,
         NEW slack \in Nat \ {0}
  PROVE  FittingBuffer(CstringAppend(buf, str, slack))
<1> DEFINE text == buf.text \o str
           newsize == buf.size + Len(str) + slack
<1>1. /\ buf.text \in Seq(Chars) /\ buf.size \in Nat /\ buf.allocated \in Nat
      /\ str \in Seq(Chars) /\ Len(str) \in Nat /\ Len(buf.text) \in Nat
  BY LenProperties DEF FittingBuffer, Buffers, Texts
<1>2. text \in Seq(Chars) /\ Len(text) = Len(buf.text) + Len(str)
  BY <1>1, ConcatProperties
<1>3. CASE MustGrow(buf, str)
  <2>1. CstringAppend(buf, str, slack)
          = [text |-> text, size |-> newsize, allocated |-> newsize]
    BY <1>3 DEF CstringAppend
  <2>2. newsize \in Nat /\ newsize > 0
    BY <1>1
  <2>3. Len(buf.text) <= buf.size
    <3>1. CASE buf.allocated = 0
      BY <1>1, <3>1, EmptySeq DEF FittingBuffer
    <3>2. CASE buf.allocated > 0
      BY <1>1, <3>2 DEF FittingBuffer
    <3> QED  BY <1>1, <3>1, <3>2
  <2>4. Len(text) + 1 <= newsize
    BY <1>1, <1>2, <2>3
  <2> HIDE DEF text, newsize
  <2> QED  BY <1>2, <2>1, <2>2, <2>4 DEF FittingBuffer, Buffers
<1>4. CASE ~MustGrow(buf, str)
  <2>1. /\ CstringAppend(buf, str, slack) = [buf EXCEPT !.text = text]
        /\ buf.allocated # 0 /\ Len(buf.text) + Len(str) + 1 <= buf.size
    BY <1>1, <1>4 DEF CstringAppend, MustGrow
  <2> HIDE DEF text
  <2>2. [buf EXCEPT !.text = text]
          = [text |-> text, size |-> buf.size, allocated |-> buf.allocated]
    BY DEF FittingBuffer, Buffers
  <2> QED  BY <1>1, <1>2, <2>1, <2>2 DEF FittingBuffer, Buffers
<1> QED  BY <1>3, <1>4

-----------------------------------------------------------------------------
(* The loop on the white space of input.                                   *)

InPlace(lp, input) ==
  /\ lp \in Loops
  /\ Len(lp.header) = Len(input)
  /\ lp.i <= Len(input)
  /\ lp.j <= lp.i
  /\ \A k \in lp.i + 1 .. Len(input) : lp.header[k] = input[k]

LEMMA StartLoopInPlace ==
  ASSUME NEW input \in Texts
  PROVE  InPlace(StartLoop(input), input)
BY LenProperties DEF InPlace, StartLoop, Loops, Texts

(* A round that moves the read index alone.                                *)
LEMMA SkipInPlace ==
  ASSUME NEW input \in Texts, NEW lp, InPlace(lp, input), lp.i < Len(input)
  PROVE  InPlace(Skip(lp), input)
<1>1. Skip(lp) = [header |-> lp.header, i |-> lp.i + 1, j |-> lp.j,
                  sepfound |-> lp.sepfound, trimming |-> lp.trimming]
  BY DEF Skip, InPlace, Loops
<1>2. Len(input) \in Nat
  BY LenProperties DEF Texts
<1> QED  BY <1>1, <1>2 DEF InPlace, Loops

(* A round that copies a character to the front, or back to where it is.   *)
LEMMA PutInPlace ==
  ASSUME NEW input \in Texts, NEW lp, InPlace(lp, input), lp.i < Len(input)
  PROVE  InPlace(Put(lp), input)
<1> DEFINE new == [lp.header EXCEPT ![lp.j + 1] = This(lp)]
<1>2. /\ Len(input) \in Nat /\ lp.i \in Nat /\ lp.j \in Nat
      /\ lp.header \in Seq(Chars) /\ lp.j <= lp.i
      /\ Len(lp.header) = Len(input)
  BY LenProperties DEF Texts, InPlace, Loops
<1>3. lp.j + 1 \in 1 .. Len(lp.header) /\ lp.i + 1 \in 1 .. Len(lp.header)
  BY <1>2
<1>4. This(lp) \in Chars
  BY <1>2, <1>3, ElementOfSeq DEF This
<1>5. /\ new \in Seq(Chars) /\ Len(new) = Len(lp.header)
      /\ \A k \in 1 .. Len(lp.header) :
           new[k] = IF k = lp.j + 1 THEN This(lp) ELSE lp.header[k]
  BY <1>2, <1>3, <1>4, ExceptSeq
<1> DEFINE lp1 == [lp EXCEPT !.header = new]
           lp2 == [lp1 EXCEPT !.j = lp.j + 1]
<1>1. Put(lp) = [lp2 EXCEPT !.i = lp.i + 1]
  BY DEF Put
<1> HIDE DEF new
<1>6. \A k \in lp.i + 2 .. Len(input) : new[k] = input[k]
  BY <1>2, <1>5 DEF InPlace
<1>7. lp1 = [header |-> new, i |-> lp.i, j |-> lp.j,
             sepfound |-> lp.sepfound, trimming |-> lp.trimming]
  BY DEF InPlace, Loops
<1>8. lp1 \in Loops /\ lp1.header = new /\ lp1.i = lp.i /\ lp1.j = lp.j
  BY <1>5, <1>7 DEF InPlace, Loops
<1> HIDE DEF lp1
<1>9. /\ lp2 \in Loops /\ lp2.header = new /\ lp2.i = lp.i
      /\ lp2.j = lp.j + 1
  BY <1>2, <1>8 DEF Loops
<1> HIDE DEF lp2
<1>10. /\ Put(lp) \in Loops /\ Put(lp).header = new
       /\ Put(lp).i = lp.i + 1 /\ Put(lp).j = lp.j + 1
  BY SMTT(30), <1>1, <1>2, <1>9 DEF Loops
<1> QED  BY <1>2, <1>5, <1>6, <1>10 DEF InPlace

LEMMA FlagsInPlace ==
  ASSUME NEW input \in Texts, NEW lp, InPlace(lp, input),
         NEW s \in BOOLEAN, NEW t \in BOOLEAN
  PROVE  InPlace([lp EXCEPT !.sepfound = s, !.trimming = t], input)
<1> DEFINE lp1 == [lp EXCEPT !.sepfound = s]
<1>1. lp1 = [header |-> lp.header, i |-> lp.i, j |-> lp.j, sepfound |-> s,
             trimming |-> lp.trimming]
  BY DEF InPlace, Loops
<1>2. [lp EXCEPT !.sepfound = s, !.trimming = t] = [lp1 EXCEPT !.trimming = t]
  OBVIOUS
<1> HIDE DEF lp1
<1>3. InPlace(lp1, input)
  BY <1>1 DEF InPlace, Loops
<1>4. [lp1 EXCEPT !.trimming = t]
        = [header |-> lp1.header, i |-> lp1.i, j |-> lp1.j,
           sepfound |-> lp1.sepfound, trimming |-> t]
  BY SMTT(30), <1>3 DEF InPlace, Loops
<1> QED  BY <1>2, <1>3, <1>4 DEF InPlace, Loops

LEMMA LoopStepInPlace ==
  ASSUME NEW input \in Texts, NEW lp, InPlace(lp, input), ~LoopEnds(lp)
  PROVE  InPlace(LoopStep(lp), input)
<1>1. Len(lp.header) = Len(input) /\ Len(input) \in Nat /\ lp.i \in Nat
  BY LenProperties DEF Texts, InPlace, Loops
<1>2. CASE lp.trimming
  <2>1. CASE lp.i < Len(lp.header) /\ This(lp) = " "
    <3>1. LoopStep(lp) = Skip(lp)
      BY <1>2, <2>1 DEF LoopStep
    <3> QED  BY <1>1, <2>1, <3>1, SkipInPlace
  <2>2. CASE ~(lp.i < Len(lp.header) /\ This(lp) = " ")
    <3>1. LoopStep(lp) = [lp EXCEPT !.trimming = FALSE]
      BY <1>2, <2>2 DEF LoopStep
    <3>2. LoopStep(lp) = [header |-> lp.header, i |-> lp.i, j |-> lp.j,
                          sepfound |-> lp.sepfound, trimming |-> FALSE]
      BY <3>1 DEF InPlace, Loops
    <3> QED  BY <3>2 DEF InPlace, Loops
  <2> QED  BY <2>1, <2>2
<1>3. CASE ~lp.trimming
  <2>1. lp.i < Len(input)
    BY <1>1, <1>3 DEF LoopEnds
  <2>2. InPlace(Skip(lp), input) /\ InPlace(Put(lp), input)
    BY <2>1, SkipInPlace, PutInPlace
  <2>3. InPlace([Put(lp) EXCEPT !.sepfound = TRUE, !.trimming = TRUE], input)
    BY <2>2, FlagsInPlace
  <2> QED  BY <1>3, <2>2, <2>3 DEF LoopStep
<1> QED  BY <1>2, <1>3

(* What the loop leaves.                                                   *)
LEMMA LoopResultType ==
  ASSUME NEW input \in Texts, NEW lp, InPlace(lp, input)
  PROVE  LoopResult(lp) \in Texts
<1>1. /\ lp.header \in Seq(Chars) /\ lp.j \in Nat /\ lp.i \in Nat
      /\ lp.j <= Len(lp.header) /\ Len(lp.header) \in Nat
  BY LenProperties DEF InPlace, Loops, Texts
<1>2. \A k \in 1 .. lp.j : lp.header[k] \in Chars
  BY <1>1, ElementOfSeq
<1> QED  BY <1>1, <1>2, SubSeqProperties DEF LoopResult, Texts

-----------------------------------------------------------------------------
(* The inductive invariant.  TypeOK needs to know which call it is at      *)
(* each place, and that there is a header to take from.                    *)

PcInv ==
  /\ pc \in {"headers", "normalize"} => job \in SignJobs
  /\ pc \in {"link", "url"} => job \in LinkJobs
  /\ pc = "normalize" => Len(headers) < Len(job.headers)

(* The header the loop works on.                                           *)
Input == LowercaseHeader(job.headers[Len(headers) + 1])

LoopInv ==
  /\ loop \in Loops
  /\ loop.i \in 0 .. Len(loop.header)
  /\ loop.j \in 0 .. Len(loop.header)
  /\ pc = "normalize" => InPlace(loop, Input)

(* The rest of TypeOK.                                                     *)
PlainInv ==
  /\ pc \in {"headers", "normalize", "link", "hash", "url", "done", "crashed"}
  /\ job \in SignJobs \cup LinkJobs
  /\ headers \in Seq(Texts)
  /\ firstheader \in BOOLEAN
  /\ pieces \in Seq(Texts)
  /\ hash_string \in Texts
  /\ url \in Texts
  /\ lost \in 0 .. MaxFaults

IInv == PlainInv /\ PcInv /\ LoopInv /\ FittingBuffer(buffer)

LEMMA IInvImplies == IInv => TypeOK /\ Fits /\ UnreadIntact
BY DEF IInv, PlainInv, LoopInv, FittingBuffer, Input, InPlace, TypeOK, Fits,
       UnreadIntact, Buffers

LEMMA InputType ==
  ASSUME job \in SignJobs, headers \in Seq(Texts),
         Len(headers) < Len(job.headers)
  PROVE  Input \in Texts
<1>1. job.headers \in Seq(Texts)
  BY DEF SignJobs
<1>2. Len(headers) + 1 \in 1 .. Len(job.headers)
  BY <1>1, LenProperties
<1>3. job.headers[Len(headers) + 1] \in Texts
  BY <1>1, <1>2, ElementOfSeq
<1> QED  BY <1>3, LowercaseHeaderType DEF Input

LEMMA LoopBounds ==
  ASSUME NEW input \in Texts, NEW lp, InPlace(lp, input)
  PROVE  /\ lp \in Loops
         /\ lp.i \in 0 .. Len(lp.header)
         /\ lp.j \in 0 .. Len(lp.header)
BY LenProperties DEF InPlace, Loops, Texts

LEMMA IInvInit == Init => IInv
<1> SUFFICES ASSUME Init PROVE IInv
  OBVIOUS
<1>1. job \in SignJobs \cup LinkJobs
  BY SigningAssumption DEF Init
<1>2. /\ pc \in {"headers", "link"}
      /\ pc = "headers" => job \in SignJobs
      /\ pc = "link" => job \in LinkJobs
  BY <1>1 DEF Init, SignJobs, LinkJobs
<1>3. /\ loop = [header |-> << >>, i |-> 0, j |-> 0, sepfound |-> FALSE,
                 trimming |-> FALSE]
      /\ << >> \in Seq(Chars) /\ Len(<< >>) = 0
  BY EmptySeq DEF Init, StartLoop
<1>4. /\ loop \in Loops
      /\ loop.i \in 0 .. Len(loop.header) /\ loop.j \in 0 .. Len(loop.header)
  BY <1>3 DEF Loops
<1>5. LoopInv
  BY <1>2, <1>4 DEF LoopInv
<1>6. << >> \in Seq(Texts) /\ << >> \in Texts /\ lost \in 0 .. MaxFaults
  BY EmptySeq, FixedTexts, SigningAssumption DEF Init
<1> QED  BY <1>1, <1>2, <1>5, <1>6, NoBufferFits
           DEF IInv, PlainInv, PcInv, Init

LEMMA IInvTakeHeader ==
  ASSUME IInv, TakeHeader PROVE IInv'
<1>1. job \in SignJobs /\ headers \in Seq(Texts)
      /\ Len(headers) < Len(job.headers)
  BY DEF IInv, PlainInv, PcInv, TakeHeader, MoreHeaders
<1>2. Input \in Texts
  BY <1>1, InputType
<1>3. loop' = StartLoop(Input)
  BY DEF TakeHeader, Input
<1>4. InPlace(loop', Input)
  BY <1>2, <1>3, StartLoopInPlace
<1>5. Input' = Input
  BY DEF TakeHeader, Input
<1>6. LoopInv'
  BY <1>2, <1>4, <1>5, LoopBounds DEF LoopInv
<1> QED  BY <1>1, <1>6 DEF TakeHeader, IInv, PlainInv, PcInv, FittingBuffer

LEMMA IInvNormalizeStep ==
  ASSUME IInv, NormalizeStep PROVE IInv'
<1>1. InPlace(loop, Input) /\ Input \in Texts
  BY InputType DEF IInv, PlainInv, PcInv, LoopInv, NormalizeStep
<1>2. InPlace(loop', Input)
  BY <1>1, LoopStepInPlace DEF NormalizeStep
<1>3. Input' = Input
  BY DEF NormalizeStep, Input
<1>4. LoopInv'
  BY <1>1, <1>2, <1>3, LoopBounds DEF LoopInv
<1> QED  BY <1>4 DEF NormalizeStep, IInv, PlainInv, PcInv, FittingBuffer

LEMMA IInvNormalizeEnd ==
  ASSUME IInv, NormalizeEnd PROVE IInv'
<1>1. InPlace(loop, Input) /\ Input \in Texts
  BY InputType DEF IInv, PlainInv, PcInv, LoopInv, NormalizeEnd
<1>2. LoopResult(loop) \in Texts
  BY <1>1, LoopResultType
<1>3. headers' \in Seq(Texts)
  BY <1>2 DEF IInv, PlainInv, NormalizeEnd
<1>4. LoopInv'
  BY DEF IInv, LoopInv, NormalizeEnd
<1> QED  BY <1>3, <1>4
         DEF NormalizeEnd, IInv, PlainInv, PcInv, FittingBuffer

LEMMA IInvSortHeaders ==
  ASSUME IInv, SortHeaders PROVE IInv'
<1>1. job \in SignJobs /\ headers \in Seq(Texts)
  BY DEF IInv, PlainInv, PcInv, SortHeaders
<1>2. DOMAIN headers = 1 .. Len(headers) /\ Len(headers) \in Nat
  BY <1>1, LenProperties
<1>3. headers' \in Seq(Texts)
  <2>1. PICK perm \in [DOMAIN headers -> DOMAIN headers] :
          headers' = [k \in DOMAIN headers |-> headers[perm[k]]]
    BY DEF SortHeaders
  <2>2. \A k \in DOMAIN headers : headers[perm[k]] \in Texts
    BY <1>1, <1>2, ElementOfSeq
  <2>3. headers' \in [1 .. Len(headers) -> Texts]
    BY <1>2, <2>1, <2>2
  <2> QED  BY <1>2, <2>3, SeqDef
<1>4. pieces' \in Seq(Texts)
  BY <1>1, SignPiecesType DEF SortHeaders
<1>5. LoopInv'
  BY DEF IInv, LoopInv, SortHeaders
<1> QED  BY <1>3, <1>4, <1>5
         DEF SortHeaders, IInv, PlainInv, PcInv, FittingBuffer

LEMMA IInvAppendHeader ==
  ASSUME IInv, AppendHeader PROVE IInv'
<1>1. headers \in Seq(Texts) /\ pieces \in Seq(Texts) /\ headers # << >>
  BY DEF IInv, PlainInv, AppendHeader
<1>2. Head(headers) \in Texts /\ headers' \in Seq(Texts)
  BY <1>1, HeadTailProperties DEF AppendHeader
<1>3. <<Head(headers)>> \in Seq(Texts) /\ <<NewLine>> \in Seq(Texts)
      /\ << >> \in Seq(Texts)
  BY <1>2, FixedTexts, EmptySeq
<1>4. (IF firstheader THEN << >> ELSE <<NewLine>>) \o <<Head(headers)>>
        \in Seq(Texts)
  BY <1>3, ConcatTexts
<1>5. pieces' \in Seq(Texts)
  BY <1>1, <1>4 DEF AppendHeader
<1>6. firstheader' \in BOOLEAN
  BY DEF IInv, PlainInv, AppendHeader
<1>7. LoopInv'
  BY DEF IInv, LoopInv, AppendHeader
<1> QED  BY <1>2, <1>5, <1>6, <1>7
         DEF AppendHeader, IInv, PlainInv, PcInv, FittingBuffer

LEMMA IInvStartLink ==
  ASSUME IInv, StartLink PROVE IInv'
<1>1. pieces' \in Seq(Texts)
  BY LinkHashPiecesType DEF IInv, PcInv, StartLink
<1>2. LoopInv'
  BY DEF IInv, LoopInv, StartLink
<1> QED  BY <1>1, <1>2 DEF StartLink, IInv, PlainInv, PcInv, FittingBuffer

LEMMA PiecesLeft ==
  ASSUME IInv, Appending
  PROVE  Head(pieces) \in Texts /\ Tail(pieces) \in Seq(Texts)
BY HeadTailProperties DEF IInv, PlainInv, Appending

LEMMA IInvAppendPiece ==
  ASSUME IInv, AppendPiece PROVE IInv'
<1>1. Head(pieces) \in Texts /\ pieces' \in Seq(Texts)
  BY PiecesLeft DEF AppendPiece
<1>2. FittingBuffer(buffer')
  BY <1>1, CstringAppendFits, SigningAssumption DEF IInv, AppendPiece
<1>3. LoopInv'
  BY DEF IInv, LoopInv, AppendPiece, Appending
<1> QED  BY <1>1, <1>2, <1>3
         DEF AppendPiece, IInv, PlainInv, PcInv, FittingBuffer

LEMMA IInvAppendFails ==
  ASSUME IInv, AppendFails PROVE IInv'
<1>1. pieces' \in Seq(Texts)
  BY PiecesLeft DEF AppendFails
<1>2. lost' \in 0 .. MaxFaults
  BY SigningAssumption DEF IInv, PlainInv, AppendFails
<1>3. LoopInv'
  BY DEF IInv, LoopInv, AppendFails, Appending
<1> QED  BY <1>1, <1>2, <1>3
         DEF AppendFails, IInv, PlainInv, PcInv, FittingBuffer

LEMMA IInvSign ==
  ASSUME IInv, Sign PROVE IInv'
<1>1. buffer.text \in Texts
  BY DEF IInv, FittingBuffer, Buffers, Texts
<1>2. FittingBuffer(buffer')
  BY NoBufferFits DEF IInv, Sign
<1>3. LoopInv'
  BY DEF IInv, LoopInv, Sign
<1>4. CASE buffer.allocated = 0
  BY <1>2, <1>3, <1>4 DEF Sign, IInv, PlainInv, PcInv, FittingBuffer
<1>5. CASE buffer.allocated # 0 /\ job.call = "sign_request"
  BY <1>1, <1>2, <1>3, <1>5 DEF Sign, IInv, PlainInv, PcInv, FittingBuffer
<1>6. CASE buffer.allocated # 0 /\ job.call # "sign_request"
  <2>1. job \in LinkJobs
    BY <1>6 DEF IInv, PlainInv, SignJobs
  <2>2. pieces' \in Seq(Texts)
    BY <1>6, <2>1, UrlPiecesType DEF Sign
  <2> QED  BY <1>1, <1>2, <1>3, <1>6, <2>1, <2>2
           DEF Sign, IInv, PlainInv, PcInv, FittingBuffer
<1> QED  BY <1>4, <1>5, <1>6

LEMMA IInvReturnUrl ==
  ASSUME IInv, ReturnUrl PROVE IInv'
<1>1. buffer.text \in Texts
  BY DEF IInv, FittingBuffer, Buffers, Texts
<1>2. LoopInv'
  BY DEF IInv, LoopInv, ReturnUrl
<1> QED  BY <1>1, <1>2 DEF ReturnUrl, IInv, PlainInv, PcInv, FittingBuffer

LEMMA IInvStutter ==
  ASSUME IInv, UNCHANGED vars PROVE IInv'
BY DEF vars, IInv, PlainInv, PcInv, LoopInv, Input, InPlace, FittingBuffer

(* The three parts of the invariant hold in every state of every           *)
(* behaviour.                                                              *)
THEOREM Inductive == Spec => []IInv
<1>1. IInv /\ [Next]_vars => IInv'
  BY IInvTakeHeader, IInvNormalizeStep, IInvNormalizeEnd, IInvSortHeaders,
     IInvAppendHeader, IInvStartLink, IInvAppendPiece, IInvAppendFails,
     IInvSign, IInvReturnUrl, IInvStutter DEF Next
<1> QED  BY IInvInit, <1>1, PTL DEF Spec

(* Every variable keeps its type, and the indices of the loop stay in the  *)
(* header.                                                                 *)
THEOREM TypeCorrect == Spec => []TypeOK
BY Inductive, IInvImplies, PTL

(* AtmosUtil_cstring_append never writes behind its buffer, for every      *)
(* sequence of strings and of failures to allocate.                        *)
THEOREM StringFits == Spec => []Fits
BY Inductive, IInvImplies, PTL

(* AtmosUtil_normalize_whitespace never overwrites what it has still to    *)
(* read, for every header.                                                 *)
THEOREM LoopReadsInput == Spec => []UnreadIntact
BY Inductive, IInvImplies, PTL

-----------------------------------------------------------------------------
(* The text of a link, built from its pieces without a failure to          *)
(* allocate.                                                               *)

(* text is the first pieces of all, one behind the other: f has the texts  *)
(* on the way.  rest is the pieces that are left.                          *)
Built(all, text, rest) ==
  \E n \in 0 .. Len(all), f \in [0 .. Len(all) -> Texts] :
    /\ f[0] = << >>
    /\ \A k \in 1 .. n : f[k] = f[k - 1] \o all[k]
    /\ text = f[n]
    /\ rest = SubSeq(all, n + 1, Len(all))

LEMMA BuiltStart ==
  ASSUME NEW all \in Seq(Texts) PROVE Built(all, << >>, all)
<1>1. Len(all) \in Nat
  BY LenProperties
<1>2. [k \in 0 .. Len(all) |-> << >>] \in [0 .. Len(all) -> Texts]
  BY FixedTexts
<1>3. SubSeq(all, 1, Len(all)) = all
  BY SubSeqFull
<1> DEFINE f == [k \in 0 .. Len(all) |-> << >>]
<1>4. f \in [0 .. Len(all) -> Texts] /\ f[0] = << >> /\ 0 \in 0 .. Len(all)
  BY <1>1, <1>2
<1> HIDE DEF f
<1>5. /\ \A k \in 1 .. 0 : f[k] = f[k - 1] \o all[k]
      /\ << >> = f[0]
      /\ all = SubSeq(all, 0 + 1, Len(all))
  BY <1>3, <1>4
<1> QED  BY <1>4, <1>5 DEF Built

LEMMA BuiltStep ==
  ASSUME NEW all \in Seq(Texts), NEW text, NEW rest,
         Built(all, text, rest), rest # << >>
  PROVE  Built(all, text \o Head(rest), Tail(rest))
<1> DEFINE m == Len(all)
<1>1. m \in Nat
  BY LenProperties
<1>2. PICK n \in 0 .. m, f \in [0 .. m -> Texts] :
        /\ f[0] = << >>
        /\ \A k \in 1 .. n : f[k] = f[k - 1] \o all[k]
        /\ text = f[n]
        /\ rest = SubSeq(all, n + 1, m)
  BY DEF Built
<1>3. n < m
  <2> SUFFICES ASSUME n = m PROVE FALSE
    BY <1>1
  <2> QED  BY <1>1, <1>2, SubSeqEmpty
<1>4. n + 1 \in 1 .. m /\ m \in n + 1 .. m
  BY <1>1, <1>3
<1>5. Head(rest) = all[n + 1] /\ Tail(rest) = SubSeq(all, n + 2, m)
  <2>1. n + 1 + 1 = n + 2
    BY <1>4
  <2> QED  BY <1>2, <1>4, <2>1, HeadTailOfSubSeq
<1>6. all[n + 1] \in Texts
  BY <1>4, ElementOfSeq
<1> DEFINE g == [f EXCEPT ![n + 1] = f[n] \o all[n + 1]]
<1>7. f[n] \o all[n + 1] \in Texts
  BY <1>6, ConcatProperties DEF Texts
<1>8. g \in [0 .. m -> Texts]
  BY <1>7
<1>9. g[n + 1] = f[n] \o all[n + 1] /\ \A k \in 0 .. n : g[k] = f[k]
  BY <1>1, <1>3
<1> HIDE DEF g
<1>10. \A k \in 1 .. n + 1 : g[k] = g[k - 1] \o all[k]
  <2> TAKE k \in 1 .. n + 1
  <2>1. CASE k = n + 1
    <3>1. k - 1 = n /\ n \in 0 .. n
      BY <2>1
    <3> QED  BY <1>9, <2>1, <3>1
  <2>2. CASE k # n + 1
    <3>1. k \in 1 .. n /\ k - 1 \in 0 .. n /\ k \in 0 .. n
      BY <2>2
    <3> QED  BY <1>2, <1>9, <3>1
  <2> QED  BY <2>1, <2>2
<1>11. g[0] = << >>
  BY <1>2, <1>9
<1>12. text \o Head(rest) = g[n + 1]
  BY <1>2, <1>5, <1>9
<1>13. n + 1 \in 0 .. m /\ n + 2 = (n + 1) + 1
  BY <1>4
<1> QED  BY <1>5, <1>8, <1>10, <1>11, <1>12, <1>13 DEF Built

LEMMA BuiltEnd ==
  ASSUME NEW all \in Seq(Texts), NEW text, Built(all, text, << >>)
  PROVE  \E f \in [0 .. Len(all) -> Texts] :
           /\ f[0] = << >>
           /\ \A k \in 1 .. Len(all) : f[k] = f[k - 1] \o all[k]
           /\ text = f[Len(all)]
<1> DEFINE m == Len(all)
<1>1. m \in Nat
  BY LenProperties
<1>2. PICK n \in 0 .. m, f \in [0 .. m -> Texts] :
        /\ f[0] = << >>
        /\ \A k \in 1 .. n : f[k] = f[k - 1] \o all[k]
        /\ text = f[n]
        /\ SubSeq(all, n + 1, m) = << >>
  BY DEF Built
<1>3. n = m
  <2>1. \A i \in n + 1 .. m : all[i] \in Texts
    BY <1>1, ElementOfSeq
  <2>2. n + 1 \in Int /\ m \in Int
    BY <1>1
  <2>3. Len(SubSeq(all, n + 1, m)) = IF n + 1 <= m THEN m - n - 1 + 1 ELSE 0
    BY <2>1, <2>2, SubSeqProperties
  <2>4. Len(SubSeq(all, n + 1, m)) = 0
    BY <1>2, EmptySeq
  <2> QED  BY <1>1, <2>3, <2>4
<1> QED  BY <1>2, <1>3

(* s \o t, where the provers need not know more of it.                     *)
Cat(s, t) == s \o t

(* The text that is signed for a link, and the link.                       *)
HashText(link) ==
  LET base == <<"GET", "\n">> \o Lowercase(link.uri) \o NewLine \o link.uid
                \o NewLine \o link.expires IN
  IF link.disposition = << >> THEN base
  ELSE base \o NewLine \o link.disposition

(* The places in a link, and what is in them: a piece that is not there is *)
(* an empty one.                                                           *)
Slots(link) ==
  <<link.host, link.port, link.uri, <<"?", "uid=">>, Escape(link.uid),
    <<"&", "expires=">>, link.expires, <<"&", "signature=">>,
    Escape(Signature),
    IF link.disposition = << >> THEN << >> ELSE <<"&", "disposition=">>,
    Escape(link.disposition)>>

SlotText(q) ==
  Cat(Cat(Cat(Cat(Cat(Cat(Cat(Cat(Cat(Cat(q[1], q[2]), q[3]), q[4]), q[5]),
      q[6]), q[7]), q[8]), q[9]), q[10]), q[11])

UrlText(link) == SlotText(Slots(link))

LEMMA FirstPiece ==
  ASSUME NEW text \in Texts PROVE << >> \o text = text
BY ConcatEmptySeq DEF Texts

(* The texts on the way, one piece after the other.                        *)
LEMMA Prefixes ==
  ASSUME NEW all \in Seq(Texts), NEW text, Built(all, text, << >>)
  PROVE  \E f :
           /\ Len(all) > 0 => f[1] = all[1]
           /\ \A k \in 2 .. Len(all) : f[k] = Cat(f[k - 1], all[k])
           /\ text = f[Len(all)]
<1>1. PICK f \in [0 .. Len(all) -> Texts] :
        /\ f[0] = << >>
        /\ \A k \in 1 .. Len(all) : f[k] = f[k - 1] \o all[k]
        /\ text = f[Len(all)]
  BY BuiltEnd
<1>2. Len(all) \in Nat
  BY LenProperties
<1>3. ASSUME Len(all) > 0 PROVE f[1] = all[1]
  <2>1. 1 \in 1 .. Len(all) /\ 1 - 1 = 0
    BY <1>2, <1>3
  <2>2. all[1] \in Texts
    BY <2>1, ElementOfSeq
  <2>3. f[1] = << >> \o all[1]
    BY <1>1, <2>1
  <2> QED  BY <2>2, <2>3, FirstPiece
<1>4. \A k \in 2 .. Len(all) : f[k] = Cat(f[k - 1], all[k])
  <2> TAKE k \in 2 .. Len(all)
  <2>1. k \in 1 .. Len(all)
    BY <1>2
  <2> QED  BY <1>1, <2>1 DEF Cat
<1> QED  BY <1>1, <1>3, <1>4

LEMMA JoinPieces ==
  ASSUME NEW s \in Seq(Texts), NEW t \in Seq(Texts)
  PROVE  /\ Cat(s, t) \in Seq(Texts) /\ Len(Cat(s, t)) = Len(s) + Len(t)
         /\ \A k \in 1 .. Len(s) + Len(t) :
              Cat(s, t)[k] = IF k <= Len(s) THEN s[k] ELSE t[k - Len(s)]
BY ConcatProperties DEF Cat

LEMMA CatTexts ==
  ASSUME NEW s \in Texts, NEW t \in Texts
  PROVE  /\ Cat(s, t) \in Texts /\ Len(Cat(s, t)) = Len(s) + Len(t)
         /\ \A i \in 1 .. Len(s) : Cat(s, t)[i] = s[i]
         /\ \A i \in 1 .. Len(t) : Cat(s, t)[Len(s) + i] = t[i]
<1>1. Len(s) \in Nat /\ Len(t) \in Nat
  BY LenProperties DEF Texts
<1>2. /\ Cat(s, t) \in Seq(Chars) /\ Len(Cat(s, t)) = Len(s) + Len(t)
      /\ \A i \in 1 .. Len(s) + Len(t) :
           Cat(s, t)[i] = IF i <= Len(s) THEN s[i] ELSE t[i - Len(s)]
  BY ConcatProperties DEF Cat, Texts
<1>3. \A i \in 1 .. Len(s) : Cat(s, t)[i] = s[i]
  BY <1>1, <1>2
<1>4. ASSUME NEW i \in 1 .. Len(t) PROVE Cat(s, t)[Len(s) + i] = t[i]
  <2>1. /\ Len(s) + i \in 1 .. Len(s) + Len(t) /\ ~(Len(s) + i <= Len(s))
        /\ (Len(s) + i) - Len(s) = i
    BY <1>1
  <2> QED  BY <1>2, <2>1
<1> QED  BY <1>2, <1>3, <1>4 DEF Texts

LEMMA EmptyRight ==
  ASSUME NEW s \in Texts PROVE Cat(s, << >>) = s
BY ConcatEmptySeq DEF Cat, Texts

(* A sequence of texts of which one is lost.                               *)
Lose(all, i) == [all EXCEPT ![i] = << >>]

LEMMA LoseIs ==
  ASSUME NEW all \in Seq(Texts), NEW i \in Nat
  PROVE  /\ Lose(all, i) \in Seq(Texts) /\ Len(Lose(all, i)) = Len(all)
         /\ \A k \in 1 .. Len(all) :
              Lose(all, i)[k] = IF k = i THEN << >> ELSE all[k]
<1>1. Len(all) \in Nat /\ DOMAIN all = 1 .. Len(all)
      /\ all \in [1 .. Len(all) -> Texts]
  BY LenProperties
<1>2. << >> \in Texts
  BY FixedTexts
<1>3. /\ Lose(all, i) \in [1 .. Len(all) -> Texts]
      /\ \A k \in 1 .. Len(all) :
           Lose(all, i)[k] = IF k = i THEN << >> ELSE all[k]
  BY <1>1, <1>2 DEF Lose
<1>4. Lose(all, i) \in Seq(Texts)
  BY <1>1, <1>3, SeqDef
<1>5. Len(Lose(all, i)) = Len(all)
  BY <1>1, <1>3, <1>4, LenProperties
<1> QED  BY <1>3, <1>4, <1>5

LEMMA HashTextBuilt ==
  ASSUME NEW link \in LinkJobs, NEW text,
         Built(LinkHashPieces(link), text, << >>)
  PROVE  text = HashText(link)
<1> DEFINE all == LinkHashPieces(link)
           get == <<"GET", "\n">>  low == Lowercase(link.uri)
           uid == link.uid  exp == link.expires  dis == link.disposition
           first == <<get, low, NewLine, uid, NewLine, exp>>
           last == IF dis = << >> THEN << >> ELSE <<NewLine, dis>>
<1>1. all \in Seq(Texts)
  BY LinkHashPiecesType
<1>2. PICK f : /\ Len(all) > 0 => f[1] = all[1]
               /\ \A k \in 2 .. Len(all) : f[k] = Cat(f[k - 1], all[k])
               /\ text = f[Len(all)]
  BY <1>1, Prefixes
<1>3. all = Cat(first, last)
  BY DEF LinkHashPieces, Cat
<1>4. /\ get \in Texts /\ low \in Texts /\ NewLine \in Texts
      /\ uid \in Texts /\ exp \in Texts /\ dis \in Texts
  BY FixedTexts, LowercaseType DEF LinkJobs
<1>5. HashText(link) =
        IF dis = << >> THEN get \o low \o NewLine \o uid \o NewLine \o exp
        ELSE get \o low \o NewLine \o uid \o NewLine \o exp \o NewLine \o dis
  BY DEF HashText
<1> HIDE DEF all, get, low, uid, exp, dis
<1>6. /\ first \in Seq(Texts) /\ Len(first) = 6
      /\ first[1] = get /\ first[2] = low /\ first[3] = NewLine
      /\ first[4] = uid /\ first[5] = NewLine /\ first[6] = exp
  BY <1>4
<1>7. last \in Seq(Texts)
  BY <1>4
<1>8. CASE dis = << >>
  <2>1. all = first
    BY <1>3, <1>6, <1>8, ConcatEmptySeq DEF Cat
  <2>2. /\ Len(all) = 6 /\ all[1] = get /\ all[2] = low /\ all[3] = NewLine
        /\ all[4] = uid /\ all[5] = NewLine /\ all[6] = exp
    BY <1>6, <2>1
  <2> HIDE DEF first, last
  <2>3. /\ f[1] = get /\ f[2] = Cat(f[1], low) /\ f[3] = Cat(f[2], NewLine)
        /\ f[4] = Cat(f[3], uid) /\ f[5] = Cat(f[4], NewLine)
        /\ f[6] = Cat(f[5], exp) /\ text = f[6]
    BY <1>2, <2>2
  <2> QED  BY <1>5, <1>8, <2>3 DEF Cat
<1>9. CASE dis # << >>
  <2>1. Len(last) = 2 /\ last[1] = NewLine /\ last[2] = dis
    BY <1>9
  <2> HIDE DEF first, last
  <2>2. /\ Len(all) = 8
        /\ \A k \in 1 .. 8 :
             all[k] = IF k <= 6 THEN first[k] ELSE last[k - 6]
    <3>1. /\ Len(all) = Len(first) + Len(last)
         /\ \A k \in 1 .. Len(first) + Len(last) :
              all[k] = IF k <= Len(first) THEN first[k]
                       ELSE last[k - Len(first)]
      BY <1>3, <1>6, <1>7, JoinPieces
    <3> QED  BY <1>6, <2>1, <3>1
  <2>3. /\ all[1] = get /\ all[2] = low /\ all[3] = NewLine /\ all[4] = uid
        /\ all[5] = NewLine /\ all[6] = exp /\ all[7] = NewLine
        /\ all[8] = dis
    BY <1>6, <2>1, <2>2
  <2>4. /\ f[1] = get /\ f[2] = Cat(f[1], low) /\ f[3] = Cat(f[2], NewLine)
        /\ f[4] = Cat(f[3], uid) /\ f[5] = Cat(f[4], NewLine)
        /\ f[6] = Cat(f[5], exp)
        /\ f[7] = Cat(f[6], NewLine) /\ f[8] = Cat(f[7], dis) /\ text = f[8]
    BY <1>2, <2>2, <2>3
  <2> QED  BY <1>5, <1>9, <2>4 DEF Cat
<1> QED  BY <1>8, <1>9

LEMMA EscapeEmpty == Escape(<< >>) = << >>
BY DEF Escape

(* What is in the places of a link.                                        *)
LEMMA SlotsAre ==
  ASSUME NEW link \in LinkJobs
  PROVE  /\ Slots(link) \in Seq(Texts) /\ Len(Slots(link)) = 11
         /\ Slots(link)[1] = link.host /\ Slots(link)[2] = link.port
         /\ Slots(link)[3] = link.uri /\ Slots(link)[4] = <<"?", "uid=">>
         /\ Slots(link)[5] = Escape(link.uid)
         /\ Slots(link)[6] = <<"&", "expires=">>
         /\ Slots(link)[7] = link.expires
         /\ Slots(link)[8] = <<"&", "signature=">>
         /\ Slots(link)[9] = Escape(Signature)
         /\ Slots(link)[10] = IF link.disposition = << >> THEN << >>
                              ELSE <<"&", "disposition=">>
         /\ Slots(link)[11] = Escape(link.disposition)
<1> DEFINE h == link.host  p == link.port  r == link.uri
           a == <<"?", "uid=">>  u == Escape(link.uid)
           b == <<"&", "expires=">>  x == link.expires
           c == <<"&", "signature=">>  s == Escape(Signature)
           d == IF link.disposition = << >> THEN << >>
                ELSE <<"&", "disposition=">>
           t == Escape(link.disposition)
           q == <<h, p, r, a, u, b, x, c, s, d, t>>
<1>1. /\ h \in Texts /\ p \in Texts /\ r \in Texts /\ x \in Texts
      /\ u \in Texts /\ s \in Texts /\ t \in Texts
      /\ a \in Texts /\ b \in Texts /\ c \in Texts /\ d \in Texts
  BY FixedTexts, EscapeType DEF LinkJobs
<1>2. Slots(link) = q
  BY DEF Slots
<1> HIDE DEF h, p, r, a, u, b, x, c, s, d, t
<1>3. /\ q \in Seq(Texts) /\ Len(q) = 11
      /\ q[1] = h /\ q[2] = p /\ q[3] = r /\ q[4] = a /\ q[5] = u
      /\ q[6] = b /\ q[7] = x /\ q[8] = c /\ q[9] = s /\ q[10] = d
      /\ q[11] = t
  BY <1>1
<1> HIDE DEF q
<1> QED  BY <1>2, <1>3 DEF h, p, r, a, u, b, x, c, s, d, t

(* The place of a piece: a link has a port and a disposition only if they  *)
(* are given.                                                              *)
SlotOf(link, k) == IF link.port = << >> /\ k > 1 THEN k + 1 ELSE k

LEMMA PiecesAreSlots ==
  ASSUME NEW link \in LinkJobs
  PROVE  /\ UrlPieces(link) \in Seq(Texts)
         /\ Len(UrlPieces(link)) =
              (IF link.port = << >> THEN 8 ELSE 9)
                + (IF link.disposition = << >> THEN 0 ELSE 2)
         /\ \A k \in 1 .. Len(UrlPieces(link)) :
              UrlPieces(link)[k] = Slots(link)[SlotOf(link, k)]
<1> DEFINE all == UrlPieces(link)
           h == link.host  p == link.port  r == link.uri
           a == <<"?", "uid=">>  u == Escape(link.uid)
           b == <<"&", "expires=">>  x == link.expires
           c == <<"&", "signature=">>  s == Escape(Signature)
           d == <<"&", "disposition=">>  t == Escape(link.disposition)
           first == <<h>> \o Optional(p)
           second == <<r, a, u, b, x, c, s>>
           both == Cat(first, second)
           last == IF link.disposition = << >> THEN << >> ELSE <<d, t>>
           q == Slots(link)
<1>1. all \in Seq(Texts)
  BY UrlPiecesType
<1>3. all = Cat(both, last)
  BY DEF UrlPieces, Cat
<1>4. /\ h \in Texts /\ p \in Texts /\ r \in Texts /\ x \in Texts
      /\ u \in Texts /\ s \in Texts /\ t \in Texts
      /\ a \in Texts /\ b \in Texts /\ c \in Texts /\ d \in Texts
  BY FixedTexts, EscapeType DEF LinkJobs
<1>5. /\ q[1] = h /\ q[2] = p /\ q[3] = r /\ q[4] = a /\ q[5] = u
      /\ q[6] = b /\ q[7] = x /\ q[8] = c /\ q[9] = s
      /\ link.disposition # << >> => q[10] = d
      /\ q[11] = t
  BY SlotsAre
<1> HIDE DEF all, h, p, r, a, u, b, x, c, s, d, t, q
<1>6. /\ second \in Seq(Texts) /\ Len(second) = 7
      /\ second[1] = r /\ second[2] = a /\ second[3] = u /\ second[4] = b
      /\ second[5] = x /\ second[6] = c /\ second[7] = s
  BY <1>4
<1>7. /\ last \in Seq(Texts)
      /\ link.disposition = << >> => last = << >>
      /\ link.disposition # << >> =>
           Len(last) = 2 /\ last[1] = d /\ last[2] = t
  BY <1>4
<1>8. Optional(p) \in Seq(Texts) /\ <<h>> \in Seq(Texts)
  BY <1>4, OptionalType
<1>9. first \in Seq(Texts)
  BY <1>8, ConcatTexts
<1> HIDE DEF first, second, last
<1>10. /\ both \in Seq(Texts) /\ Len(both) = Len(first) + 7
       /\ \A k \in 1 .. Len(first) + 7 :
            both[k] = IF k <= Len(first) THEN first[k]
                      ELSE second[k - Len(first)]
  <2>1. /\ both \in Seq(Texts) /\ Len(both) = Len(first) + Len(second)
        /\ \A k \in 1 .. Len(first) + Len(second) :
             both[k] = IF k <= Len(first) THEN first[k]
                       ELSE second[k - Len(first)]
    BY <1>6, <1>9, JoinPieces
  <2> QED  BY <1>6, <2>1
<1> HIDE DEF both
<1>11. ASSUME link.disposition = << >> PROVE all = both
  BY <1>3, <1>7, <1>10, <1>11, ConcatEmptySeq DEF Cat
<1>12. ASSUME link.disposition # << >>
       PROVE  /\ Len(all) = Len(both) + 2
              /\ \A k \in 1 .. Len(both) + 2 :
                   all[k] = IF k <= Len(both) THEN both[k]
                            ELSE last[k - Len(both)]
  <2>1. /\ Len(all) = Len(both) + Len(last)
        /\ \A k \in 1 .. Len(both) + Len(last) :
             all[k] = IF k <= Len(both) THEN both[k]
                      ELSE last[k - Len(both)]
    BY <1>3, <1>7, <1>10, JoinPieces
  <2> QED  BY <1>7, <1>12, <2>1
<1>13. CASE p = << >>
  <2>1. first = <<h>>
    BY <1>8, <1>13, ConcatEmptySeq DEF first, Optional
  <2>2. Len(first) = 1 /\ first[1] = h
    BY <2>1
  <2>3. /\ Len(both) = 8
        /\ both[1] = h /\ both[2] = r /\ both[3] = a /\ both[4] = u
        /\ both[5] = b /\ both[6] = x /\ both[7] = c /\ both[8] = s
    BY <1>6, <1>10, <2>2
  <2>4. \A k \in 1 .. 8 : both[k] = q[SlotOf(link, k)]
    BY <1>5, <1>13, <2>3 DEF SlotOf, p
  <2>5. CASE link.disposition = << >>
    <3>1. /\ Len(all) = 8
          /\ \A k \in 1 .. 8 : all[k] = q[SlotOf(link, k)]
      BY <1>11, <2>3, <2>4, <2>5
    <3> QED  BY <1>1, <1>13, <2>5, <3>1 DEF all, p, q
  <2>6. CASE link.disposition # << >>
    <3>1. /\ Len(all) = 10
          /\ \A k \in 1 .. 10 :
               all[k] = IF k <= 8 THEN both[k] ELSE last[k - 8]
      BY <1>12, <2>3, <2>6
    <3>2. all[9] = d /\ all[10] = t
      BY <1>7, <2>6, <3>1
    <3>3. SlotOf(link, 9) = 10 /\ SlotOf(link, 10) = 11
      BY <1>13 DEF SlotOf, p
    <3>4. \A k \in 1 .. 10 : all[k] = q[SlotOf(link, k)]
      BY <1>5, <2>4, <2>6, <3>1, <3>2, <3>3
    <3> QED  BY <1>1, <1>13, <2>6, <3>1, <3>4 DEF all, p, q
  <2> QED  BY <2>5, <2>6
<1>14. CASE p # << >>
  <2>1. Optional(p) = <<p>>
    BY <1>14 DEF Optional
  <2>2. /\ Len(<<h>>) = 1 /\ <<h>>[1] = h
        /\ Len(<<p>>) = 1 /\ <<p>>[1] = p /\ <<p>> \in Seq(Texts)
    BY <1>4
  <2>3. Len(first) = 2 /\ first[1] = h /\ first[2] = p
    BY <1>8, <2>1, <2>2, ConcatProperties DEF first
  <2>4. /\ Len(both) = 9
        /\ both[1] = h /\ both[2] = p /\ both[3] = r /\ both[4] = a
        /\ both[5] = u /\ both[6] = b /\ both[7] = x /\ both[8] = c
        /\ both[9] = s
    BY <1>6, <1>10, <2>3
  <2>5. \A k : SlotOf(link, k) = k
    BY <1>14 DEF SlotOf, p
  <2>6. \A k \in 1 .. 9 : both[k] = q[SlotOf(link, k)]
    BY <1>5, <2>4, <2>5
  <2>7. CASE link.disposition = << >>
    <3>1. /\ Len(all) = 9
          /\ \A k \in 1 .. 9 : all[k] = q[SlotOf(link, k)]
      BY <1>11, <2>4, <2>6, <2>7
    <3> QED  BY <1>1, <1>14, <2>7, <3>1 DEF all, p, q
  <2>8. CASE link.disposition # << >>
    <3>1. /\ Len(all) = 11
          /\ \A k \in 1 .. 11 :
               all[k] = IF k <= 9 THEN both[k] ELSE last[k - 9]
      BY <1>12, <2>4, <2>8
    <3>2. all[10] = d /\ all[11] = t
      BY <1>7, <2>8, <3>1
    <3>4. \A k \in 1 .. 11 : all[k] = q[SlotOf(link, k)]
      BY <1>5, <2>5, <2>6, <2>8, <3>1, <3>2
    <3> QED  BY <1>1, <1>14, <2>8, <3>1, <3>4 DEF all, p, q
  <2> QED  BY <2>7, <2>8
<1> QED  BY <1>13, <1>14

(* The link that is built of pieces of which one is lost.                  *)
LEMMA UrlBuilt ==
  ASSUME NEW link \in LinkJobs, NEW text, NEW i \in Nat,
         Built(Lose(UrlPieces(link), i), text, << >>)
  PROVE  \E j \in Nat : /\ text = SlotText(Lose(Slots(link), j))
                        /\ i = 0 => j = 0
<1> DEFINE pcs == UrlPieces(link)  all == Lose(pcs, i)  n == Len(pcs)
           j == IF i \in 1 .. n THEN SlotOf(link, i) ELSE 0
           q == Lose(Slots(link), j)
<1>1. /\ pcs \in Seq(Texts)
      /\ n = (IF link.port = << >> THEN 8 ELSE 9)
                + (IF link.disposition = << >> THEN 0 ELSE 2)
      /\ \A k \in 1 .. n : pcs[k] = Slots(link)[SlotOf(link, k)]
  BY PiecesAreSlots
<1>2. /\ all \in Seq(Texts) /\ Len(all) = n
      /\ \A k \in 1 .. n : all[k] = IF k = i THEN << >> ELSE pcs[k]
  BY <1>1, LoseIs
<1>3. j \in Nat /\ (i = 0 => j = 0)
  BY <1>1 DEF SlotOf
<1>4. /\ q \in Seq(Texts) /\ Len(q) = 11
      /\ \A k \in 1 .. 11 : q[k] = IF k = j THEN << >> ELSE Slots(link)[k]
  <2>1. Slots(link) \in Seq(Texts) /\ Len(Slots(link)) = 11
    BY SlotsAre
  <2> DEFINE S == Slots(link)
  <2>2. S \in Seq(Texts) /\ Len(S) = 11 /\ q = Lose(S, j)
    BY <2>1
  <2> HIDE DEF j, q, S
  <2>3. /\ q \in Seq(Texts) /\ Len(q) = Len(S)
        /\ \A k \in 1 .. Len(S) : q[k] = IF k = j THEN << >> ELSE S[k]
    <3>1. /\ Lose(S, j) \in Seq(Texts) /\ Len(Lose(S, j)) = Len(S)
          /\ \A k \in 1 .. Len(S) :
               Lose(S, j)[k] = IF k = j THEN << >> ELSE S[k]
      BY <1>3, <2>2, LoseIs
    <3> QED  BY <2>2, <3>1
  <2> QED  BY <2>2, <2>3 DEF S
<1>5. \A k \in 1 .. n : all[k] = q[SlotOf(link, k)]
  <2> TAKE k \in 1 .. n
  <2>1. SlotOf(link, k) \in 1 .. 11
    BY SMTT(30), <1>1 DEF SlotOf
  <2>2. k = i <=> SlotOf(link, k) = j
    BY <1>1 DEF SlotOf
  <2> HIDE DEF all, q, j, pcs
  <2>3. all[k] = IF k = i THEN << >> ELSE pcs[k]
    BY <1>2
  <2>4. pcs[k] = Slots(link)[SlotOf(link, k)]
    BY <1>1
  <2>5. q[SlotOf(link, k)] = IF SlotOf(link, k) = j THEN << >>
                             ELSE Slots(link)[SlotOf(link, k)]
    BY <1>4, <2>1
  <2> QED  BY <2>2, <2>3, <2>4, <2>5
<1>6. /\ link.port = << >> => q[2] = << >>
      /\ link.disposition = << >> => q[10] = << >> /\ q[11] = << >>
  <2>1. /\ Slots(link)[2] = link.port
        /\ Slots(link)[10] = IF link.disposition = << >> THEN << >>
                             ELSE <<"&", "disposition=">>
        /\ Slots(link)[11] = Escape(link.disposition)
    BY SlotsAre
  <2>2. /\ q[2] = << >> \/ q[2] = Slots(link)[2]
        /\ q[10] = << >> \/ q[10] = Slots(link)[10]
        /\ q[11] = << >> \/ q[11] = Slots(link)[11]
    BY <1>4
  <2> HIDE DEF q
  <2> QED  BY <2>1, <2>2, EscapeEmpty
<1>7. PICK f : /\ Len(all) > 0 => f[1] = all[1]
               /\ \A k \in 2 .. Len(all) : f[k] = Cat(f[k - 1], all[k])
               /\ text = f[Len(all)]
  BY <1>2, Prefixes
<1> HIDE DEF all, pcs, q, j
<1>8. /\ q[1] \in Texts /\ q[2] \in Texts /\ q[3] \in Texts
      /\ q[4] \in Texts /\ q[5] \in Texts /\ q[6] \in Texts
      /\ q[7] \in Texts /\ q[8] \in Texts /\ q[9] \in Texts
  <2>1. \A k \in 1 .. 11 : q[k] \in Texts
    BY <1>4, ElementOfSeq
  <2> QED  BY <2>1
<1> DEFINE c3 == Cat(Cat(q[1], q[2]), q[3])
           c6 == Cat(Cat(Cat(c3, q[4]), q[5]), q[6])
           c9 == Cat(Cat(Cat(c6, q[7]), q[8]), q[9])
<1>9. SlotText(q) = Cat(Cat(c9, q[10]), q[11])
  BY DEF SlotText
<1>10. c9 \in Texts
  <2>1. c3 \in Texts
    BY <1>8, CatTexts
  <2> HIDE DEF c3
  <2>2. c6 \in Texts
    BY <1>8, <2>1, CatTexts
  <2> HIDE DEF c6
  <2> QED  BY <1>8, <2>2, CatTexts
<1>11. link.disposition = << >> => SlotText(q) = c9
  BY <1>6, <1>9, <1>10, EmptyRight
<1>12. CASE link.port = << >>
  <2>1. Cat(q[1], q[2]) = q[1]
    BY <1>6, <1>8, <1>12, EmptyRight
  <2>2. \A k \in 1 .. n : all[k] = q[IF k > 1 THEN k + 1 ELSE k]
    BY <1>5, <1>12 DEF SlotOf
  <2>3. n >= 8 /\ (link.disposition # << >> => n = 10)
        /\ (link.disposition = << >> => n = 8)
    BY <1>1, <1>12
  <2>4. /\ all[1] = q[1] /\ all[2] = q[3] /\ all[3] = q[4]
        /\ all[4] = q[5] /\ all[5] = q[6] /\ all[6] = q[7]
        /\ all[7] = q[8] /\ all[8] = q[9]
        /\ n = 10 => all[9] = q[10] /\ all[10] = q[11]
    <3> HIDE DEF n
    <3>1. n \in Int
      BY <2>3
    <3> QED  BY <2>2, <2>3, <3>1
  <2>5. /\ f[1] = all[1] /\ f[2] = Cat(f[1], all[2])
        /\ f[3] = Cat(f[2], all[3]) /\ f[4] = Cat(f[3], all[4])
        /\ f[5] = Cat(f[4], all[5]) /\ f[6] = Cat(f[5], all[6])
        /\ f[7] = Cat(f[6], all[7]) /\ f[8] = Cat(f[7], all[8])
        /\ n = 10 => f[9] = Cat(f[8], all[9]) /\ f[10] = Cat(f[9], all[10])
    BY <1>2, <1>7, <2>3
  <2>6. f[8] = c9
    BY <2>1, <2>4, <2>5
  <2>7. n = 10 => f[10] = Cat(Cat(c9, q[10]), q[11])
    BY <2>4, <2>5, <2>6
  <2>8. text = SlotText(q)
    BY <1>2, <1>7, <1>9, <1>11, <2>3, <2>6, <2>7
  <2> QED  BY <1>3, <2>8 DEF q
<1>13. CASE link.port # << >>
  <2>2. \A k \in 1 .. n : all[k] = q[k]
    BY <1>5, <1>13 DEF SlotOf
  <2>3. n >= 9 /\ (link.disposition # << >> => n = 11)
        /\ (link.disposition = << >> => n = 9)
    BY <1>1, <1>13
  <2>4. /\ all[1] = q[1] /\ all[2] = q[2] /\ all[3] = q[3]
        /\ all[4] = q[4] /\ all[5] = q[5] /\ all[6] = q[6]
        /\ all[7] = q[7] /\ all[8] = q[8] /\ all[9] = q[9]
        /\ n = 11 => all[10] = q[10] /\ all[11] = q[11]
    <3> HIDE DEF n
    <3>1. n \in Int
      BY <2>3
    <3> QED  BY <2>2, <2>3, <3>1
  <2>5. /\ f[1] = all[1] /\ f[2] = Cat(f[1], all[2])
        /\ f[3] = Cat(f[2], all[3]) /\ f[4] = Cat(f[3], all[4])
        /\ f[5] = Cat(f[4], all[5]) /\ f[6] = Cat(f[5], all[6])
        /\ f[7] = Cat(f[6], all[7]) /\ f[8] = Cat(f[7], all[8])
        /\ f[9] = Cat(f[8], all[9])
        /\ n = 11 => f[10] = Cat(f[9], all[10])
                       /\ f[11] = Cat(f[10], all[11])
    BY <1>2, <1>7, <2>3
  <2>6. f[9] = c9
    BY <2>4, <2>5
  <2>7. n = 11 => f[11] = Cat(Cat(c9, q[10]), q[11])
    BY <2>4, <2>5, <2>6
  <2>8. text = SlotText(q)
    BY <1>2, <1>7, <1>9, <1>11, <2>3, <2>6, <2>7
  <2> QED  BY <1>3, <2>8 DEF q
<1> QED  BY <1>12, <1>13

LEMMA LoseNone ==
  ASSUME NEW all \in Seq(Texts) PROVE Lose(all, 0) = all
<1>1. Lose(all, 0) \in Seq(Texts) /\ Len(Lose(all, 0)) = Len(all)
  BY LoseIs
<1>2. \A k \in 1 .. Len(all) : Lose(all, 0)[k] = all[k]
  <2> TAKE k \in 1 .. Len(all)
  <2>1. k # 0
    BY LenProperties
  <2> QED  BY <2>1, LoseIs
<1> QED  BY <1>1, <1>2, SeqEqual

LEMMA UrlTextBuilt ==
  ASSUME NEW link \in LinkJobs, NEW text,
         Built(UrlPieces(link), text, << >>)
  PROVE  text = UrlText(link)
<1>1. Lose(UrlPieces(link), 0) = UrlPieces(link)
  BY UrlPiecesType, LoseNone
<1>2. Lose(Slots(link), 0) = Slots(link)
  BY SlotsAre, LoseNone
<1> QED  BY <1>1, <1>2, UrlBuilt DEF UrlText

-----------------------------------------------------------------------------
(* What the server finds in a link.                                        *)

Delimiters == {"?", "&"}
Parameters == {"uid=", "expires=", "signature=", "disposition="}

(* The value of a parameter: its name at k is the first one behind a       *)
(* delimiter, and the value ends at l, before the next "&".                *)
ValueAt(T, name, k, l) ==
  /\ k \in 2 .. Len(T) /\ T[k] = name /\ T[k - 1] \in Delimiters
  /\ \A n \in 2 .. Len(T) :
       T[n] = name /\ T[n - 1] \in Delimiters => n = k
  /\ l \in k .. Len(T)
  /\ l = Len(T) \/ T[l + 1] = "&"
  /\ \A n \in k .. l : T[n] # "&"

LEMMA ParameterAt ==
  ASSUME NEW T \in Texts, NEW name, NEW k, NEW l, ValueAt(T, name, k, l)
  PROVE  QueryParameter(T, name) = Unescape(SubSeq(T, k + 1, l))
<1> USE DEF ValueAt
<1> DEFINE begins == {n \in 2 .. Len(T) :
                        T[n] = name /\ T[n - 1] \in {"?", "&"}}
           E == {m \in k .. Len(T) + 1 : m = Len(T) + 1 \/ T[m] = "&"}
           m == l + 1
<1>1. Len(T) \in Nat
  BY LenProperties DEF Texts
<1>2. begins = {k}
  BY DEF Delimiters
<1>3. begins # {} /\ (CHOOSE j \in begins : \A n \in begins : j <= n) = k
  BY <1>2
<1>4. m \in E /\ \A n \in E : m <= n
  BY <1>1
<1>5. \A j \in E : (\A n \in E : j <= n) => j = m
  BY <1>1, <1>4
<1>6. (CHOOSE j \in E : \A n \in E : j <= n) = m
  <2> HIDE DEF E
  <2> QED  BY <1>4, <1>5
<1>7. m - 1 = l
  BY <1>1
<1> QED  BY <1>3, <1>6, <1>7 DEF QueryParameter, Between

(* A parameter whose name is nowhere behind a delimiter.                   *)
LEMMA ParameterAbsent ==
  ASSUME NEW T \in Texts, NEW name,
         \A n \in 2 .. Len(T) : ~(T[n] = name /\ T[n - 1] \in Delimiters)
  PROVE  QueryParameter(T, name) = << >>
<1> DEFINE begins == {n \in 2 .. Len(T) :
                        T[n] = name /\ T[n - 1] \in {"?", "&"}}
<1>1. begins = {}
  BY DEF Delimiters
<1> QED  BY <1>1 DEF QueryParameter

(* The resource ends before the first "?".                                 *)
LEMMA ResourceAt ==
  ASSUME NEW T \in Texts, NEW skip, NEW m \in 1 .. Len(T), T[m] = "?",
         \A n \in 1 .. m - 1 : T[n] # "?"
  PROVE  Resource(T, skip) = SubSeq(T, skip + 1, m - 1)
<1> DEFINE stops == {n \in 1 .. Len(T) + 1 : n = Len(T) + 1 \/ T[n] = "?"}
<1>1. Len(T) \in Nat
  BY LenProperties DEF Texts
<1>2. /\ m \in stops /\ \A n \in stops : m <= n
      /\ \A l \in stops : (\A n \in stops : l <= n) => l = m
  BY <1>1
<1>3. (CHOOSE l \in stops : \A n \in stops : l <= n) = m
  <2> HIDE DEF stops
  <2> QED  BY <1>2
<1> QED  BY <1>3 DEF Resource, Between

(* Where the parts of a link are, the delimiters only between them.        *)
Parts(T, o1, o2, o3, o4, o5, o6, o7) ==
  /\ o2 = o1 + 2 /\ o3 >= o2 /\ o4 = o3 + 2 /\ o5 >= o4 /\ o6 = o5 + 2
  /\ o7 >= o6
  /\ \A i \in 1 .. o1 : T[i] \notin {"?"} \cup Parameters
  /\ T[o1 + 1] = "?" /\ T[o1 + 2] = "uid="
  /\ \A i \in o2 + 1 .. o3 : T[i] \notin Delimiters
  /\ T[o3 + 1] = "&" /\ T[o3 + 2] = "expires="
  /\ \A i \in o4 + 1 .. o5 : T[i] \notin Delimiters
  /\ T[o5 + 1] = "&" /\ T[o5 + 2] = "signature="
  /\ \A i \in o6 + 1 .. o7 : T[i] \notin Delimiters
  /\ \/ Len(T) = o7
     \/ /\ Len(T) >= o7 + 2
        /\ T[o7 + 1] = "&" /\ T[o7 + 2] = "disposition="
        /\ \A i \in o7 + 3 .. Len(T) : T[i] \notin Delimiters

(* What the server finds there.                                           *)
Values(T, skip, o1, o2, o3, o4, o5, o6, o7) ==
  /\ Resource(T, skip) = SubSeq(T, skip + 1, o1)
  /\ QueryParameter(T, "uid=") = Unescape(SubSeq(T, o2 + 1, o3))
  /\ QueryParameter(T, "expires=") = Unescape(SubSeq(T, o4 + 1, o5))
  /\ QueryParameter(T, "signature=") = Unescape(SubSeq(T, o6 + 1, o7))
  /\ QueryParameter(T, "disposition=") =
       IF Len(T) = o7 THEN << >>
       ELSE Unescape(SubSeq(T, o7 + 3, Len(T)))

LEMMA LinkParts ==
  ASSUME NEW T \in Texts, NEW o1 \in Nat, NEW o2 \in Nat, NEW o3 \in Nat,
         NEW o4 \in Nat, NEW o5 \in Nat, NEW o6 \in Nat, NEW o7 \in Nat,
         NEW skip \in Nat, Parts(T, o1, o2, o3, o4, o5, o6, o7)
  PROVE  Values(T, skip, o1, o2, o3, o4, o5, o6, o7)
<1> USE DEF Parts, Values
<1>1. Len(T) \in Nat /\ Len(T) >= o7
  BY LenProperties DEF Texts
(* A name behind a delimiter is one of the parameters' own.                *)
<1>2. \A n \in 2 .. Len(T) :
        T[n] \in Parameters /\ T[n - 1] \in Delimiters =>
          n \in {o2, o4, o6} \/ (n = o7 + 2 /\ Len(T) # o7)
  <2> SUFFICES ASSUME NEW n \in 2 .. Len(T), T[n] \in Parameters,
                      T[n - 1] \in Delimiters
               PROVE  n \in {o2, o4, o6} \/ (n = o7 + 2 /\ Len(T) # o7)
    OBVIOUS
  <2>1. n \notin 1 .. o1 /\ n # o1 + 1
    BY DEF Parameters
  <2>2. /\ n - 1 \notin o2 + 1 .. o3 /\ n - 1 \notin o4 + 1 .. o5
        /\ n - 1 \notin o6 + 1 .. o7
    OBVIOUS
  <2>3. T[o2] \notin Delimiters /\ T[o4] \notin Delimiters
        /\ T[o6] \notin Delimiters
    BY DEF Delimiters
  <2>4. n - 1 # o2 /\ n - 1 # o4 /\ n - 1 # o6
    BY <2>3
  <2>5. n # o3 + 1 /\ n # o5 + 1
    BY DEF Parameters
  <2>6. CASE Len(T) = o7
    BY <1>1, <2>1, <2>2, <2>4, <2>5, <2>6
  <2>7. CASE /\ Len(T) >= o7 + 2
             /\ T[o7 + 1] = "&" /\ T[o7 + 2] = "disposition="
             /\ \A i \in o7 + 3 .. Len(T) : T[i] \notin Delimiters
    <3>1. n # o7 + 1 /\ n - 1 # o7 + 2
      BY <2>7 DEF Parameters, Delimiters
    <3>2. n - 1 \notin o7 + 3 .. Len(T)
      BY <2>7
    <3> QED  BY <1>1, <2>1, <2>2, <2>4, <2>5, <2>7, <3>1, <3>2
  <2> QED  BY <2>6, <2>7
<1>3. Resource(T, skip) = SubSeq(T, skip + 1, o1)
  <2>1. /\ o1 + 1 \in 1 .. Len(T) /\ T[o1 + 1] = "?"
        /\ \A n \in 1 .. (o1 + 1) - 1 : T[n] # "?"
    BY <1>1
  <2>2. Resource(T, skip) = SubSeq(T, skip + 1, (o1 + 1) - 1)
    BY <2>1, ResourceAt
  <2>3. (o1 + 1) - 1 = o1
    OBVIOUS
  <2> QED  BY <2>2, <2>3
<1>4. QueryParameter(T, "uid=") = Unescape(SubSeq(T, o2 + 1, o3))
  <2>1. \A n \in 2 .. Len(T) :
          T[n] = "uid=" /\ T[n - 1] \in Delimiters => n = o2
    BY <1>2 DEF Parameters
  <2>2. /\ o2 \in 2 .. Len(T) /\ T[o2] = "uid=" /\ T[o2 - 1] \in Delimiters
        /\ o3 \in o2 .. Len(T) /\ T[o3 + 1] = "&"
    BY <1>1 DEF Delimiters
  <2>3. \A n \in o2 .. o3 : T[n] # "&"
    BY DEF Delimiters
  <2>4. ValueAt(T, "uid=", o2, o3)
    BY <2>1, <2>2, <2>3 DEF ValueAt
  <2> QED  BY <2>4, ParameterAt
<1>5. QueryParameter(T, "expires=") = Unescape(SubSeq(T, o4 + 1, o5))
  <2>1. \A n \in 2 .. Len(T) :
          T[n] = "expires=" /\ T[n - 1] \in Delimiters => n = o4
    BY <1>2 DEF Parameters
  <2>2. /\ o4 \in 2 .. Len(T) /\ T[o4] = "expires=" /\ T[o4 - 1] \in Delimiters
        /\ o5 \in o4 .. Len(T) /\ T[o5 + 1] = "&"
    BY <1>1 DEF Delimiters
  <2>3. \A n \in o4 .. o5 : T[n] # "&"
    BY DEF Delimiters
  <2>4. ValueAt(T, "expires=", o4, o5)
    BY <2>1, <2>2, <2>3 DEF ValueAt
  <2> QED  BY <2>4, ParameterAt
<1>6. QueryParameter(T, "signature=") = Unescape(SubSeq(T, o6 + 1, o7))
  <2>1. \A n \in 2 .. Len(T) :
          T[n] = "signature=" /\ T[n - 1] \in Delimiters => n = o6
    BY <1>2 DEF Parameters
  <2>2. /\ o6 \in 2 .. Len(T) /\ T[o6] = "signature=" /\ T[o6 - 1] \in Delimiters
        /\ o7 \in o6 .. Len(T) /\ (o7 = Len(T) \/ T[o7 + 1] = "&")
    BY <1>1 DEF Delimiters
  <2>3. \A n \in o6 .. o7 : T[n] # "&"
    BY DEF Delimiters
  <2>4. ValueAt(T, "signature=", o6, o7)
    BY <2>1, <2>2, <2>3 DEF ValueAt
  <2> QED  BY <2>4, ParameterAt
<1>7. CASE Len(T) = o7
  <2>1. \A n \in 2 .. Len(T) :
          ~(T[n] = "disposition=" /\ T[n - 1] \in Delimiters)
    BY <1>2, <1>7 DEF Parameters
  <2>2. QueryParameter(T, "disposition=") = << >>
    BY <2>1, ParameterAbsent
  <2> QED  BY <1>3, <1>4, <1>5, <1>6, <1>7, <2>2
<1>8. CASE /\ Len(T) >= o7 + 2
           /\ T[o7 + 1] = "&" /\ T[o7 + 2] = "disposition="
           /\ \A i \in o7 + 3 .. Len(T) : T[i] \notin Delimiters
  <2>1. \A n \in 2 .. Len(T) :
          T[n] = "disposition=" /\ T[n - 1] \in Delimiters => n = o7 + 2
    BY <1>2 DEF Parameters
  <2> DEFINE k == o7 + 2  l == Len(T)
  <2>2. /\ k \in 2 .. Len(T) /\ T[k] = "disposition="
        /\ k - 1 = o7 + 1 /\ T[k - 1] \in Delimiters
        /\ l \in k .. Len(T) /\ l = Len(T)
    BY <1>1, <1>8 DEF Delimiters
  <2>3. \A n \in k .. l : T[n] # "&"
    BY <1>1, <1>8 DEF Delimiters
  <2>4. k + 1 = o7 + 3 /\ Len(T) # o7
    BY <1>1, <1>8
  <2>5. QueryParameter(T, "disposition=") = Unescape(SubSeq(T, k + 1, l))
    <3>1. \A n \in 2 .. Len(T) :
            T[n] = "disposition=" /\ T[n - 1] \in Delimiters => n = k
      BY <2>1
    <3> HIDE DEF k, l
    <3>2. ValueAt(T, "disposition=", k, l)
      BY <2>2, <2>3, <3>1 DEF ValueAt
    <3> QED  BY <3>2, ParameterAt
  <2> QED  BY <1>3, <1>4, <1>5, <1>6, <2>4, <2>5
<1> QED  BY <1>7, <1>8

(* part stands in T behind its first off characters.                       *)
Has(T, off, part) ==
  /\ off + Len(part) <= Len(T)
  /\ \A i \in 1 .. Len(part) : T[off + i] = part[i]

LEMMA HasBegin ==
  ASSUME NEW s \in Texts PROVE Has(s, 0, s)
BY LenProperties DEF Has, Texts

LEMMA HasStays ==
  ASSUME NEW s \in Texts, NEW t \in Texts, NEW off \in Nat,
         NEW part \in Texts, Has(s, off, part)
  PROVE  Has(Cat(s, t), off, part)
<1>1. /\ Len(s) \in Nat /\ Len(t) \in Nat /\ Len(part) \in Nat
  BY LenProperties DEF Texts
<1>2. /\ Len(Cat(s, t)) = Len(s) + Len(t)
      /\ \A i \in 1 .. Len(s) : Cat(s, t)[i] = s[i]
  BY CatTexts
<1>3. off + Len(part) <= Len(Cat(s, t))
  BY <1>1, <1>2 DEF Has
<1>4. ASSUME NEW i \in 1 .. Len(part) PROVE Cat(s, t)[off + i] = part[i]
  <2>1. off + i \in 1 .. Len(s)
    BY <1>1 DEF Has
  <2> QED  BY <1>2, <2>1 DEF Has
<1> QED  BY <1>3, <1>4 DEF Has

LEMMA HasNext ==
  ASSUME NEW s \in Texts, NEW t \in Texts
  PROVE  Has(Cat(s, t), Len(s), t)
<1>1. Len(s) \in Nat /\ Len(t) \in Nat
  BY LenProperties DEF Texts
<1>2. /\ Len(Cat(s, t)) = Len(s) + Len(t)
      /\ \A i \in 1 .. Len(t) : Cat(s, t)[Len(s) + i] = t[i]
  BY CatTexts
<1> QED  BY <1>1, <1>2 DEF Has

LEMMA HasSubSeq ==
  ASSUME NEW T \in Texts, NEW off \in Nat, NEW part \in Texts,
         Has(T, off, part)
  PROVE  SubSeq(T, off + 1, off + Len(part)) = part
<1>1. Len(part) \in Nat /\ Len(T) \in Nat
  BY LenProperties DEF Texts
<1>2. \A i \in off + 1 .. off + Len(part) : T[i] \in Chars
  BY <1>1, ElementOfSeq DEF Has, Texts
<1> DEFINE n == off + Len(part)  sub == SubSeq(T, off + 1, n)
<1>3. off + 1 \in Int /\ n \in Int
  BY <1>1
<1>4. /\ sub \in Seq(Chars)
      /\ Len(sub) = IF off + 1 <= n THEN n - (off + 1) + 1 ELSE 0
      /\ \A i \in 1 .. n - (off + 1) + 1 : sub[i] = T[(off + 1) + i - 1]
  BY <1>2, <1>3, SubSeqProperties
<1> HIDE DEF sub
<1>5. Len(sub) = Len(part)
  BY <1>1, <1>4
<1>6. \A i \in 1 .. Len(part) : sub[i] = part[i]
  <2> TAKE i \in 1 .. Len(part)
  <2>1. i \in 1 .. n - (off + 1) + 1 /\ (off + 1) + i - 1 = off + i
    BY <1>1
  <2> QED  BY <1>4, <2>1 DEF Has
<1>7. sub = part
  BY <1>4, <1>5, <1>6, SeqEqual DEF Texts
<1> QED  BY <1>7 DEF sub

-----------------------------------------------------------------------------
(* Escaped texts.                                                          *)

(* The characters that stand for an escaped one.                           *)
Escaped == {"%20", "%26", "%2B", "%3F"}

(* No character of a text is in a set.                                     *)
Free(text, set) == \A k \in DOMAIN text : text[k] \notin set

LEMMA EscapeChars ==
  \A c \in Chars : /\ EscapeChar(c) \notin Delimiters
                   /\ c \notin Escaped => UnescapeChar(EscapeChar(c)) = c
                   /\ c \notin Escaped \cup {"+"} => UnescapeChar(c) = c
<1> TAKE c \in Chars
<1>1. CASE c \in {" ", "&", "+", "?"}
  <2>1. CASE c = " "
    BY <2>1 DEF EscapeChar, UnescapeChar, Delimiters, Escaped
  <2>2. CASE c = "&"
    BY <2>2 DEF EscapeChar, UnescapeChar, Delimiters, Escaped
  <2>3. CASE c = "+"
    BY <2>3 DEF EscapeChar, UnescapeChar, Delimiters, Escaped
  <2>4. CASE c = "?"
    BY <2>4 DEF EscapeChar, UnescapeChar, Delimiters, Escaped
  <2> QED  BY <1>1, <2>1, <2>2, <2>3, <2>4
<1>2. CASE c \notin {" ", "&", "+", "?"}
  <2>1. EscapeChar(c) = c
    BY <1>2 DEF EscapeChar
  <2>2. c \notin Escaped => UnescapeChar(c) = c
    BY <1>2 DEF UnescapeChar, Escaped
  <2> QED  BY <1>2, <2>1, <2>2 DEF Delimiters
<1> QED  BY <1>1, <1>2

LEMMA EscapedText ==
  ASSUME NEW text \in Texts
  PROVE  /\ Escape(text) \in Texts
         /\ Free(Escape(text), Delimiters)
         /\ Free(text, Escaped) => Unescape(Escape(text)) = text
         /\ Free(text, Escaped \cup {"+"}) => Unescape(text) = text
<1>1. DOMAIN text = 1 .. Len(text) /\ text = [k \in DOMAIN text |-> text[k]]
      /\ \A k \in DOMAIN text : text[k] \in Chars
  BY LenProperties, TextChar DEF Texts
<1>2. Free(Escape(text), Delimiters)
  BY <1>1, EscapeChars DEF Free, Escape
<1>3. ASSUME Free(text, Escaped) PROVE Unescape(Escape(text)) = text
  <2>1. Unescape(Escape(text)) =
          [k \in DOMAIN text |-> UnescapeChar(EscapeChar(text[k]))]
    BY DEF Unescape, Escape
  <2>2. \A k \in DOMAIN text : UnescapeChar(EscapeChar(text[k])) = text[k]
    BY <1>1, <1>3, EscapeChars DEF Free
  <2> QED  BY <1>1, <2>1, <2>2
<1>4. ASSUME Free(text, Escaped \cup {"+"}) PROVE Unescape(text) = text
  <2>1. \A k \in DOMAIN text : UnescapeChar(text[k]) = text[k]
    BY <1>1, <1>4, EscapeChars DEF Free
  <2> QED  BY <1>1, <2>1 DEF Unescape
<1> QED  BY <1>2, <1>3, <1>4, EscapeType

(* A link in which the delimiters and the names of the parameters stand    *)
(* only where the code puts them or where it escapes them: the path of an  *)
(* object, which it does not escape, is free of them, and the time of      *)
(* expiry is a number.                                                     *)
PlainLink(link) ==
  /\ Free(link.host, {"?"} \cup Parameters)
  /\ Free(link.port, {"?"} \cup Parameters)
  /\ Free(link.uri, {"?"} \cup Parameters)
  /\ Free(link.expires, Delimiters \cup Escaped \cup {"+"})
  /\ Free(link.uid, Escaped)
  /\ Free(link.disposition, Escaped)

LEMMA FreeCat ==
  ASSUME NEW s \in Texts, NEW t \in Texts, NEW set,
         Free(s, set), Free(t, set)
  PROVE  Free(Cat(s, t), set)
<1>1. /\ DOMAIN s = 1 .. Len(s) /\ DOMAIN t = 1 .. Len(t)
      /\ Len(s) \in Nat /\ Len(t) \in Nat
  BY LenProperties DEF Texts
<1>2. /\ Cat(s, t) \in Texts /\ Len(Cat(s, t)) = Len(s) + Len(t)
      /\ \A i \in 1 .. Len(s) : Cat(s, t)[i] = s[i]
      /\ \A i \in 1 .. Len(t) : Cat(s, t)[Len(s) + i] = t[i]
  BY CatTexts
<1>3. DOMAIN Cat(s, t) = 1 .. Len(s) + Len(t)
  BY <1>2, LenProperties DEF Texts
<1>4. ASSUME NEW i \in 1 .. Len(s) + Len(t) PROVE Cat(s, t)[i] \notin set
  <2>1. CASE i \in 1 .. Len(s)
    BY <1>1, <1>2, <2>1 DEF Free
  <2>2. CASE i \notin 1 .. Len(s)
    <3>1. i - Len(s) \in 1 .. Len(t) /\ Len(s) + (i - Len(s)) = i
      BY <1>1, <2>2
    <3>2. Cat(s, t)[i] = t[i - Len(s)]
      BY <1>2, <3>1
    <3> QED  BY <1>1, <3>1, <3>2 DEF Free
  <2> QED  BY <2>1, <2>2
<1> QED  BY <1>3, <1>4 DEF Free

(* A part free of something, where it stands in a text.                    *)
LEMMA HasFree ==
  ASSUME NEW T, NEW off \in Nat, NEW part \in Texts, NEW set,
         Has(T, off, part), Free(part, set)
  PROVE  \A i \in off + 1 .. off + Len(part) : T[i] \notin set
<1> TAKE i \in off + 1 .. off + Len(part)
<1>1. Len(part) \in Nat /\ DOMAIN part = 1 .. Len(part)
  BY LenProperties DEF Texts
<1>2. i - off \in 1 .. Len(part) /\ off + (i - off) = i
  BY <1>1
<1>3. T[i] = part[i - off]
  BY <1>2 DEF Has
<1> QED  BY <1>1, <1>2, <1>3 DEF Free

(* The name of a parameter behind its delimiter.                           *)
LEMMA HasPair ==
  ASSUME NEW T, NEW off \in Nat, NEW a, NEW b, Has(T, off, <<a, b>>)
  PROVE  T[off + 1] = a /\ T[off + 2] = b /\ off + 2 <= Len(T)
<1>1. /\ Len(<<a, b>>) = 2 /\ <<a, b>>[1] = a /\ <<a, b>>[2] = b
  OBVIOUS
<1>2. /\ 1 \in 1 .. Len(<<a, b>>) /\ 2 \in 1 .. Len(<<a, b>>)
  BY <1>1
<1> QED  BY <1>1, <1>2 DEF Has

(* What a server finds in a text T that begins with e.                     *)
Found(T, skip, e, u, x, s, disposition) ==
  /\ Resource(T, skip) = SubSeq(T, skip + 1, Len(e))
  /\ Has(T, 0, e)
  /\ T[Len(e) + 1] = "?"
  /\ QueryParameter(T, "uid=") = Unescape(u)
  /\ QueryParameter(T, "expires=") = Unescape(x)
  /\ QueryParameter(T, "signature=") = Unescape(s)
  /\ QueryParameter(T, "disposition=") = disposition

LEMMA PartsFound ==
  ASSUME NEW e \in Texts, NEW u \in Texts, NEW x \in Texts, NEW s \in Texts,
         NEW t \in Texts, NEW T \in Texts, NEW Q \in Texts,
         NEW skip \in Nat,
         Q = Cat(Cat(Cat(Cat(Cat(Cat(e, <<"?", "uid=">>), u),
                             <<"&", "expires=">>), x),
                     <<"&", "signature=">>), s),
         T = Q \/ T = Cat(Cat(Q, <<"&", "disposition=">>), t),
         Free(e, {"?"} \cup Parameters), Free(u, Delimiters),
         Free(x, Delimiters), Free(s, Delimiters), Free(t, Delimiters)
  PROVE  Found(T, skip, e, u, x, s, IF T = Q THEN << >> ELSE Unescape(t))
<1> DEFINE a == <<"?", "uid=">>  b == <<"&", "expires=">>
           c == <<"&", "signature=">>  d == <<"&", "disposition=">>
           o1 == Len(e)  o2 == o1 + Len(a)  o3 == o2 + Len(u)
           o4 == o3 + Len(b)  o5 == o4 + Len(x)  o6 == o5 + Len(c)
           o7 == o6 + Len(s)
<1>1. /\ a \in Texts /\ b \in Texts /\ c \in Texts /\ d \in Texts
  BY FixedTexts
<1>2. /\ Len(a) = 2 /\ Len(b) = 2 /\ Len(c) = 2 /\ Len(d) = 2
  OBVIOUS
<1>3. /\ Q = Cat(Cat(Cat(Cat(Cat(Cat(e, a), u), b), x), c), s)
      /\ T = Q \/ T = Cat(Cat(Q, d), t)
  OBVIOUS
<1>4. /\ Len(e) \in Nat /\ Len(u) \in Nat /\ Len(x) \in Nat
      /\ Len(s) \in Nat /\ Len(t) \in Nat /\ Len(T) \in Nat
  BY LenProperties DEF Texts
<1>5. /\ o1 \in Nat /\ o2 \in Nat /\ o3 \in Nat /\ o4 \in Nat
      /\ o5 \in Nat /\ o6 \in Nat /\ o7 \in Nat
      /\ o2 = o1 + 2 /\ o3 >= o2 /\ o4 = o3 + 2 /\ o5 >= o4 /\ o6 = o5 + 2
      /\ o7 >= o6
  BY <1>2, <1>4
<1>6. /\ o1 \in Nat /\ o2 \in Nat /\ o3 \in Nat /\ o4 \in Nat
      /\ o5 \in Nat /\ o6 \in Nat /\ o7 \in Nat
  BY <1>5
<1>7. /\ 0 + 1 = 1 /\ 0 + Len(e) = o1 /\ o3 = o2 + Len(u)
      /\ o5 = o4 + Len(x) /\ o7 = o6 + Len(s) /\ Len(e) = o1
  BY <1>4
<1>8. a = <<"?", "uid=">> /\ b = <<"&", "expires=">>
      /\ c = <<"&", "signature=">> /\ d = <<"&", "disposition=">>
  OBVIOUS
<1>9. /\ Len(Q) = o7 /\ Has(Q, 0, e) /\ Has(Q, o1, a) /\ Has(Q, o2, u)
      /\ Has(Q, o3, b) /\ Has(Q, o4, x) /\ Has(Q, o5, c) /\ Has(Q, o6, s)
  <2> HIDE DEF a, b, c, d
  <2> DEFINE T1 == Cat(e, a)  T2 == Cat(T1, u)  T3 == Cat(T2, b)
             T4 == Cat(T3, x)  T5 == Cat(T4, c)
  <2>1. /\ Len(e) = o1 /\ o1 + Len(a) = o2 /\ o2 + Len(u) = o3
        /\ o3 + Len(b) = o4 /\ o4 + Len(x) = o5 /\ o5 + Len(c) = o6
        /\ o6 + Len(s) = o7
    OBVIOUS
  <2> HIDE DEF o1, o2, o3, o4, o5, o6, o7
  <2>2. Q = Cat(T5, s)
    BY <1>3
  <2>3. T1 \in Texts /\ Len(T1) = o2 /\ Has(T1, 0, e) /\ Has(T1, o1, a)
    BY <1>1, <2>1, CatTexts, HasBegin, HasStays, HasNext
  <2> HIDE DEF T1
  <2>4. /\ T2 \in Texts /\ Len(T2) = o3
        /\ Has(T2, 0, e) /\ Has(T2, o1, a) /\ Has(T2, o2, u)
    <3>1. T2 \in Texts /\ Len(T2) = o3 /\ Has(T2, o2, u)
      <4>1. /\ T2 \in Texts /\ Len(T2) = Len(T1) + Len(u)
            /\ Has(T2, Len(T1), u)
        BY <2>3, CatTexts, HasNext
      <4> QED  BY <2>1, <2>3, <4>1
    <3>2. Has(T2, 0, e) /\ Has(T2, o1, a)
      BY <1>1, <1>6, <2>3, HasStays
    <3> QED  BY <3>1, <3>2
  <2> HIDE DEF T2
  <2>5. /\ T3 \in Texts /\ Len(T3) = o4
        /\ Has(T3, 0, e) /\ Has(T3, o1, a) /\ Has(T3, o2, u)
        /\ Has(T3, o3, b)
    <3>1. T3 \in Texts /\ Len(T3) = o4 /\ Has(T3, o3, b)
      <4>1. /\ T3 \in Texts /\ Len(T3) = Len(T2) + Len(b)
            /\ Has(T3, Len(T2), b)
        BY <1>1, <2>4, CatTexts, HasNext
      <4> QED  BY <2>1, <2>4, <4>1
    <3>2. Has(T3, 0, e) /\ Has(T3, o1, a) /\ Has(T3, o2, u)
      BY <1>1, <1>6, <2>4, HasStays
    <3> QED  BY <3>1, <3>2
  <2> HIDE DEF T3
  <2>6. /\ T4 \in Texts /\ Len(T4) = o5
        /\ Has(T4, 0, e) /\ Has(T4, o1, a) /\ Has(T4, o2, u)
        /\ Has(T4, o3, b) /\ Has(T4, o4, x)
    <3>1. T4 \in Texts /\ Len(T4) = o5 /\ Has(T4, o4, x)
      <4>1. /\ T4 \in Texts /\ Len(T4) = Len(T3) + Len(x)
            /\ Has(T4, Len(T3), x)
        BY <2>5, CatTexts, HasNext
      <4> QED  BY <2>1, <2>5, <4>1
    <3>2. /\ Has(T4, 0, e) /\ Has(T4, o1, a) /\ Has(T4, o2, u)
          /\ Has(T4, o3, b)
      BY <1>1, <1>6, <2>5, HasStays
    <3> QED  BY <3>1, <3>2
  <2> HIDE DEF T4
  <2>7. /\ T5 \in Texts /\ Len(T5) = o6
        /\ Has(T5, 0, e) /\ Has(T5, o1, a) /\ Has(T5, o2, u)
        /\ Has(T5, o3, b) /\ Has(T5, o4, x) /\ Has(T5, o5, c)
    <3>1. T5 \in Texts /\ Len(T5) = o6 /\ Has(T5, o5, c)
      <4>1. /\ T5 \in Texts /\ Len(T5) = Len(T4) + Len(c)
            /\ Has(T5, Len(T4), c)
        BY <1>1, <2>6, CatTexts, HasNext
      <4> QED  BY <2>1, <2>6, <4>1
    <3>2. /\ Has(T5, 0, e) /\ Has(T5, o1, a) /\ Has(T5, o2, u)
          /\ Has(T5, o3, b) /\ Has(T5, o4, x)
      BY <1>1, <1>6, <2>6, HasStays
    <3> QED  BY <3>1, <3>2
  <2> HIDE DEF T5
  <2>8. Len(Q) = o7 /\ Has(Q, o6, s)
    <3>1. /\ Len(Cat(T5, s)) = Len(T5) + Len(s)
          /\ Has(Cat(T5, s), Len(T5), s)
      BY <2>7, CatTexts, HasNext
    <3> QED  BY <2>1, <2>2, <2>7, <3>1
  <2>9. /\ Has(Q, 0, e) /\ Has(Q, o1, a) /\ Has(Q, o2, u)
        /\ Has(Q, o3, b) /\ Has(Q, o4, x) /\ Has(Q, o5, c)
    BY <1>1, <1>6, <2>2, <2>7, HasStays
  <2> QED  BY <2>8, <2>9
<1> HIDE DEF a, b, c, d, o1, o2, o3, o4, o5, o6, o7
<1>10. /\ Has(T, 0, e) /\ Has(T, o1, a) /\ Has(T, o2, u) /\ Has(T, o3, b)
       /\ Has(T, o4, x) /\ Has(T, o5, c) /\ Has(T, o6, s)
       /\ T = Q => Len(T) = o7
       /\ T # Q => Len(T) = o7 + 2 + Len(t) /\ Has(T, o7, d)
                   /\ Has(T, o7 + 2, t)
  <2>1. CASE T = Q
    BY <1>9, <2>1
  <2>2. CASE T # Q
    <3> DEFINE R == Cat(Q, d)
    <3>1. T = Cat(R, t)
      BY <1>3, <2>2
    <3>2. /\ R \in Texts /\ Len(R) = o7 + 2
          /\ Has(R, 0, e) /\ Has(R, o1, a) /\ Has(R, o2, u) /\ Has(R, o3, b)
          /\ Has(R, o4, x) /\ Has(R, o5, c) /\ Has(R, o6, s)
          /\ Has(R, o7, d)
      <4>1. Has(R, o7, d)
        BY <1>1, <1>9, HasNext
      <4>2. R \in Texts /\ Len(R) = o7 + 2
        <5>1. R \in Texts /\ Len(R) = Len(Q) + Len(d)
          BY <1>1, CatTexts
        <5> QED  BY <1>2, <1>9, <5>1
      <4>3. /\ Has(R, 0, e) /\ Has(R, o1, a) /\ Has(R, o2, u)
            /\ Has(R, o3, b) /\ Has(R, o4, x) /\ Has(R, o5, c)
            /\ Has(R, o6, s)
        BY <1>1, <1>5, <1>9, HasStays
      <4> QED  BY <4>1, <4>2, <4>3
    <3> HIDE DEF R
    <3>3. /\ Len(T) = o7 + 2 + Len(t) /\ Has(T, o7 + 2, t)
      <4>1. Len(T) = Len(R) + Len(t) /\ Has(T, Len(R), t)
        BY <3>1, <3>2, CatTexts, HasNext
      <4> QED  BY <3>2, <4>1
    <3>4. /\ Has(T, 0, e) /\ Has(T, o1, a) /\ Has(T, o2, u)
          /\ Has(T, o3, b) /\ Has(T, o4, x) /\ Has(T, o5, c)
          /\ Has(T, o6, s) /\ Has(T, o7, d)
      BY <1>1, <1>5, <3>1, <3>2, HasStays
    <3> QED  BY <2>2, <3>3, <3>4
  <2> QED  BY <2>1, <2>2
<1>11. \A i \in 1 .. o1 : T[i] \notin {"?"} \cup Parameters
  <2>1. \A i \in 0 + 1 .. 0 + Len(e) : T[i] \notin {"?"} \cup Parameters
    BY <1>10, HasFree
  <2> QED  BY <1>7, <2>1
<1>12. /\ \A i \in o2 + 1 .. o3 : T[i] \notin Delimiters
       /\ \A i \in o4 + 1 .. o5 : T[i] \notin Delimiters
       /\ \A i \in o6 + 1 .. o7 : T[i] \notin Delimiters
  BY <1>5, <1>7, <1>10, HasFree
<1>13. /\ T[o1 + 1] = "?" /\ T[o1 + 2] = "uid="
       /\ T[o3 + 1] = "&" /\ T[o3 + 2] = "expires="
       /\ T[o5 + 1] = "&" /\ T[o5 + 2] = "signature="
  <2>1. /\ Has(T, o1, <<"?", "uid=">>) /\ Has(T, o3, <<"&", "expires=">>)
        /\ Has(T, o5, <<"&", "signature=">>)
    BY <1>8, <1>10
  <2>2. T[o1 + 1] = "?" /\ T[o1 + 2] = "uid="
    BY <1>5, <2>1, HasPair
  <2>3. T[o3 + 1] = "&" /\ T[o3 + 2] = "expires="
    BY <1>5, <2>1, HasPair
  <2>4. T[o5 + 1] = "&" /\ T[o5 + 2] = "signature="
    BY <1>5, <2>1, HasPair
  <2> QED  BY <2>2, <2>3, <2>4
<1>14. \/ Len(T) = o7
       \/ /\ Len(T) >= o7 + 2
          /\ T[o7 + 1] = "&" /\ T[o7 + 2] = "disposition="
          /\ \A i \in o7 + 3 .. Len(T) : T[i] \notin Delimiters
  <2>1. CASE T = Q
    BY <1>10, <2>1
  <2>2. CASE T # Q
    <3>1. T[o7 + 1] = "&" /\ T[o7 + 2] = "disposition="
      <4>1. Has(T, o7, <<"&", "disposition=">>)
        BY <1>8, <1>10, <2>2
      <4> QED  BY <1>5, <4>1, HasPair
    <3>2. \A i \in (o7 + 2) + 1 .. (o7 + 2) + Len(t) : T[i] \notin Delimiters
      <4>1. o7 + 2 \in Nat
        BY <1>5
      <4> QED  BY <1>10, <2>2, <4>1, HasFree
    <3>3. (o7 + 2) + 1 = o7 + 3 /\ (o7 + 2) + Len(t) = Len(T)
          /\ Len(T) >= o7 + 2
      BY <1>4, <1>5, <1>10, <2>2
    <3> QED  BY <3>1, <3>2, <3>3
  <2> QED  BY <2>1, <2>2
<1>15. Parts(T, o1, o2, o3, o4, o5, o6, o7)
  BY <1>5, <1>11, <1>12, <1>13, <1>14 DEF Parts
<1>16. Values(T, skip, o1, o2, o3, o4, o5, o6, o7)
  BY <1>6, <1>15, LinkParts
<1>17. /\ SubSeq(T, o2 + 1, o3) = u /\ SubSeq(T, o4 + 1, o5) = x
       /\ SubSeq(T, o6 + 1, o7) = s
  BY <1>5, <1>7, <1>10, HasSubSeq
<1>18. QueryParameter(T, "disposition=") =
         IF T = Q THEN << >> ELSE Unescape(t)
  <2>1. CASE T = Q
    BY <1>10, <1>16, <2>1 DEF Values
  <2>2. CASE T # Q
    <3>1. Len(T) # o7 /\ o7 + 2 \in Nat /\ (o7 + 2) + 1 = o7 + 3
          /\ (o7 + 2) + Len(t) = Len(T)
      BY <1>4, <1>5, <1>10, <2>2
    <3>2. SubSeq(T, (o7 + 2) + 1, (o7 + 2) + Len(t)) = t
      BY <1>10, <2>2, <3>1, HasSubSeq
    <3>3. SubSeq(T, o7 + 3, Len(T)) = t
      BY <3>1, <3>2
    <3> QED  BY <1>16, <2>2, <3>1, <3>3 DEF Values
  <2> QED  BY <2>1, <2>2
<1> QED  BY <1>7, <1>10, <1>13, <1>16, <1>17, <1>18 DEF Values, Found

LEMMA HasInside ==
  ASSUME NEW T \in Texts, NEW e \in Texts, NEW off \in Nat, NEW part \in Texts,
         Has(T, 0, e), Has(e, off, part)
  PROVE  Has(T, off, part)
<1>1. Len(e) \in Nat /\ Len(part) \in Nat /\ Len(T) \in Nat
  BY LenProperties DEF Texts
<1>2. off + Len(part) <= Len(T)
  BY <1>1 DEF Has
<1>3. ASSUME NEW i \in 1 .. Len(part) PROVE T[off + i] = part[i]
  <2>1. off + i \in 1 .. Len(e) /\ 0 + (off + i) = off + i
    BY <1>1 DEF Has
  <2> QED  BY <2>1 DEF Has
<1> QED  BY <1>2, <1>3 DEF Has

LEMMA CatAssociative ==
  ASSUME NEW s \in Texts, NEW t \in Texts, NEW v \in Texts
  PROVE  Cat(Cat(s, t), v) = Cat(s, Cat(t, v))
BY ConcatAssociative DEF Cat, Texts

LEMMA LowercaseLength ==
  ASSUME NEW text \in Texts PROVE Len(Lowercase(text)) = Len(text)
<1> DEFINE new == Lowercase(text)
<1>1. new = [k \in DOMAIN text |-> new[k]]
  BY DEF Lowercase
<1>2. \A k \in DOMAIN text : new[k] \in Chars
  BY CharsType, TextChar DEF Lowercase
<1> HIDE DEF new
<1>3. Len(new) = Len(text)
  BY <1>1, <1>2, CharwiseType
<1> QED  BY <1>3 DEF new

(* The text the server puts together from what it finds in a link.         *)
ServerText(r, u, x, d) ==
  <<"GET", "\n">> \o Lowercase(r) \o NewLine \o u \o NewLine \o x
    \o IF d = << >> THEN << >> ELSE NewLine \o d

(* What a disposition adds to its length.                                  *)
Extra(d) == IF d = << >> THEN 0 ELSE 1 + Len(d)

LEMMA ServerTextIs ==
  ASSUME NEW r \in Texts, NEW u \in Texts, NEW x \in Texts, NEW d \in Texts
  PROVE  /\ Len(ServerText(r, u, x, d))
              = 4 + Len(r) + Len(u) + Len(x) + Extra(d)
         /\ ServerText(r, u, x, d)[4 + Len(r) + Len(u) + Len(x)]
              = IF x = << >> THEN NewLine[1] ELSE x[Len(x)]
<1> DEFINE g == <<"GET", "\n">>  l == Lowercase(r)
           b1 == Cat(g, l)  b2 == Cat(b1, NewLine)  b3 == Cat(b2, u)
           b4 == Cat(b3, NewLine)  b5 == Cat(b4, x)
           e == IF d = << >> THEN << >> ELSE Cat(NewLine, d)
           n == 4 + Len(r) + Len(u) + Len(x)
<1>1. ServerText(r, u, x, d) = Cat(b5, e)
  BY DEF ServerText, Cat
<1>2. /\ g \in Texts /\ l \in Texts /\ NewLine \in Texts /\ << >> \in Texts
      /\ Len(l) = Len(r)
  BY FixedTexts, LowercaseType, LowercaseLength
<1>3. Len(g) = 2 /\ Len(NewLine) = 1
  BY DEF NewLine
<1>4. /\ Len(r) \in Nat /\ Len(u) \in Nat /\ Len(x) \in Nat
      /\ Len(d) \in Nat
  BY LenProperties DEF Texts
<1> HIDE DEF g, l
<1>5. b1 \in Texts /\ Len(b1) = 2 + Len(r)
  <2>1. b1 \in Texts /\ Len(b1) = Len(g) + Len(l)
    BY <1>2, CatTexts
  <2> QED  BY <1>2, <1>3, <2>1
<1> HIDE DEF b1
<1>6. b2 \in Texts /\ Len(b2) = 3 + Len(r)
  <2>1. b2 \in Texts /\ Len(b2) = Len(b1) + Len(NewLine)
    BY <1>2, <1>5, CatTexts
  <2> QED  BY <1>3, <1>4, <1>5, <2>1
<1> HIDE DEF b2
<1>7. b3 \in Texts /\ Len(b3) = 3 + Len(r) + Len(u)
  <2>1. b3 \in Texts /\ Len(b3) = Len(b2) + Len(u)
    BY <1>6, CatTexts
  <2> QED  BY <1>4, <1>6, <2>1
<1> HIDE DEF b3
<1>8. /\ b4 \in Texts /\ Len(b4) = 4 + Len(r) + Len(u)
      /\ b4[Len(b4)] = NewLine[1]
  <2>1. /\ b4 \in Texts /\ Len(b4) = Len(b3) + Len(NewLine)
        /\ \A i \in 1 .. Len(NewLine) : b4[Len(b3) + i] = NewLine[i]
    BY <1>2, <1>7, CatTexts
  <2>2. b4[Len(b3) + 1] = NewLine[1]
    BY <1>3, <2>1
  <2> QED  BY <1>3, <1>4, <1>7, <2>1, <2>2
<1> HIDE DEF b4
<1>9. /\ b5 \in Texts /\ Len(b5) = n
      /\ b5[n] = IF x = << >> THEN NewLine[1] ELSE x[Len(x)]
  <2>1. /\ b5 \in Texts /\ Len(b5) = Len(b4) + Len(x)
        /\ \A i \in 1 .. Len(x) : b5[Len(b4) + i] = x[i]
    BY <1>8, CatTexts
  <2>2. Len(b5) = n /\ Len(b4) + Len(x) = n
    BY <1>4, <1>8, <2>1
  <2>3. CASE x = << >>
    <3>1. b5 = b4
      BY <1>8, <2>3, EmptyRight
    <3>2. Len(b4) = n
      BY <2>2, <3>1
    <3> QED  BY <1>8, <2>1, <2>2, <2>3, <3>1, <3>2
  <2>4. CASE x # << >>
    <3>1. Len(x) # 0
      BY <2>4, EmptySeq DEF Texts
    <3>2. Len(x) \in 1 .. Len(x)
      BY <1>4, <3>1
    <3>3. b5[Len(b4) + Len(x)] = x[Len(x)]
      BY <2>1, <3>2
    <3> QED  BY <2>1, <2>2, <2>4, <3>3
  <2> QED  BY <2>3, <2>4
<1>10. e \in Texts /\ Len(e) = Extra(d)
  <2>1. CASE d = << >>
    BY <1>2, <2>1, EmptySeq DEF Extra
  <2>2. CASE d # << >>
    <3>1. Cat(NewLine, d) \in Texts /\ Len(Cat(NewLine, d)) = 1 + Len(d)
      <4>1. /\ Cat(NewLine, d) \in Texts
            /\ Len(Cat(NewLine, d)) = Len(NewLine) + Len(d)
        BY <1>2, CatTexts
      <4> QED  BY <1>3, <4>1
    <3> QED  BY <2>2, <3>1 DEF Extra
  <2> QED  BY <2>1, <2>2
<1>11. Extra(d) \in Nat
  BY <1>4 DEF Extra
<1> HIDE DEF b5, e, n
<1>12. /\ Len(Cat(b5, e)) = Len(b5) + Len(e)
       /\ \A i \in 1 .. Len(b5) : Cat(b5, e)[i] = b5[i]
  BY <1>9, <1>10, CatTexts
<1>13. n \in 1 .. Len(b5)
  BY <1>4, <1>9 DEF n
<1>14. Cat(b5, e)[n] = b5[n]
  BY <1>12, <1>13
<1> QED  BY <1>1, <1>9, <1>10, <1>12, <1>14 DEF n

(* The signed text is the one the server puts together.                    *)
LEMMA HashTextParts ==
  ASSUME NEW link \in LinkJobs
  PROVE  HashText(link) =
           ServerText(link.uri, link.uid, link.expires, link.disposition)
<1> DEFINE g == <<"GET", "\n">>  l == Lowercase(link.uri)
           u == link.uid  x == link.expires  t == link.disposition
<1>1. /\ g \in Texts /\ l \in Texts /\ NewLine \in Texts /\ u \in Texts
      /\ x \in Texts /\ t \in Texts
  BY FixedTexts, LowercaseType DEF LinkJobs
<1> DEFINE base == g \o l \o NewLine \o u \o NewLine \o x
<1>2. base \in Texts
  <2> HIDE DEF g, l, u, x
  <2>1. g \o l \in Texts
    BY <1>1, ConcatProperties DEF Texts
  <2>2. g \o l \o NewLine \in Texts
    BY <1>1, <2>1, ConcatProperties DEF Texts
  <2>3. g \o l \o NewLine \o u \in Texts
    BY <1>1, <2>2, ConcatProperties DEF Texts
  <2>4. g \o l \o NewLine \o u \o NewLine \in Texts
    BY <1>1, <2>3, ConcatProperties DEF Texts
  <2> QED  BY <1>1, <2>4, ConcatProperties DEF Texts
<1>3. HashText(link) = IF t = << >> THEN base ELSE base \o NewLine \o t
  BY DEF HashText
<1> HIDE DEF base
<1>4. CASE t = << >>
  <2>1. base \o << >> = base
    BY <1>2, ConcatEmptySeq DEF Texts
  <2> QED  BY <1>3, <1>4, <2>1 DEF base, ServerText
<1>5. CASE t # << >>
  <2> HIDE DEF t
  <2>1. Cat(Cat(base, NewLine), t) = Cat(base, Cat(NewLine, t))
    BY <1>1, <1>2, CatAssociative
  <2>2. base \o NewLine \o t = base \o (NewLine \o t)
    BY <2>1 DEF Cat
  <2> QED  BY <1>3, <1>5, <2>2 DEF base, t, ServerText
<1> QED  BY <1>4, <1>5

(* The server serves what was asked for, and opens the link if what was    *)
(* signed lost nothing.                                                    *)
LEMMA BuiltOpens ==
  ASSUME job \in LinkJobs, PlainLink(job), url = UrlText(job)
  PROVE  /\ ServesAsked(url)
         /\ hash_string = HashText(job) => Opens(url)
<1> DEFINE h == job.host  p == job.port  r == job.uri  x == job.expires
           u == Escape(job.uid)  s == Escape(Signature)
           t == Escape(job.disposition)
           a == <<"?", "uid=">>  b == <<"&", "expires=">>
           c == <<"&", "signature=">>  d == <<"&", "disposition=">>
           e == Cat(Endpoint, r)
           Q == Cat(Cat(Cat(Cat(Cat(Cat(e, a), u), b), x), c), s)
           T == UrlText(job)
<1>1. /\ h \in Texts /\ p \in Texts /\ r \in Texts /\ x \in Texts
      /\ job.uid \in Texts /\ job.disposition \in Texts
  BY DEF LinkJobs
<1>2. /\ u \in Texts /\ s \in Texts /\ t \in Texts
      /\ Free(u, Delimiters) /\ Free(s, Delimiters) /\ Free(t, Delimiters)
  BY <1>1, FixedTexts, EscapedText
<1>3. Endpoint = Cat(h, p)
  BY DEF Endpoint, Cat
<1>4. /\ Endpoint \in Texts /\ e \in Texts
      /\ Len(e) = Len(Endpoint) + Len(r)
      /\ Has(e, 0, Endpoint) /\ Has(e, Len(Endpoint), r)
  <2> HIDE DEF h, p, r
  <2>1. Endpoint \in Texts
    BY <1>1, <1>3, CatTexts
  <2>2. Has(e, 0, Endpoint)
    BY <1>1, <2>1, HasBegin, HasStays
  <2> QED  BY <1>1, <2>1, <2>2, CatTexts, HasNext
<1>5. Free(e, {"?"} \cup Parameters) /\ Free(x, Delimiters)
  <2>1. /\ Free(h, {"?"} \cup Parameters) /\ Free(p, {"?"} \cup Parameters)
        /\ Free(r, {"?"} \cup Parameters)
    BY DEF PlainLink
  <2>2. Free(x, Delimiters)
    BY DEF PlainLink, Free
  <2> HIDE DEF h, p, r
  <2>3. Free(Endpoint, {"?"} \cup Parameters)
    BY <1>1, <1>3, <2>1, FreeCat
  <2> QED  BY <1>1, <1>4, <2>1, <2>2, <2>3, FreeCat
<1>6. T = IF job.disposition = << >> THEN Q ELSE Cat(Cat(Q, d), t)
  <2> DEFINE q == Slots(job)
  <2>1. /\ q[1] = h /\ q[2] = p /\ q[3] = r /\ q[4] = a /\ q[5] = u
        /\ q[6] = b /\ q[7] = x /\ q[8] = c /\ q[9] = s
        /\ q[10] = IF job.disposition = << >> THEN << >> ELSE d
        /\ q[11] = t
    BY SlotsAre
  <2>2. T = SlotText(q)
    BY DEF UrlText
  <2>3. /\ a \in Texts /\ b \in Texts /\ c \in Texts
    BY FixedTexts
  <2>4. job.disposition = << >> => t = << >>
    BY EscapeEmpty
  <2> HIDE DEF q, T, a, b, c, d, u, x, s, t, r, h, p
  <2>5. T = Cat(Cat(Q, q[10]), t)
    BY <1>3, <2>1, <2>2 DEF SlotText
  <2>6. Q \in Texts
    BY <1>1, <1>2, <1>4, <2>3, CatTexts DEF x, r
  <2>7. job.disposition = << >> => Cat(Cat(Q, << >>), << >>) = Q
    BY <2>6, EmptyRight
  <2> HIDE DEF Q
  <2> QED  BY <2>1, <2>4, <2>5, <2>7
<1>7. /\ a \in Texts /\ b \in Texts /\ c \in Texts /\ d \in Texts
  BY FixedTexts
<1>8. /\ a = <<"?", "uid=">> /\ b = <<"&", "expires=">>
      /\ c = <<"&", "signature=">> /\ d = <<"&", "disposition=">>
      /\ Len(d) = 2
  OBVIOUS
<1> HIDE DEF a, b, c, d, e, u, x, s, t, r, h, p
<1>9. Q \in Texts
  BY <1>1, <1>2, <1>4, <1>7, CatTexts
<1>10. Q = Cat(Cat(Cat(Cat(Cat(Cat(e, <<"?", "uid=">>), u),
                             <<"&", "expires=">>), x),
                     <<"&", "signature=">>), s)
  BY <1>8
<1> HIDE DEF Q, T
<1>11. /\ T \in Texts
       /\ T = Q \/ T = Cat(Cat(Q, <<"&", "disposition=">>), t)
       /\ (T = Q) <=> (job.disposition = << >>)
  <2>1. CASE job.disposition = << >>
    BY <1>6, <1>9, <2>1
  <2>2. CASE job.disposition # << >>
    <3>1. /\ Cat(Q, d) \in Texts /\ Len(Cat(Q, d)) = Len(Q) + Len(d)
      BY <1>7, <1>9, CatTexts
    <3>2. /\ Cat(Cat(Q, d), t) \in Texts
          /\ Len(Cat(Cat(Q, d), t)) = Len(Cat(Q, d)) + Len(t)
      BY <1>2, <3>1, CatTexts
    <3>3. Len(Q) \in Nat /\ Len(t) \in Nat
      BY <1>2, <1>9, LenProperties DEF Texts
    <3>4. T = Cat(Cat(Q, d), t)
      BY <1>6, <2>2
    <3>5. T # Q
      BY <1>8, <3>1, <3>2, <3>3, <3>4
    <3> QED  BY <1>8, <2>2, <3>2, <3>4, <3>5
  <2> QED  BY <2>1, <2>2
<1>12. Len(Endpoint) \in Nat
  BY <1>4, LenProperties DEF Texts
<1>13. Found(T, Len(Endpoint), e, u, x, s,
             IF T = Q THEN << >> ELSE Unescape(t))
  BY <1>1, <1>2, <1>4, <1>5, <1>9, <1>10, <1>11, <1>12, PartsFound
<1>14. /\ QueryParameter(T, "uid=") = job.uid
       /\ QueryParameter(T, "expires=") = job.expires
       /\ QueryParameter(T, "signature=") = Signature
       /\ QueryParameter(T, "disposition=") = job.disposition
  <2>1. Unescape(u) = job.uid /\ Unescape(t) = job.disposition
    BY <1>1, EscapedText DEF PlainLink, u, t
  <2>2. Unescape(x) = job.expires
    <3>1. Free(job.expires, Escaped \cup {"+"})
      BY DEF PlainLink, Free
    <3> QED  BY <1>1, <3>1, EscapedText DEF x
  <2>3. Unescape(s) = Signature
    <3>1. Free(Signature, Escaped)
      BY DEF Free, Signature, Escaped
    <3> QED  BY <3>1, FixedTexts, EscapedText DEF s
  <2> QED  BY <1>11, <1>13, <2>1, <2>2, <2>3 DEF Found
<1>15. Has(T, 0, Endpoint) /\ Has(T, Len(Endpoint), r)
  BY <1>1, <1>4, <1>11, <1>12, <1>13, HasInside DEF Found
<1>16. Between(T, 1, Len(Endpoint) + 1) = Endpoint
  <2>1. SubSeq(T, 0 + 1, 0 + Len(Endpoint)) = Endpoint
    BY <1>4, <1>11, <1>15, HasSubSeq
  <2>2. 0 + 1 = 1 /\ 0 + Len(Endpoint) = (Len(Endpoint) + 1) - 1
    BY <1>12
  <2> QED  BY <2>1, <2>2 DEF Between
<1>17. Resource(T, Len(Endpoint)) = job.uri
  <2>1. SubSeq(T, Len(Endpoint) + 1, Len(Endpoint) + Len(r)) = r
    BY <1>1, <1>11, <1>12, <1>15, HasSubSeq
  <2> QED  BY <1>4, <1>13, <2>1 DEF r, Found
<1>18. Len(Endpoint) <= Len(T)
  BY <1>12, <1>15 DEF Has
<1>19. ServesAsked(T)
  BY <1>14, <1>17 DEF ServesAsked
<1>20. ASSUME hash_string = HashText(job) PROVE Opens(T)
  <2>1. hash_string = <<"GET", "\n">> \o Lowercase(job.uri) \o NewLine
                        \o job.uid \o NewLine \o job.expires
                        \o IF job.disposition = << >> THEN << >>
                           ELSE NewLine \o job.disposition
    BY <1>20, HashTextParts DEF ServerText
  <2> QED  BY <1>14, <1>16, <1>17, <1>18, <2>1 DEF Opens
<1>21. url = T
  BY DEF T
<1> QED  BY <1>19, <1>20, <1>21

-----------------------------------------------------------------------------
(* As long as no piece was lost, what has been built of a link is the      *)
(* pieces in front of those that are left.                                 *)
LinkInv ==
  job \in LinkJobs /\ lost = 0 =>
    /\ pc = "link" => buffer = NoBuffer
    /\ pc \in {"link", "hash"} => headers = << >>
    /\ pc = "hash" => Built(LinkHashPieces(job), buffer.text, pieces)
    /\ pc = "url" => Built(UrlPieces(job), buffer.text, pieces)
    /\ pc \in {"url", "done"} => hash_string = HashText(job)
    /\ pc = "done" => url = UrlText(job)

LEMMA CstringAppendText ==
  ASSUME NEW buf, NEW str
  PROVE  CstringAppend(buf, str, Slack).text = buf.text \o str
BY DEF CstringAppend

(* The action leaves what LinkInv speaks of alone.                         *)
LEMMA LinkInvSame ==
  ASSUME LinkInv, job' = job, lost' = lost, pc' = pc, buffer' = buffer,
         headers' = headers, pieces' = pieces, hash_string' = hash_string,
         url' = url
  PROVE  LinkInv'
BY DEF LinkInv

LEMMA LinkInvInit == ASSUME Init PROVE LinkInv
<1>1. job \in LinkJobs => pc = "link"
  BY DEF Init, LinkJobs
<1> QED  BY <1>1 DEF Init, LinkInv

(* The invariant of the next state, by the place in the program.           *)
LEMMA LinkInvNext ==
  ASSUME job' = job,
         job \in LinkJobs /\ lost' = 0 =>
           /\ pc' = "link" => buffer' = NoBuffer
           /\ pc' \in {"link", "hash"} => headers' = << >>
           /\ pc' = "hash" =>
                Built(LinkHashPieces(job), buffer'.text, pieces')
           /\ pc' = "url" => Built(UrlPieces(job), buffer'.text, pieces')
           /\ pc' \in {"url", "done"} => hash_string' = HashText(job)
           /\ pc' = "done" => url' = UrlText(job)
  PROVE  LinkInv'
BY DEF LinkInv

LEMMA LinkInvStartLink ==
  ASSUME IInv, LinkInv, StartLink PROVE LinkInv'
<1>1. job' = job /\ lost' = lost /\ pc = "link" /\ pc' = "hash"
      /\ headers' = headers /\ buffer' = buffer
      /\ pieces' = LinkHashPieces(job)
  BY DEF StartLink
<1>2. ASSUME job \in LinkJobs, lost = 0
      PROVE  Built(LinkHashPieces(job), buffer.text, LinkHashPieces(job))
  <2>1. buffer.text = << >>
    BY <1>1, <1>2 DEF LinkInv, NoBuffer
  <2> QED  BY <1>2, <2>1, LinkHashPiecesType, BuiltStart
<1>3. job \in LinkJobs /\ lost = 0 => headers = << >>
  BY <1>1 DEF LinkInv
<1> QED  BY <1>1, <1>2, <1>3, LinkInvNext

LEMMA LinkInvAppendPiece ==
  ASSUME IInv, LinkInv, AppendPiece PROVE LinkInv'
<1>1. /\ job' = job /\ lost' = lost /\ pc' = pc /\ pc \in {"hash", "url"}
      /\ headers' = headers /\ pieces # << >> /\ pieces' = Tail(pieces)
      /\ hash_string' = hash_string /\ url' = url
      /\ buffer'.text = buffer.text \o Head(pieces)
  BY CstringAppendText DEF AppendPiece, Appending
<1>2. ASSUME NEW all \in Seq(Texts), Built(all, buffer.text, pieces)
      PROVE  Built(all, buffer'.text, pieces')
  BY <1>1, <1>2, BuiltStep
<1>3. job \in LinkJobs => LinkHashPieces(job) \in Seq(Texts)
                         /\ UrlPieces(job) \in Seq(Texts)
  BY LinkHashPiecesType, UrlPiecesType
<1> QED  BY <1>1, <1>2, <1>3, LinkInvNext DEF LinkInv

LEMMA LinkInvSign ==
  ASSUME IInv, LinkInv, Sign PROVE LinkInv'
<1>1. /\ job' = job /\ lost' = lost /\ pc = "hash" /\ pieces = << >>
      /\ url' = url
  BY DEF Sign
<1>2. CASE buffer.allocated = 0
  <2>1. pc' = "crashed"
    BY <1>2 DEF Sign
  <2> QED  BY <1>1, <2>1, LinkInvNext
<1>3. CASE buffer.allocated # 0
  <2> SUFFICES ASSUME job \in LinkJobs, lost = 0
               PROVE  /\ pc' = "url" /\ hash_string' = HashText(job)
                      /\ Built(UrlPieces(job), buffer'.text, pieces')
    BY <1>1, LinkInvNext
  <2>1. /\ pc' = "url" /\ pieces' = UrlPieces(job)
        /\ hash_string' = buffer.text /\ buffer'.text = << >>
    BY <1>3 DEF Sign, LinkJobs, NoBuffer
  <2>2. buffer.text = HashText(job)
    BY <1>1, HashTextBuilt DEF LinkInv
  <2>3. Built(UrlPieces(job), << >>, UrlPieces(job))
    BY UrlPiecesType, BuiltStart
  <2> QED  BY <2>1, <2>2, <2>3
<1> QED  BY <1>2, <1>3

LEMMA LinkInvReturnUrl ==
  ASSUME IInv, LinkInv, ReturnUrl PROVE LinkInv'
<1>1. /\ job' = job /\ lost' = lost /\ pc = "url" /\ pieces = << >>
      /\ url' = buffer.text /\ pc' = "done" /\ hash_string' = hash_string
  BY DEF ReturnUrl
<1>2. job \in LinkJobs /\ lost = 0 =>
        buffer.text = UrlText(job) /\ hash_string = HashText(job)
  BY <1>1, UrlTextBuilt DEF LinkInv
<1> QED  BY <1>1, <1>2, LinkInvNext

(* A link has no headers.                                                  *)
LEMMA LinkInvHeaders ==
  ASSUME IInv, LinkInv,
         TakeHeader \/ NormalizeStep \/ NormalizeEnd \/ SortHeaders
  PROVE  LinkInv'
<1>1. job' = job /\ pc \in {"headers", "normalize"}
  BY DEF TakeHeader, NormalizeStep, NormalizeEnd, SortHeaders
<1>2. job \notin LinkJobs
  <2>1. job \in SignJobs
    BY <1>1 DEF IInv, PcInv
  <2> QED  BY <2>1 DEF SignJobs, LinkJobs
<1> QED  BY <1>1, <1>2, LinkInvNext

LEMMA LinkInvAppendHeader ==
  ASSUME IInv, LinkInv, AppendHeader PROVE LinkInv'
<1>1. job' = job /\ lost' = lost /\ pc = "hash" /\ headers # << >>
  BY DEF AppendHeader
<1>2. ~(job \in LinkJobs /\ lost = 0)
  BY <1>1 DEF LinkInv
<1> QED  BY <1>1, <1>2, LinkInvNext

LEMMA LinkInvAppendFails ==
  ASSUME IInv, LinkInv, AppendFails PROVE LinkInv'
<1>1. job' = job /\ lost' = lost + 1 /\ lost \in Nat
  BY SigningAssumption DEF AppendFails, IInv, PlainInv
<1>2. lost' # 0
  BY <1>1
<1> QED  BY <1>1, <1>2, LinkInvNext

LEMMA LinkInvStutter ==
  ASSUME LinkInv, UNCHANGED vars PROVE LinkInv'
BY LinkInvSame DEF vars

LEMMA LinkInvImplies ==
  ASSUME IInv, LinkInv, PlainLink(job) PROVE LinkOpens
<1> SUFFICES ASSUME pc = "done", job.call = "shareable_url", lost = 0
             PROVE  Opens(url) /\ ServesAsked(url)
  BY DEF LinkOpens
<1>1. job \in LinkJobs
  BY DEF IInv, PlainInv, SignJobs
<1>2. url = UrlText(job) /\ hash_string = HashText(job)
  BY <1>1 DEF LinkInv
<1> QED  BY <1>1, <1>2, BuiltOpens

(* What has been built of a link is the pieces in front of those that are  *)
(* left, in every state of every behaviour in which no piece was lost.     *)
THEOREM LinkBuilt == Spec => [](IInv /\ LinkInv)
<1>1. Init => IInv /\ LinkInv
  BY IInvInit, LinkInvInit
<1>2. IInv /\ LinkInv /\ [Next]_vars => LinkInv'
  BY LinkInvStartLink, LinkInvAppendPiece, LinkInvSign, LinkInvReturnUrl,
     LinkInvHeaders, LinkInvAppendHeader, LinkInvAppendFails, LinkInvStutter
     DEF Next
<1> QED  BY Inductive, <1>1, <1>2, PTL DEF Spec

(* A link opens and serves what it was made for, whatever delimiters and   *)
(* spaces are in the user's id and the disposition.                        *)
THEOREM LinksOpen == Spec => [](PlainLink(job) => LinkOpens)
BY LinkBuilt, LinkInvImplies, PTL

-----------------------------------------------------------------------------
(* What the server finds in any text.                                      *)

LEMMA LeastOf ==
  ASSUME NEW S \in SUBSET Nat, S # {}
  PROVE  /\ (CHOOSE k \in S : \A n \in S : k <= n) \in S
         /\ \A n \in S : (CHOOSE k \in S : \A m \in S : k <= m) <= n
<1>1. PICK k \in S : \A n \in S : ~ (<<n, k>> \in OpToRel(<, Nat))
  <2>1. IsWellFoundedOn(OpToRel(<, Nat), Nat)
    BY NatLessThanWellFounded
  <2> QED  BY <2>1, WFMin
<1>2. \A n \in S : ~(n < k)
  BY Zenon, <1>1 DEF OpToRel
<1>3. \A n \in S : k <= n
  BY <1>2
<1> QED  BY <1>3

(* A part of a text.                                                       *)
LEMMA PartOf ==
  ASSUME NEW T \in Texts, NEW a \in Nat, NEW b \in Nat, b <= Len(T)
  PROVE  /\ SubSeq(T, a + 1, b) \in Texts
         /\ Len(SubSeq(T, a + 1, b)) = IF a <= b THEN b - a ELSE 0
<1>1. Len(T) \in Nat
  BY LenProperties DEF Texts
<1>2. \A i \in a + 1 .. b : T[i] \in Chars
  BY <1>1, ElementOfSeq DEF Texts
<1>3. a + 1 \in Int /\ b \in Int
  OBVIOUS
<1>4. /\ SubSeq(T, a + 1, b) \in Seq(Chars)
      /\ Len(SubSeq(T, a + 1, b)) = IF a + 1 <= b THEN b - (a + 1) + 1 ELSE 0
  BY <1>2, <1>3, SubSeqProperties
<1> QED  BY <1>4 DEF Texts

LEMMA UnescapeCharType == \A c \in Chars : UnescapeChar(c) \in Chars
<1> TAKE c \in Chars
<1>1. CASE c = "%20"
  BY <1>1 DEF UnescapeChar, Chars
<1>2. CASE c = "+"
  BY <1>2 DEF UnescapeChar, Chars
<1>3. CASE c = "%26"
  BY <1>3 DEF UnescapeChar, Chars
<1>4. CASE c = "%2B"
  BY <1>4 DEF UnescapeChar, Chars
<1>5. CASE c = "%3F"
  BY <1>5 DEF UnescapeChar, Chars
<1>6. CASE c \notin {"%20", "+", "%26", "%2B", "%3F"}
  BY <1>6 DEF UnescapeChar
<1> QED  BY <1>1, <1>2, <1>3, <1>4, <1>5, <1>6

LEMMA UnescapeType ==
  ASSUME NEW text \in Texts
  PROVE  Unescape(text) \in Texts /\ Len(Unescape(text)) = Len(text)
<1> DEFINE new == Unescape(text)
<1>1. new = [k \in DOMAIN text |-> new[k]]
  BY DEF Unescape
<1>2. \A k \in DOMAIN text : new[k] \in Chars
  BY UnescapeCharType, TextChar DEF Unescape
<1> HIDE DEF new
<1>3. new \in Texts /\ Len(new) = Len(text)
  BY <1>1, <1>2, CharwiseType
<1> QED  BY <1>3 DEF new

LEMMA EscapeLength ==
  ASSUME NEW text \in Texts PROVE Len(Escape(text)) = Len(text)
<1> DEFINE new == Escape(text)
<1>1. new = [k \in DOMAIN text |-> new[k]]
  BY DEF Escape
<1>2. \A k \in DOMAIN text : new[k] \in Chars
  BY CharsType, TextChar DEF Escape
<1> HIDE DEF new
<1>3. Len(new) = Len(text)
  BY <1>1, <1>2, CharwiseType
<1> QED  BY <1>3 DEF new

LEMMA ResourceType ==
  ASSUME NEW T \in Texts, NEW skip \in Nat PROVE Resource(T, skip) \in Texts
<1> DEFINE S == {n \in 1 .. Len(T) + 1 : n = Len(T) + 1 \/ T[n] = "?"}
           m == CHOOSE k \in S : \A n \in S : k <= n
<1>1. Len(T) \in Nat
  BY LenProperties DEF Texts
<1>2. S \in SUBSET Nat /\ Len(T) + 1 \in S /\ \A n \in S : n <= Len(T) + 1
  BY <1>1
<1>3. Resource(T, skip) = SubSeq(T, skip + 1, m - 1)
  BY DEF Resource, Between
<1>4. m \in S
  <2> HIDE DEF S
  <2> QED  BY <1>2, LeastOf
<1>5. m \in 1 .. Len(T) + 1
  BY <1>4
<1> HIDE DEF m
<1>6. m - 1 \in Nat /\ m - 1 <= Len(T)
  BY <1>1, <1>5
<1> QED  BY <1>3, <1>6, PartOf

LEMMA QueryParameterType ==
  ASSUME NEW T \in Texts, NEW name PROVE QueryParameter(T, name) \in Texts
<1> DEFINE S == {n \in 2 .. Len(T) :
                   T[n] = name /\ T[n - 1] \in {"?", "&"}}
           k == CHOOSE j \in S : \A n \in S : j <= n
           E == {l \in k .. Len(T) + 1 : l = Len(T) + 1 \/ T[l] = "&"}
           m == CHOOSE j \in E : \A n \in E : j <= n
<1>1. Len(T) \in Nat
  BY LenProperties DEF Texts
<1>2. CASE S = {}
  <2>1. QueryParameter(T, name) = << >>
    BY <1>2 DEF QueryParameter
  <2> QED  BY <2>1, FixedTexts
<1>3. CASE S # {}
  <2>1. QueryParameter(T, name) = Unescape(SubSeq(T, k + 1, m - 1))
    BY <1>3 DEF QueryParameter, Between
  <2>2. k \in S
    <3>1. S \in SUBSET Nat
      OBVIOUS
    <3> HIDE DEF S
    <3> QED  BY <1>3, <3>1, LeastOf
  <2>3. k \in 2 .. Len(T)
    BY <2>2
  <2> HIDE DEF k, S
  <2>4. E \in SUBSET Nat /\ Len(T) + 1 \in E
    BY <1>1, <2>3
  <2>5. m \in E
    <3> HIDE DEF E
    <3> QED  BY <2>4, LeastOf
  <2>6. m \in k .. Len(T) + 1
    BY <2>5
  <2> HIDE DEF m
  <2>7. k \in Nat /\ m - 1 \in Nat /\ m - 1 <= Len(T)
    BY <1>1, <2>3, <2>6
  <2>8. SubSeq(T, k + 1, m - 1) \in Texts
    BY <2>7, PartOf
  <2> QED  BY <2>1, <2>8, UnescapeType
<1> QED  BY <1>2, <1>3

-----------------------------------------------------------------------------
(* A parameter that has lost its name, or another's, is not where it was.  *)

(* There is no parameter of this name in T, and its last character is not  *)
(* a delimiter.                                                            *)
Silent(T, name) ==
  \A n \in 2 .. Len(T) : ~(T[n] = name /\ T[n - 1] \in Delimiters)

Quiet(T, name) ==
  Silent(T, name) /\ (Len(T) > 0 => T[Len(T)] \notin Delimiters)

LEMMA QuietFree ==
  ASSUME NEW T \in Texts, NEW name, Free(T, Delimiters)
  PROVE  Quiet(T, name)
<1>1. DOMAIN T = 1 .. Len(T) /\ Len(T) \in Nat
  BY LenProperties DEF Texts
<1>2. \A n \in 1 .. Len(T) : T[n] \notin Delimiters
  BY <1>1 DEF Free
<1>3. \A n \in 2 .. Len(T) : n - 1 \in 1 .. Len(T)
  BY <1>1
<1> QED  BY <1>1, <1>2, <1>3 DEF Quiet, Silent

LEMMA QuietPair ==
  ASSUME NEW a, NEW b, NEW name, b # name, b \notin Delimiters
  PROVE  Quiet(<<a, b>>, name)
<1> DEFINE T == <<a, b>>
<1>1. Len(T) = 2 /\ T[2] = b
  OBVIOUS
<1> HIDE DEF T
<1>2. Quiet(T, name)
  BY <1>1 DEF Quiet, Silent
<1> QED  BY <1>2 DEF T

(* Where a text ends and another begins is no parameter of this name.      *)
LEMMA SilentCat ==
  ASSUME NEW s \in Texts, NEW t \in Texts, NEW name,
         Silent(s, name), Silent(t, name),
         Len(s) > 0 /\ Len(t) > 0 => t[1] # name \/ s[Len(s)] \notin Delimiters
  PROVE  Silent(Cat(s, t), name)
<1> DEFINE T == Cat(s, t)  m == Len(s)  l == Len(t)
<1>1. m \in Nat /\ l \in Nat
  BY LenProperties DEF Texts
<1>2. /\ Len(T) = m + l
      /\ \A i \in 1 .. m : T[i] = s[i]
      /\ \A i \in 1 .. l : T[m + i] = t[i]
  BY CatTexts
<1> HIDE DEF T
<1>3. ASSUME NEW n \in 2 .. m + l
      PROVE  ~(T[n] = name /\ T[n - 1] \in Delimiters)
  <2>1. CASE n <= m
    <3>1. n \in 2 .. m /\ n \in 1 .. m /\ n - 1 \in 1 .. m
      BY <1>1, <2>1
    <3>2. T[n] = s[n] /\ T[n - 1] = s[n - 1]
      BY <1>2, <3>1
    <3> QED  BY <3>1, <3>2 DEF Silent
  <2>2. CASE n = m + 1
    <3>1. m > 0 /\ l > 0 /\ m \in 1 .. m /\ 1 \in 1 .. l /\ n - 1 = m
      BY <1>1, <2>2
    <3>2. T[n] = t[1] /\ T[n - 1] = s[m]
      BY <1>2, <2>2, <3>1
    <3> QED  BY <3>1, <3>2
  <2>3. CASE n > m + 1
    <3> DEFINE i == n - m
    <3>1. i \in 2 .. l /\ i \in 1 .. l /\ i - 1 \in 1 .. l
          /\ n = m + i /\ n - 1 = m + (i - 1)
      BY <1>1, <2>3
    <3> HIDE DEF i
    <3>2. T[n] = t[i] /\ T[n - 1] = t[i - 1]
      BY <1>2, <3>1
    <3> QED  BY <3>1, <3>2 DEF Silent
  <2> QED  BY <1>1, <2>1, <2>2, <2>3
<1> QED  BY <1>2, <1>3 DEF Silent, T

LEMMA QuietCat ==
  ASSUME NEW s \in Texts, NEW t \in Texts, NEW name,
         Quiet(s, name), Quiet(t, name)
  PROVE  Quiet(Cat(s, t), name)
<1> DEFINE T == Cat(s, t)  m == Len(s)  l == Len(t)
<1>1. m \in Nat /\ l \in Nat
  BY LenProperties DEF Texts
<1>2. /\ Len(T) = m + l
      /\ \A i \in 1 .. m : T[i] = s[i]
      /\ \A i \in 1 .. l : T[m + i] = t[i]
  BY CatTexts
<1>3. Silent(T, name)
  BY SilentCat DEF Quiet
<1> HIDE DEF T
<1>4. ASSUME m + l > 0 PROVE T[m + l] \notin Delimiters
  <2>1. CASE l > 0
    <3>1. l \in 1 .. l
      BY <1>1, <2>1
    <3> QED  BY <1>2, <2>1, <3>1 DEF Quiet
  <2>2. CASE l = 0
    <3>1. m > 0 /\ m \in 1 .. m /\ m + l = m
      BY <1>1, <1>4, <2>2
    <3> QED  BY <1>2, <3>1 DEF Quiet
  <2> QED  BY <1>1, <2>1, <2>2
<1> QED  BY <1>2, <1>3, <1>4 DEF Quiet, T

(* The beginning of a link, up to a name, may have "&" in it.              *)
LEMMA QuietBegin ==
  ASSUME NEW s \in Texts, NEW name \in Parameters,
         Free(s, {"?"} \cup Parameters),
         NEW a, NEW b, <<a, b>> \in Texts, a # name, b # name,
         b \notin Delimiters
  PROVE  Quiet(Cat(s, <<a, b>>), name)
<1> DEFINE t == <<a, b>>  T == Cat(s, t)  m == Len(s)
<1>1. m \in Nat /\ DOMAIN s = 1 .. m
  BY LenProperties DEF Texts
<1>2. Len(t) = 2 /\ t[1] = a /\ t[2] = b /\ 2 \in 1 .. 2
  OBVIOUS
<1>3. Silent(s, name)
  <2>1. \A n \in 2 .. m : n \in 1 .. m
    BY <1>1
  <2> QED  BY <1>1, <2>1 DEF Silent, Free
<1>4. Silent(t, name)
  BY QuietPair DEF Quiet
<1> HIDE DEF t
<1>5. t \in Texts
  BY DEF t
<1>6. Silent(T, name)
  BY <1>2, <1>3, <1>4, <1>5, SilentCat
<1>7. Len(T) = m + Len(t) /\ \A i \in 1 .. Len(t) : T[m + i] = t[i]
  BY <1>5, CatTexts
<1> HIDE DEF T
<1>8. Len(T) = m + 2 /\ T[m + 2] = b
  BY <1>2, <1>7
<1>9. Quiet(T, name)
  BY <1>6, <1>8 DEF Quiet
<1> QED  BY <1>9 DEF T, t

LEMMA QuietAbsent ==
  ASSUME NEW T \in Texts, NEW name, Quiet(T, name)
  PROVE  QueryParameter(T, name) = << >>
BY ParameterAbsent DEF Quiet, Silent

(* The last parameter of a link.                                           *)
LEMMA LastParameter ==
  ASSUME NEW s \in Texts, NEW t \in Texts, NEW name \in Parameters,
         Quiet(s, name), Free(t, Delimiters), <<"&", name>> \in Texts
  PROVE  QueryParameter(Cat(Cat(s, <<"&", name>>), t), name) = Unescape(t)
<1> DEFINE p == <<"&", name>>  S == Cat(s, p)  T == Cat(S, t)
           m == Len(s)  l == Len(t)
<1>1. m \in Nat /\ l \in Nat
  BY LenProperties DEF Texts
<1>2. Len(p) = 2 /\ p[1] = "&" /\ p[2] = name /\ 1 \in 1 .. 2 /\ 2 \in 1 .. 2
  OBVIOUS
<1> HIDE DEF p
<1>3. p \in Texts
  BY DEF p
<1>4. /\ S \in Texts /\ Len(S) = m + Len(p)
      /\ \A i \in 1 .. m : S[i] = s[i]
      /\ \A i \in 1 .. Len(p) : S[m + i] = p[i]
  BY <1>3, CatTexts
<1>5. Len(S) = m + 2 /\ S[m + 1] = "&" /\ S[m + 2] = name
  BY <1>2, <1>4
<1> HIDE DEF S
<1>6. /\ T \in Texts /\ Len(T) = Len(S) + l
      /\ \A i \in 1 .. Len(S) : T[i] = S[i]
  BY <1>4, CatTexts
<1>7. Has(T, Len(S), t)
  BY <1>4, HasNext
<1> HIDE DEF T
<1>8. /\ Len(T) = m + 2 + l /\ m + 2 \in Nat
      /\ T[m + 1] = "&" /\ T[m + 2] = name
      /\ \A i \in 1 .. m : T[i] = s[i]
  <2>1. m + 1 \in 1 .. Len(S) /\ m + 2 \in 1 .. Len(S)
    BY <1>1, <1>5
  <2>2. \A i \in 1 .. m : i \in 1 .. Len(S)
    BY <1>1, <1>5
  <2> QED  BY <1>1, <1>4, <1>5, <1>6, <2>1, <2>2
<1>9. \A i \in m + 3 .. Len(T) : T[i] \notin Delimiters
  <2>1. Has(T, m + 2, t)
    BY <1>5, <1>7
  <2>2. \A i \in (m + 2) + 1 .. (m + 2) + Len(t) : T[i] \notin Delimiters
    BY <1>8, <2>1, HasFree
  <2> QED  BY <1>1, <1>8, <2>2
<1>10. name \notin Delimiters
  BY DEF Parameters, Delimiters
<1>11. \A n \in 2 .. Len(T) :
         T[n] = name /\ T[n - 1] \in Delimiters => n = m + 2
  <2> SUFFICES ASSUME NEW n \in 2 .. Len(T), T[n] = name,
                      T[n - 1] \in Delimiters, n # m + 2
               PROVE  FALSE
    OBVIOUS
  <2>1. CASE n <= m
    <3>1. n \in 2 .. m /\ n \in 1 .. m /\ n - 1 \in 1 .. m
      BY <1>1, <2>1
    <3>2. T[n] = s[n] /\ T[n - 1] = s[n - 1]
      BY <1>8, <3>1
    <3> QED  BY <3>1, <3>2 DEF Quiet, Silent
  <2>2. n # m + 1
    BY <1>8 DEF Parameters
  <2>3. n # m + 3
    <3>1. n = m + 3 => n - 1 = m + 2
      BY <1>1
    <3> QED  BY <1>8, <1>10, <3>1
  <2>4. CASE n > m + 3
    <3>1. n - 1 \in m + 3 .. Len(T)
      BY <1>1, <1>8, <2>4
    <3> QED  BY <1>9, <3>1
  <2> QED  BY <1>1, <2>1, <2>2, <2>3, <2>4
<1>12. ValueAt(T, name, m + 2, Len(T))
  <2>1. /\ m + 2 \in 2 .. Len(T) /\ Len(T) \in m + 2 .. Len(T)
        /\ (m + 2) - 1 = m + 1
    BY <1>1, <1>8
  <2>2. \A n \in m + 2 .. Len(T) : T[n] # "&"
    <3>1. \A n \in m + 2 .. Len(T) : n = m + 2 \/ n \in m + 3 .. Len(T)
      BY <1>1, <1>8
    <3>2. name # "&"
      BY <1>10 DEF Delimiters
    <3> QED  BY <1>8, <1>9, <3>1, <3>2 DEF Delimiters
  <2>3. T[(m + 2) - 1] \in Delimiters
    BY <1>8, <2>1 DEF Delimiters
  <2> QED  BY <1>8, <1>11, <2>1, <2>2, <2>3 DEF ValueAt
<1>13. QueryParameter(T, name) = Unescape(SubSeq(T, (m + 2) + 1, Len(T)))
  BY <1>6, <1>12, ParameterAt
<1>14. SubSeq(T, (m + 2) + 1, (m + 2) + Len(t)) = t
  <2>1. Has(T, m + 2, t)
    BY <1>5, <1>7
  <2> QED  BY <1>6, <1>8, <2>1, HasSubSeq
<1> QED  BY <1>8, <1>13, <1>14 DEF T, S, p

-----------------------------------------------------------------------------
(* A link that lost a piece.                                               *)

(* What the server finds in a text that it opens.                          *)
Sees(T, r, u, x, d) ==
  /\ r \in Texts /\ u \in Texts /\ x \in Texts /\ d \in Texts
  /\ r = Resource(T, Len(Endpoint))
  /\ u = QueryParameter(T, "uid=")
  /\ x = QueryParameter(T, "expires=")
  /\ d = QueryParameter(T, "disposition=")

(* The parts of the signed text that differ from link to link.             *)
Size(r, u, x, d) == Len(r) + Len(u) + Len(x) + Extra(d)

LEMMA EndpointType ==
  ASSUME job \in LinkJobs
  PROVE  /\ Endpoint \in Texts
         /\ Len(Endpoint) = Len(job.host) + Len(job.port)
         /\ Len(Endpoint) \in Nat
<1> DEFINE h == job.host  p == job.port
<1>1. h \in Texts /\ p \in Texts
  BY DEF LinkJobs
<1>2. Endpoint = Cat(h, p)
  BY DEF Endpoint, Cat
<1> HIDE DEF h, p
<1>3. Endpoint \in Texts /\ Len(Endpoint) = Len(h) + Len(p)
  BY <1>1, <1>2, CatTexts
<1>4. Len(Endpoint) \in Nat
  BY <1>3, LenProperties DEF Texts
<1> QED  BY <1>3, <1>4 DEF h, p

(* A text that is the beginning of T.                                      *)
LEMMA HasFirst ==
  ASSUME NEW T \in Texts, NEW e \in Texts, Len(e) <= Len(T),
         SubSeq(T, 1, Len(e)) = e
  PROVE  Has(T, 0, e)
<1>1. Len(e) \in Nat /\ Len(T) \in Nat
  BY LenProperties DEF Texts
<1>2. \A i \in 1 .. Len(e) : T[i] \in Chars
  BY <1>1, ElementOfSeq DEF Texts
<1>3. 1 \in Int /\ Len(e) \in Int
  BY <1>1
<1> DEFINE n == Len(e)  sub == SubSeq(T, 1, n)
<1>4. \A i \in 1 .. n - 1 + 1 : sub[i] = T[1 + i - 1]
  BY <1>2, <1>3, SubSeqProperties
<1> HIDE DEF sub
<1>5. ASSUME NEW i \in 1 .. n PROVE T[0 + i] = e[i]
  <2>1. i \in 1 .. n - 1 + 1 /\ 1 + i - 1 = i /\ 0 + i = i
    BY <1>1
  <2>2. sub[i] = T[i]
    BY <1>4, <2>1
  <2> QED  BY <2>1, <2>2 DEF sub
<1> QED  BY <1>1, <1>5 DEF Has

LEMMA OpensSees ==
  ASSUME job \in LinkJobs, NEW T \in Texts, Opens(T),
         hash_string = HashText(job)
  PROVE  /\ QueryParameter(T, "signature=") = Signature
         /\ Has(T, 0, Endpoint)
         /\ \E r, u, x, d :
              /\ Sees(T, r, u, x, d)
              /\ ServerText(r, u, x, d) =
                   ServerText(job.uri, job.uid, job.expires, job.disposition)
              /\ Size(r, u, x, d) =
                   Size(job.uri, job.uid, job.expires, job.disposition)
<1> DEFINE r == Resource(T, Len(Endpoint))  u == QueryParameter(T, "uid=")
           x == QueryParameter(T, "expires=")
           d == QueryParameter(T, "disposition=")
           r0 == job.uri  u0 == job.uid  x0 == job.expires
           d0 == job.disposition
<1>1. /\ Len(Endpoint) <= Len(T)
      /\ Between(T, 1, Len(Endpoint) + 1) = Endpoint
      /\ QueryParameter(T, "signature=") = Signature
      /\ hash_string = ServerText(r, u, x, d)
  BY DEF Opens, ServerText
<1>2. Has(T, 0, Endpoint)
  <2>1. Endpoint \in Texts /\ (Len(Endpoint) + 1) - 1 = Len(Endpoint)
    BY EndpointType
  <2>2. SubSeq(T, 1, Len(Endpoint)) = Endpoint
    BY <1>1, <2>1 DEF Between
  <2> QED  BY <1>1, <2>1, <2>2, HasFirst
<1>3. r \in Texts /\ u \in Texts /\ x \in Texts /\ d \in Texts
  BY EndpointType, ResourceType, QueryParameterType
<1>4. Sees(T, r, u, x, d)
  BY <1>3 DEF Sees
<1>5. ServerText(r, u, x, d) = ServerText(r0, u0, x0, d0)
  BY <1>1, HashTextParts
<1>6. r0 \in Texts /\ u0 \in Texts /\ x0 \in Texts /\ d0 \in Texts
  BY DEF LinkJobs
<1> HIDE DEF r, u, x, d, r0, u0, x0, d0
<1>7. /\ Len(ServerText(r, u, x, d))
           = 4 + Len(r) + Len(u) + Len(x) + Extra(d)
      /\ Len(ServerText(r0, u0, x0, d0))
           = 4 + Len(r0) + Len(u0) + Len(x0) + Extra(d0)
  BY <1>3, <1>6, ServerTextIs
<1>8. /\ Len(r) \in Nat /\ Len(u) \in Nat /\ Len(x) \in Nat
      /\ Len(d) \in Nat
      /\ Len(r0) \in Nat /\ Len(u0) \in Nat /\ Len(x0) \in Nat
      /\ Len(d0) \in Nat
  BY <1>3, <1>6, LenProperties DEF Texts
<1>9. Extra(d) \in Nat /\ Extra(d0) \in Nat
  BY <1>8 DEF Extra
<1>10. Size(r, u, x, d) = Size(r0, u0, x0, d0)
  BY SMTT(30), <1>5, <1>7, <1>8, <1>9 DEF Size
<1> QED  BY Zenon, <1>1, <1>2, <1>4, <1>5, <1>10 DEF r0, u0, x0, d0

LEMMA FreeEmpty == ASSUME NEW set PROVE Free(<< >>, set)
BY DEF Free

(* The parts of a link of which one may be lost.                           *)
LEMMA LostSlots ==
  ASSUME NEW link \in LinkJobs, NEW j \in Nat
  PROVE  \A k \in 1 .. 11 :
           /\ Lose(Slots(link), j)[k] \in Texts
           /\ Lose(Slots(link), j)[k] =
                IF k = j THEN << >> ELSE Slots(link)[k]
<1> DEFINE q == Lose(Slots(link), j)
<1>1. Slots(link) \in Seq(Texts) /\ Len(Slots(link)) = 11
  BY SlotsAre
<1>2. /\ q \in Seq(Texts) /\ Len(q) = Len(Slots(link))
      /\ \A k \in 1 .. Len(Slots(link)) :
           q[k] = IF k = j THEN << >> ELSE Slots(link)[k]
  BY <1>1, LoseIs
<1> HIDE DEF q
<1>3. \A k \in 1 .. 11 : q[k] \in Texts
  BY <1>1, <1>2, ElementOfSeq
<1> QED  BY <1>1, <1>2, <1>3 DEF q

(* What they are free of.                                                  *)
Begins(q) == Cat(Cat(q[1], q[2]), q[3])

LEMMA LostFree ==
  ASSUME NEW link \in LinkJobs, PlainLink(link), NEW j \in Nat
  PROVE  LET q == Lose(Slots(link), j) IN
         /\ Begins(q) \in Texts
         /\ Len(Begins(q)) = Len(q[1]) + Len(q[2]) + Len(q[3])
         /\ Free(Begins(q), {"?"} \cup Parameters)
         /\ Free(q[5], Delimiters) /\ Free(q[7], Delimiters)
         /\ Free(q[9], Delimiters) /\ Free(q[11], Delimiters)
<1> DEFINE S == Slots(link)  q == Lose(Slots(link), j)
           some == {"?"} \cup Parameters
<1>1. \A k \in 1 .. 11 : q[k] \in Texts
  BY LostSlots
<1>2. ASSUME NEW k \in 1 .. 11, NEW set, Free(S[k], set)
      PROVE  Free(q[k], set)
  <2>1. q[k] = IF k = j THEN << >> ELSE S[k]
    BY LostSlots
  <2> QED  BY <1>2, <2>1, FreeEmpty
<1>3. Free(S[1], some) /\ Free(S[2], some) /\ Free(S[3], some)
  BY SlotsAre DEF PlainLink
<1>4. Free(S[5], Delimiters) /\ Free(S[9], Delimiters)
      /\ Free(S[11], Delimiters)
  <2>1. /\ Free(Escape(link.uid), Delimiters)
        /\ Free(Escape(Signature), Delimiters)
        /\ Free(Escape(link.disposition), Delimiters)
    BY FixedTexts, EscapedText DEF LinkJobs
  <2> QED  BY <2>1, SlotsAre
<1>5. Free(S[7], Delimiters)
  BY SlotsAre DEF PlainLink, Free
<1>6. \A n \in {1, 2, 3, 5, 7, 9, 11} : n \in 1 .. 11
  OBVIOUS
<1> HIDE DEF S, q, some
<1>7. Free(q[1], some) /\ Free(q[2], some) /\ Free(q[3], some)
  BY <1>2, <1>3, <1>6
<1>8. Free(q[5], Delimiters) /\ Free(q[7], Delimiters)
      /\ Free(q[9], Delimiters) /\ Free(q[11], Delimiters)
  BY <1>2, <1>4, <1>5, <1>6
<1>9. q[1] \in Texts /\ q[2] \in Texts /\ q[3] \in Texts
  BY <1>1, <1>6
<1> DEFINE a == q[1]  b == q[2]  c == q[3]
<1> HIDE DEF a, b, c
<1>10. a \in Texts /\ b \in Texts /\ c \in Texts
       /\ Free(a, some) /\ Free(b, some) /\ Free(c, some)
  BY <1>7, <1>9 DEF a, b, c
<1>11. /\ Cat(a, b) \in Texts /\ Len(Cat(a, b)) = Len(a) + Len(b)
       /\ Free(Cat(a, b), some)
  BY <1>10, CatTexts, FreeCat
<1>12. /\ Cat(Cat(a, b), c) \in Texts
       /\ Len(Cat(Cat(a, b), c)) = Len(Cat(a, b)) + Len(c)
       /\ Free(Cat(Cat(a, b), c), some)
  BY <1>10, <1>11, CatTexts, FreeCat
<1>13. Begins(q) = Cat(Cat(a, b), c)
  BY DEF Begins, a, b, c
<1> QED  BY <1>8, <1>11, <1>12, <1>13 DEF q, some, a, b, c

(* A link with its names in their places.                                  *)
Named(e, u, x, s) ==
  Cat(Cat(Cat(Cat(Cat(Cat(e, <<"?", "uid=">>), u), <<"&", "expires=">>), x),
          <<"&", "signature=">>), s)

LEMMA NamedType ==
  ASSUME NEW e \in Texts, NEW u \in Texts, NEW x \in Texts, NEW s \in Texts
  PROVE  /\ Named(e, u, x, s) \in Texts
         /\ Len(Named(e, u, x, s)) = Len(e) + Len(u) + Len(x) + Len(s) + 6
<1> DEFINE a == <<"?", "uid=">>  b == <<"&", "expires=">>
           c == <<"&", "signature=">>
           q1 == Cat(e, a)  q2 == Cat(q1, u)  q3 == Cat(q2, b)
           q4 == Cat(q3, x)  q5 == Cat(q4, c)  q6 == Cat(q5, s)
<1>1. a \in Texts /\ b \in Texts /\ c \in Texts
  BY FixedTexts
<1>2. Len(a) = 2 /\ Len(b) = 2 /\ Len(c) = 2
  OBVIOUS
<1>3. Named(e, u, x, s) = q6
  BY DEF Named
<1> HIDE DEF a, b, c
<1>4. q1 \in Texts /\ Len(q1) = Len(e) + Len(a)
  BY <1>1, CatTexts
<1> HIDE DEF q1
<1>5. q2 \in Texts /\ Len(q2) = Len(q1) + Len(u)
  BY <1>4, CatTexts
<1> HIDE DEF q2
<1>6. q3 \in Texts /\ Len(q3) = Len(q2) + Len(b)
  BY <1>1, <1>5, CatTexts
<1> HIDE DEF q3
<1>7. q4 \in Texts /\ Len(q4) = Len(q3) + Len(x)
  BY <1>6, CatTexts
<1> HIDE DEF q4
<1>8. q5 \in Texts /\ Len(q5) = Len(q4) + Len(c)
  BY <1>1, <1>7, CatTexts
<1> HIDE DEF q5
<1>9. q6 \in Texts /\ Len(q6) = Len(q5) + Len(s)
  BY <1>8, CatTexts
<1> HIDE DEF q6
<1>10. /\ Len(e) \in Nat /\ Len(u) \in Nat /\ Len(x) \in Nat
       /\ Len(s) \in Nat
  BY LenProperties DEF Texts
<1>11. Len(q6) = Len(e) + Len(u) + Len(x) + Len(s) + 6
  BY <1>2, <1>4, <1>5, <1>6, <1>7, <1>8, <1>9, <1>10
<1> QED  BY <1>3, <1>9, <1>11

(* The link of the places that are filled, with its disposition or without.*)
LEMMA NamedText ==
  ASSUME NEW q, q[4] = <<"?", "uid=">>, q[6] = <<"&", "expires=">>,
         q[8] = <<"&", "signature=">>
  PROVE  SlotText(q) = Cat(Cat(Named(Begins(q), q[5], q[7], q[9]), q[10]),
                           q[11])
BY DEF SlotText, Begins, Named

(* What the server finds in a link of which a name was not lost.           *)
LEMMA NamedFound ==
  ASSUME NEW e \in Texts, NEW u \in Texts, NEW x \in Texts, NEW s \in Texts,
         NEW t \in Texts, NEW d, NEW skip \in Nat,
         (d = << >> /\ t = << >>) \/ d = <<"&", "disposition=">>,
         Free(e, {"?"} \cup Parameters), Free(u, Delimiters),
         Free(x, Delimiters), Free(s, Delimiters), Free(t, Delimiters)
  PROVE  LET T == Cat(Cat(Named(e, u, x, s), d), t) IN
         /\ T \in Texts
         /\ Found(T, skip, e, u, x, s,
                  IF d = << >> THEN << >> ELSE Unescape(t))
<1> DEFINE Q == Named(e, u, x, s)  T == Cat(Cat(Q, d), t)
           w == <<"&", "disposition=">>
<1>1. Q \in Texts
  BY NamedType
<1>2. Q = Cat(Cat(Cat(Cat(Cat(Cat(e, <<"?", "uid=">>), u),
                             <<"&", "expires=">>), x),
                     <<"&", "signature=">>), s)
  BY DEF Named
<1> HIDE DEF Q
<1>3. CASE d = << >> /\ t = << >>
  <2>1. T = Q
    BY <1>1, <1>3, EmptyRight
  <2> HIDE DEF T
  <2>2. Found(T, skip, e, u, x, s, IF T = Q THEN << >> ELSE Unescape(t))
    BY <1>1, <1>2, <2>1, PartsFound
  <2> QED  BY <1>1, <1>3, <2>1, <2>2 DEF T, Q
<1>4. CASE d = w
  <2>1. w \in Texts
    BY FixedTexts
  <2>2. Len(w) = 2
    OBVIOUS
  <2>3. T = Cat(Cat(Q, <<"&", "disposition=">>), t)
    BY <1>4
  <2>4. d # << >>
    BY <1>4
  <2> HIDE DEF w
  <2>5. Cat(Q, d) \in Texts /\ Len(Cat(Q, d)) = Len(Q) + Len(w)
    BY <1>1, <1>4, <2>1, CatTexts
  <2>6. T \in Texts /\ Len(T) = Len(Cat(Q, d)) + Len(t)
    BY <2>5, CatTexts
  <2>7. Len(Q) \in Nat /\ Len(t) \in Nat
    BY <1>1, LenProperties DEF Texts
  <2> HIDE DEF T
  <2>8. T # Q
    BY <2>2, <2>5, <2>6, <2>7
  <2>9. Found(T, skip, e, u, x, s, IF T = Q THEN << >> ELSE Unescape(t))
    BY <1>1, <1>2, <2>3, <2>6, PartsFound
  <2> QED  BY <2>4, <2>6, <2>8, <2>9 DEF T, Q
<1> QED  BY <1>3, <1>4

(* A link to the same host and port has at least these in front of the "?".*)
LEMMA HostInFront ==
  ASSUME job \in LinkJobs, PlainLink(job), NEW T \in Texts, NEW e \in Texts,
         Has(T, 0, Endpoint), T[Len(e) + 1] = "?"
  PROVE  Len(Endpoint) <= Len(e)
<1> DEFINE h == job.host  p == job.port  E == Endpoint
<1>1. h \in Texts /\ p \in Texts /\ E = Cat(h, p)
  BY DEF LinkJobs, Endpoint, Cat
<1>2. Free(h, {"?"}) /\ Free(p, {"?"})
  BY DEF PlainLink, Free
<1>3. E \in Texts /\ Len(E) \in Nat
  BY EndpointType
<1> HIDE DEF h, p, E
<1>4. Free(E, {"?"})
  BY <1>1, <1>2, FreeCat
<1>5. Len(e) \in Nat
  BY LenProperties DEF Texts
<1>6. \A i \in 0 + 1 .. 0 + Len(E) : T[i] \notin {"?"}
  <2>1. Has(T, 0, E) /\ 0 \in Nat
    BY DEF E
  <2> QED  BY <1>3, <1>4, <2>1, HasFree
<1>7. ~(Len(e) + 1 \in 0 + 1 .. 0 + Len(E))
  BY <1>6
<1> QED  BY <1>3, <1>5, <1>7 DEF E

(* A part that is not shorter than what stands in its place is not lost.   *)
LEMMA LostShorter ==
  ASSUME NEW link \in LinkJobs, NEW j \in Nat, NEW k \in 1 .. 11
  PROVE  LET q == Lose(Slots(link), j) IN
         /\ Len(q[k]) \in Nat /\ Len(Slots(link)[k]) \in Nat
         /\ Len(q[k]) <= Len(Slots(link)[k])
         /\ Len(q[k]) = Len(Slots(link)[k]) => q[k] = Slots(link)[k]
<1> DEFINE S == Slots(link)  q == Lose(S, j)  a == q[k]  b == S[k]
<1>1. a \in Texts /\ a = IF k = j THEN << >> ELSE b
  BY LostSlots
<1>2. b \in Texts
  <2>1. S \in Seq(Texts) /\ Len(S) = 11
    BY SlotsAre
  <2> HIDE DEF S
  <2> QED  BY <2>1, ElementOfSeq
<1> HIDE DEF a, b
<1>3. Len(a) \in Nat /\ Len(b) \in Nat
  BY <1>1, <1>2, LenProperties DEF Texts
<1>4. CASE a = b
  BY <1>3, <1>4 DEF a, b, q, S
<1>5. CASE a = << >>
  <2>1. Len(a) = 0
    BY <1>5
  <2>2. Len(b) = 0 => b = << >>
    BY <1>2, EmptySeq DEF Texts
  <2> QED  BY <1>3, <1>5, <2>1, <2>2 DEF a, b, q, S
<1> QED  BY <1>1, <1>4, <1>5

LEMMA SlotLengths ==
  ASSUME NEW link \in LinkJobs
  PROVE  /\ Len(Slots(link)[1]) = Len(link.host)
         /\ Len(Slots(link)[2]) = Len(link.port)
         /\ Len(Slots(link)[3]) = Len(link.uri)
         /\ Len(Slots(link)[5]) = Len(link.uid)
         /\ Len(Slots(link)[7]) = Len(link.expires)
         /\ Len(Slots(link)[9]) = Len(Signature)
         /\ Len(Slots(link)[11]) = Len(link.disposition)
<1>1. link.uid \in Texts /\ link.disposition \in Texts
  BY DEF LinkJobs
<1>2. /\ Len(Escape(link.uid)) = Len(link.uid)
      /\ Len(Escape(Signature)) = Len(Signature)
      /\ Len(Escape(link.disposition)) = Len(link.disposition)
  BY <1>1, FixedTexts, EscapeLength
<1> QED  BY Zenon, <1>2, SlotsAre

(* Its length alone tells a link that lost a value, or its host, port or   *)
(* resource.                                                               *)
LEMMA ValueLost ==
  ASSUME job \in LinkJobs, PlainLink(job), hash_string = HashText(job),
         NEW j \in Nat, j \notin {4, 6, 8}, j = 10 => job.disposition = << >>,
         Opens(SlotText(Lose(Slots(job), j)))
  PROVE  SlotText(Lose(Slots(job), j)) = UrlText(job)
<1> DEFINE S == Slots(job)  q == Lose(S, j)  T == SlotText(q)
           e == Begins(q)  u == q[5]  x == q[7]  s == q[9]  d == q[10]
           t == q[11]  E == Endpoint
           found == IF d = << >> THEN << >> ELSE Unescape(t)
<1>1. \A k \in 1 .. 11 :
        q[k] \in Texts /\ q[k] = IF k = j THEN << >> ELSE S[k]
  BY LostSlots
<1>2. q[4] = S[4] /\ q[6] = S[6] /\ q[8] = S[8]
  <2>1. 4 # j /\ 6 # j /\ 8 # j
    OBVIOUS
  <2> HIDE DEF q, S
  <2> QED  BY <1>1, <2>1
<1>3. d = S[10] /\ d = IF job.disposition = << >> THEN << >>
                       ELSE <<"&", "disposition=">>
  <2>1. S[10] = IF job.disposition = << >> THEN << >>
                ELSE <<"&", "disposition=">>
    BY SlotsAre
  <2>2. q[10] = IF 10 = j THEN << >> ELSE S[10]
    <3> HIDE DEF q, S
    <3> QED  BY <1>1
  <2> HIDE DEF q, S
  <2> QED  BY <2>1, <2>2
<1>4. job.disposition = << >> => t = << >>
  <2>1. S[11] = Escape(job.disposition)
    BY SlotsAre
  <2>2. q[11] = IF 11 = j THEN << >> ELSE S[11]
    <3> HIDE DEF q, S
    <3> QED  BY <1>1
  <2> HIDE DEF q, S
  <2> QED  BY <2>1, <2>2, EscapeEmpty
<1>5. /\ e \in Texts /\ Len(e) = Len(q[1]) + Len(q[2]) + Len(q[3])
      /\ Free(e, {"?"} \cup Parameters) /\ Free(u, Delimiters)
      /\ Free(x, Delimiters) /\ Free(s, Delimiters) /\ Free(t, Delimiters)
  BY LostFree
<1>6. u \in Texts /\ x \in Texts /\ s \in Texts /\ t \in Texts
  <2> HIDE DEF q, S
  <2> QED  BY <1>1
<1>7. T = Cat(Cat(Named(e, u, x, s), d), t)
  <2>1. /\ q[4] = <<"?", "uid=">> /\ q[6] = <<"&", "expires=">>
        /\ q[8] = <<"&", "signature=">>
    BY <1>2, SlotsAre
  <2> HIDE DEF q
  <2> QED  BY <2>1, NamedText
<1>8. E \in Texts /\ Len(E) = Len(job.host) + Len(job.port) /\ Len(E) \in Nat
  BY EndpointType
<1>9. Opens(T)
  OBVIOUS
<1>10. T = UrlText(job) <=> SlotText(q) = SlotText(S)
  BY DEF UrlText
<1> HIDE DEF E, T, e, u, x, s, d, t
<1>11. T \in Texts /\ Found(T, Len(E), e, u, x, s, found)
  <2>1. (d = << >> /\ t = << >>) \/ d = <<"&", "disposition=">>
    BY <1>3, <1>4
  <2> HIDE DEF found
  <2>2. LET F == Cat(Cat(Named(e, u, x, s), d), t) IN
        /\ F \in Texts
        /\ Found(F, Len(E), e, u, x, s,
                 IF d = << >> THEN << >> ELSE Unescape(t))
    BY <1>5, <1>6, <1>8, <2>1, NamedFound
  <2> QED  BY <1>7, <2>2 DEF found
<1>12. /\ QueryParameter(T, "signature=") = Signature
       /\ Has(T, 0, E)
       /\ \E fr, fu, fx, fd :
            /\ Sees(T, fr, fu, fx, fd)
            /\ Size(fr, fu, fx, fd) =
                 Size(job.uri, job.uid, job.expires, job.disposition)
  <2>1. \E fr, fu, fx, fd :
              /\ Sees(T, fr, fu, fx, fd)
              /\ ServerText(fr, fu, fx, fd) =
                   ServerText(job.uri, job.uid, job.expires, job.disposition)
              /\ Size(fr, fu, fx, fd) =
                   Size(job.uri, job.uid, job.expires, job.disposition)
    BY <1>9, <1>11, OpensSees
  <2> QED  BY <1>9, <1>11, <2>1, OpensSees DEF E
<1>13. PICK fr, fu, fx, fd :
         /\ Sees(T, fr, fu, fx, fd)
         /\ Size(fr, fu, fx, fd) =
              Size(job.uri, job.uid, job.expires, job.disposition)
  BY <1>12
<1>14. /\ fr = SubSeq(T, Len(E) + 1, Len(e)) /\ fu = Unescape(u)
       /\ fx = Unescape(x) /\ fd = found /\ Signature = Unescape(s)
  BY <1>11, <1>12, <1>13 DEF Sees, Found, E
<1>15. /\ Len(fu) = Len(u) /\ Len(fx) = Len(x) /\ Len(Signature) = Len(s)
       /\ Len(Unescape(t)) = Len(t)
  BY <1>6, <1>14, UnescapeType
<1>16. Len(fr) = Len(e) - Len(E)
  <2>1. Len(E) <= Len(e)
    BY <1>5, <1>11, <1>12, HostInFront DEF E, Found
  <2>2. Len(e) \in Nat
    BY <1>5, LenProperties DEF Texts
  <2>3. Len(e) <= Len(T)
    BY <1>11, <2>2 DEF Found, Has
  <2>4. Len(SubSeq(T, Len(E) + 1, Len(e)))
          = IF Len(E) <= Len(e) THEN Len(e) - Len(E) ELSE 0
    BY <1>8, <1>11, <2>2, <2>3, PartOf
  <2> QED  BY <1>14, <2>1, <2>4
<1> DEFINE Short(k) == /\ Len(q[k]) \in Nat /\ Len(S[k]) \in Nat
                       /\ Len(q[k]) <= Len(S[k])
                       /\ Len(q[k]) = Len(S[k]) => q[k] = S[k]
<1>17. \A k \in 1 .. 11 : Short(k)
  BY LostShorter
<1>18. /\ Len(S[1]) = Len(job.host) /\ Len(S[2]) = Len(job.port)
       /\ Len(S[3]) = Len(job.uri) /\ Len(S[5]) = Len(job.uid)
       /\ Len(S[7]) = Len(job.expires) /\ Len(S[9]) = Len(Signature)
       /\ Len(S[11]) = Len(job.disposition)
  BY SlotLengths
<1> DEFINE l1 == Len(q[1])  l2 == Len(q[2])  l3 == Len(q[3])
           l5 == Len(u)  l7 == Len(x)  l9 == Len(s)  l11 == Len(t)
           m1 == Len(S[1])  m2 == Len(S[2])  m3 == Len(S[3])
           m5 == Len(S[5])  m7 == Len(S[7])  m9 == Len(S[9])
           m11 == Len(S[11])
           n == Extra(found)  n0 == Extra(job.disposition)
<1>19. (l1 + l2 + l3 - (m1 + m2)) + l5 + l7 + n = m3 + m5 + m7 + n0
  <2> HIDE DEF found, q, S
  <2>1. /\ Size(fr, fu, fx, fd) = Len(fr) + Len(fu) + Len(fx) + Extra(fd)
        /\ Size(job.uri, job.uid, job.expires, job.disposition)
             = m3 + m5 + m7 + n0
    BY <1>18 DEF Size
  <2>2. Len(fr) = l1 + l2 + l3 - (m1 + m2)
    BY <1>5, <1>8, <1>16, <1>18
  <2>3. Len(fu) = l5 /\ Len(fx) = l7 /\ Extra(fd) = n
    BY <1>14, <1>15
  <2> QED  BY <1>13, <2>1, <2>2, <2>3
<1>20. l9 = m9
  BY <1>15, <1>18
<1>21. /\ l1 \in Nat /\ m1 \in Nat /\ l1 <= m1
       /\ l2 \in Nat /\ m2 \in Nat /\ l2 <= m2
       /\ l3 \in Nat /\ m3 \in Nat /\ l3 <= m3
       /\ l5 \in Nat /\ m5 \in Nat /\ l5 <= m5
       /\ l7 \in Nat /\ m7 \in Nat /\ l7 <= m7
       /\ l11 \in Nat /\ m11 \in Nat /\ l11 <= m11
  <2>1. Short(1) /\ Short(2) /\ Short(3) /\ Short(5) /\ Short(7) /\ Short(11)
    <3> HIDE DEF Short
    <3> QED  BY <1>17
  <2> HIDE DEF q, S
  <2> QED  BY <2>1 DEF u, x, t
<1>22. /\ n \in Nat /\ n0 \in Nat /\ n <= n0 /\ (n = n0 => l11 = m11)
  <2>1. CASE job.disposition = << >>
    <3>1. n = 0 /\ n0 = 0
      BY <1>3, <2>1 DEF Extra
    <3>2. m11 = 0
      BY <1>18, <2>1
    <3> HIDE DEF n, n0, m11, l11
    <3> QED  BY <1>21, <3>1, <3>2
  <2>2. CASE job.disposition # << >>
    <3>1. d # << >>
      <4>1. <<"&", "disposition=">> # << >>
        OBVIOUS
      <4> QED  BY <1>3, <2>2, <4>1
    <3>2. found = Unescape(t)
      BY <3>1
    <3>3. n0 = 1 + m11
      BY <1>18, <2>2 DEF Extra
    <3> HIDE DEF found
    <3>4. n = IF found = << >> THEN 0 ELSE 1 + l11
      BY <1>15, <3>2 DEF Extra
    <3> HIDE DEF n, n0, m11, l11
    <3> QED  BY <1>21, <3>3, <3>4
  <2> QED  BY <2>1, <2>2
<1>23. /\ l1 = m1 /\ l2 = m2 /\ l3 = m3 /\ l5 = m5 /\ l7 = m7 /\ l11 = m11
  <2> HIDE DEF n, n0, l1, l2, l3, l5, l7, l11, m1, m2, m3, m5, m7, m11
  <2> QED  BY <1>19, <1>21, <1>22
<1>24. /\ q[1] = S[1] /\ q[2] = S[2] /\ q[3] = S[3] /\ q[5] = S[5]
       /\ q[7] = S[7] /\ q[9] = S[9] /\ q[11] = S[11]
  <2>1. /\ Short(1) /\ Short(2) /\ Short(3) /\ Short(5) /\ Short(7)
        /\ Short(9) /\ Short(11)
    <3> HIDE DEF Short
    <3> QED  BY <1>17
  <2> HIDE DEF q, S
  <2> QED  BY <1>20, <1>23, <2>1 DEF u, x, s, t
<1>25. SlotText(q) = SlotText(S)
  <2> HIDE DEF q, S
  <2> QED  BY <1>2, <1>3, <1>24 DEF SlotText, d
<1> QED  BY <1>10, <1>25 DEF T

(* The parts of the link of the job, none of them lost: what stands in     *)
(* front of the "?", the user's id, the time, the signature, and the name  *)
(* and the text of the disposition.                                        *)
JobParts(e, u, x, s, d, t) ==
  /\ e \in Texts /\ u \in Texts /\ x \in Texts /\ s \in Texts
  /\ d \in Texts /\ t \in Texts
  /\ Free(e, {"?"} \cup Parameters) /\ Free(u, Delimiters)
  /\ Free(x, Delimiters) /\ Free(s, Delimiters) /\ Free(t, Delimiters)
  /\ Len(e) = Len(Endpoint) + Len(job.uri) /\ Len(u) = Len(job.uid)
  /\ x = job.expires /\ Len(s) = Len(Signature)
  /\ Len(t) = Len(job.disposition) /\ Unescape(t) = job.disposition
  /\ IF job.disposition = << >> THEN d = << >> /\ t = << >>
     ELSE d = <<"&", "disposition=">>

LEMMA JobPartsAre ==
  ASSUME job \in LinkJobs, PlainLink(job)
  PROVE  LET S == Slots(job) IN
         JobParts(Begins(S), S[5], S[7], S[9], S[10], S[11])
<1> DEFINE S == Slots(job)  e == Begins(S)
<1>1. S \in Seq(Texts) /\ Len(S) = 11
  BY SlotsAre
<1>2. Lose(S, 0) = S
  BY <1>1, LoseNone
<1>3. /\ e \in Texts
      /\ Len(e) = Len(S[1]) + Len(S[2]) + Len(S[3])
      /\ Free(e, {"?"} \cup Parameters) /\ Free(S[5], Delimiters)
      /\ Free(S[7], Delimiters) /\ Free(S[9], Delimiters)
      /\ Free(S[11], Delimiters)
  <2>1. LET q == Lose(Slots(job), 0) IN
         /\ Begins(q) \in Texts
         /\ Len(Begins(q)) = Len(q[1]) + Len(q[2]) + Len(q[3])
         /\ Free(Begins(q), {"?"} \cup Parameters)
         /\ Free(q[5], Delimiters) /\ Free(q[7], Delimiters)
         /\ Free(q[9], Delimiters) /\ Free(q[11], Delimiters)
    BY LostFree
  <2> HIDE DEF S
  <2> QED  BY <1>2, <2>1 DEF S
<1>4. /\ S[5] \in Texts /\ S[7] \in Texts /\ S[9] \in Texts
      /\ S[10] \in Texts /\ S[11] \in Texts
  <2> HIDE DEF S
  <2>1. \A k \in 1 .. 11 : S[k] \in Texts
    BY <1>1, ElementOfSeq
  <2> QED  BY <2>1
<1>5. /\ Len(S[5]) = Len(job.uid) /\ Len(S[9]) = Len(Signature)
      /\ Len(S[11]) = Len(job.disposition)
  BY SlotLengths
<1>6. Len(e) = Len(Endpoint) + Len(job.uri)
  BY <1>3, EndpointType, SlotLengths
<1>7. S[7] = job.expires
  BY SlotsAre
<1>8. Unescape(S[11]) = job.disposition
  <2>1. S[11] = Escape(job.disposition)
    BY SlotsAre
  <2>2. job.disposition \in Texts /\ Free(job.disposition, Escaped)
    BY DEF LinkJobs, PlainLink
  <2> QED  BY <2>1, <2>2, EscapedText
<1>9. IF job.disposition = << >> THEN S[10] = << >> /\ S[11] = << >>
      ELSE S[10] = <<"&", "disposition=">>
  BY SlotsAre, EscapeEmpty
<1> HIDE DEF S, e
<1>10. JobParts(e, S[5], S[7], S[9], S[10], S[11])
  BY <1>3, <1>4, <1>5, <1>6, <1>7, <1>8, <1>9 DEF JobParts
<1> QED  BY <1>10 DEF S, e

(* A text without a "?" is all resource.                                   *)
LEMMA ResourceWhole ==
  ASSUME NEW T \in Texts, NEW skip \in Nat, Free(T, {"?"}), skip <= Len(T)
  PROVE  Len(Resource(T, skip)) = Len(T) - skip
<1> DEFINE stops == {n \in 1 .. Len(T) + 1 : n = Len(T) + 1 \/ T[n] = "?"}
<1>1. Len(T) \in Nat /\ DOMAIN T = 1 .. Len(T)
  BY LenProperties DEF Texts
<1>2. stops = {Len(T) + 1}
  BY <1>1 DEF Free
<1>3. (CHOOSE m \in stops : \A n \in stops : m <= n) = Len(T) + 1
  <2> HIDE DEF stops
  <2> QED  BY <1>1, <1>2
<1>4. Resource(T, skip) = SubSeq(T, skip + 1, (Len(T) + 1) - 1)
  BY <1>3 DEF Resource, Between
<1>5. (Len(T) + 1) - 1 = Len(T)
  BY <1>1
<1> DEFINE n == Len(T)
<1> HIDE DEF n
<1>6. n \in Nat /\ n <= Len(T) /\ skip <= n
  BY <1>1 DEF n
<1>7. Len(SubSeq(T, skip + 1, n)) = IF skip <= n THEN n - skip ELSE 0
  BY <1>6, PartOf
<1> QED  BY <1>4, <1>5, <1>6, <1>7 DEF n

LEMMA FreePair ==
  ASSUME NEW a, NEW b, NEW set, a \notin set, b \notin set
  PROVE  Free(<<a, b>>, set)
<1> DEFINE T == <<a, b>>
<1>1. DOMAIN T = {1, 2} /\ T[1] = a /\ T[2] = b
  OBVIOUS
<1> HIDE DEF T
<1>2. Free(T, set)
  BY <1>1 DEF Free
<1> QED  BY <1>2 DEF T

(* Without "?uid=": the rest of the link is taken for the resource, which  *)
(* is too long.                                                            *)
LEMMA UidLost ==
  ASSUME job \in LinkJobs, hash_string = HashText(job),
         NEW e, NEW u, NEW x, NEW s, NEW d, NEW t,
         JobParts(e, u, x, s, d, t),
         NEW T, T = Cat(Cat(Cat(Cat(Cat(Cat(Cat(e, u), <<"&", "expires=">>),
                            x), <<"&", "signature=">>), s), d), t)
  PROVE  ~Opens(T)
<1> DEFINE b == <<"&", "expires=">>  c == <<"&", "signature=">>
           w == <<"&", "disposition=">>
           q1 == Cat(e, u)  q2 == Cat(q1, b)  q3 == Cat(q2, x)
           q4 == Cat(q3, c)  q5 == Cat(q4, s)  q6 == Cat(q5, d)
           q7 == Cat(q6, t)
           E == Len(Endpoint)  ask == {"?"}
<1>1. T = q7
  OBVIOUS
<1>2. b \in Texts /\ c \in Texts /\ Len(b) = 2 /\ Len(c) = 2 /\ Len(w) = 2
      /\ w # << >>
  BY FixedTexts
<1>3. Free(b, ask) /\ Free(c, ask) /\ Free(w, ask)
  BY FreePair
<1>4. /\ e \in Texts /\ u \in Texts /\ x \in Texts /\ s \in Texts
      /\ d \in Texts /\ t \in Texts
      /\ Free(e, ask) /\ Free(u, ask) /\ Free(x, ask) /\ Free(s, ask)
      /\ Free(t, ask)
  BY DEF JobParts, Free, Delimiters
<1>5. d = w \/ d = << >>
  BY DEF JobParts
<1> HIDE DEF b, c, w, ask
<1>6. Free(d, ask)
  BY <1>3, <1>5, FreeEmpty
<1>7. q1 \in Texts /\ Len(q1) = Len(e) + Len(u) /\ Free(q1, ask)
  BY <1>4, CatTexts, FreeCat
<1> HIDE DEF q1
<1>8. q2 \in Texts /\ Len(q2) = Len(q1) + Len(b) /\ Free(q2, ask)
  BY <1>2, <1>3, <1>7, CatTexts, FreeCat
<1> HIDE DEF q2
<1>9. q3 \in Texts /\ Len(q3) = Len(q2) + Len(x) /\ Free(q3, ask)
  BY <1>4, <1>8, CatTexts, FreeCat
<1> HIDE DEF q3
<1>10. q4 \in Texts /\ Len(q4) = Len(q3) + Len(c) /\ Free(q4, ask)
  BY <1>2, <1>3, <1>9, CatTexts, FreeCat
<1> HIDE DEF q4
<1>11. q5 \in Texts /\ Len(q5) = Len(q4) + Len(s) /\ Free(q5, ask)
  BY <1>4, <1>10, CatTexts, FreeCat
<1> HIDE DEF q5
<1>12. q6 \in Texts /\ Len(q6) = Len(q5) + Len(d) /\ Free(q6, ask)
  BY <1>4, <1>6, <1>11, CatTexts, FreeCat
<1> HIDE DEF q6
<1>13. q7 \in Texts /\ Len(q7) = Len(q6) + Len(t) /\ Free(q7, ask)
  BY <1>4, <1>12, CatTexts, FreeCat
<1> HIDE DEF q7
<1>14. T \in Texts /\ Free(T, {"?"})
  BY <1>1, <1>13 DEF ask
<1>15. /\ Len(e) \in Nat /\ Len(u) \in Nat /\ Len(x) \in Nat
       /\ Len(s) \in Nat /\ Len(d) \in Nat /\ Len(t) \in Nat
       /\ Len(T) \in Nat /\ E \in Nat
  BY <1>4, <1>14, EndpointType, LenProperties DEF Texts
<1>16. Len(T) = Len(e) + Len(u) + Len(x) + Len(s) + Len(d) + Len(t) + 4
  BY <1>1, <1>2, <1>7, <1>8, <1>9, <1>10, <1>11, <1>12, <1>13, <1>15
<1> SUFFICES ASSUME Opens(T) PROVE FALSE
  OBVIOUS
<1>17. PICK fr, fu, fx, fd :
         /\ Sees(T, fr, fu, fx, fd)
         /\ Size(fr, fu, fx, fd) =
              Size(job.uri, job.uid, job.expires, job.disposition)
  BY <1>14, OpensSees
<1>18. E <= Len(T)
  BY DEF Opens
<1>19. Len(fr) = Len(T) - E
  BY <1>14, <1>15, <1>17, <1>18, ResourceWhole DEF Sees
<1>20. Len(fr) + Len(fu) + Len(fx) + Extra(fd)
         = Len(job.uri) + Len(u) + Len(x) + Extra(job.disposition)
  BY <1>17 DEF Size, JobParts
<1>21. /\ Len(fu) \in Nat /\ Len(fx) \in Nat /\ Len(fd) \in Nat
       /\ Len(job.uri) \in Nat
  BY <1>17, LenProperties DEF Sees, Texts, LinkJobs
<1>22. Extra(fd) \in Nat
  BY <1>21 DEF Extra
<1>23. Extra(job.disposition) <= Len(d) + Len(t)
  <2>1. CASE job.disposition = << >>
    BY <1>15, <2>1 DEF Extra
  <2>2. CASE job.disposition # << >>
    <3>1. d = w /\ Len(t) = Len(job.disposition)
      BY <2>2 DEF JobParts, w
    <3> QED  BY <1>2, <1>15, <2>2, <3>1 DEF Extra
  <2> QED  BY <2>1, <2>2
<1>24. Len(e) = E + Len(job.uri)
  BY DEF JobParts
<1>25. Extra(job.disposition) \in Nat
  <2>1. Len(job.disposition) \in Nat
    BY LenProperties DEF Texts, LinkJobs
  <2> QED  BY <2>1 DEF Extra
<1> HIDE DEF E
<1> DEFINE z == Extra(job.disposition)  r == Len(job.uri)
<1> HIDE DEF z, r
<1>26. /\ r \in Nat /\ z \in Nat /\ z <= Len(d) + Len(t)
       /\ Len(fr) + Len(fu) + Len(fx) + Extra(fd) = r + Len(u) + Len(x) + z
       /\ Len(e) = E + r
  BY <1>20, <1>21, <1>23, <1>24, <1>25 DEF z, r
<1>27. Len(fr) = r + Len(u) + Len(x) + Len(s) + Len(d) + Len(t) + 4
  BY <1>15, <1>16, <1>19, <1>26
<1>28. Len(fr) + Len(fu) + Len(fx) + Extra(fd) >= Len(fr)
  BY <1>15, <1>21, <1>22, <1>27, <1>26
<1> QED  BY <1>15, <1>26, <1>27, <1>28

LEMMA QuietEmpty == ASSUME NEW name PROVE Quiet(<< >>, name)
BY DEF Quiet, Silent

(* Without "&signature=": there is no signature.                           *)
LEMMA SignatureLost ==
  ASSUME job \in LinkJobs,
         NEW e, NEW u, NEW x, NEW s, NEW d, NEW t,
         JobParts(e, u, x, s, d, t),
         NEW T, T = Cat(Cat(Cat(Cat(Cat(Cat(Cat(e, <<"?", "uid=">>), u),
                            <<"&", "expires=">>), x), s), d), t)
  PROVE  ~Opens(T)
<1> DEFINE a == <<"?", "uid=">>  b == <<"&", "expires=">>
           w == <<"&", "disposition=">>  name == "signature="
           q1 == Cat(e, a)  q2 == Cat(q1, u)  q3 == Cat(q2, b)
           q4 == Cat(q3, x)  q5 == Cat(q4, s)  q6 == Cat(q5, d)
           q7 == Cat(q6, t)
<1>1. T = q7
  OBVIOUS
<1>2. a \in Texts /\ b \in Texts
  BY FixedTexts
<1>3. /\ e \in Texts /\ u \in Texts /\ x \in Texts /\ s \in Texts
      /\ d \in Texts /\ t \in Texts
      /\ Free(e, {"?"} \cup Parameters) /\ Free(u, Delimiters)
      /\ Free(x, Delimiters) /\ Free(s, Delimiters) /\ Free(t, Delimiters)
  BY DEF JobParts
<1>4. /\ Quiet(u, name) /\ Quiet(x, name) /\ Quiet(s, name)
      /\ Quiet(t, name)
  BY <1>3, QuietFree
<1>5. Quiet(b, name) /\ Quiet(w, name)
  <2>1. /\ "expires=" # name /\ "expires=" \notin Delimiters
        /\ "disposition=" # name /\ "disposition=" \notin Delimiters
    BY DEF Delimiters
  <2> QED  BY <2>1, QuietPair
<1>6. Quiet(d, name)
  <2>1. d = w \/ d = << >>
    BY DEF JobParts
  <2> QED  BY <1>5, <2>1, QuietEmpty
<1>7. Quiet(q1, name)
  <2>1. /\ name \in Parameters /\ "?" # name /\ "uid=" # name
        /\ "uid=" \notin Delimiters
    BY DEF Delimiters, Parameters
  <2>2. <<"?", "uid=">> \in Texts
    BY FixedTexts
  <2> QED  BY <1>3, <2>1, <2>2, QuietBegin
<1> HIDE DEF a, b, w, name
<1>8. q1 \in Texts
  BY <1>2, <1>3, CatTexts
<1> HIDE DEF q1
<1>9. q2 \in Texts /\ Quiet(q2, name)
  BY <1>3, <1>4, <1>7, <1>8, CatTexts, QuietCat
<1> HIDE DEF q2
<1>10. q3 \in Texts /\ Quiet(q3, name)
  BY <1>2, <1>5, <1>9, CatTexts, QuietCat
<1> HIDE DEF q3
<1>11. q4 \in Texts /\ Quiet(q4, name)
  BY <1>3, <1>4, <1>10, CatTexts, QuietCat
<1> HIDE DEF q4
<1>12. q5 \in Texts /\ Quiet(q5, name)
  BY <1>3, <1>4, <1>11, CatTexts, QuietCat
<1> HIDE DEF q5
<1>13. q6 \in Texts /\ Quiet(q6, name)
  BY <1>3, <1>6, <1>12, CatTexts, QuietCat
<1> HIDE DEF q6
<1>14. q7 \in Texts /\ Quiet(q7, name)
  BY <1>3, <1>4, <1>13, CatTexts, QuietCat
<1> HIDE DEF q7
<1>15. QueryParameter(T, name) = << >>
  BY <1>1, <1>14, QuietAbsent
<1>16. Signature # << >>
  BY DEF Signature
<1> QED  BY <1>15, <1>16 DEF Opens, name

(* Without "&disposition=": the disposition is taken for a part of the     *)
(* signature, which is too long.                                           *)
LEMMA DispositionLost ==
  ASSUME job \in LinkJobs, job.disposition # << >>,
         NEW e, NEW u, NEW x, NEW s, NEW d, NEW t,
         JobParts(e, u, x, s, d, t),
         NEW T, T = Cat(Named(e, u, x, s), t)
  PROVE  ~Opens(T)
<1> DEFINE a == <<"?", "uid=">>  b == <<"&", "expires=">>
           c == <<"&", "signature=">>  name == "signature="
           q1 == Cat(e, a)  q2 == Cat(q1, u)  q3 == Cat(q2, b)
           q4 == Cat(q3, x)  q5 == Cat(q4, c)
<1>1. T = Cat(Cat(q5, s), t)
  BY DEF Named
<1>2. a \in Texts /\ b \in Texts /\ c \in Texts
  BY FixedTexts
<1>3. /\ e \in Texts /\ u \in Texts /\ x \in Texts /\ s \in Texts
      /\ t \in Texts
      /\ Free(e, {"?"} \cup Parameters) /\ Free(u, Delimiters)
      /\ Free(x, Delimiters) /\ Free(s, Delimiters) /\ Free(t, Delimiters)
  BY DEF JobParts
<1>4. Quiet(u, name) /\ Quiet(x, name)
  BY <1>3, QuietFree
<1>5. Quiet(b, name)
  <2>1. "expires=" # name /\ "expires=" \notin Delimiters
    BY DEF Delimiters
  <2> QED  BY <2>1, QuietPair
<1>6. /\ name \in Parameters /\ "?" # name /\ "uid=" # name
      /\ "uid=" \notin Delimiters
  BY DEF Delimiters, Parameters
<1>7. Quiet(q1, name)
  <2>1. <<"?", "uid=">> \in Texts
    BY FixedTexts
  <2> QED  BY <1>3, <1>6, <2>1, QuietBegin
<1>8. c = <<"&", name>>
  OBVIOUS
<1> HIDE DEF a, b, c, name
<1>9. q1 \in Texts
  BY <1>2, <1>3, CatTexts
<1> HIDE DEF q1
<1>10. q2 \in Texts /\ Quiet(q2, name)
  BY <1>3, <1>4, <1>7, <1>9, CatTexts, QuietCat
<1> HIDE DEF q2
<1>11. q3 \in Texts /\ Quiet(q3, name)
  BY <1>2, <1>5, <1>10, CatTexts, QuietCat
<1> HIDE DEF q3
<1>12. q4 \in Texts /\ Quiet(q4, name)
  BY <1>3, <1>4, <1>11, CatTexts, QuietCat
<1> HIDE DEF q4
<1>13. q5 \in Texts
  BY <1>2, <1>12, CatTexts
<1> DEFINE v == Cat(s, t)
<1>14. v \in Texts /\ Len(v) = Len(s) + Len(t) /\ Free(v, Delimiters)
  BY <1>3, CatTexts, FreeCat
<1>15. T = Cat(q5, v)
  <2> HIDE DEF q5
  <2> QED  BY <1>1, <1>3, <1>13, CatAssociative
<1> HIDE DEF v
<1>16. QueryParameter(T, name) = Unescape(v)
  <2>1. T = Cat(Cat(q4, <<"&", name>>), v)
    BY <1>8, <1>15
  <2>2. <<"&", name>> \in Texts
    BY <1>2, <1>8
  <2> QED  BY <1>6, <1>12, <1>14, <2>1, <2>2, LastParameter
<1>17. Len(Unescape(v)) = Len(s) + Len(t)
  BY <1>14, UnescapeType
<1>18. Len(s) = Len(Signature) /\ Len(t) = Len(job.disposition)
  BY DEF JobParts
<1>19. Len(s) \in Nat /\ Len(t) \in Nat
  BY <1>3, LenProperties DEF Texts
<1>20. Len(t) # 0
  <2>1. job.disposition \in Texts
    BY DEF LinkJobs
  <2> QED  BY <1>18, <2>1, EmptySeq DEF Texts
<1>21. Len(Unescape(v)) # Len(Signature)
  BY <1>17, <1>18, <1>19, <1>20
<1> QED  BY <1>16, <1>21 DEF Opens, name

(* The time of expiry is a number, as "%lld" prints it: it is not empty    *)
(* and has no line break in it.                                            *)
Dated(link) ==
  link.expires # << >> /\ \A k \in DOMAIN link.expires :
                             link.expires[k] # NewLine[1]

(* The resource of a text that goes on with a "?" behind e.                *)
LEMMA ResourceInFront ==
  ASSUME NEW e \in Texts, NEW rest \in Texts, NEW skip \in Nat,
         Free(e, {"?"}), skip <= Len(e), Len(rest) > 0, rest[1] = "?"
  PROVE  Len(Resource(Cat(e, rest), skip)) = Len(e) - skip
<1> DEFINE T == Cat(e, rest)  m == Len(e) + 1
<1>1. Len(e) \in Nat /\ Len(rest) \in Nat /\ DOMAIN e = 1 .. Len(e)
  BY LenProperties DEF Texts
<1>2. /\ T \in Texts /\ Len(T) = Len(e) + Len(rest)
      /\ \A i \in 1 .. Len(e) : T[i] = e[i]
      /\ \A i \in 1 .. Len(rest) : T[Len(e) + i] = rest[i]
  BY CatTexts
<1> HIDE DEF T
<1>3. m \in 1 .. Len(T) /\ m - 1 = Len(e) /\ 1 \in 1 .. Len(rest)
  BY <1>1, <1>2
<1>4. T[m] = "?"
  BY <1>2, <1>3
<1>5. \A n \in 1 .. Len(e) : T[n] # "?"
  BY <1>1, <1>2 DEF Free
<1> DEFINE l == Len(e)
<1> HIDE DEF m, l
<1>6. l \in Nat /\ m - 1 = l /\ l <= Len(T) /\ skip <= l
  BY <1>1, <1>2, <1>3 DEF l
<1>7. \A n \in 1 .. m - 1 : T[n] # "?"
  BY <1>5, <1>6 DEF l
<1>8. Resource(T, skip) = SubSeq(T, skip + 1, m - 1)
  BY ZenonT(30), <1>2, <1>3, <1>4, <1>7, ResourceAt
<1>9. Len(SubSeq(T, skip + 1, l)) = IF skip <= l THEN l - skip ELSE 0
  BY <1>2, <1>6, PartOf
<1> QED  BY <1>6, <1>8, <1>9 DEF T, l

(* What the server finds in a link without "&expires=": no time, and the   *)
(* right disposition behind a resource of the right length.                *)
LEMMA ExpiresFound ==
  ASSUME job \in LinkJobs,
         NEW e, NEW u, NEW x, NEW s, NEW d, NEW t,
         JobParts(e, u, x, s, d, t),
         NEW T, T = Cat(Cat(Cat(Cat(Cat(Cat(Cat(e, <<"?", "uid=">>), u), x),
                            <<"&", "signature=">>), s), d), t)
  PROVE  /\ T \in Texts
         /\ QueryParameter(T, "expires=") = << >>
         /\ QueryParameter(T, "disposition=") = job.disposition
<1> DEFINE a == <<"?", "uid=">>  c == <<"&", "signature=">>
           w == <<"&", "disposition=">>
           one == "expires="  two == "disposition="
           q1 == Cat(e, a)  q2 == Cat(q1, u)  q3 == Cat(q2, x)
           q4 == Cat(q3, c)  q5 == Cat(q4, s)  q6 == Cat(q5, d)
           q7 == Cat(q6, t)
           Silenced(q) == Quiet(q, one) /\ Quiet(q, two)
<1>1. T = q7
  OBVIOUS
<1>2. a \in Texts /\ c \in Texts /\ w \in Texts
  BY FixedTexts
<1>3. /\ e \in Texts /\ u \in Texts /\ x \in Texts /\ s \in Texts
      /\ d \in Texts /\ t \in Texts
      /\ Free(e, {"?"} \cup Parameters) /\ Free(u, Delimiters)
      /\ Free(x, Delimiters) /\ Free(s, Delimiters) /\ Free(t, Delimiters)
  BY DEF JobParts
<1>4. Silenced(u) /\ Silenced(x) /\ Silenced(s) /\ Silenced(t)
  BY <1>3, QuietFree
<1>5. Silenced(c) /\ Quiet(w, one)
  <2>1. /\ "signature=" # one /\ "signature=" # two
        /\ "signature=" \notin Delimiters
        /\ two # one /\ two \notin Delimiters
    BY DEF Delimiters
  <2> QED  BY <2>1, QuietPair
<1>6. Quiet(d, one) /\ (d = << >> => Quiet(d, two))
  <2>1. d = w \/ d = << >>
    BY DEF JobParts
  <2> QED  BY <1>5, <2>1, QuietEmpty
<1>7. Silenced(q1)
  <2>1. /\ one \in Parameters /\ two \in Parameters
        /\ "?" # one /\ "uid=" # one /\ "?" # two /\ "uid=" # two
        /\ "uid=" \notin Delimiters
    BY DEF Delimiters, Parameters
  <2>2. <<"?", "uid=">> \in Texts
    BY FixedTexts
  <2> QED  BY <1>3, <2>1, <2>2, QuietBegin
<1>8. w = <<"&", two>> /\ two \in Parameters
  BY DEF Parameters
<1> HIDE DEF a, c, w, one, two
<1>9. q1 \in Texts
  BY <1>2, <1>3, CatTexts
<1> HIDE DEF q1
<1>10. q2 \in Texts /\ Silenced(q2)
  BY <1>3, <1>4, <1>7, <1>9, CatTexts, QuietCat
<1> HIDE DEF q2
<1>11. q3 \in Texts /\ Silenced(q3)
  BY <1>3, <1>4, <1>10, CatTexts, QuietCat
<1> HIDE DEF q3
<1>12. q4 \in Texts /\ Silenced(q4)
  BY <1>2, <1>5, <1>11, CatTexts, QuietCat
<1> HIDE DEF q4
<1>13. q5 \in Texts /\ Silenced(q5)
  BY <1>3, <1>4, <1>12, CatTexts, QuietCat
<1> HIDE DEF q5
<1>14. /\ q6 \in Texts /\ Quiet(q6, one)
       /\ d = << >> => Quiet(q6, two)
  BY <1>3, <1>6, <1>13, CatTexts, QuietCat
<1>15. /\ T \in Texts /\ Quiet(T, one)
       /\ d = << >> => Quiet(T, two)
  <2> HIDE DEF q6
  <2> QED  BY <1>1, <1>3, <1>4, <1>14, CatTexts, QuietCat
<1>16. QueryParameter(T, one) = << >>
  BY <1>15, QuietAbsent
<1>17. QueryParameter(T, two) = job.disposition
  <2>1. CASE job.disposition = << >>
    <3>1. d = << >>
      BY <2>1 DEF JobParts
    <3> QED  BY <1>15, <2>1, <3>1, QuietAbsent
  <2>2. CASE job.disposition # << >>
    <3>1. d = w
      BY <2>2 DEF JobParts, w
    <3>2. T = Cat(Cat(q5, <<"&", two>>), t)
      BY <1>1, <1>8, <3>1
    <3>3. <<"&", two>> \in Texts
      BY <1>2, <1>8
    <3>4. QueryParameter(T, two) = Unescape(t)
      BY <1>3, <1>8, <1>13, <3>2, <3>3, LastParameter
    <3> QED  BY <3>4 DEF JobParts
  <2> QED  BY <2>1, <2>2
<1> QED  BY <1>15, <1>16, <1>17 DEF one, two

LEMMA ExpiresResource ==
  ASSUME job \in LinkJobs,
         NEW e, NEW u, NEW x, NEW s, NEW d, NEW t,
         JobParts(e, u, x, s, d, t),
         NEW T, T = Cat(Cat(Cat(Cat(Cat(Cat(Cat(e, <<"?", "uid=">>), u), x),
                            <<"&", "signature=">>), s), d), t)
  PROVE  Len(Resource(T, Len(Endpoint))) = Len(job.uri)
<1> DEFINE a == <<"?", "uid=">>  c == <<"&", "signature=">>
           p1 == Cat(a, u)  p2 == Cat(p1, x)  p3 == Cat(p2, c)
           p4 == Cat(p3, s)  p5 == Cat(p4, d)  p6 == Cat(p5, t)
<1>1. a \in Texts /\ c \in Texts
  BY FixedTexts
<1>2. Len(a) = 2 /\ a[1] = "?" /\ 1 \in 1 .. 2
  OBVIOUS
<1>3. /\ e \in Texts /\ u \in Texts /\ x \in Texts /\ s \in Texts
      /\ d \in Texts /\ t \in Texts /\ Free(e, {"?"})
      /\ Len(e) = Len(Endpoint) + Len(job.uri)
  BY DEF JobParts, Free
<1>4. T = Cat(Cat(Cat(Cat(Cat(Cat(Cat(e, a), u), x), c), s), d), t)
  OBVIOUS
<1> HIDE DEF a, c
<1>5. /\ Has(a, 0, a)
  BY <1>1, HasBegin
<1>6. /\ p1 \in Texts /\ Has(p1, 0, a)
      /\ Cat(Cat(e, a), u) = Cat(e, p1)
  BY <1>1, <1>3, <1>5, CatTexts, HasStays, CatAssociative
<1> HIDE DEF p1
<1>7. /\ p2 \in Texts /\ Has(p2, 0, a)
      /\ Cat(Cat(e, p1), x) = Cat(e, p2)
  BY <1>1, <1>3, <1>6, CatTexts, HasStays, CatAssociative
<1> HIDE DEF p2
<1>8. /\ p3 \in Texts /\ Has(p3, 0, a)
      /\ Cat(Cat(e, p2), c) = Cat(e, p3)
  BY <1>1, <1>3, <1>7, CatTexts, HasStays, CatAssociative
<1> HIDE DEF p3
<1>9. /\ p4 \in Texts /\ Has(p4, 0, a)
      /\ Cat(Cat(e, p3), s) = Cat(e, p4)
  BY <1>1, <1>3, <1>8, CatTexts, HasStays, CatAssociative
<1> HIDE DEF p4
<1>10. /\ p5 \in Texts /\ Has(p5, 0, a)
       /\ Cat(Cat(e, p4), d) = Cat(e, p5)
  BY <1>1, <1>3, <1>9, CatTexts, HasStays, CatAssociative
<1> HIDE DEF p5
<1>11. /\ p6 \in Texts /\ Has(p6, 0, a)
       /\ Cat(Cat(e, p5), t) = Cat(e, p6)
  BY <1>1, <1>3, <1>10, CatTexts, HasStays, CatAssociative
<1> HIDE DEF p6
<1>12. T = Cat(e, p6)
  BY <1>4, <1>6, <1>7, <1>8, <1>9, <1>10, <1>11
<1>13. Len(p6) > 0 /\ p6[1] = "?"
  <2>1. 0 + Len(a) <= Len(p6) /\ \A i \in 1 .. Len(a) : p6[0 + i] = a[i]
    BY <1>11 DEF Has
  <2>2. p6[0 + 1] = a[1]
    BY <1>2, <2>1
  <2>3. Len(p6) \in Nat
    BY <1>11, LenProperties DEF Texts
  <2> QED  BY <1>2, <2>1, <2>2, <2>3
<1> DEFINE E == Len(Endpoint)  r == Len(job.uri)
<1>14. E \in Nat /\ r \in Nat /\ Len(e) = E + r
  BY <1>3, EndpointType, LenProperties DEF LinkJobs, Texts
<1> HIDE DEF E, r
<1>15. E <= Len(e) /\ Len(e) - E = r
  BY <1>14
<1>16. Len(Resource(Cat(e, p6), E)) = Len(e) - E
  BY <1>3, <1>11, <1>13, <1>14, <1>15, ResourceInFront
<1> QED  BY <1>12, <1>15, <1>16 DEF E, r

(* Without "&expires=": the time is taken for a part of the user's id, and *)
(* the last line of the text is empty.                                     *)
LEMMA ExpiresLost ==
  ASSUME job \in LinkJobs, Dated(job), hash_string = HashText(job),
         NEW e, NEW u, NEW x, NEW s, NEW d, NEW t,
         JobParts(e, u, x, s, d, t),
         NEW T, T = Cat(Cat(Cat(Cat(Cat(Cat(Cat(e, <<"?", "uid=">>), u), x),
                            <<"&", "signature=">>), s), d), t)
  PROVE  ~Opens(T)
<1> SUFFICES ASSUME Opens(T) PROVE FALSE
  OBVIOUS
<1>1. /\ T \in Texts
      /\ QueryParameter(T, "expires=") = << >>
      /\ QueryParameter(T, "disposition=") = job.disposition
      /\ Len(Resource(T, Len(Endpoint))) = Len(job.uri)
  BY ExpiresFound, ExpiresResource
<1> DEFINE r0 == job.uri  u0 == job.uid  x0 == job.expires
           d0 == job.disposition
<1>2. /\ r0 \in Texts /\ u0 \in Texts /\ x0 \in Texts /\ d0 \in Texts
      /\ x0 # << >> /\ \A k \in DOMAIN x0 : x0[k] # NewLine[1]
  BY DEF LinkJobs, Dated
<1>3. PICK fr, fu, fx, fd :
         /\ Sees(T, fr, fu, fx, fd)
         /\ ServerText(fr, fu, fx, fd) = ServerText(r0, u0, x0, d0)
         /\ Size(fr, fu, fx, fd) = Size(r0, u0, x0, d0)
  BY <1>1, OpensSees
<1>4. fx = << >> /\ fd = d0 /\ Len(fr) = Len(r0)
  BY <1>1, <1>3 DEF Sees
<1>5. fr \in Texts /\ fu \in Texts /\ fx \in Texts /\ fd \in Texts
  BY <1>3 DEF Sees
<1> HIDE DEF r0, u0, x0, d0
<1>6. /\ Len(fr) \in Nat /\ Len(fu) \in Nat /\ Len(r0) \in Nat
      /\ Len(u0) \in Nat /\ Len(x0) \in Nat /\ Len(d0) \in Nat
      /\ DOMAIN x0 = 1 .. Len(x0)
  BY <1>2, <1>5, LenProperties DEF Texts
<1>7. Len(fx) = 0 /\ Extra(d0) \in Nat
  BY <1>4, <1>6 DEF Extra
<1>8. Len(fu) = Len(u0) + Len(x0)
  BY <1>3, <1>4, <1>6, <1>7 DEF Size
<1> DEFINE n == 4 + Len(r0) + Len(u0) + Len(x0)
<1>9. 4 + Len(fr) + Len(fu) + Len(fx) = n
  BY <1>4, <1>6, <1>7, <1>8
<1>10. /\ ServerText(fr, fu, fx, fd)[4 + Len(fr) + Len(fu) + Len(fx)]
            = IF fx = << >> THEN NewLine[1] ELSE fx[Len(fx)]
  BY <1>5, ServerTextIs
<1>11. ServerText(r0, u0, x0, d0)[4 + Len(r0) + Len(u0) + Len(x0)]
            = IF x0 = << >> THEN NewLine[1] ELSE x0[Len(x0)]
  BY <1>2, ServerTextIs
<1>12. x0[Len(x0)] # NewLine[1]
  <2>1. Len(x0) # 0
    BY <1>2, EmptySeq DEF Texts
  <2>2. Len(x0) \in DOMAIN x0
    BY <1>6, <2>1
  <2> QED  BY <1>2, <2>2
<1> HIDE DEF n
<1>13. ServerText(fr, fu, fx, fd)[n] = NewLine[1]
  BY <1>4, <1>9, <1>10
<1>14. ServerText(r0, u0, x0, d0)[n] = x0[Len(x0)]
  BY <1>2, <1>11 DEF n
<1> QED  BY <1>3, <1>12, <1>13, <1>14

(* A link that lost a piece and opens is the link: the piece was empty.    *)
LEMMA LostLink ==
  ASSUME job \in LinkJobs, PlainLink(job), Dated(job),
         hash_string = HashText(job), NEW j \in Nat,
         Opens(SlotText(Lose(Slots(job), j)))
  PROVE  SlotText(Lose(Slots(job), j)) = UrlText(job)
<1> DEFINE S == Slots(job)  q == Lose(S, j)  T == SlotText(q)
           e == Begins(S)  u == S[5]  x == S[7]  s == S[9]  d == S[10]
           t == S[11]  a == <<"?", "uid=">>  b == <<"&", "expires=">>
           c == <<"&", "signature=">>
           aName == j \in {4, 6, 8} \/ (j = 10 /\ job.disposition # << >>)
<1>1. ASSUME ~aName PROVE SlotText(Lose(Slots(job), j)) = UrlText(job)
  <2>1. j \notin {4, 6, 8} /\ (j = 10 => job.disposition = << >>)
    BY <1>1
  <2> HIDE DEF aName
  <2> QED  BY Zenon, <2>1, ValueLost
<1>2. SUFFICES ASSUME aName PROVE ~Opens(T)
  <2> HIDE DEF aName
  <2> QED  BY Zenon, <1>1
<1>3. \A k \in 1 .. 11 : q[k] = IF k = j THEN << >> ELSE S[k]
  BY LostSlots
<1>4. S[4] = a /\ S[6] = b /\ S[8] = c
  BY SlotsAre
<1>5. /\ a \in Texts /\ b \in Texts /\ c \in Texts
  BY FixedTexts
<1>6. JobParts(e, u, x, s, d, t)
  BY JobPartsAre
<1>7. /\ e \in Texts /\ u \in Texts /\ x \in Texts /\ s \in Texts
      /\ d \in Texts /\ t \in Texts
  BY <1>6 DEF JobParts
<1>8. /\ q[1] = S[1] /\ q[2] = S[2] /\ q[3] = S[3] /\ q[5] = u
      /\ q[7] = x /\ q[9] = s /\ q[11] = t
  <2> HIDE DEF q, S
  <2> QED  BY <1>2, <1>3
<1> DEFINE o4 == q[4]  o6 == q[6]  o8 == q[8]  o10 == q[10]
<1>9. /\ o4 = IF j = 4 THEN << >> ELSE a
      /\ o6 = IF j = 6 THEN << >> ELSE b
      /\ o8 = IF j = 8 THEN << >> ELSE c
      /\ o10 = IF j = 10 THEN << >> ELSE d
  <2> HIDE DEF q, S
  <2> QED  BY <1>3, <1>4 DEF d
<1>10. T = Cat(Cat(Cat(Cat(Cat(Cat(Cat(Cat(e, o4), u), o6), x), o8), s),
                   o10), t)
  <2> HIDE DEF q, S
  <2> QED  BY <1>8 DEF SlotText, Begins, e, o4, o6, o8, o10
<1> HIDE DEF T, q, S, e, u, x, s, d, t, o4, o6, o8, o10
<1>11. CASE j = 4
  <2>1. o4 = << >> /\ o6 = b /\ o8 = c /\ o10 = d
    BY <1>9, <1>11
  <2>2. Cat(e, << >>) = e
    BY <1>7, EmptyRight
  <2>3. T = Cat(Cat(Cat(Cat(Cat(Cat(Cat(e, u), b), x), c), s), d), t)
    BY <1>10, <2>1, <2>2
  <2> QED  BY <1>6, <2>3, UidLost
<1>12. CASE j = 6
  <2>1. o4 = a /\ o6 = << >> /\ o8 = c /\ o10 = d
    BY <1>9, <1>12
  <2>2. Cat(Cat(e, a), u) \in Texts
    BY <1>5, <1>7, CatTexts
  <2>3. Cat(Cat(Cat(e, a), u), << >>) = Cat(Cat(e, a), u)
    BY <2>2, EmptyRight
  <2>4. T = Cat(Cat(Cat(Cat(Cat(Cat(Cat(e, a), u), x), c), s), d), t)
    BY <1>10, <2>1, <2>3
  <2> QED  BY <1>6, <2>4, ExpiresLost
<1>13. CASE j = 8
  <2>1. o4 = a /\ o6 = b /\ o8 = << >> /\ o10 = d
    BY <1>9, <1>13
  <2> DEFINE v == Cat(Cat(Cat(Cat(e, a), u), b), x)
  <2>2. v \in Texts
    BY <1>5, <1>7, CatTexts
  <2>3. Cat(v, << >>) = v
    BY <2>2, EmptyRight
  <2>4. T = Cat(Cat(Cat(v, s), d), t)
    <3>1. T = Cat(Cat(Cat(Cat(v, << >>), s), d), t)
      BY <1>10, <2>1
    <3> HIDE DEF v
    <3> QED  BY <2>3, <3>1
  <2> QED  BY <1>6, <2>4, SignatureLost
<1>14. CASE j = 10 /\ job.disposition # << >>
  <2>1. o4 = a /\ o6 = b /\ o8 = c /\ o10 = << >>
    BY <1>9, <1>14
  <2> DEFINE v == Named(e, u, x, s)
  <2>2. v \in Texts
    BY <1>7, NamedType
  <2>3. Cat(v, << >>) = v
    BY <2>2, EmptyRight
  <2>4. T = Cat(v, t)
    <3>1. T = Cat(Cat(v, << >>), t)
      BY <1>10, <2>1 DEF Named
    <3> HIDE DEF v
    <3> QED  BY <2>3, <3>1
  <2> QED  BY <1>6, <1>14, <2>4, DispositionLost
<1> QED  BY <1>2, <1>11, <1>12, <1>13, <1>14

-----------------------------------------------------------------------------
(* A piece is lost: what is built is what one gets without this piece.     *)
LEMMA SameRest ==
  ASSUME NEW a \in Seq(Texts), NEW b \in Seq(Texts), Len(a) = Len(b),
         NEW n \in Nat, n >= 1, \A k \in n .. Len(a) : a[k] = b[k]
  PROVE  SubSeq(a, n, Len(a)) = SubSeq(b, n, Len(b))
<1> DEFINE m == Len(a)  s == SubSeq(a, n, m)  t == SubSeq(b, n, m)
<1>1. m \in Nat /\ n \in Int /\ m \in Int
  BY LenProperties
<1>2. \A i \in n .. m : a[i] \in Texts /\ b[i] \in Texts
  BY <1>1, ElementOfSeq
<1>3. /\ s \in Seq(Texts) /\ Len(s) = IF n <= m THEN m - n + 1 ELSE 0
      /\ \A i \in 1 .. m - n + 1 : s[i] = a[n + i - 1]
  BY <1>1, <1>2, SubSeqProperties
<1>4. /\ t \in Seq(Texts) /\ Len(t) = IF n <= m THEN m - n + 1 ELSE 0
      /\ \A i \in 1 .. m - n + 1 : t[i] = b[n + i - 1]
  BY <1>1, <1>2, SubSeqProperties
<1> HIDE DEF s, t
<1>5. \A i \in 1 .. m - n + 1 : s[i] = t[i]
  <2> TAKE i \in 1 .. m - n + 1
  <2>1. n + i - 1 \in n .. m
    BY <1>1
  <2> QED  BY <1>3, <1>4, <2>1
<1>6. \A i \in 1 .. Len(s) : s[i] = t[i]
  <2>1. \A i \in 1 .. Len(s) : i \in 1 .. m - n + 1
    BY <1>1, <1>3
  <2> QED  BY <1>5, <2>1
<1>7. s = t
  BY <1>3, <1>4, <1>6, SeqEqual
<1> QED  BY <1>7 DEF s, t

LEMMA BuiltLost ==
  ASSUME NEW all \in Seq(Texts), NEW text, NEW rest,
         Built(all, text, rest), rest # << >>
  PROVE  \E i \in Nat : Built(Lose(all, i), text, Tail(rest))
<1> DEFINE m == Len(all)
<1>1. m \in Nat
  BY LenProperties
<1>2. PICK n \in 0 .. m, f \in [0 .. m -> Texts] :
        /\ f[0] = << >>
        /\ \A k \in 1 .. n : f[k] = f[k - 1] \o all[k]
        /\ text = f[n]
        /\ rest = SubSeq(all, n + 1, m)
  BY DEF Built
<1>3. n < m
  <2> SUFFICES ASSUME n = m PROVE FALSE
    BY <1>1
  <2> QED  BY <1>1, <1>2, SubSeqEmpty
<1>4. n + 1 \in 1 .. m /\ m \in n + 1 .. m /\ n + 1 \in Nat
  BY <1>1, <1>3
<1>5. Tail(rest) = SubSeq(all, n + 2, m)
  <2>1. n + 1 + 1 = n + 2
    BY <1>4
  <2> QED  BY <1>2, <1>4, <2>1, HeadTailOfSubSeq
<1> DEFINE left == Lose(all, n + 1)  g == [f EXCEPT ![n + 1] = f[n]]
<1>6. /\ left \in Seq(Texts) /\ Len(left) = m
      /\ \A k \in 1 .. m : left[k] = IF k = n + 1 THEN << >> ELSE all[k]
  BY <1>4, LoseIs
<1>7. f[n] \in Texts
  OBVIOUS
<1>8. g \in [0 .. m -> Texts]
  BY <1>7
<1>9. g[n + 1] = f[n] /\ \A k \in 0 .. n : g[k] = f[k]
  BY <1>1, <1>3
<1> HIDE DEF g, left
<1>10. \A k \in 1 .. n + 1 : g[k] = g[k - 1] \o left[k]
  <2> TAKE k \in 1 .. n + 1
  <2>1. CASE k = n + 1
    <3>1. k - 1 = n /\ n \in 0 .. n /\ n + 1 \in 1 .. m
      BY <1>4, <2>1
    <3>2. left[k] = << >> /\ g[k - 1] = f[n] /\ g[k] = f[n]
      BY <1>6, <1>9, <2>1, <3>1
    <3>3. f[n] \o << >> = f[n]
      BY <1>7, ConcatEmptySeq DEF Texts
    <3> QED  BY <3>2, <3>3
  <2>2. CASE k # n + 1
    <3>1. /\ k \in 1 .. n /\ k - 1 \in 0 .. n /\ k \in 0 .. n
          /\ k \in 1 .. m
      BY <1>4, <2>2
    <3>2. left[k] = all[k]
      BY <1>6, <2>2, <3>1
    <3> QED  BY <1>2, <1>9, <3>1, <3>2
  <2> QED  BY <2>1, <2>2
<1>11. SubSeq(left, n + 2, m) = SubSeq(all, n + 2, m)
  <2>1. n + 2 \in Nat /\ n + 2 >= 1
    BY <1>4
  <2>2. \A k \in n + 2 .. m : left[k] = all[k]
    <3>1. \A k \in n + 2 .. m : k \in 1 .. m /\ k # n + 1
      BY <1>4
    <3> QED  BY <1>6, <3>1
  <2> QED  BY <1>6, <2>1, <2>2, SameRest
<1>12. g[0] = << >>
  BY <1>2, <1>9
<1>13. n + 1 \in 0 .. m /\ n + 2 = (n + 1) + 1
  BY <1>4
<1>14. Built(left, text, Tail(rest))
  BY <1>2, <1>5, <1>6, <1>8, <1>9, <1>10, <1>11, <1>12, <1>13 DEF Built
<1> QED  BY <1>4, <1>14 DEF left

(* What is known of a link of which a piece was lost.  A piece of the text *)
(* that is signed: the link is whole.  A piece of the link: the signed     *)
(* text is whole, and the link is what one gets without the piece.         *)
LostInv ==
  job \in LinkJobs /\ lost = 1 =>
    /\ pc = "url" =>
         \/ Built(UrlPieces(job), buffer.text, pieces)
         \/ /\ hash_string = HashText(job)
            /\ \E i \in Nat :
                 Built(Lose(UrlPieces(job), i), buffer.text, pieces)
    /\ pc = "done" =>
         \/ url = UrlText(job)
         \/ /\ hash_string = HashText(job)
            /\ \E j \in Nat : url = SlotText(Lose(Slots(job), j))

LEMMA LostInvInit == ASSUME Init PROVE LostInv
BY DEF Init, LostInv

(* The action leaves what LostInv speaks of alone, or the program is not   *)
(* yet where it says something.                                            *)
LEMMA LostInvEarly ==
  ASSUME pc' \notin {"url", "done"} PROVE LostInv'
BY DEF LostInv

LEMMA LostInvHeaders ==
  ASSUME IInv, LostInv,
         \/ TakeHeader \/ NormalizeStep \/ NormalizeEnd \/ SortHeaders
         \/ AppendHeader \/ StartLink
  PROVE  LostInv'
<1>1. pc' \in {"headers", "normalize", "hash"}
  BY DEF TakeHeader, NormalizeStep, NormalizeEnd, SortHeaders,
         AppendHeader, StartLink
<1> QED  BY <1>1, LostInvEarly

LEMMA LostInvAppendPiece ==
  ASSUME IInv, LostInv, AppendPiece PROVE LostInv'
<1>1. /\ job' = job /\ lost' = lost /\ pc' = pc /\ pc \in {"hash", "url"}
      /\ pieces # << >> /\ pieces' = Tail(pieces)
      /\ hash_string' = hash_string
      /\ buffer'.text = buffer.text \o Head(pieces)
  BY CstringAppendText DEF AppendPiece, Appending
<1>2. ASSUME NEW all \in Seq(Texts), Built(all, buffer.text, pieces)
      PROVE  Built(all, buffer'.text, pieces')
  BY <1>1, <1>2, BuiltStep
<1>3. SUFFICES ASSUME job \in LinkJobs, lost = 1, pc = "url"
               PROVE  \/ Built(UrlPieces(job), buffer'.text, pieces')
                      \/ /\ hash_string = HashText(job)
                         /\ \E i \in Nat : Built(Lose(UrlPieces(job), i),
                                                 buffer'.text, pieces')
  BY <1>1 DEF LostInv
<1>4. UrlPieces(job) \in Seq(Texts)
  BY <1>3, UrlPiecesType
<1>5. CASE Built(UrlPieces(job), buffer.text, pieces)
  BY <1>2, <1>4, <1>5
<1>6. CASE /\ hash_string = HashText(job)
           /\ \E i \in Nat :
                Built(Lose(UrlPieces(job), i), buffer.text, pieces)
  <2>1. PICK i \in Nat : Built(Lose(UrlPieces(job), i), buffer.text, pieces)
    BY <1>6
  <2>2. Lose(UrlPieces(job), i) \in Seq(Texts)
    BY <1>4, LoseIs
  <2> QED  BY <1>2, <1>6, <2>1, <2>2
<1> QED  BY <1>3, <1>5, <1>6 DEF LostInv

(* The first loss: of the link only when it is being built.                *)
LEMMA LostInvAppendFails ==
  ASSUME IInv, LinkInv, LostInv, AppendFails PROVE LostInv'
<1>1. /\ job' = job /\ lost' = lost + 1 /\ lost \in Nat
      /\ pc' = pc /\ pc \in {"hash", "url"}
      /\ pieces # << >> /\ pieces' = Tail(pieces)
      /\ hash_string' = hash_string /\ buffer' = buffer
  BY SigningAssumption DEF AppendFails, Appending, IInv, PlainInv
<1>2. SUFFICES ASSUME job \in LinkJobs, lost' = 1, pc = "url"
               PROVE  /\ hash_string = HashText(job)
                      /\ \E i \in Nat : Built(Lose(UrlPieces(job), i),
                                              buffer.text, pieces')
  BY <1>1 DEF LostInv
<1>3. lost = 0
  BY <1>1, <1>2
<1>4. /\ hash_string = HashText(job)
      /\ Built(UrlPieces(job), buffer.text, pieces)
  BY <1>2, <1>3 DEF LinkInv
<1>5. UrlPieces(job) \in Seq(Texts)
  BY <1>2, UrlPiecesType
<1> QED  BY <1>1, <1>4, <1>5, BuiltLost

LEMMA LostInvSign ==
  ASSUME IInv, LostInv, Sign PROVE LostInv'
<1>1. /\ job' = job /\ lost' = lost /\ pc = "hash"
  BY DEF Sign
<1>2. CASE buffer.allocated = 0
  <2>1. pc' = "crashed"
    BY <1>2 DEF Sign
  <2> QED  BY <2>1, LostInvEarly
<1>3. CASE buffer.allocated # 0
  <2> SUFFICES ASSUME job \in LinkJobs
               PROVE  /\ pc' = "url"
                      /\ Built(UrlPieces(job), buffer'.text, pieces')
    BY <1>1 DEF LostInv
  <2>1. /\ pc' = "url" /\ pieces' = UrlPieces(job) /\ buffer'.text = << >>
    BY <1>3 DEF Sign, LinkJobs, NoBuffer
  <2>2. Built(UrlPieces(job), << >>, UrlPieces(job))
    BY UrlPiecesType, BuiltStart
  <2> QED  BY <2>1, <2>2
<1> QED  BY <1>2, <1>3

LEMMA LostInvReturnUrl ==
  ASSUME IInv, LostInv, ReturnUrl PROVE LostInv'
<1>1. /\ job' = job /\ lost' = lost /\ pc = "url" /\ pieces = << >>
      /\ url' = buffer.text /\ pc' = "done" /\ hash_string' = hash_string
  BY DEF ReturnUrl
<1>2. SUFFICES ASSUME job \in LinkJobs, lost = 1
               PROVE  \/ buffer.text = UrlText(job)
                      \/ /\ hash_string = HashText(job)
                         /\ \E j \in Nat :
                              buffer.text = SlotText(Lose(Slots(job), j))
  BY <1>1 DEF LostInv
<1>3. CASE Built(UrlPieces(job), buffer.text, pieces)
  BY <1>1, <1>2, <1>3, UrlTextBuilt
<1>4. CASE /\ hash_string = HashText(job)
           /\ \E i \in Nat :
                Built(Lose(UrlPieces(job), i), buffer.text, pieces)
  BY <1>1, <1>2, <1>4, UrlBuilt
<1> QED  BY <1>1, <1>2, <1>3, <1>4 DEF LostInv

LEMMA LostInvStutter ==
  ASSUME LostInv, UNCHANGED vars PROVE LostInv'
BY DEF vars, LostInv

LEMMA LostInvImplies ==
  ASSUME IInv, LostInv, PlainLink(job), Dated(job) PROVE LostPieceNoticed
<1> SUFFICES ASSUME pc = "done", job.call = "shareable_url", lost = 1,
                    Opens(url)
             PROVE  ServesAsked(url)
  BY DEF LostPieceNoticed
<1>1. job \in LinkJobs
  BY DEF IInv, PlainInv, SignJobs
<1>2. url = UrlText(job)
  <2>1. CASE /\ hash_string = HashText(job)
             /\ \E j \in Nat : url = SlotText(Lose(Slots(job), j))
    BY <1>1, <2>1, LostLink
  <2> QED  BY <1>1, <2>1 DEF LostInv
<1> QED  BY <1>1, <1>2, BuiltOpens

(* In every state: a link of which one piece was lost is whole, or it is   *)
(* what one gets without the piece and the signed text is whole.           *)
THEOREM OneLost == Spec => []LostInv
<1>1. Init => LostInv
  BY LostInvInit
<1>2. IInv /\ LinkInv /\ LostInv /\ [Next]_vars => LostInv'
  BY LostInvHeaders, LostInvAppendPiece, LostInvAppendFails, LostInvSign,
     LostInvReturnUrl, LostInvStutter DEF Next
<1> QED  BY LinkBuilt, <1>1, <1>2, PTL DEF Spec

(* A link that lost a piece because memory ran out or nothing was escaped  *)
(* is not taken for another one: it does not open, or it serves what was   *)
(* asked for.                                                              *)
THEOREM LossNoticed ==
  Spec => [](PlainLink(job) /\ Dated(job) => LostPieceNoticed)
BY Inductive, OneLost, LostInvImplies, PTL
=============================================================================
