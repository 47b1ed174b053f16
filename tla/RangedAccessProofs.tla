-------------------------- MODULE RangedAccessProofs --------------------------
(* Reads and updates of parts of an object act on the bytes the caller     *)
(* asked for and no others, for objects of every length, every range a     *)
(* caller can choose, any failures and any number of executions.           *)
EXTENDS RangedAccess, SequenceTheorems, TLAPS

-----------------------------------------------------------------------------
(* Parts of sequences.                                                     *)

LEMMA ContentsAreSeqs ==
  ASSUME NEW s
  PROVE  s \in Contents <=> s \in Seq(Bytes) /\ Len(s) <= MaxLength
<1>1. ASSUME s \in Contents
      PROVE  s \in Seq(Bytes) /\ Len(s) <= MaxLength
  <2>1. PICK n \in 0 .. MaxLength : s \in [1 .. n -> Bytes]
    BY <1>1 DEF Contents
  <2> QED  BY <2>1, RangedAccessAssumption DEF RangedAccessAssumption
<1>2. ASSUME s \in Seq(Bytes), Len(s) <= MaxLength
      PROVE  s \in Contents
  <2>1. Len(s) \in 0 .. MaxLength /\ s \in [1 .. Len(s) -> Bytes]
    BY <1>2, RangedAccessAssumption DEF RangedAccessAssumption
  <2> QED  BY <2>1 DEF Contents
<1> QED  BY <1>1, <1>2

LEMMA NothingIsContents == << >> \in Contents
<1>1. << >> \in Seq(Bytes) /\ Len(<< >>) = 0
  BY EmptySeq
<1>2. Len(<< >>) <= MaxLength
  BY <1>1, RangedAccessAssumption DEF RangedAccessAssumption
<1> QED  BY <1>1, <1>2, ContentsAreSeqs, Zenon

LEMMA PartProperties ==
  ASSUME NEW s \in Seq(Bytes), NEW from \in Nat, NEW to \in Nat
  PROVE  LET p == Part(s, from, to)
             end == Smaller(to, Len(s)) IN
         /\ p \in Seq(Bytes)
         /\ Len(p) = IF from < end THEN end - from ELSE 0
         /\ \A i \in 1 .. Len(p) : p[i] = s[from + i]
<1> DEFINE m == from + 1
           n == Smaller(to, Len(s))
<1>1. m \in Int /\ n \in Int /\ n <= Len(s) /\ m > 0
  BY DEF Smaller
<1>2. \A i \in m .. n : s[i] \in Bytes
  BY <1>1
<1> HIDE DEF m, n
<1>3. /\ SubSeq(s, m, n) \in Seq(Bytes)
      /\ Len(SubSeq(s, m, n)) = IF m <= n THEN n - m + 1 ELSE 0
      /\ \A i \in 1 .. n - m + 1 : SubSeq(s, m, n)[i] = s[m + i - 1]
  BY <1>1, <1>2, SubSeqProperties
<1>4. Part(s, from, to) = SubSeq(s, m, n)
  BY DEF Part, m, n
<1> QED  BY <1>1, <1>3, <1>4 DEF m, n

LEMMA PartWhole ==
  ASSUME NEW s \in Seq(Bytes)
  PROVE  Part(s, 0, Len(s)) = s
<1>1. Part(s, 0, Len(s)) \in Seq(Bytes)
      /\ Len(Part(s, 0, Len(s))) = Len(s)
      /\ \A i \in 1 .. Len(s) : Part(s, 0, Len(s))[i] = s[i]
  BY PartProperties DEF Smaller
<1> QED  BY <1>1, SeqEqual

(* How many elements are behind position to.                               *)
Rest(c, to) == IF to < Len(c) THEN Len(c) - to ELSE 0

LEMMA RestType ==
  ASSUME NEW c \in Seq(Bytes), NEW to \in Nat
  PROVE  Rest(c, to) \in Nat
BY DEF Rest

(* Sequence j is s followed by t.                                          *)
Joined(j, s, t) ==
  /\ j \in Seq(Bytes)
  /\ Len(j) = Len(s) + Len(t)
  /\ \A i \in 1 .. Len(s) : j[i] = s[i]
  /\ \A i \in 1 .. Len(t) : j[Len(s) + i] = t[i]

LEMMA JoinProperties ==
  ASSUME NEW s \in Seq(Bytes), NEW t \in Seq(Bytes)
  PROVE  Joined(s \o t, s, t)
<1> DEFINE j == s \o t
<1>1. Len(s) \in Nat /\ Len(t) \in Nat
  BY LenProperties
<1>2. j \in Seq(Bytes) /\ Len(j) = Len(s) + Len(t)
  BY ConcatProperties
<1>3. \A i \in 1 .. Len(s) + Len(t) :
        j[i] = IF i <= Len(s) THEN s[i] ELSE t[i - Len(s)]
  BY ConcatProperties
<1> HIDE DEF j
<1>4. ASSUME NEW i \in 1 .. Len(s) PROVE j[i] = s[i]
  BY <1>1, <1>3
<1>5. ASSUME NEW i \in 1 .. Len(t) PROVE j[Len(s) + i] = t[i]
  <2>1. /\ Len(s) + i \in 1 .. Len(s) + Len(t)
        /\ ~(Len(s) + i <= Len(s))
        /\ (Len(s) + i) - Len(s) = i
    BY <1>1
  <2> QED  BY <1>3, <2>1
<1>6. Joined(j, s, t)
  BY <1>2, <1>4, <1>5 DEF Joined
<1> QED  BY <1>6 DEF j

(* What an update leaves: the beginning, the data, and what is behind the  *)
(* range.                                                                  *)
Overlaid(o, c, from, to, d) ==
  /\ o \in Seq(Bytes)
  /\ Len(o) = from + Len(d) + Rest(c, to)
  /\ \A i \in 1 .. from : o[i] = c[i]
  /\ \A i \in 1 .. Len(d) : o[from + i] = d[i]
  /\ \A i \in 1 .. Rest(c, to) : o[from + Len(d) + i] = c[to + i]

LEMMA OverlayProperties ==
  ASSUME NEW c \in Seq(Bytes), NEW d \in Seq(Bytes),
         NEW from \in 0 .. Len(c), NEW to \in Nat
  PROVE  Overlaid(Overlay(c, from, to, d), c, from, to, d)
<1> DEFINE o == Overlay(c, from, to, d)
           a == Part(c, 0, from)
           b == Part(c, to, Len(c))
           ad == a \o d
<1>1. Len(c) \in Nat /\ Len(d) \in Nat /\ from \in Nat /\ Rest(c, to) \in Nat
  <2>1. Len(c) \in Nat /\ Len(d) \in Nat
    BY LenProperties
  <2>2. Rest(c, to) \in Nat
    BY RestType
  <2> QED  BY <2>1, <2>2
<1>2. /\ a \in Seq(Bytes)
      /\ Len(a) = from
      /\ \A i \in 1 .. from : a[i] = c[i]
  BY <1>1, PartProperties DEF Smaller
<1>3. /\ b \in Seq(Bytes)
      /\ Len(b) = Rest(c, to)
      /\ \A i \in 1 .. Len(b) : b[i] = c[to + i]
  BY <1>1, PartProperties DEF Smaller, Rest
<1>4. o = ad \o b
  BY DEF Overlay
<1>5. /\ ad \in Seq(Bytes)
      /\ Len(ad) = Len(a) + Len(d)
      /\ \A i \in 1 .. Len(a) : ad[i] = a[i]
      /\ \A i \in 1 .. Len(d) : ad[Len(a) + i] = d[i]
  <2>1. Joined(a \o d, a, d)
    <3> HIDE DEF a
    <3> QED  BY <1>2, JoinProperties
  <2> QED  BY <2>1 DEF Joined
<1> HIDE DEF a, b, ad, o
<1>6. /\ o \in Seq(Bytes)
      /\ Len(o) = Len(ad) + Len(b)
      /\ \A i \in 1 .. Len(ad) : o[i] = ad[i]
      /\ \A i \in 1 .. Len(b) : o[Len(ad) + i] = b[i]
  <2>1. Joined(ad \o b, ad, b)
    BY <1>3, <1>5, JoinProperties
  <2> QED  BY <1>4, <2>1 DEF Joined
<1>7. Len(ad) = from + Len(d)
  BY <1>2, <1>5
<1>8. \A i \in 1 .. from : o[i] = c[i]
  BY <1>1, <1>2, <1>5, <1>6, <1>7
<1>9. ASSUME NEW i \in 1 .. Len(d) PROVE o[from + i] = d[i]
  <2>1. from + i \in 1 .. Len(ad)
    BY <1>1, <1>7
  <2> QED  BY <1>2, <1>5, <1>6, <2>1
<1>10. \A i \in 1 .. Rest(c, to) : o[from + Len(d) + i] = c[to + i]
  BY <1>3, <1>6, <1>7
<1>11. Overlaid(o, c, from, to, d)
  BY <1>3, <1>6, <1>7, <1>8, <1>9, <1>10 DEF Overlaid
<1> QED  BY <1>11 DEF o

(* An update of as many bytes as there are is the same done twice.         *)
LEMMA OverlayAgain ==
  ASSUME NEW c \in Seq(Bytes), NEW d \in Seq(Bytes),
         NEW from \in 0 .. Len(c), NEW to \in Nat
  PROVE  LET o == Overlay(c, from, to, d) IN
         /\ from \in 0 .. Len(o)
         /\ Overlay(o, from, from + Len(d), d) = o
<1> DEFINE o == Overlay(c, from, to, d)
           end == from + Len(d)
           oo == Overlay(o, from, end, d)
<1>1. Len(c) \in Nat /\ Len(d) \in Nat /\ from \in Nat /\ Rest(c, to) \in Nat
  <2>1. Len(c) \in Nat /\ Len(d) \in Nat
    BY LenProperties
  <2>2. Rest(c, to) \in Nat
    BY RestType
  <2> QED  BY <2>1, <2>2
<1>2. /\ o \in Seq(Bytes)
      /\ Len(o) = end + Rest(c, to)
      /\ \A i \in 1 .. Len(d) : o[from + i] = d[i]
  <2>1. Overlaid(o, c, from, to, d)
    BY OverlayProperties
  <2> QED  BY <1>1, <2>1 DEF Overlaid
<1> HIDE DEF o
<1>3. from \in 0 .. Len(o) /\ end \in Nat /\ Rest(o, end) = Rest(c, to)
  <2>1. from \in 0 .. Len(o) /\ end \in Nat
    BY <1>1, <1>2
  <2>2. \A r \in Nat : Len(o) = end + r => Rest(o, end) = r
    <3> HIDE DEF end
    <3> QED  BY <2>1 DEF Rest
  <2> QED  BY <1>1, <1>2, <2>1, <2>2
<1>4. end = from + Len(d)
  OBVIOUS
<1> HIDE DEF end
<1>5. /\ oo \in Seq(Bytes)
      /\ Len(oo) = from + Len(d) + Rest(o, end)
      /\ \A i \in 1 .. from : oo[i] = o[i]
      /\ \A i \in 1 .. Len(d) : oo[from + i] = d[i]
      /\ \A i \in 1 .. Rest(o, end) : oo[from + Len(d) + i] = o[end + i]
  <2>1. Overlaid(oo, o, from, end, d)
    BY <1>2, <1>3, OverlayProperties
  <2> QED  BY <2>1 DEF Overlaid
<1> HIDE DEF oo
<1>6. Len(oo) = Len(o)
  BY <1>2, <1>3, <1>4, <1>5
<1>7. ASSUME NEW i \in 1 .. Len(oo)
      PROVE  oo[i] = o[i]
  <2>1. CASE i <= from
    BY <1>1, <1>5, <2>1
  <2>2. CASE ~(i <= from) /\ i <= end
    <3>1. i - from \in 1 .. Len(d) /\ i = from + (i - from)
      BY <1>1, <1>4, <2>2
    <3> QED  BY <1>2, <1>5, <3>1
  <2>3. CASE ~(i <= end)
    <3>1. i - end \in 1 .. Rest(o, end) /\ i = end + (i - end)
      BY <1>1, <1>2, <1>3, <1>6, <2>3
    <3> QED  BY <1>4, <1>5, <3>1
  <2> QED  BY <1>1, <1>4, <2>1, <2>2, <2>3
<1>8. oo = o
  BY <1>2, <1>5, <1>6, <1>7, SeqEqual
<1> QED  BY <1>3, <1>8 DEF o, end, oo

-----------------------------------------------------------------------------
(* The numbers in a request and what the caller asked for.                 *)

ChoiceInv(req) ==
  LET c == req.choice IN
  /\ c.how = "none" =>
       c.x = -1 /\ c.y = -1 /\ req.range_start = -1 /\ req.range_end = -1
  /\ c.how = "range" =>
       /\ req.range_start = c.x /\ req.range_end = c.y
       /\ c.x >= -1
       /\ c.y = -1 \/ (c.x = -1 /\ c.y > 0) \/ (c.x # -1 /\ c.y >= c.x)
  /\ c.how = "extent" =>
       /\ req.range_start = c.x /\ req.range_end = c.x + c.y - 1
       /\ c.x >= 0 /\ c.y >= 0

(* The body of an update is as long as the range it goes to, and the range *)
(* begins in the object or right behind it; n and len are their lengths.   *)
Fits(c, n, len) ==
  /\ c.x <= len
  /\ c.how = "extent" => c.y = n /\ n > 0
  /\ c.how = "range" /\ c.x # -1 /\ c.y # -1 => c.y = c.x + n - 1
  /\ c.how = "range" /\ c.x = -1 /\ c.y # -1 => c.y = n /\ n <= len

ChoiceType(c) ==
  /\ c \in Choices
  /\ c.how = "none" => c.x = -1 /\ c.y = -1
  /\ c.how = "range" => c.x >= -1 /\ c.y >= -1
  /\ c.how = "extent" => c.x >= 0 /\ c.y >= 0

(* Where such an update begins and ends, before it and after it.           *)
LEMMA Span ==
  ASSUME NEW c, ChoiceType(c), NEW n \in Nat, NEW len \in Nat,
         Fits(c, n, len)
  PROVE  LET from == From(c, len)
             to == To(c, len) IN
         /\ from \in 0 .. len
         /\ to \in Nat
         /\ \A m \in Nat :
              m = from + n + (IF to < len THEN len - to ELSE 0) =>
                /\ From(c, m) = from
                /\ To(c, m) = from + n
                /\ Fits(c, n, m)
<1>1. /\ c.x \in Int /\ c.y \in Int
      /\ c.how \in {"none", "range", "extent"}
  BY DEF ChoiceType, Choices
<1>2. CASE c.how = "extent"
  BY <1>1, <1>2 DEF ChoiceType, Fits, From, To
<1>3. CASE c.how = "none"
  BY <1>1, <1>3 DEF ChoiceType, Fits, From, To
<1>4. CASE c.how = "range" /\ c.x = -1 /\ c.y = -1
  BY <1>1, <1>4 DEF ChoiceType, Fits, From, To
<1>5. CASE c.how = "range" /\ c.x = -1 /\ c.y # -1
  BY <1>1, <1>5 DEF ChoiceType, Fits, From, To
<1>6. CASE c.how = "range" /\ c.x # -1 /\ c.y = -1
  BY <1>1, <1>6 DEF ChoiceType, Fits, From, To
<1>7. CASE c.how = "range" /\ c.x # -1 /\ c.y # -1
  BY <1>1, <1>7 DEF ChoiceType, Fits, From, To
<1> QED  BY <1>1, <1>2, <1>3, <1>4, <1>5, <1>6, <1>7

(* An update that fits can be done again without harm.                     *)
LEMMA UpdateAgain ==
  ASSUME NEW c, ChoiceType(c), NEW s \in Seq(Bytes), NEW d \in Seq(Bytes),
         Fits(c, Len(d), Len(s))
  PROVE  LET u == Updated(c, s, d) IN
         /\ u \in Seq(Bytes)
         /\ Len(u) = From(c, Len(s)) + Len(d) + Rest(s, To(c, Len(s)))
         /\ Updated(c, u, d) = u
<1> DEFINE from == From(c, Len(s))
           to == To(c, Len(s))
           u == Updated(c, s, d)
<1>1. Len(s) \in Nat /\ Len(d) \in Nat
  BY LenProperties
<1>2. /\ from \in 0 .. Len(s)
      /\ to \in Nat
      /\ \A m \in Nat :
           m = from + Len(d) + (IF to < Len(s) THEN Len(s) - to ELSE 0) =>
             /\ From(c, m) = from
             /\ To(c, m) = from + Len(d)
             /\ Fits(c, Len(d), m)
  BY <1>1, Span
<1>3. u = Overlay(s, from, to, d)
  BY DEF Updated
<1> HIDE DEF from, to, u
<1>4. Overlaid(u, s, from, to, d)
  BY <1>2, <1>3, OverlayProperties
<1>5. u \in Seq(Bytes) /\ Len(u) = from + Len(d) + Rest(s, to)
  BY <1>4 DEF Overlaid
<1>6. Len(u) \in Nat
  BY <1>5, LenProperties
<1>7. From(c, Len(u)) = from /\ To(c, Len(u)) = from + Len(d)
  BY <1>2, <1>5, <1>6 DEF Rest
<1>8. Overlay(u, from, from + Len(d), d) = u
  BY <1>2, <1>3, OverlayAgain
<1>9. Updated(c, u, d) = u
  BY <1>7, <1>8 DEF Updated
<1> QED  BY <1>5, <1>9 DEF from, to, u

-----------------------------------------------------------------------------
(* The inductive invariant.                                                *)

(* No request carries a range but its own, executed once or again.         *)
RangesInv ==
  /\ request.ranges \subseteq RangeHeaders(request)
  /\ pc \in {"server", "returned"} => request.ranges = RangeHeaders(request)

RequestInv == pc # "idle" => ChoiceInv(request) /\ RangesInv

ResponseInv ==
  /\ pc \in {"built", "server"} => response = EmptyResponse
  /\ ReadsAsked

IsWhole(c) == c.how # "extent" /\ c.x = -1 /\ c.y = -1

(* A caller that is not sure of its copy reads all, or executes an update  *)
(* again that may have been done.                                          *)
ReadInv ==
  pc # "idle" /\ request.method = "GET" =>
    IF unsure THEN IsWhole(request.choice) ELSE copy = object

(* The update has been done to the object as the copy has it, or not.      *)
UpdateInv ==
  pc # "idle" /\ request.method = "PUT" =>
    LET updated == Updated(request.choice, copy, request.data) IN
    /\ Fits(request.choice, Len(request.data), Len(copy))
    /\ updated \in Contents
    /\ object \in {copy, updated}
    /\ object # copy =>
         unsure \/ (pc = "returned" /\ response.http_code \in {0, 200})
    /\ pc = "returned" /\ response.http_code = 200 => object = updated

IInv ==
  /\ TypeOK
  /\ object \in Contents
  /\ copy \in Contents
  /\ RequestInv
  /\ ResponseInv
  /\ CopyIsTrue
  /\ ReadInv
  /\ UpdateInv

-----------------------------------------------------------------------------
(* The caller builds a request.                                            *)

LEMMA Initially == Init => IInv
<1> SUFFICES ASSUME Init PROVE IInv
  OBVIOUS
<1>1. object \in Contents /\ object \in Seq(Bytes) /\ copy = object
  BY ContentsAreSeqs DEF Init
<1>2. << >> \in Contents
  BY NothingIsContents
<1>3. request \in Requests
  BY <1>2 DEF Init, Requests, Choices, Whole
<1>4. response \in Responses
  BY <1>2 DEF Init, Responses, EmptyResponse
<1>5. unsure \in BOOLEAN
  BY Zenon DEF Init
<1>6. pc = "idle" /\ faults \in 0 .. MaxFaults
  BY RangedAccessAssumption DEF Init, RangedAccessAssumption
<1>7. TypeOK
  BY <1>1, <1>3, <1>4, <1>5, <1>6 DEF TypeOK
<1> QED
  BY <1>1, <1>6, <1>7
     DEF IInv, RequestInv, ResponseInv, ReadsAsked, CopyIsTrue, ReadInv,
         UpdateInv

(* A request on its way to the filters.                                    *)
Prepared(req, method, data) ==
  /\ req \in Requests
  /\ req.method = method
  /\ req.data = data
  /\ req.ranges = {}
  /\ ChoiceInv(req)

LEMMA InitPrepared ==
  ASSUME NEW method \in {"GET", "PUT"}, NEW data \in Contents
  PROVE  /\ Prepared(InitRequest(method, data), method, data)
         /\ InitRequest(method, data).choice = Whole
BY DEF InitRequest, Prepared, Requests, Choices, Whole, ChoiceInv

SetAll(req, start, end, choice) ==
  [req EXCEPT !.range_start = start, !.range_end = end, !.choice = choice]

LEMMA SetAllFields ==
  ASSUME NEW req \in Requests, NEW start \in Int, NEW end \in Int,
         NEW choice \in Choices
  PROVE  LET new == SetAll(req, start, end, choice) IN
         /\ new \in Requests
         /\ new.method = req.method
         /\ new.data = req.data
         /\ new.ranges = req.ranges
         /\ new.range_start = start
         /\ new.range_end = end
         /\ new.choice = choice
<1> DEFINE r1 == [req EXCEPT !.range_start = start]
           r2 == [r1 EXCEPT !.range_end = end]
           r3 == [r2 EXCEPT !.choice = choice]
<1>1. SetAll(req, start, end, choice) = r3
  BY DEF SetAll
<1>2. /\ r1 \in Requests /\ r1.method = req.method /\ r1.data = req.data
      /\ r1.ranges = req.ranges /\ r1.range_start = start
  BY DEF Requests
<1> HIDE DEF r1
<1>3. /\ r2 \in Requests /\ r2.method = req.method /\ r2.data = req.data
      /\ r2.ranges = req.ranges /\ r2.range_start = start
      /\ r2.range_end = end
  BY <1>2 DEF Requests
<1> HIDE DEF r2
<1>4. /\ r3 \in Requests /\ r3.method = req.method /\ r3.data = req.data
      /\ r3.ranges = req.ranges /\ r3.range_start = start
      /\ r3.range_end = end /\ r3.choice = choice
  BY <1>3 DEF Requests
<1> HIDE DEF r3
<1> QED  BY <1>1, <1>4

LEMMA RangePrepared ==
  ASSUME NEW req, NEW method, NEW data, Prepared(req, method, data),
         NEW x \in Int, NEW y \in Int, x >= -1,
         y = -1 \/ (x = -1 /\ y > 0) \/ (x # -1 /\ y >= x)
  PROVE  /\ Prepared(SetRange(req, x, y), method, data)
         /\ SetRange(req, x, y).choice = [how |-> "range", x |-> x, y |-> y]
<1> DEFINE choice == [how |-> "range", x |-> x, y |-> y]
           new == SetAll(req, x, y, choice)
<1>1. SetRange(req, x, y) = new
  BY DEF SetRange, SetAll
<1>2. /\ choice \in Choices
      /\ choice.how = "range" /\ choice.x = x /\ choice.y = y
  BY DEF Choices
<1> HIDE DEF choice
<1>3. /\ new \in Requests /\ new.method = method /\ new.data = data
      /\ new.ranges = {} /\ new.range_start = x
      /\ new.range_end = y /\ new.choice = choice
  BY <1>2, SetAllFields DEF Prepared
<1> HIDE DEF new
<1>4. Prepared(new, method, data)
  BY <1>2, <1>3 DEF Prepared, ChoiceInv
<1> QED  BY <1>1, <1>3, <1>4 DEF choice

LEMMA ExtentPrepared ==
  ASSUME NEW req, NEW method, NEW data, Prepared(req, method, data),
         NEW x \in Nat, NEW y \in Nat
  PROVE  /\ Prepared(SetRangeOffsetSize(req, x, y), method, data)
         /\ SetRangeOffsetSize(req, x, y).choice
              = [how |-> "extent", x |-> x, y |-> y]
<1> DEFINE choice == [how |-> "extent", x |-> x, y |-> y]
           new == SetAll(req, x, x + y - 1, choice)
<1>1. SetRangeOffsetSize(req, x, y) = new
  BY DEF SetRangeOffsetSize, SetAll
<1>2. /\ choice \in Choices
      /\ choice.how = "extent" /\ choice.x = x /\ choice.y = y
  BY DEF Choices
<1> HIDE DEF choice
<1>3. /\ new \in Requests /\ new.method = method /\ new.data = data
      /\ new.ranges = {} /\ new.range_start = x
      /\ new.range_end = x + y - 1 /\ new.choice = choice
  <2>1. x + y - 1 \in Int
    OBVIOUS
  <2> QED  BY <1>2, <2>1, SetAllFields DEF Prepared
<1> HIDE DEF new
<1>4. Prepared(new, method, data)
  BY <1>2, <1>3 DEF Prepared, ChoiceInv
<1> QED  BY <1>1, <1>3, <1>4 DEF choice

(* What either kind of Build needs of its request.                         *)
LEMMA BuildStep ==
  ASSUME IInv, NEW req, NEW method, NEW data, Prepared(req, method, data),
         Build(req),
         method = "GET" => (IF unsure THEN IsWhole(req.choice) ELSE TRUE),
         method = "PUT" =>
           /\ ~unsure
           /\ Fits(req.choice, Len(data), Len(copy))
           /\ Updated(req.choice, copy, data) \in Contents
  PROVE  IInv'
<1>1. /\ pc = "idle" /\ pc' = "built"
      /\ request' = req
      /\ response' = EmptyResponse
      /\ UNCHANGED <<object, copy, unsure, faults>>
  BY DEF Build
<1>2. << >> \in Contents
  BY NothingIsContents
<1>3. TypeOK'
  BY <1>1, <1>2 DEF Prepared, IInv, TypeOK, Responses, EmptyResponse
<1>4. RequestInv'
  BY <1>1 DEF Prepared, RequestInv, RangesInv
<1>5. ResponseInv' /\ CopyIsTrue'
  BY <1>1 DEF ResponseInv, ReadsAsked, CopyIsTrue
<1>6. ~unsure => copy = object
  BY <1>1 DEF IInv, CopyIsTrue
<1>7. ReadInv'
  BY <1>1, <1>6 DEF Prepared, ReadInv
<1>8. UpdateInv'
  BY <1>1, <1>6 DEF Prepared, UpdateInv
<1> QED  BY <1>1, <1>3, <1>4, <1>5, <1>7, <1>8 DEF IInv

LEMMA BuildReadStep ==
  ASSUME IInv, BuildRead
  PROVE  IInv'
<1>1. Prepared(InitRead, "GET", << >>) /\ IsWhole(InitRead.choice)
  BY InitPrepared, NothingIsContents DEF InitRead, IsWhole, Whole
<1>2. \A x, y \in Int :
        x >= -1 /\ (y = -1 \/ (x = -1 /\ y > 0) \/ (x # -1 /\ y >= x)) =>
          Prepared(SetRange(InitRead, x, y), "GET", << >>)
  BY <1>1, RangePrepared
<1>3. \A x, n \in Nat :
        Prepared(SetRangeOffsetSize(InitRead, x, n), "GET", << >>)
  BY <1>1, ExtentPrepared
<1>4. Len(copy) \in Nat
  BY LenProperties DEF IInv, TypeOK
<1>5. ASSUME NEW req, Prepared(req, "GET", << >>), Build(req),
             IF unsure THEN IsWhole(req.choice) ELSE TRUE
      PROVE  IInv'
  BY <1>5, BuildStep
<1>6. CASE Build(InitRead)
  BY <1>1, <1>5, <1>6
<1>7. CASE Build(SetRange(InitRead, -1, -1))
  <2>1. SetRange(InitRead, -1, -1).choice
          = [how |-> "range", x |-> -1, y |-> -1]
    BY <1>1, RangePrepared
  <2>2. IsWhole(SetRange(InitRead, -1, -1).choice)
    BY <2>1 DEF IsWhole
  <2> QED  BY <1>2, <1>5, <1>7, <2>2
<1>8. ASSUME ~unsure, NEW x \in 0 .. Len(copy),
             Build(SetRange(InitRead, x, -1))
      PROVE  IInv'
  <2>1. x \in Int /\ x >= -1
    BY <1>4
  <2> QED  BY <1>2, <1>5, <1>8, <2>1
<1>9. ASSUME ~unsure, NEW x \in 0 .. Len(copy), NEW y \in x .. Len(copy),
             Build(SetRange(InitRead, x, y))
      PROVE  IInv'
  <2>1. x \in Int /\ y \in Int /\ x >= -1 /\ x # -1 /\ y >= x
    BY <1>4
  <2> QED  BY <1>2, <1>5, <1>9, <2>1
<1>10. ASSUME ~unsure, NEW x \in 0 .. Len(copy), NEW n \in 0 .. Len(copy),
              Build(SetRangeOffsetSize(InitRead, x, n))
       PROVE  IInv'
  <2>1. x \in Nat /\ n \in Nat
    BY <1>4
  <2> QED  BY <1>3, <1>5, <1>10, <2>1
<1>11. ASSUME ~unsure, NEW n \in 1 .. Len(copy) + 1,
              Build(SetRange(InitRead, -1, n))
       PROVE  IInv'
  <2>1. n \in Int /\ n > 0
    BY <1>4
  <2> QED  BY <1>2, <1>5, <1>11, <2>1
<1> QED  BY <1>6, <1>7, <1>8, <1>9, <1>10, <1>11 DEF BuildRead

(* The length of what an update of the copy leaves.                        *)
LEMMA UpdateLength ==
  ASSUME IInv, NEW c, ChoiceType(c), NEW d \in Contents,
         Fits(c, Len(d), Len(copy)),
         c.x # -1 => c.x + Len(d) <= MaxLength
  PROVE  Updated(c, copy, d) \in Contents
<1> DEFINE from == From(c, Len(copy))
           to == To(c, Len(copy))
           u == Updated(c, copy, d)
<1>1. /\ copy \in Seq(Bytes) /\ Len(copy) \in Nat /\ Len(copy) <= MaxLength
      /\ d \in Seq(Bytes) /\ Len(d) \in Nat /\ Len(d) <= MaxLength
  BY ContentsAreSeqs, LenProperties DEF IInv
<1>2. u \in Seq(Bytes) /\ Len(u) = from + Len(d) + Rest(copy, to)
  BY <1>1, UpdateAgain
<1> HIDE DEF u
<1>3. /\ c.x \in Int /\ c.y \in Int
      /\ c.how \in {"none", "range", "extent"}
  BY DEF ChoiceType, Choices
<1>4. from + Len(d) + Rest(copy, to) <= MaxLength
  <2> USE <1>1, <1>3, RangedAccessAssumption
      DEF RangedAccessAssumption, Rest, ChoiceType, Fits, From, To
  <2>1. CASE c.how = "extent"
    BY <2>1
  <2>2. CASE c.how = "none"
    BY <2>2
  <2>3. CASE c.how = "range" /\ c.x = -1
    BY <2>3
  <2>4. CASE c.how = "range" /\ c.x # -1
    BY <2>4
  <2> QED  BY <2>1, <2>2, <2>3, <2>4
<1> QED  BY <1>2, <1>4, ContentsAreSeqs DEF u

LEMMA PreparedChoice ==
  ASSUME NEW req, NEW method, NEW data, Prepared(req, method, data)
  PROVE  ChoiceType(req.choice)
BY DEF Prepared, ChoiceInv, ChoiceType, Requests, Choices

LEMMA BuildUpdateStep ==
  ASSUME IInv, BuildUpdate
  PROVE  IInv'
<1>1. ~unsure /\ Len(copy) \in Nat /\ Len(copy) <= MaxLength
  BY LenProperties, ContentsAreSeqs DEF IInv, TypeOK, BuildUpdate
<1>2. PICK data \in Contents :
        LET req == InitUpdate(data)
            n == Len(data)
        IN \/ Build(req)
           \/ Build(SetRange(req, -1, -1))
           \/ \E x \in 0 .. Smaller(Len(copy), MaxLength - n) :
                \/ Build(SetRange(req, x, -1))
                \/ n > 0 /\ Build(SetRange(req, x, x + n - 1))
                \/ n > 0 /\ Build(SetRangeOffsetSize(req, x, n))
           \/ n \in 1 .. Len(copy) /\ Build(SetRange(req, -1, n))
  BY DEF BuildUpdate
<1> DEFINE req == InitUpdate(data)
           n == Len(data)
<1>3. n \in Nat /\ n <= MaxLength
  BY LenProperties, ContentsAreSeqs
<1>4. Prepared(req, "PUT", data) /\ req.choice = Whole
  BY InitPrepared DEF InitUpdate
<1> HIDE DEF req
<1>5. \A x, y \in Int :
        x >= -1 /\ (y = -1 \/ (x = -1 /\ y > 0) \/ (x # -1 /\ y >= x)) =>
          /\ Prepared(SetRange(req, x, y), "PUT", data)
          /\ SetRange(req, x, y).choice = [how |-> "range", x |-> x, y |-> y]
  BY <1>4, RangePrepared
<1>6. ASSUME NEW r, Prepared(r, "PUT", data), Build(r),
             Fits(r.choice, n, Len(copy)),
             r.choice.x # -1 => r.choice.x + n <= MaxLength
      PROVE  IInv'
  <2>1. Updated(r.choice, copy, data) \in Contents
    BY <1>6, PreparedChoice, UpdateLength
  <2> QED  BY <1>1, <1>6, <2>1, BuildStep
<1> HIDE DEF n
<1>7. CASE Build(req)
  <2>1. Fits(req.choice, n, Len(copy)) /\ req.choice.x = -1
    BY <1>1, <1>4 DEF Fits, Whole
  <2> QED  BY <1>4, <1>6, <1>7, <2>1
<1>8. CASE Build(SetRange(req, -1, -1))
  <2> DEFINE r == SetRange(req, -1, -1)
  <2>1. /\ Prepared(r, "PUT", data)
        /\ r.choice = [how |-> "range", x |-> -1, y |-> -1]
    BY <1>5
  <2> HIDE DEF r
  <2>2. Fits(r.choice, n, Len(copy)) /\ r.choice.x = -1
    BY <1>1, <2>1 DEF Fits
  <2> QED  BY <1>6, <1>8, <2>1, <2>2 DEF r
<1>9. ASSUME NEW x \in 0 .. Smaller(Len(copy), MaxLength - n)
      PROVE  x \in Nat /\ x <= Len(copy) /\ x + n <= MaxLength
  BY <1>1, <1>3, RangedAccessAssumption DEF Smaller, RangedAccessAssumption
<1>10. ASSUME NEW x \in 0 .. Smaller(Len(copy), MaxLength - n),
              Build(SetRange(req, x, -1))
       PROVE  IInv'
  <2> DEFINE r == SetRange(req, x, -1)
  <2>1. x \in Nat /\ x <= Len(copy) /\ x + n <= MaxLength
    BY <1>9
  <2>2. /\ Prepared(r, "PUT", data)
        /\ r.choice = [how |-> "range", x |-> x, y |-> -1]
    BY <1>5, <2>1
  <2> HIDE DEF r
  <2>3. Fits(r.choice, n, Len(copy)) /\ r.choice.x = x
    BY <1>1, <2>1, <2>2 DEF Fits
  <2> QED  BY <1>6, <1>10, <2>1, <2>2, <2>3 DEF r
<1>11. ASSUME NEW x \in 0 .. Smaller(Len(copy), MaxLength - n), n > 0,
              Build(SetRange(req, x, x + n - 1))
       PROVE  IInv'
  <2> DEFINE r == SetRange(req, x, x + n - 1)
  <2>1. /\ x \in Nat /\ x <= Len(copy) /\ x + n <= MaxLength
        /\ x + n - 1 \in Int /\ x + n - 1 >= x
    BY <1>3, <1>9, <1>11
  <2>2. /\ Prepared(r, "PUT", data)
        /\ r.choice = [how |-> "range", x |-> x, y |-> x + n - 1]
    BY <1>5, <2>1
  <2> HIDE DEF r
  <2>3. Fits(r.choice, n, Len(copy)) /\ r.choice.x = x
    BY <1>1, <2>1, <2>2 DEF Fits
  <2> QED  BY <1>6, <1>11, <2>1, <2>2, <2>3 DEF r
<1>12. ASSUME NEW x \in 0 .. Smaller(Len(copy), MaxLength - n), n > 0,
              Build(SetRangeOffsetSize(req, x, n))
       PROVE  IInv'
  <2> DEFINE r == SetRangeOffsetSize(req, x, n)
  <2>1. x \in Nat /\ x <= Len(copy) /\ x + n <= MaxLength
    BY <1>9
  <2>2. /\ Prepared(r, "PUT", data)
        /\ r.choice = [how |-> "extent", x |-> x, y |-> n]
    BY <1>3, <1>4, <2>1, ExtentPrepared
  <2> HIDE DEF r
  <2>3. Fits(r.choice, n, Len(copy)) /\ r.choice.x = x
    BY <1>12, <2>1, <2>2 DEF Fits
  <2> QED  BY <1>6, <1>12, <2>1, <2>2, <2>3 DEF r
<1>13. ASSUME n \in 1 .. Len(copy), Build(SetRange(req, -1, n))
       PROVE  IInv'
  <2> DEFINE r == SetRange(req, -1, n)
  <2>1. /\ Prepared(r, "PUT", data)
        /\ r.choice = [how |-> "range", x |-> -1, y |-> n]
    BY <1>5, <1>13
  <2> HIDE DEF r
  <2>2. Fits(r.choice, n, Len(copy)) /\ r.choice.x = -1
    BY <1>1, <1>13, <2>1 DEF Fits
  <2> QED  BY <1>6, <1>13, <2>1, <2>2 DEF r
<1> QED
  BY <1>2, <1>7, <1>8, <1>10, <1>11, <1>12, <1>13 DEF req, n

-----------------------------------------------------------------------------
(* The filters and the server.                                             *)

LEMMA AddRangeStep ==
  ASSUME IInv, NEW method, AddRange(method)
  PROVE  IInv'
<1> DEFINE ranges == request.ranges \cup RangeHeaders(request)
<1>1. /\ pc = "built" /\ pc' = "server"
      /\ request' = [request EXCEPT !.ranges = ranges]
      /\ UNCHANGED <<response, object, copy, unsure, faults>>
  BY DEF AddRange
<1>2. request \in Requests /\ RequestInv
  BY DEF IInv, TypeOK
<1>3. RangeHeaders(request) \in SUBSET Ranges
  BY <1>2 DEF RangeHeaders, Ranges, Requests
<1>4. ranges \in SUBSET Ranges /\ ranges = RangeHeaders(request)
  BY <1>1, <1>2, <1>3 DEF RequestInv, RangesInv, Requests
<1> HIDE DEF ranges
<1>5. /\ request' \in Requests
      /\ request'.method = request.method
      /\ request'.data = request.data
      /\ request'.choice = request.choice
      /\ request'.range_start = request.range_start
      /\ request'.range_end = request.range_end
      /\ request'.ranges = ranges
  BY <1>1, <1>2, <1>4 DEF Requests
<1>6. RangeHeaders(request)' = RangeHeaders(request)
  BY <1>5 DEF RangeHeaders
<1>7. ChoiceInv(request)'
  BY <1>1, <1>2, <1>5 DEF RequestInv, ChoiceInv
<1>8. RequestInv'
  BY <1>4, <1>5, <1>6, <1>7 DEF RequestInv, RangesInv
<1>9. TypeOK'
  BY <1>1, <1>5 DEF IInv, TypeOK
<1>10. ResponseInv' /\ CopyIsTrue' /\ ReadInv'
  BY <1>1, <1>5 DEF IInv, ResponseInv, ReadsAsked, CopyIsTrue, ReadInv
<1>11. UpdateInv'
  BY <1>1, <1>5 DEF IInv, UpdateInv
<1> QED  BY <1>1, <1>8, <1>9, <1>10, <1>11 DEF IInv

(* The range the server sees is the one the caller chose.                  *)
LEMMA SameSpan ==
  ASSUME NEW req \in Requests, ChoiceInv(req),
         NEW range \in RangeHeaders(req), NEW len \in Nat,
         Satisfiable(range, len), ~NothingAtStart(req.choice)
  PROVE  /\ First(range, len) = From(req.choice, len)
         /\ Limit(range, len) = To(req.choice, len)
<1> DEFINE c == req.choice
<1>1. /\ range.first = req.range_start /\ range.last = req.range_end
      /\ req.range_start # -1 \/ req.range_end # -1
  BY DEF RangeHeaders
<1>2. /\ c.x \in Int /\ c.y \in Int
      /\ c.how \in {"none", "range", "extent"}
      /\ req.range_start \in Int /\ req.range_end \in Int
  BY DEF Requests, Choices
<1>3. ~(c.how = "extent" /\ c.x = 0 /\ c.y = 0)
  BY DEF NothingAtStart, Requests, Choices
<1>4. /\ c.how = "range" =>
            /\ req.range_start = c.x /\ req.range_end = c.y
            /\ c.x >= -1
      /\ c.how = "extent" =>
            /\ req.range_start = c.x /\ req.range_end = c.x + c.y - 1
            /\ c.x >= 0 /\ c.y >= 0
      /\ c.how # "none"
  BY <1>1, <1>2 DEF ChoiceInv
<1> HIDE DEF c
<1>5. CASE c.how = "range"
  BY <1>1, <1>2, <1>4, <1>5 DEF First, Limit, From, To, c
<1>6. CASE c.how = "extent"
  BY <1>1, <1>2, <1>3, <1>4, <1>6 DEF First, Limit, From, To, c
<1> QED  BY <1>2, <1>4, <1>5, <1>6

LEMMA SpanInContents ==
  ASSUME NEW s \in Contents, NEW from \in Nat, NEW to \in Nat
  PROVE  Part(s, from, to) \in Contents
<1>1. s \in Seq(Bytes) /\ Len(s) \in Nat /\ Len(s) <= MaxLength
  BY ContentsAreSeqs, LenProperties
<1> DEFINE p == Part(s, from, to)
           end == Smaller(to, Len(s))
<1>2. /\ p \in Seq(Bytes)
      /\ Len(p) = IF from < end THEN end - from ELSE 0
  BY <1>1, PartProperties
<1>3. end \in Nat /\ end <= Len(s)
  BY <1>1 DEF Smaller
<1> HIDE DEF p, end
<1>4. Len(p) <= MaxLength
  BY <1>1, <1>2, <1>3, RangedAccessAssumption DEF RangedAccessAssumption
<1> QED  BY <1>2, <1>4, ContentsAreSeqs DEF p

(* Whichever header the server goes by, what it returns or does is what    *)
(* the caller asked for, or it declines.                                   *)
ReadOutcome(outcome) ==
  /\ outcome.content = object
  /\ outcome.http_code \in {200, 400}
  /\ outcome.body \in Contents
  /\ outcome.http_code = 200 =>
       outcome.body = IF NothingAtStart(request.choice) THEN object
                      ELSE Asked(request.choice, object)

UpdateOutcome(outcome) ==
  /\ outcome.body = << >>
  /\ \/ outcome.http_code = 400 /\ outcome.content = object
     \/ /\ outcome.http_code = 200
        /\ outcome.content = Updated(request.choice, object, request.data)

LEMMA OutcomeFields ==
  ASSUME NEW code, NEW body, NEW content
  PROVE  /\ Outcome(code, body, content).http_code = code
         /\ Outcome(code, body, content).body = body
         /\ Outcome(code, body, content).content = content
BY DEF Outcome

LEMMA NothingExtent ==
  ASSUME NEW req \in Requests, ChoiceInv(req), NothingAtStart(req.choice),
         NEW range \in RangeHeaders(req)
  PROVE  /\ First(range, Len(object)) = 0
         /\ Limit(range, Len(object)) = Len(object)
<1>1. req.choice.how = "extent" /\ req.choice.x = 0 /\ req.choice.y = 0
  BY DEF NothingAtStart
<1>2. req.range_start = 0 /\ req.range_end = -1
  BY <1>1 DEF ChoiceInv
<1>3. range.first = 0 /\ range.last = -1
  BY <1>2 DEF RangeHeaders
<1> QED  BY <1>3 DEF First, Limit

(* The choices that leave no header ask for everything.                    *)
LEMMA NoHeader ==
  ASSUME NEW req \in Requests, ChoiceInv(req), RangeHeaders(req) = {},
         NEW len \in Nat
  PROVE  /\ ~NothingAtStart(req.choice)
         /\ From(req.choice, len) = 0
         /\ To(req.choice, len) = len
<1> DEFINE c == req.choice
<1>1. req.range_start = -1 /\ req.range_end = -1
  BY DEF RangeHeaders
<1>2. /\ c.x \in Int /\ c.y \in Int
      /\ c.how \in {"none", "range", "extent"}
  BY DEF Requests, Choices
<1>3. /\ c.how = "range" => c.x = -1 /\ c.y = -1
      /\ c.how = "none" => c.x = -1 /\ c.y = -1
      /\ c.how # "extent"
  BY <1>1, <1>2 DEF ChoiceInv
<1> HIDE DEF c
<1>4. c.x = -1 /\ c.y = -1
  BY <1>2, <1>3
<1>5. ~NothingAtStart(c)
  BY <1>3 DEF NothingAtStart
<1> QED  BY <1>2, <1>3, <1>4, <1>5 DEF From, To, c

LEMMA AtServer ==
  ASSUME IInv, pc = "server"
  PROVE  /\ request \in Requests /\ ChoiceInv(request)
         /\ request.ranges = RangeHeaders(request)
         /\ request.method \in {"GET", "PUT"}
         /\ request.data \in Contents
         /\ object \in Seq(Bytes) /\ object \in Contents
         /\ Len(object) \in Nat
         /\ response = EmptyResponse
BY LenProperties
   DEF IInv, TypeOK, RequestInv, RangesInv, ResponseInv, Requests

LEMMA AnyReadOutcome ==
  ASSUME IInv, pc = "server", request.method = "GET",
         NEW outcome \in Outcomes
  PROVE  ReadOutcome(outcome)
<1> DEFINE c == request.choice
           len == Len(object)
<1>1. /\ request \in Requests /\ ChoiceInv(request)
      /\ request.ranges = RangeHeaders(request)
      /\ object \in Seq(Bytes) /\ object \in Contents
      /\ len \in Nat
  BY AtServer
<1>2. CASE request.ranges = {}
  <2>1. outcome = Outcome(200, object, object)
    BY <1>2 DEF Outcomes
  <2>2. ~NothingAtStart(c) /\ From(c, len) = 0 /\ To(c, len) = len
    BY <1>1, <1>2, NoHeader
  <2>3. Asked(c, object) = object
    BY <1>1, <2>2, PartWhole DEF Asked
  <2> QED  BY <1>1, <2>1, <2>2, <2>3, OutcomeFields DEF ReadOutcome
<1>3. CASE request.ranges # {}
  <2>1. PICK range \in request.ranges : outcome = ByRange(range)
    BY <1>3 DEF Outcomes
  <2> DEFINE first == First(range, len)
             limit == Limit(range, len)
  <2>2. CASE ~Satisfiable(range, len)
    <3>1. outcome = Outcome(400, << >>, object)
      BY <2>1, <2>2 DEF ByRange
    <3> QED
      BY <3>1, OutcomeFields, NothingIsContents DEF ReadOutcome
  <2>3. CASE Satisfiable(range, len)
    <3>1. outcome = Outcome(200, Part(object, first, limit), object)
      BY <2>1, <2>3 DEF ByRange
    <3>2. CASE NothingAtStart(c)
      <4>1. first = 0 /\ limit = len
        BY <1>1, <2>1, <3>2, NothingExtent
      <4>2. Part(object, first, limit) = object
        BY <1>1, <4>1, PartWhole
      <4> QED  BY <1>1, <3>1, <3>2, <4>2, OutcomeFields DEF ReadOutcome
    <3>3. CASE ~NothingAtStart(c)
      <4>1. first = From(c, len) /\ limit = To(c, len)
        BY <1>1, <2>1, <2>3, <3>3, SameSpan
      <4>2. Part(object, first, limit) = Asked(c, object)
        BY <4>1 DEF Asked
      <4>3. first \in Nat /\ limit \in Nat
        <5>1. range.first \in Int /\ range.last \in Int
          BY <1>1, <2>1 DEF Requests, Ranges
        <5>2. range.first >= -1 /\ range.last >= -1
          BY <1>1, <2>1 DEF RangeHeaders, ChoiceInv, Requests, Choices
        <5> QED  BY <1>1, <5>1, <5>2 DEF First, Limit
      <4>4. Part(object, first, limit) \in Contents
        BY <1>1, <4>3, SpanInContents
      <4> QED  BY <3>1, <3>3, <4>2, <4>4, OutcomeFields DEF ReadOutcome
    <3> QED  BY <3>2, <3>3
  <2> QED  BY <2>2, <2>3
<1> QED  BY <1>2, <1>3

LEMMA OverlayAll ==
  ASSUME NEW s \in Seq(Bytes), NEW d \in Seq(Bytes)
  PROVE  Overlay(s, 0, Len(s), d) = d
<1>1. Len(s) \in Nat
  BY LenProperties
<1>2. Part(s, 0, 0) = << >>
  <2>1. Smaller(0, Len(s)) = 0
    BY <1>1 DEF Smaller
  <2> QED  BY <2>1, SubSeqEmpty DEF Part
<1>3. Part(s, Len(s), Len(s)) = << >>
  <2>1. Smaller(Len(s), Len(s)) = Len(s) /\ Len(s) < Len(s) + 1
    BY <1>1 DEF Smaller
  <2>2. SubSeq(s, Len(s) + 1, Len(s)) = << >>
    BY <1>1, <2>1, SubSeqEmpty
  <2> QED  BY <2>1, <2>2 DEF Part
<1>4. (<< >> \o d) \o << >> = d
  BY ConcatEmptySeq
<1> QED  BY <1>2, <1>3, <1>4 DEF Overlay

LEMMA AnyUpdateOutcome ==
  ASSUME IInv, pc = "server", request.method = "PUT",
         NEW outcome \in Outcomes
  PROVE  UpdateOutcome(outcome)
<1> DEFINE c == request.choice
           len == Len(object)
<1>1. /\ request \in Requests /\ ChoiceInv(request)
      /\ request.ranges = RangeHeaders(request)
      /\ object \in Seq(Bytes)
      /\ request.data \in Seq(Bytes)
      /\ len \in Nat
  BY AtServer, ContentsAreSeqs
<1>2. ~NothingAtStart(c)
  BY DEF IInv, UpdateInv, Fits, NothingAtStart
<1>3. CASE request.ranges = {}
  <2>1. outcome = Outcome(200, << >>, request.data)
    BY <1>3 DEF Outcomes
  <2>2. From(c, len) = 0 /\ To(c, len) = len
    BY <1>1, <1>3, NoHeader
  <2>3. Updated(c, object, request.data) = request.data
    BY <1>1, <2>2, OverlayAll DEF Updated
  <2> QED  BY <2>1, <2>3, OutcomeFields DEF UpdateOutcome
<1>4. CASE request.ranges # {}
  <2>1. PICK range \in request.ranges : outcome = ByRange(range)
    BY <1>4 DEF Outcomes
  <2> DEFINE first == First(range, len)
             limit == Limit(range, len)
             new == Overlay(object, first, limit, request.data)
  <2>2. \/ outcome = Outcome(400, << >>, object)
        \/ Satisfiable(range, len) /\ outcome = Outcome(200, << >>, new)
    BY <2>1 DEF ByRange
  <2>3. CASE outcome = Outcome(400, << >>, object)
    BY <2>3, OutcomeFields DEF UpdateOutcome
  <2>4. CASE Satisfiable(range, len) /\ outcome = Outcome(200, << >>, new)
    <3>1. first = From(c, len) /\ limit = To(c, len)
      BY <1>1, <1>2, <2>1, <2>4, SameSpan
    <3>2. new = Updated(c, object, request.data)
      BY <3>1 DEF Updated
    <3> QED  BY <2>4, <3>2, OutcomeFields DEF UpdateOutcome
  <2> QED  BY <2>2, <2>3, <2>4
<1> QED  BY <1>3, <1>4

LEMMA SomeOutcome ==
  ASSUME IInv, pc = "server", NEW outcome \in Outcomes
  PROVE  /\ outcome.http_code \in {200, 400}
         /\ outcome.body \in Contents
         /\ request.method = "GET" => ReadOutcome(outcome)
         /\ request.method = "PUT" => UpdateOutcome(outcome)
<1>1. request.method \in {"GET", "PUT"}
  BY AtServer
<1> QED
  BY <1>1, AnyReadOutcome, AnyUpdateOutcome, NothingIsContents
     DEF ReadOutcome, UpdateOutcome

(* Done to the object of an update in flight, the update leaves what it    *)
(* would have left of the copy.                                            *)
LEMMA UpdatedFromCopy ==
  ASSUME IInv, pc = "server", request.method = "PUT"
  PROVE  Updated(request.choice, object, request.data)
           = Updated(request.choice, copy, request.data)
<1>1. /\ Fits(request.choice, Len(request.data), Len(copy))
      /\ object \in {copy, Updated(request.choice, copy, request.data)}
  BY DEF IInv, UpdateInv
<1>2. copy \in Seq(Bytes) /\ request.data \in Seq(Bytes)
  BY AtServer, ContentsAreSeqs DEF IInv
<1>3. ChoiceType(request.choice)
  BY AtServer DEF ChoiceInv, ChoiceType, Requests
<1> QED  BY <1>1, <1>2, <1>3, UpdateAgain

(* The object afterwards, whether the answer arrives or not.               *)
LEMMA ObjectAfter ==
  ASSUME IInv, pc = "server", NEW outcome \in Outcomes,
         object' = outcome.content
  PROVE  /\ object' \in Contents
         /\ request.method = "GET" => object' = object
         /\ request.method = "PUT" =>
              LET updated == Updated(request.choice, copy, request.data) IN
              /\ object' \in {object, updated}
              /\ outcome.http_code = 200 => object' = updated
              /\ outcome.http_code = 400 => object' = object
<1>1. request.method \in {"GET", "PUT"} /\ object \in Contents
  BY AtServer
<1>2. CASE request.method = "GET"
  BY <1>1, <1>2, SomeOutcome DEF ReadOutcome
<1>3. CASE request.method = "PUT"
  <2>1. Updated(request.choice, copy, request.data) \in Contents
    BY <1>3 DEF IInv, UpdateInv
  <2>2. UpdateOutcome(outcome)
    BY <1>3, SomeOutcome
  <2> QED  BY <1>1, <1>3, <2>1, <2>2, UpdatedFromCopy DEF UpdateOutcome
<1> QED  BY <1>1, <1>2, <1>3

LEMMA ReturnedTypes ==
  ASSUME IInv, pc = "server", pc' = "returned",
         UNCHANGED <<request, copy, unsure>>,
         response' \in Responses, object' \in Contents,
         faults' \in 0 .. MaxFaults
  PROVE  TypeOK' /\ RequestInv' /\ CopyIsTrue' /\ copy' \in Contents
<1>1. object' \in Seq(Bytes)
  BY ContentsAreSeqs
<1>2. TypeOK'
  BY <1>1 DEF IInv, TypeOK
<1>3. RequestInv'
  BY DEF IInv, RequestInv, ChoiceInv, RangesInv, RangeHeaders
<1> QED  BY <1>2, <1>3 DEF IInv, CopyIsTrue

LEMMA ServeStep ==
  ASSUME IInv, Serve
  PROVE  IInv'
<1>1. PICK outcome \in Outcomes :
        /\ response' = [http_code |-> outcome.http_code,
                        body |-> outcome.body]
        /\ object' = outcome.content
  BY DEF Serve
<1>2. /\ pc = "server" /\ pc' = "returned"
      /\ UNCHANGED <<request, copy, unsure, faults>>
  BY DEF Serve
<1>3. /\ outcome.http_code \in {200, 400}
      /\ outcome.body \in Contents
      /\ request.method = "GET" => ReadOutcome(outcome)
  BY <1>2, SomeOutcome
<1>4. /\ response' \in Responses
      /\ response'.http_code = outcome.http_code
      /\ response'.body = outcome.body
  BY <1>1, <1>3 DEF Responses
<1>5. /\ object' \in Contents
      /\ request.method = "GET" => object' = object
      /\ request.method = "PUT" =>
           LET updated == Updated(request.choice, copy, request.data) IN
           /\ object' \in {object, updated}
           /\ outcome.http_code = 200 => object' = updated
           /\ outcome.http_code = 400 => object' = object
  BY <1>1, <1>2, ObjectAfter
<1>6. faults' \in 0 .. MaxFaults
  BY <1>2 DEF IInv, TypeOK
<1>7. TypeOK' /\ RequestInv' /\ CopyIsTrue' /\ copy' \in Contents
  BY <1>2, <1>4, <1>5, <1>6, ReturnedTypes
<1>8. ResponseInv'
  BY <1>2, <1>3, <1>4, <1>5 DEF ResponseInv, ReadsAsked, ReadOutcome
<1>9. ReadInv'
  BY <1>2, <1>5 DEF IInv, ReadInv
<1>10. UpdateInv'
  BY <1>2, <1>3, <1>4, <1>5 DEF IInv, UpdateInv
<1> QED  BY <1>5, <1>7, <1>8, <1>9, <1>10 DEF IInv

LEMMA FaultType ==
  ASSUME IInv, NEW kind, Fault(kind)
  PROVE  faults' \in 0 .. MaxFaults
<1>1. faults \in 0 .. MaxFaults /\ faults < MaxFaults /\ faults' = faults + 1
  BY DEF Fault, IInv, TypeOK
<1> QED  BY <1>1, RangedAccessAssumption DEF RangedAccessAssumption

LEMMA RefuseStep ==
  ASSUME IInv, Refuse
  PROVE  IInv'
<1>1. /\ pc = "server" /\ pc' = "returned"
      /\ response' = [http_code |-> 500, body |-> << >>]
      /\ faults' \in 0 .. MaxFaults
      /\ UNCHANGED <<request, object, copy, unsure>>
  BY FaultType DEF Refuse
<1>2. response' \in Responses /\ response'.http_code = 500
  BY <1>1, NothingIsContents DEF Responses
<1>3. object' \in Contents
  BY <1>1 DEF IInv
<1>4. TypeOK' /\ RequestInv' /\ CopyIsTrue' /\ copy' \in Contents
  BY <1>1, <1>2, <1>3, ReturnedTypes
<1>5. ResponseInv' /\ ReadInv'
  BY <1>1, <1>2 DEF IInv, ResponseInv, ReadsAsked, ReadInv
<1>6. UpdateInv'
  BY <1>1, <1>2 DEF IInv, UpdateInv
<1> QED  BY <1>3, <1>4, <1>5, <1>6 DEF IInv

(* No answer, be it that the server did nothing or that it did all.        *)
LEMMA NoAnswerStep ==
  ASSUME IInv, pc = "server", pc' = "returned",
         faults' \in 0 .. MaxFaults,
         UNCHANGED <<request, response, copy, unsure>>,
         \/ object' = object
         \/ \E outcome \in Outcomes : object' = outcome.content
  PROVE  IInv'
<1>1. response' \in Responses /\ response'.http_code = 0
  BY AtServer DEF IInv, TypeOK, EmptyResponse
<1>2. /\ object' \in Contents
      /\ request.method = "GET" => object' = object
      /\ request.method = "PUT" =>
           object' \in {object, Updated(request.choice, copy, request.data)}
  <2>1. CASE object' = object
    BY <2>1 DEF IInv
  <2>2. CASE \E outcome \in Outcomes : object' = outcome.content
    BY <2>2, ObjectAfter
  <2> QED  BY <2>1, <2>2
<1>3. TypeOK' /\ RequestInv' /\ CopyIsTrue' /\ copy' \in Contents
  BY <1>1, <1>2, ReturnedTypes
<1>4. ResponseInv'
  BY <1>1 DEF ResponseInv, ReadsAsked
<1>5. ReadInv'
  BY <1>2 DEF IInv, ReadInv
<1>6. UpdateInv'
  BY <1>1, <1>2 DEF IInv, UpdateInv
<1> QED  BY <1>2, <1>3, <1>4, <1>5, <1>6 DEF IInv

-----------------------------------------------------------------------------
(* The caller and the outcome.                                             *)

LEMMA WholeAsked ==
  ASSUME NEW c, IsWhole(c), NEW s \in Seq(Bytes)
  PROVE  ~NothingAtStart(c) /\ Asked(c, s) = s
<1>1. From(c, Len(s)) = 0 /\ To(c, Len(s)) = Len(s)
  BY DEF IsWhole, From, To
<1>2. ~NothingAtStart(c)
  BY DEF IsWhole, NothingAtStart
<1> QED  BY <1>1, <1>2, PartWhole DEF Asked

LEMMA AcceptStep ==
  ASSUME IInv, Accept
  PROVE  IInv'
<1>1. /\ pc = "returned" /\ response.http_code = 200 /\ pc' = "idle"
      /\ ~unsure'
      /\ UNCHANGED <<request, response, object, faults>>
      /\ copy' = IF request.method = "PUT"
                   THEN Updated(request.choice, copy, request.data)
                 ELSE IF unsure THEN response.body ELSE copy
  BY DEF Accept
<1>2. unsure' \in BOOLEAN
  BY Zenon DEF Accept
<1>3. request.method \in {"GET", "PUT"} /\ object \in Seq(Bytes)
      /\ object \in Contents
  BY DEF IInv, TypeOK, Requests
<1>4. copy' = object
  <2>1. CASE request.method = "PUT"
    BY <1>1, <2>1 DEF IInv, UpdateInv
  <2>2. CASE request.method = "GET" /\ unsure
    <3>1. IsWhole(request.choice)
      BY <1>1, <2>2 DEF IInv, ReadInv
    <3>2. response.body = object
      BY <1>1, <1>3, <2>2, <3>1, WholeAsked DEF IInv, ResponseInv, ReadsAsked
    <3> QED  BY <1>1, <2>2, <3>2
  <2>3. CASE request.method = "GET" /\ ~unsure
    BY <1>1, <2>3 DEF IInv, ReadInv
  <2> QED  BY <1>3, <2>1, <2>2, <2>3
<1>5. TypeOK'
  BY <1>1, <1>2, <1>3, <1>4 DEF IInv, TypeOK
<1> QED
  BY <1>1, <1>3, <1>4, <1>5
     DEF IInv, RequestInv, ResponseInv, ReadsAsked, CopyIsTrue, ReadInv,
         UpdateInv

LEMMA ReexecuteStep ==
  ASSUME IInv, Reexecute
  PROVE  IInv'
<1>1. /\ pc = "returned" /\ pc' = "built"
      /\ response.http_code \in {0, 500}
      /\ unsure' <=> Doubt
      /\ response' = EmptyResponse
      /\ UNCHANGED <<request, object, copy, faults>>
  BY DEF Reexecute
<1>2. unsure' \in BOOLEAN
  BY Zenon DEF Reexecute, Doubt
<1>3. request.method = "GET" => (unsure' <=> unsure)
  BY <1>1 DEF Doubt
<1>4. response' \in Responses
  BY <1>1, NothingIsContents DEF Responses, EmptyResponse
<1>5. TypeOK'
  BY <1>1, <1>2, <1>4 DEF IInv, TypeOK
<1>6. RequestInv'
  BY <1>1 DEF IInv, RequestInv, ChoiceInv, RangesInv, RangeHeaders
<1>7. ResponseInv' /\ CopyIsTrue'
  BY <1>1 DEF ResponseInv, ReadsAsked, CopyIsTrue
<1>8. ReadInv'
  BY <1>1, <1>3 DEF IInv, ReadInv
<1>9. UpdateInv'
  BY <1>1 DEF IInv, UpdateInv, Doubt
<1> QED  BY <1>1, <1>5, <1>6, <1>7, <1>8, <1>9 DEF IInv

LEMMA GiveUpStep ==
  ASSUME IInv, GiveUp
  PROVE  IInv'
<1>1. /\ pc = "returned" /\ pc' = "idle"
      /\ response.http_code # 200
      /\ unsure' <=> Doubt
      /\ UNCHANGED <<request, response, object, copy, faults>>
  BY DEF GiveUp
<1>2. unsure' \in BOOLEAN
  BY Zenon DEF GiveUp, Doubt
<1>3. TypeOK'
  BY <1>1, <1>2 DEF IInv, TypeOK
<1>4. request.method \in {"GET", "PUT"}
  BY DEF IInv, TypeOK, Requests
<1>5. CopyIsTrue'
  BY <1>1, <1>4 DEF IInv, CopyIsTrue, ReadInv, UpdateInv, Doubt
<1> QED
  BY <1>1, <1>3, <1>5
     DEF IInv, RequestInv, ResponseInv, ReadsAsked, ReadInv, UpdateInv

LEMMA StutterStep ==
  ASSUME IInv, UNCHANGED vars
  PROVE  IInv'
<1>1. UNCHANGED <<pc, request, response, object, copy, unsure, faults>>
  BY DEF vars
<1>2. TypeOK' /\ CopyIsTrue'
  BY <1>1 DEF IInv, TypeOK, CopyIsTrue
<1>3. RequestInv'
  BY <1>1 DEF IInv, RequestInv, ChoiceInv, RangesInv, RangeHeaders
<1>4. ResponseInv' /\ ReadInv' /\ UpdateInv'
  BY <1>1 DEF IInv, ResponseInv, ReadsAsked, ReadInv, UpdateInv
<1> QED  BY <1>1, <1>2, <1>3, <1>4 DEF IInv

LEMMA NextStep == IInv /\ [Next]_vars => IInv'
<1> SUFFICES ASSUME IInv, [Next]_vars PROVE IInv'
  OBVIOUS
<1>1. CASE BuildRead \/ BuildUpdate
  BY <1>1, BuildReadStep, BuildUpdateStep
<1>2. CASE SetReadObjectHeaders \/ UpdateObject
  BY <1>2, AddRangeStep DEF SetReadObjectHeaders, UpdateObject
<1>3. CASE Accept \/ Reexecute \/ GiveUp
  BY <1>3, AcceptStep, ReexecuteStep, GiveUpStep
<1>4. CASE Serve \/ Refuse
  BY <1>4, ServeStep, RefuseStep
<1>5. CASE CutOff \/ LoseReply
  BY <1>5, FaultType, NoAnswerStep DEF CutOff, LoseReply
<1>6. CASE UNCHANGED vars
  BY <1>6, StutterStep
<1> QED  BY <1>1, <1>2, <1>3, <1>4, <1>5, <1>6 DEF Next, ClientStep

-----------------------------------------------------------------------------
(* The theorems.                                                           *)

(* The range of a request, its answer, the object and the copy of the      *)
(* caller stay tied to each other, whatever fails.                         *)
THEOREM Inductive == Spec => []IInv
BY Initially, NextStep, PTL DEF Spec

(* Every variable keeps its type, for every set of bytes and length.       *)
THEOREM TypeCorrect == Spec => []TypeOK
<1>1. IInv => TypeOK
  BY DEF IInv
<1> QED  BY <1>1, Inductive, PTL

(* A read that succeeds returns the bytes the setter of its range          *)
(* promised.                                                               *)
THEOREM ReadsWhatWasAsked == Spec => []ReadsAsked
<1>1. IInv => ReadsAsked
  BY DEF IInv, ResponseInv
<1> QED  BY <1>1, Inductive, PTL

(* A caller that knows how its updates went has a true copy.               *)
THEOREM CopyStaysTrue == Spec => []CopyIsTrue
<1>1. IInv => CopyIsTrue
  BY DEF IInv
<1> QED  BY <1>1, Inductive, PTL

LEMMA UpdateStep ==
  ASSUME IInv, [Next]_vars, object' # object
  PROVE  object' = Updated(request.choice, object, request.data)
<1>1. Serve \/ LoseReply
  BY DEF Next, ClientStep, BuildRead, BuildUpdate, Build, SetReadObjectHeaders,
         UpdateObject, AddRange, Accept, Reexecute, GiveUp, Refuse, CutOff,
         vars
<1>2. pc = "server" /\ \E outcome \in Outcomes : object' = outcome.content
  BY <1>1 DEF Serve, LoseReply
<1>3. request.method \in {"GET", "PUT"}
  BY <1>2, AtServer
<1> QED  BY <1>2, <1>3, SomeOutcome DEF ReadOutcome, UpdateOutcome

(* An update changes the bytes it names and no others, however often it is *)
(* executed and whether or not its answer arrives.                         *)
THEOREM UpdatesWhatWasAsked == Spec => UpdatesOnlyAsked
<1>1. IInv /\ [Next]_vars =>
        [object' # object =>
           object' = Updated(request.choice, object, request.data)]_vars
  BY UpdateStep
<1> QED  BY <1>1, Inductive, PTL DEF Spec, UpdatesOnlyAsked
=============================================================================
