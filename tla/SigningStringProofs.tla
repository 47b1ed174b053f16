------------------------- MODULE SigningStringProofs -------------------------
(***************************************************************************)
(* The string that a request is signed with, for every request, every      *)
(* order of its headers and any number of failures to allocate: what the   *)
(* loop that normalises white space in place makes of a header is its      *)
(* normal form, and the lines of the string are those headers, sorted.     *)
(***************************************************************************)
EXTENDS SigningProofs, FiniteSetTheorems

-----------------------------------------------------------------------------
(* The characters the loop looks for, by name.                             *)

Space == " "
Colon == ":"
Comma == ","
NoChar == ""
NewLineChar == "\n"

LEMMA CharsApart ==
  /\ Space # Colon /\ Space # Comma /\ Space # NoChar /\ Colon # Comma
  /\ Colon # NoChar /\ Comma # NoChar
BY Zenon DEF Space, Colon, Comma, NoChar

LEMMA FirstColonIs ==
  ASSUME NEW header, NEW c
  PROVE  FirstColon(header, c) <=>
           header[c] = Colon /\ \A k \in 1 .. c - 1 : header[k] # Colon
BY Zenon DEF FirstColon, Colon

(* Only spaces are behind the first colon, up to the k-th character.       *)
Blank(header, c, k) ==
  FirstColon(header, c) /\ \A m \in c + 1 .. k : header[m] = Space

LEMMA StaysIs ==
  ASSUME NEW header, NEW k
  PROVE  Stays(header, k) <=>
           \/ header[k] # Space
           \/ /\ k < Len(header)
              /\ header[k + 1] # Space /\ header[k + 1] # Comma
              /\ ~FirstColon(header, k + 1)
              /\ ~ \E c \in 1 .. k - 1 : Blank(header, c, k)
BY Zenon DEF Stays, Space, Comma, Blank

LEMMA SpaceGoesIs ==
  ASSUME NEW lp
  PROVE  SpaceGoes(lp) <=>
           \/ NextChar(lp) = NoChar \/ NextChar(lp) = Space
           \/ NextChar(lp) = Comma
           \/ ~lp.sepfound /\ NextChar(lp) = Colon
BY Zenon DEF SpaceGoes, Space, Comma, NoChar, Colon

LEMMA NextCharIs ==
  ASSUME NEW lp
  PROVE  NextChar(lp) = IF lp.i + 2 <= Len(lp.header)
                          THEN lp.header[lp.i + 2] ELSE NoChar
BY Zenon DEF NextChar, NoChar

LEMMA LoopStepIs ==
  ASSUME NEW lp
  PROVE  LoopStep(lp) =
           IF lp.trimming
             THEN IF lp.i < Len(lp.header) /\ This(lp) = Space
                    THEN Skip(lp)
                    ELSE [lp EXCEPT !.trimming = FALSE]
           ELSE IF This(lp) = Space
             THEN IF SpaceGoes(lp) THEN Skip(lp) ELSE Put(lp)
           ELSE IF This(lp) = Colon /\ ~lp.sepfound
             THEN [Put(lp) EXCEPT !.sepfound = TRUE, !.trimming = TRUE]
           ELSE Put(lp)
BY Zenon DEF LoopStep, Space, Colon

-----------------------------------------------------------------------------
(* The characters of a header that stay, counted.                          *)

LEMMA KeptType ==
  ASSUME NEW header, NEW k \in Nat
  PROVE  /\ IsFiniteSet({n \in 1 .. k : Stays(header, n)})
         /\ Kept(header, k) \in Nat
<1>1. IsFiniteSet(1 .. k)
  BY FS_Interval
<1>2. {n \in 1 .. k : Stays(header, n)} \in SUBSET (1 .. k)
  OBVIOUS
<1> QED  BY <1>1, <1>2, FS_Subset, FS_CardinalityType DEF Kept

LEMMA KeptNone ==
  ASSUME NEW header PROVE Kept(header, 0) = 0
<1>1. {n \in 1 .. 0 : Stays(header, n)} = {}
  OBVIOUS
<1> QED  BY <1>1, FS_EmptySet DEF Kept

LEMMA KeptNext ==
  ASSUME NEW header, NEW k \in Nat
  PROVE  Kept(header, k + 1) =
           Kept(header, k) + IF Stays(header, k + 1) THEN 1 ELSE 0
<1> DEFINE S == {n \in 1 .. k : Stays(header, n)}
           T == {n \in 1 .. k + 1 : Stays(header, n)}
<1>1. IsFiniteSet(S) /\ Cardinality(S) \in Nat
  BY KeptType DEF Kept
<1> k + 1 \notin S
  OBVIOUS
<1>2. CASE Stays(header, k + 1)
  <2>1. T = S \cup {k + 1}
    BY <1>2
  <2> HIDE DEF S, T
  <2>2. Cardinality(T) = Cardinality(S) + 1
    BY <1>1, <2>1, FS_AddElement
  <2> QED  BY <1>2, <2>2 DEF Kept, S, T
<1>3. CASE ~Stays(header, k + 1)
  <2>1. T = S
    BY <1>3
  <2> QED  BY <1>1, <1>3, <2>1 DEF Kept
<1> QED  BY <1>2, <1>3

LEMMA KeptMonotone ==
  ASSUME NEW header, NEW k \in Nat, NEW m \in Nat, k <= m
  PROVE  Kept(header, k) <= Kept(header, m)
<1>1. {n \in 1 .. k : Stays(header, n)}
        \in SUBSET {n \in 1 .. m : Stays(header, n)}
  OBVIOUS
<1> QED  BY <1>1, KeptType, FS_Subset DEF Kept

(* No two characters that stay are counted alike.                          *)
LEMMA KeptApart ==
  ASSUME NEW header, NEW k \in Nat \ {0}, NEW m \in Nat \ {0},
         Stays(header, k), Stays(header, m),
         Kept(header, k) = Kept(header, m)
  PROVE  k = m
<1>1. ASSUME NEW a \in Nat \ {0}, NEW b \in Nat \ {0}, a < b,
             Stays(header, b)
      PROVE  Kept(header, a) < Kept(header, b)
  <2>1. b - 1 \in Nat /\ (b - 1) + 1 = b /\ a <= b - 1
    BY <1>1
  <2>2. Kept(header, (b - 1) + 1) = Kept(header, b - 1) + 1
    BY <1>1, <2>1, KeptNext
  <2>3. Kept(header, a) <= Kept(header, b - 1)
    BY <2>1, KeptMonotone
  <2>4. Kept(header, a) \in Nat /\ Kept(header, b - 1) \in Nat
    BY <2>1, KeptType
  <2> QED  BY <2>1, <2>2, <2>3, <2>4
<1>2. Kept(header, k) \in Nat
  BY KeptType
<1>3. ~(k < m) /\ ~(m < k)
  BY <1>1, <1>2
<1> QED  BY <1>3

-----------------------------------------------------------------------------
(* The loop keeps the characters that stay.                                *)

(* What the flags know of the characters that were read.                   *)
Flags(lp, input) ==
  /\ lp.sepfound <=> \E c \in 1 .. lp.i : input[c] = Colon
  /\ lp.trimming => \E c \in 1 .. lp.i : Blank(input, c, lp.i)
  /\ ~lp.trimming /\ lp.i < Len(input) =>
       ~ \E c \in 1 .. lp.i : Blank(input, c, lp.i + 1)

(* The j characters at the beginning are those that stay of the first i.   *)
Written(header, i, j, input) ==
  /\ j = Kept(input, i)
  /\ \A m \in 1 .. j : \E k \in 1 .. i :
       Stays(input, k) /\ Kept(input, k) = m /\ header[m] = input[k]

Normalizing(lp, input) ==
  /\ InPlace(lp, input)
  /\ Flags(lp, input)
  /\ Written(lp.header, lp.i, lp.j, input)

LEMMA StartLoopNormalizing ==
  ASSUME NEW input \in Texts
  PROVE  Normalizing(StartLoop(input), input)
<1>1. /\ StartLoop(input).header = input /\ StartLoop(input).i = 0
      /\ StartLoop(input).j = 0
      /\ ~StartLoop(input).sepfound /\ ~StartLoop(input).trimming
  BY DEF StartLoop
<1>2. Flags(StartLoop(input), input)
  BY <1>1 DEF Flags
<1>3. Written(input, 0, 0, input)
  BY KeptNone DEF Written
<1> QED  BY <1>1, <1>2, <1>3, StartLoopInPlace DEF Normalizing

LEMMA WrittenSkip ==
  ASSUME NEW header, NEW i \in Nat, NEW j \in Nat, NEW input,
         Written(header, i, j, input), ~Stays(input, i + 1)
  PROVE  Written(header, i + 1, j, input)
<1>1. j = Kept(input, i + 1)
  BY KeptNext DEF Written
<1>2. \A m \in 1 .. j : \E k \in 1 .. i + 1 :
        Stays(input, k) /\ Kept(input, k) = m /\ header[m] = input[k]
  BY DEF Written
<1> QED  BY <1>1, <1>2 DEF Written

LEMMA WrittenPut ==
  ASSUME NEW header, NEW i \in Nat, NEW j \in Nat, NEW input, NEW new,
         Written(header, i, j, input), Stays(input, i + 1),
         new[j + 1] = input[i + 1], \A m \in 1 .. j : new[m] = header[m]
  PROVE  Written(new, i + 1, j + 1, input)
<1>1. j + 1 = Kept(input, i + 1)
  BY KeptNext DEF Written
<1>2. ASSUME NEW m \in 1 .. j + 1
      PROVE  \E k \in 1 .. i + 1 :
               Stays(input, k) /\ Kept(input, k) = m /\ new[m] = input[k]
  <2>1. CASE m = j + 1
    <3>1. i + 1 \in 1 .. i + 1
      OBVIOUS
    <3> QED  BY <1>1, <2>1, <3>1
  <2>2. CASE m # j + 1
    <3>1. m \in 1 .. j
      BY <2>2
    <3>2. PICK k \in 1 .. i :
            Stays(input, k) /\ Kept(input, k) = m /\ header[m] = input[k]
      BY <3>1 DEF Written
    <3>3. k \in 1 .. i + 1
      BY <3>2
    <3> QED  BY <3>1, <3>2, <3>3
  <2> QED  BY <2>1, <2>2
<1> QED  BY <1>1, <1>2 DEF Written

(* What is left when the loop is over is the header in its normal form.    *)
LEMMA LoopResultNormal ==
  ASSUME NEW input \in Texts, NEW lp, Normalizing(lp, input), LoopEnds(lp)
  PROVE  LoopResult(lp) = NormalForm(input)
<1> DEFINE n == Len(input)  j == lp.j  h == lp.header
<1>1. /\ n \in Nat /\ j \in Nat /\ h \in Seq(Chars) /\ Len(h) = n /\ j <= n
      /\ lp.i = n /\ DOMAIN input = 1 .. n
  BY LenProperties DEF Normalizing, InPlace, Loops, Texts, LoopEnds
<1>2. /\ j = Kept(input, n)
      /\ \A m \in 1 .. j : \E k \in 1 .. n :
           Stays(input, k) /\ Kept(input, k) = m /\ h[m] = input[k]
  BY <1>1 DEF Normalizing, Written
<1>3. LoopResult(lp) \in Seq(Chars) /\ Len(LoopResult(lp)) = j
      /\ \A m \in 1 .. j : LoopResult(lp)[m] = h[m]
  <2>1. \A m \in 1 .. j : h[m] \in Chars
    BY <1>1, ElementOfSeq
  <2>2. /\ SubSeq(h, 1, j) \in Seq(Chars)
        /\ Len(SubSeq(h, 1, j)) = IF 1 <= j THEN j - 1 + 1 ELSE 0
        /\ \A m \in 1 .. j - 1 + 1 : SubSeq(h, 1, j)[m] = h[1 + m - 1]
    BY <1>1, <2>1, SubSeqProperties
  <2>3. /\ Len(SubSeq(h, 1, j)) = j
        /\ \A m \in 1 .. j : SubSeq(h, 1, j)[m] = h[m]
    BY <1>1, <2>2
  <2> QED  BY <2>2, <2>3 DEF LoopResult
<1>4. ASSUME NEW m \in 1 .. j
      PROVE  h[m] = input[CHOOSE k \in DOMAIN input :
                            Stays(input, k) /\ Kept(input, k) = m]
  <2> DEFINE c == CHOOSE k \in DOMAIN input :
                    Stays(input, k) /\ Kept(input, k) = m
  <2>1. PICK k \in 1 .. n :
          Stays(input, k) /\ Kept(input, k) = m /\ h[m] = input[k]
    BY <1>2
  <2>2. c \in DOMAIN input /\ Stays(input, c) /\ Kept(input, c) = m
    BY <1>1, <2>1
  <2> HIDE DEF c
  <2>3. c = k
    BY <1>1, <2>1, <2>2, KeptApart
  <2> QED  BY <2>1, <2>3 DEF c
<1> HIDE DEF n, j, h
<1>5. NormalForm(input) = [m \in 1 .. j |-> h[m]]
  BY <1>2, <1>4 DEF NormalForm, n
<1>6. LoopResult(lp) = [m \in 1 .. j |-> LoopResult(lp)[m]]
  BY <1>3, LenProperties
<1> QED  BY <1>3, <1>5, <1>6

LEMMA NoCharIsNone ==
  ASSUME NEW input \in Texts, NEW k \in 1 .. Len(input)
  PROVE  input[k] # NoChar
<1>1. input[k] \in Chars
  BY ElementOfSeq DEF Texts
<1>2. NoChar \notin Chars
  BY Zenon DEF NoChar, Chars
<1> QED  BY <1>1, <1>2

LEMMA PutParts ==
  ASSUME NEW input \in Texts, NEW lp, InPlace(lp, input), lp.i < Len(input)
  PROVE  /\ Put(lp).i = lp.i + 1 /\ Put(lp).j = lp.j + 1
         /\ Put(lp).sepfound = lp.sepfound /\ Put(lp).trimming = lp.trimming
         /\ Put(lp).header[lp.j + 1] = This(lp)
         /\ \A m \in 1 .. lp.j : Put(lp).header[m] = lp.header[m]
<1> DEFINE new == [lp.header EXCEPT ![lp.j + 1] = This(lp)]
           lp1 == [lp EXCEPT !.header = new]
           lp2 == [lp1 EXCEPT !.j = lp.j + 1]
<1>1. /\ lp.i \in Nat /\ lp.j \in Nat /\ lp.header \in Seq(Chars)
      /\ lp.j + 1 \in 1 .. Len(lp.header) /\ lp.i + 1 \in 1 .. Len(lp.header)
  BY LenProperties DEF Texts, InPlace, Loops
<1>2. This(lp) \in Chars
  BY <1>1, ElementOfSeq DEF This
<1>3. /\ new[lp.j + 1] = This(lp)
      /\ \A m \in 1 .. lp.j : new[m] = lp.header[m]
  BY <1>1, <1>2, ExceptSeq
<1>4. Put(lp) = [lp2 EXCEPT !.i = lp.i + 1]
  BY DEF Put
<1> HIDE DEF new
<1>5. lp1 = [header |-> new, i |-> lp.i, j |-> lp.j,
             sepfound |-> lp.sepfound, trimming |-> lp.trimming]
  BY DEF InPlace, Loops
<1> HIDE DEF lp1
<1>6. lp2 = [header |-> new, i |-> lp.i, j |-> lp.j + 1,
             sepfound |-> lp.sepfound, trimming |-> lp.trimming]
  BY <1>5
<1> HIDE DEF lp2
<1>7. Put(lp) = [header |-> new, i |-> lp.i + 1, j |-> lp.j + 1,
                 sepfound |-> lp.sepfound, trimming |-> lp.trimming]
  BY <1>4, <1>6
<1> QED  BY <1>3, <1>7

(* What SpaceGoes sees of the input.                                       *)
LEMMA SpaceStays ==
  ASSUME NEW input \in Texts, NEW lp, InPlace(lp, input), Flags(lp, input),
         lp.i < Len(input), ~lp.trimming, This(lp) = Space
  PROVE  SpaceGoes(lp) <=> ~Stays(input, lp.i + 1)
<1> DEFINE n == Len(input)  i == lp.i
<1>1. /\ n \in Nat /\ i \in Nat /\ i < n /\ Len(lp.header) = n
      /\ input[i + 1] = Space
      /\ i + 1 < n => NextChar(lp) = input[i + 2]
      /\ ~(i + 1 < n) => NextChar(lp) = NoChar
  BY LenProperties, NextCharIs DEF Texts, InPlace, Loops, This
<1>2. /\ lp.sepfound <=> \E c \in 1 .. i : input[c] = Colon
      /\ ~ \E c \in 1 .. i : Blank(input, c, i + 1)
  BY <1>1 DEF Flags
<1>3. FirstColon(input, i + 2) <=> input[i + 2] = Colon /\ ~lp.sepfound
  <2>1. (\A c \in 1 .. (i + 2) - 1 : input[c] # Colon)
          <=> \A c \in 1 .. i : input[c] # Colon
    <3>1. \A c \in 1 .. (i + 2) - 1 : c = i + 1 \/ c \in 1 .. i
      BY <1>1
    <3>2. \A c \in 1 .. i : c \in 1 .. (i + 2) - 1
      BY <1>1
    <3> QED  BY <1>1, <3>1, <3>2, CharsApart
  <2> QED  BY <1>2, <2>1, FirstColonIs
<1> HIDE DEF n
<1>4. Stays(input, i + 1) <=> /\ i + 1 < n
                              /\ input[i + 2] # Space /\ input[i + 2] # Comma
                              /\ ~FirstColon(input, i + 2)
  <2>1. (i + 1) - 1 = i /\ (i + 1) + 1 = i + 2
    BY <1>1
  <2> QED  BY <1>1, <1>2, <2>1, StaysIs DEF n
<1>5. SpaceGoes(lp) <=> \/ NextChar(lp) = NoChar \/ NextChar(lp) = Space
                        \/ NextChar(lp) = Comma
                        \/ ~lp.sepfound /\ NextChar(lp) = Colon
  BY SpaceGoesIs
<1>6. CASE i + 1 < n
  <2>1. NextChar(lp) = input[i + 2]
    BY <1>1, <1>6
  <2>2. input[i + 2] # NoChar
    BY <1>1, <1>6, NoCharIsNone DEF n
  <2> QED  BY <1>3, <1>4, <1>5, <1>6, <2>1, <2>2
<1>7. CASE ~(i + 1 < n)
  BY <1>1, <1>4, <1>5, <1>7
<1> QED  BY <1>6, <1>7

(* A character that is not the first colon leaves the flags true.          *)
LEMMA FlagsNext ==
  ASSUME NEW input \in Texts, NEW lp, InPlace(lp, input), Flags(lp, input),
         NEW new, lp.i < Len(input), ~lp.trimming, ~new.trimming,
         new.i = lp.i + 1, new.sepfound = lp.sepfound,
         input[lp.i + 1] = Colon => lp.sepfound
  PROVE  Flags(new, input)
<1> DEFINE n == Len(input)  i == lp.i
<1>1. n \in Nat /\ i \in Nat /\ i < n
  BY LenProperties DEF Texts, InPlace, Loops
<1>2. /\ lp.sepfound <=> \E c \in 1 .. i : input[c] = Colon
      /\ ~ \E c \in 1 .. i : Blank(input, c, i + 1)
  BY <1>1 DEF Flags
<1>3. new.sepfound <=> \E c \in 1 .. i + 1 : input[c] = Colon
  <2>1. \A c \in 1 .. i + 1 : c = i + 1 \/ c \in 1 .. i
    BY <1>1
  <2>2. \A c \in 1 .. i : c \in 1 .. i + 1
    BY <1>1
  <2> QED  BY <1>2, <2>1, <2>2
<1>4. ASSUME NEW c \in 1 .. i + 1, Blank(input, c, i + 2) PROVE FALSE
  <2>1. /\ input[c] = Colon /\ \A k \in 1 .. c - 1 : input[k] # Colon
        /\ \A m \in c + 1 .. i + 2 : input[m] = Space
    BY <1>4, FirstColonIs DEF Blank
  <2>2. c # i + 1
    BY <1>1, <1>2, <2>1
  <2>3. c \in 1 .. i /\ \A m \in c + 1 .. i + 1 : m \in c + 1 .. i + 2
    BY <1>1, <2>2
  <2>4. \A m \in c + 1 .. i + 1 : input[m] = Space
    BY <2>1, <2>3
  <2> QED  BY <1>2, <1>4, <2>3, <2>4 DEF Blank
<1>5. (i + 1) + 1 = i + 2
  BY <1>1
<1> QED  BY <1>1, <1>3, <1>4, <1>5 DEF Flags

(* A space behind the first colon is skipped.                              *)
LEMMA TrimNormalizing ==
  ASSUME NEW input \in Texts, NEW lp, Normalizing(lp, input),
         lp.i < Len(input), lp.trimming, input[lp.i + 1] = Space
  PROVE  Flags(Skip(lp), input) /\ ~Stays(input, lp.i + 1)
<1> DEFINE n == Len(input)  i == lp.i
<1>1. n \in Nat /\ i \in Nat /\ i < n /\ Flags(lp, input)
  BY LenProperties DEF Texts, Normalizing, InPlace, Loops
<1>2. /\ Skip(lp).i = i + 1 /\ Skip(lp).sepfound = lp.sepfound
      /\ Skip(lp).trimming = lp.trimming
  BY DEF Skip, Normalizing, InPlace, Loops
<1>3. /\ lp.sepfound <=> \E c \in 1 .. i : input[c] = Colon
      /\ \E c \in 1 .. i : Blank(input, c, i)
  BY DEF Flags, Normalizing
<1>4. PICK c \in 1 .. i :
        /\ FirstColon(input, c)
        /\ \A m \in c + 1 .. i : input[m] = Space
  BY <1>3 DEF Blank
<1>5. \A m \in c + 1 .. i + 1 : input[m] = Space
  BY <1>1, <1>4
<1>6. c \in 1 .. i + 1 /\ Blank(input, c, i + 1)
  BY <1>1, <1>4, <1>5 DEF Blank
<1>7. ~Stays(input, i + 1)
  <2>1. c \in 1 .. (i + 1) - 1
    BY <1>1, <1>4
  <2> QED  BY <1>6, <2>1, StaysIs
<1>8. Skip(lp).sepfound <=> \E d \in 1 .. i + 1 : input[d] = Colon
  <2>1. \A d \in 1 .. i + 1 : d = i + 1 \/ d \in 1 .. i
    BY <1>1
  <2>2. \A d \in 1 .. i : d \in 1 .. i + 1
    BY <1>1
  <2> QED  BY <1>2, <1>3, <2>1, <2>2, CharsApart
<1> QED  BY <1>2, <1>6, <1>7, <1>8 DEF Flags

(* The loop goes on behind the spaces.                                     *)
LEMMA TrimEndNormalizing ==
  ASSUME NEW input \in Texts, NEW lp, Normalizing(lp, input), NEW new,
         lp.i < Len(input) => input[lp.i + 1] # Space,
         new.i = lp.i, new.sepfound = lp.sepfound, ~new.trimming
  PROVE  Flags(new, input)
<1> DEFINE n == Len(input)  i == lp.i
<1>1. n \in Nat /\ i \in Nat
  BY LenProperties DEF Texts, Normalizing, InPlace, Loops
<1>2. ASSUME i < n, NEW c \in 1 .. i, Blank(input, c, i + 1) PROVE FALSE
  <2>1. i + 1 \in c + 1 .. i + 1
    BY <1>1, <1>2
  <2> QED  BY <1>2, <2>1 DEF Blank
<1>3. lp.sepfound <=> \E c \in 1 .. i : input[c] = Colon
  BY DEF Flags, Normalizing
<1> QED  BY <1>2, <1>3 DEF Flags

(* The first colon.                                                        *)
LEMMA ColonNormalizing ==
  ASSUME NEW input \in Texts, NEW lp, Normalizing(lp, input), NEW new,
         lp.i < Len(input), input[lp.i + 1] = Colon, ~lp.sepfound,
         new.i = lp.i + 1, new.sepfound, new.trimming
  PROVE  Flags(new, input)
<1> DEFINE i == lp.i
<1>1. i \in Nat
  BY DEF Normalizing, InPlace, Loops
<1>2. ~ \E c \in 1 .. i : input[c] = Colon
  BY DEF Flags, Normalizing
<1>3. i + 1 \in 1 .. i + 1 /\ (i + 1) - 1 = i
      /\ \A m \in (i + 1) + 1 .. i + 1 : input[m] = Space
  BY <1>1
<1>4. FirstColon(input, i + 1)
  BY <1>2, <1>3, FirstColonIs
<1>5. Blank(input, i + 1, i + 1)
  BY <1>3, <1>4 DEF Blank
<1> QED  BY <1>3, <1>5 DEF Flags

LEMMA FlagsParts ==
  ASSUME NEW lp \in Loops, NEW s \in BOOLEAN, NEW t \in BOOLEAN
  PROVE  LET new == [lp EXCEPT !.sepfound = s, !.trimming = t]
         IN /\ new.header = lp.header /\ new.i = lp.i /\ new.j = lp.j
            /\ s => new.sepfound
            /\ t => new.trimming
<1> DEFINE new == [lp EXCEPT !.sepfound = s, !.trimming = t]
           lp1 == [lp EXCEPT !.sepfound = s]
<1>1. lp1 = [header |-> lp.header, i |-> lp.i, j |-> lp.j, sepfound |-> s,
             trimming |-> lp.trimming]
  BY DEF Loops
<1>2. new = [lp1 EXCEPT !.trimming = t]
  OBVIOUS
<1> HIDE DEF lp1
<1>3. new = [header |-> lp.header, i |-> lp.i, j |-> lp.j, sepfound |-> s,
             trimming |-> t]
  BY <1>1, <1>2
<1> QED  BY <1>3

LEMMA LoopStepNormalizing ==
  ASSUME NEW input \in Texts, NEW lp, Normalizing(lp, input), ~LoopEnds(lp)
  PROVE  Normalizing(LoopStep(lp), input)
<1> DEFINE n == Len(input)  i == lp.i
<1>1. /\ n \in Nat /\ i \in Nat /\ lp.j \in Nat /\ i <= n
      /\ Len(lp.header) = n /\ InPlace(lp, input) /\ Flags(lp, input)
      /\ Written(lp.header, i, lp.j, input)
  BY LenProperties DEF Texts, Normalizing, InPlace, Loops
<1>2. i < n => This(lp) = input[i + 1]
  BY <1>1 DEF InPlace, This
<1>3. InPlace(LoopStep(lp), input)
  BY <1>1, LoopStepInPlace
<1>4. /\ Skip(lp).header = lp.header /\ Skip(lp).i = i + 1
      /\ Skip(lp).j = lp.j /\ Skip(lp).sepfound = lp.sepfound
      /\ Skip(lp).trimming = lp.trimming
  BY <1>1 DEF Skip, InPlace, Loops
<1>5. ~Stays(input, i + 1) => Written(lp.header, i + 1, lp.j, input)
  BY <1>1, WrittenSkip
<1>6. CASE lp.trimming
  <2>1. CASE i < n /\ This(lp) = Space
    <3>1. LoopStep(lp) = Skip(lp)
      BY <1>1, <1>6, <2>1, LoopStepIs
    <3>2. Flags(Skip(lp), input) /\ ~Stays(input, i + 1)
      BY <1>1, <1>2, <1>6, <2>1, TrimNormalizing
    <3> QED  BY <1>3, <1>4, <1>5, <3>1, <3>2 DEF Normalizing
  <2>2. CASE ~(i < n /\ This(lp) = Space)
    <3>1. LoopStep(lp) = [lp EXCEPT !.trimming = FALSE]
      BY <1>1, <1>6, <2>2, LoopStepIs
    <3>2. LoopStep(lp) = [header |-> lp.header, i |-> i, j |-> lp.j,
                          sepfound |-> lp.sepfound, trimming |-> FALSE]
      BY <1>1, <3>1 DEF InPlace, Loops
    <3>3. Flags(LoopStep(lp), input)
      BY <1>1, <1>2, <2>2, <3>2, TrimEndNormalizing
    <3> QED  BY <1>1, <1>3, <3>2, <3>3 DEF Normalizing
  <2> QED  BY <2>1, <2>2
<1>7. CASE ~lp.trimming
  <2>1. i < n
    BY <1>1, <1>7 DEF LoopEnds
  <2>2. /\ Put(lp).i = i + 1 /\ Put(lp).j = lp.j + 1
        /\ Put(lp).sepfound = lp.sepfound /\ Put(lp).trimming = lp.trimming
        /\ Put(lp).header[lp.j + 1] = This(lp)
        /\ \A m \in 1 .. lp.j : Put(lp).header[m] = lp.header[m]
    BY <1>1, <2>1, PutParts
  <2>3. Stays(input, i + 1) =>
          Written(Put(lp).header, i + 1, lp.j + 1, input)
    BY <1>1, <1>2, <2>1, <2>2, WrittenPut
  <2>4. CASE This(lp) = Space
    <3>1. SpaceGoes(lp) <=> ~Stays(input, i + 1)
      BY <1>1, <1>7, <2>1, <2>4, SpaceStays
    <3>2. input[i + 1] # Colon
      BY <1>2, <2>1, <2>4, CharsApart
    <3>3. CASE SpaceGoes(lp)
      <4>1. LoopStep(lp) = Skip(lp)
        BY <1>7, <2>4, <3>3, LoopStepIs
      <4>2. Flags(Skip(lp), input)
        BY <1>1, <1>4, <1>7, <2>1, <3>2, FlagsNext
      <4> QED  BY <1>3, <1>4, <1>5, <3>1, <3>3, <4>1, <4>2 DEF Normalizing
    <3>4. CASE ~SpaceGoes(lp)
      <4>1. LoopStep(lp) = Put(lp)
        BY <1>7, <2>4, <3>4, LoopStepIs
      <4>2. Flags(Put(lp), input)
        BY <1>1, <1>7, <2>1, <2>2, <3>2, FlagsNext
      <4> QED  BY <1>3, <2>2, <2>3, <3>1, <3>4, <4>1, <4>2 DEF Normalizing
    <3> QED  BY <3>3, <3>4
  <2>5. CASE This(lp) # Space
    <3>1. Stays(input, i + 1)
      BY <1>2, <2>1, <2>5, StaysIs
    <3>2. CASE This(lp) = Colon /\ ~lp.sepfound
      <4> DEFINE new == [Put(lp) EXCEPT !.sepfound = TRUE, !.trimming = TRUE]
      <4>1. LoopStep(lp) = new
        BY <1>7, <2>5, <3>2, LoopStepIs
      <4>2. Put(lp) \in Loops
        BY <1>1, <2>1, PutInPlace DEF InPlace
      <4>3. /\ new.header = Put(lp).header /\ new.i = i + 1
            /\ new.j = lp.j + 1 /\ new.sepfound /\ new.trimming
        BY <2>2, <4>2, FlagsParts
      <4> HIDE DEF new
      <4>4. Flags(new, input)
        BY <1>2, <2>1, <3>2, <4>3, ColonNormalizing
      <4> QED  BY <1>3, <2>3, <3>1, <4>1, <4>3, <4>4 DEF Normalizing
    <3>3. CASE ~(This(lp) = Colon /\ ~lp.sepfound)
      <4>1. LoopStep(lp) = Put(lp)
        BY <1>7, <2>5, <3>3, LoopStepIs
      <4>2. Flags(Put(lp), input)
        <5>1. input[i + 1] = Colon => lp.sepfound
          BY <1>2, <2>1, <3>3
        <5> QED  BY <1>1, <1>7, <2>1, <2>2, <5>1, FlagsNext
      <4> QED  BY <1>3, <2>2, <2>3, <3>1, <4>1, <4>2 DEF Normalizing
    <3> QED  BY <3>2, <3>3
  <2> QED  BY <2>4, <2>5
<1> QED  BY <1>6, <1>7

-----------------------------------------------------------------------------
(* What is built, once the pieces that are left have been appended.        *)

Completes(text, rest, whole) ==
  \E f \in [0 .. Len(rest) -> Texts] :
    /\ f[0] = text
    /\ \A k \in 1 .. Len(rest) : f[k] = f[k - 1] \o rest[k]
    /\ whole = f[Len(rest)]

LEMMA CompletesNone ==
  ASSUME NEW text \in Texts PROVE Completes(text, << >>, text)
<1> DEFINE f == [k \in 0 .. 0 |-> text]
<1>1. f \in [0 .. 0 -> Texts] /\ f[0] = text /\ Len(<< >>) = 0
  BY EmptySeq
<1> HIDE DEF f
<1> QED  BY <1>1 DEF Completes

LEMMA NothingLeft ==
  ASSUME NEW text, NEW whole, Completes(text, << >>, whole)
  PROVE  whole = text
BY EmptySeq DEF Completes

(* One more piece at the end.                                              *)
LEMMA CompletesAppend ==
  ASSUME NEW text, NEW rest \in Seq(Texts), NEW whole, NEW piece \in Texts,
         Completes(text, rest, whole)
  PROVE  Completes(text, Append(rest, piece), whole \o piece)
<1> DEFINE n == Len(rest)
<1>1. n \in Nat
  BY LenProperties
<1>2. /\ Append(rest, piece) \in Seq(Texts)
      /\ Len(Append(rest, piece)) = n + 1
      /\ \A k \in 1 .. n : Append(rest, piece)[k] = rest[k]
      /\ Append(rest, piece)[n + 1] = piece
  BY AppendProperties
<1>3. PICK f \in [0 .. n -> Texts] :
        /\ f[0] = text
        /\ \A k \in 1 .. n : f[k] = f[k - 1] \o rest[k]
        /\ whole = f[n]
  BY DEF Completes
<1> HIDE DEF n
<1>4. n \in 0 .. n /\ f[n] \in Texts
  BY <1>1, <1>3
<1>5. whole \o piece \in Texts
  BY <1>3, <1>4, ConcatProperties DEF Texts
<1> DEFINE g == [k \in 0 .. n + 1 |-> IF k = n + 1 THEN whole \o piece
                                      ELSE f[k]]
<1>6. g \in [0 .. n + 1 -> Texts] /\ g[n + 1] = whole \o piece
      /\ \A k \in 0 .. n : g[k] = f[k]
  BY <1>1, <1>3, <1>5
<1> HIDE DEF g
<1>7. ASSUME NEW k \in 1 .. n + 1
      PROVE  g[k] = g[k - 1] \o Append(rest, piece)[k]
  <2>1. CASE k = n + 1
    <3>1. k - 1 = n /\ n \in 0 .. n
      BY <1>1, <2>1
    <3> QED  BY <1>2, <1>3, <1>6, <2>1, <3>1
  <2>2. CASE k # n + 1
    <3>1. k \in 1 .. n /\ k - 1 \in 0 .. n /\ k \in 0 .. n
      BY <1>1, <2>2
    <3> QED  BY <1>2, <1>3, <1>6, <3>1
  <2> QED  BY <2>1, <2>2
<1>8. g[0] = text
  BY <1>1, <1>3, <1>6
<1> QED  BY <1>2, <1>6, <1>7, <1>8 DEF Completes

(* The first piece is appended.                                            *)
LEMMA CompletesNext ==
  ASSUME NEW text, NEW rest \in Seq(Texts), NEW whole,
         Completes(text, rest, whole), rest # << >>
  PROVE  Completes(text \o Head(rest), Tail(rest), whole)
<1> DEFINE n == Len(rest)
<1>1. n \in Nat /\ n > 0
  BY LenProperties, EmptySeq
<1>2. /\ Head(rest) = rest[1] /\ Tail(rest) \in Seq(Texts)
      /\ Len(Tail(rest)) = n - 1
      /\ \A k \in 1 .. n - 1 : Tail(rest)[k] = rest[k + 1]
  BY HeadTailProperties
<1>3. PICK f \in [0 .. n -> Texts] :
        /\ f[0] = text
        /\ \A k \in 1 .. n : f[k] = f[k - 1] \o rest[k]
        /\ whole = f[n]
  BY DEF Completes
<1> HIDE DEF n
<1> DEFINE g == [k \in 0 .. n - 1 |-> f[k + 1]]
<1>4. g \in [0 .. n - 1 -> Texts] /\ \A k \in 0 .. n - 1 : g[k] = f[k + 1]
  BY <1>1, <1>3
<1> HIDE DEF g
<1>5. ASSUME NEW k \in 1 .. n - 1
      PROVE  g[k] = g[k - 1] \o Tail(rest)[k]
  <2>1. /\ k \in 0 .. n - 1 /\ k - 1 \in 0 .. n - 1 /\ k + 1 \in 1 .. n
        /\ (k + 1) - 1 = k /\ (k - 1) + 1 = k
    BY <1>1
  <2>2. g[k] = f[k + 1] /\ g[k - 1] = f[k]
    BY <1>4, <2>1
  <2>3. f[k + 1] = f[k] \o rest[k + 1]
    BY <1>3, <2>1
  <2> QED  BY <1>2, <2>2, <2>3
<1>6. 0 \in 0 .. n - 1 /\ n - 1 \in 0 .. n - 1 /\ (n - 1) + 1 = n
      /\ 0 + 1 = 1 /\ 1 \in 1 .. n /\ 1 - 1 = 0
  BY <1>1
<1>7. g[0] = text \o Head(rest) /\ g[n - 1] = whole
  <2>1. f[1] = text \o rest[1]
    BY <1>3, <1>6
  <2> QED  BY <1>2, <1>3, <1>4, <1>6, <2>1
<1> QED  BY <1>2, <1>4, <1>5, <1>7 DEF Completes

(* The pieces of an optional text.                                         *)
LEMMA CompletesOptional ==
  ASSUME NEW text, NEW rest \in Seq(Texts), NEW whole \in Texts,
         NEW piece \in Texts, Completes(text, rest, whole)
  PROVE  /\ Completes(text, rest \o Optional(piece), whole \o piece)
         /\ rest \o Optional(piece) \in Seq(Texts)
<1>1. CASE piece = << >>
  <2>1. rest \o << >> = rest /\ whole \o << >> = whole
    BY ConcatEmptySeq DEF Texts
  <2> QED  BY <1>1, <2>1 DEF Optional
<1>2. CASE piece # << >>
  <2>1. rest \o Optional(piece) = Append(rest, piece)
    BY <1>2, AppendIsConcat DEF Optional
  <2> QED  BY <2>1, CompletesAppend, AppendProperties
<1> QED  BY <1>1, <1>2

LEMMA Pair ==
  ASSUME NEW x \in Texts, NEW y \in Texts
  PROVE  Append(<<x>>, y) = <<x, y>>
<1> DEFINE s == Append(<<x>>, y)  t == <<x, y>>
<1>1. <<x>> \in Seq(Texts) /\ Len(<<x>>) = 1 /\ <<x>>[1] = x
  OBVIOUS
<1>2. s \in Seq(Texts) /\ Len(s) = 2 /\ s[1] = x /\ s[2] = y
  BY <1>1, AppendProperties
<1>3. t \in Seq(Texts) /\ Len(t) = 2 /\ t[1] = x /\ t[2] = y
  OBVIOUS
<1> HIDE DEF s, t
<1>4. \A i \in 1 .. Len(s) : s[i] = t[i]
  BY <1>2, <1>3
<1>5. s = t
  BY <1>2, <1>3, <1>4, SeqEqual
<1> QED  BY <1>5 DEF s, t

LEMMA ThreeMore ==
  ASSUME NEW s \in Seq(Texts), NEW x \in Texts, NEW y \in Texts,
         NEW z \in Texts
  PROVE  s \o <<x, y, z>> = Append(Append(Append(s, x), y), z)
OBVIOUS

(* What stands in front of the headers.                                    *)
SignHead(req) ==
  req.verb \o NewLine \o req.type \o NewLine \o req.range
    \o NewLine \o req.date \o NewLine \o Lowercase(req.uri) \o NewLine

LEMMA SignPiecesComplete ==
  ASSUME NEW req \in SignJobs
  PROVE  /\ Completes(<< >>, SignPieces(req), SignHead(req))
         /\ SignHead(req) \in Texts
<1> DEFINE N == NewLine  v == req.verb  t == req.type  r == req.range
           d == req.date  u == Lowercase(req.uri)
<1>1. /\ v \in Texts /\ t \in Texts /\ r \in Texts /\ d \in Texts
      /\ u \in Texts /\ N \in Texts
  BY LowercaseType, FixedTexts DEF SignJobs
<1>2. /\ SignPieces(req) = <<v, N>> \o Optional(t) \o <<N>> \o Optional(r)
                             \o <<N>> \o Optional(d) \o <<N, u, N>>
      /\ SignHead(req) = v \o N \o t \o N \o r \o N \o d \o N \o u \o N
  BY DEF SignPieces, SignHead
<1> HIDE DEF N, v, t, r, d, u
<1> DEFINE p1 == <<v, N>>  w1 == v \o N
           p2 == p1 \o Optional(t)  w2 == w1 \o t
           p3 == p2 \o <<N>>  w3 == w2 \o N
           p4 == p3 \o Optional(r)  w4 == w3 \o r
           p5 == p4 \o <<N>>  w5 == w4 \o N
           p6 == p5 \o Optional(d)  w6 == w5 \o d
           p7 == Append(p6, N)  w7 == w6 \o N
           p8 == Append(p7, u)  w8 == w7 \o u
           p9 == Append(p8, N)  w9 == w8 \o N
           Fine(p, w) == p \in Seq(Texts) /\ w \in Texts
                           /\ Completes(<< >>, p, w)
<1>3. ASSUME NEW p, NEW w, Fine(p, w), NEW x \in Texts
      PROVE  Fine(Append(p, x), w \o x) /\ Fine(p \o Optional(x), w \o x)
  <2>1. w \o x \in Texts
    BY <1>3, ConcatProperties DEF Texts
  <2>2. Append(p, x) \in Seq(Texts)
    BY <1>3, AppendProperties
  <2>3. Completes(<< >>, Append(p, x), w \o x)
    BY <1>3, CompletesAppend
  <2>4. /\ Completes(<< >>, p \o Optional(x), w \o x)
        /\ p \o Optional(x) \in Seq(Texts)
    BY <1>3, CompletesOptional
  <2> QED  BY <2>1, <2>2, <2>3, <2>4
<1>4. ASSUME NEW p, NEW w, Fine(p, w)
      PROVE  Fine(p \o <<N>>, w \o N)
  <2>1. p \o <<N>> = Append(p, N)
    BY <1>1, <1>4, AppendIsConcat
  <2> QED  BY <1>1, <1>3, <1>4, <2>1
<1>5. Fine(p1, w1)
  <2>1. << >> \in Texts /\ << >> \in Seq(Texts)
    BY EmptySeq, FixedTexts
  <2>2. Fine(<< >>, << >>)
    BY <2>1, CompletesNone
  <2>3. Fine(Append(<< >>, v), << >> \o v)
    BY <1>1, <1>3, <2>2
  <2>4. Append(<< >>, v) = <<v>> /\ << >> \o v = v
    BY <1>1, ConcatEmptySeq DEF Texts
  <2>5. Fine(Append(<<v>>, N), v \o N)
    BY <1>1, <1>3, <2>3, <2>4
  <2>6. Append(<<v>>, N) = <<v, N>>
    BY <1>1, Pair
  <2> QED  BY <2>5, <2>6
<1> HIDE DEF Fine, p1, w1
<1>6. Fine(p2, w2)
  BY <1>1, <1>3, <1>5
<1> HIDE DEF p2, w2
<1>7. Fine(p3, w3)
  BY <1>4, <1>6
<1> HIDE DEF p3, w3
<1>8. Fine(p4, w4)
  BY <1>1, <1>3, <1>7
<1> HIDE DEF p4, w4
<1>9. Fine(p5, w5)
  BY <1>4, <1>8
<1> HIDE DEF p5, w5
<1>10. Fine(p6, w6)
  BY <1>1, <1>3, <1>9
<1> HIDE DEF p6, w6
<1>11. Fine(p7, w7)
  BY <1>1, <1>3, <1>10
<1>12. Fine(p8, w8)
  <2> HIDE DEF p7, w7
  <2> QED  BY <1>1, <1>3, <1>11
<1>13. Fine(p9, w9)
  <2> HIDE DEF p8, w8
  <2> QED  BY <1>1, <1>3, <1>12
<1>14. p9 = p6 \o <<N, u, N>>
  <2>1. p6 \in Seq(Texts)
    BY <1>10 DEF Fine
  <2> QED  BY <1>1, <2>1, ThreeMore
<1>15. SignPieces(req) = p9 /\ SignHead(req) = w9
  BY <1>2, <1>14 DEF p1, p2, p3, p4, p5, p6, w1, w2, w3, w4, w5, w6
<1> QED  BY <1>13, <1>15 DEF Fine

-----------------------------------------------------------------------------
(* A text of lines.                                                        *)

LEMMA NewLineIs ==
  NewLine = <<NewLineChar>> /\ NewLineChar \in Chars
BY Zenon DEF NewLine, NewLineChar, Chars

(* The x-emc headers among the first n of all.                             *)
Emc(all, n) == {k \in 1 .. n : IsEmc(all[k])}

(* text is the x-emc headers among the first n of all, each on a line of   *)
(* its own; header k stands behind the first o[k] characters.              *)
Lines(text, all, n, o) ==
  /\ \A k \in Emc(all, n) :
       /\ o[k] \in Nat
       /\ Has(text, o[k], all[k])
       /\ o[k] = 0 \/ text[o[k]] = NewLineChar
       /\ \/ o[k] + Len(all[k]) = Len(text)
          \/ text[o[k] + Len(all[k]) + 1] = NewLineChar
  /\ \A k, m \in Emc(all, n) : k < m => o[k] + Len(all[k]) < o[m]
  /\ \A p \in 1 .. Len(text) :
       \/ text[p] = NewLineChar
       \/ \E k \in Emc(all, n) : p \in o[k] + 1 .. o[k] + Len(all[k])
  /\ Emc(all, n) = {} => text = << >>

LEMMA NoLines ==
  ASSUME NEW all PROVE Lines(<< >>, all, 0, [k \in 1 .. Len(all) |-> 0])
<1>1. Emc(all, 0) = {}
  BY DEF Emc
<1> QED  BY <1>1, EmptySeq DEF Lines

(* A header that is not taken.                                             *)
LEMMA LinesSkip ==
  ASSUME NEW text, NEW all, NEW n \in Nat, NEW o, Lines(text, all, n, o),
         ~IsEmc(all[n + 1])
  PROVE  Lines(text, all, n + 1, o) /\ Emc(all, n + 1) = Emc(all, n)
<1>1. Emc(all, n + 1) = Emc(all, n)
  BY DEF Emc
<1> QED  BY <1>1 DEF Lines

(* What a header is put behind.                                            *)
LineStart(text, all, n) ==
  IF Emc(all, n) = {} THEN << >> ELSE Cat(text, NewLine)

LEMMA LineStarts ==
  ASSUME NEW text \in Texts, NEW all \in Seq(Texts), NEW n \in 0 .. Len(all),
         NEW o, Lines(text, all, n, o)
  PROVE  LET start == LineStart(text, all, n)
         IN /\ start \in Texts
            /\ start = << >> \/ start[Len(start)] = NewLineChar
            /\ \A k \in Emc(all, n) :
                 /\ Has(start, o[k], all[k])
                 /\ o[k] = 0 \/ start[o[k]] = NewLineChar
                 /\ o[k] + Len(all[k]) < Len(start)
                 /\ start[o[k] + Len(all[k]) + 1] = NewLineChar
            /\ \A p \in 1 .. Len(start) :
                 \/ start[p] = NewLineChar
                 \/ \E k \in Emc(all, n) :
                      p \in o[k] + 1 .. o[k] + Len(all[k])
<1> DEFINE start == LineStart(text, all, n)  M == Emc(all, n)
<1>1. CASE M = {}
  BY <1>1, EmptySeq, FixedTexts DEF LineStart
<1>2. CASE M # {}
  <2>1. start = Cat(text, NewLine) /\ NewLine \in Texts
    BY <1>2, FixedTexts DEF LineStart
  <2>2. Len(NewLine) = 1 /\ NewLine[1] = NewLineChar /\ 1 \in 1 .. Len(NewLine)
    BY NewLineIs
  <2> HIDE DEF start, M
  <2>3. /\ start \in Texts /\ Len(start) = Len(text) + 1
        /\ \A i \in 1 .. Len(text) : start[i] = text[i]
        /\ start[Len(text) + 1] = NewLineChar
    <3>1. /\ start \in Texts /\ Len(start) = Len(text) + Len(NewLine)
          /\ \A i \in 1 .. Len(text) : start[i] = text[i]
          /\ \A i \in 1 .. Len(NewLine) : start[Len(text) + i] = NewLine[i]
      BY <2>1, CatTexts
    <3> QED  BY <2>2, <3>1
  <2>4. Len(text) \in Nat
    BY LenProperties DEF Texts
  <2>5. ASSUME NEW k \in M
        PROVE  /\ Has(start, o[k], all[k])
               /\ o[k] = 0 \/ start[o[k]] = NewLineChar
               /\ o[k] + Len(all[k]) < Len(start)
               /\ start[o[k] + Len(all[k]) + 1] = NewLineChar
    <3>1. /\ o[k] \in Nat /\ Has(text, o[k], all[k])
          /\ o[k] = 0 \/ text[o[k]] = NewLineChar
          /\ \/ o[k] + Len(all[k]) = Len(text)
             \/ text[o[k] + Len(all[k]) + 1] = NewLineChar
      BY DEF Lines, M
    <3>2. k \in 1 .. Len(all)
      BY DEF M, Emc
    <3>3. all[k] \in Texts
      BY <3>2, ElementOfSeq
    <3>4. Len(all[k]) \in Nat
      BY <3>3, LenProperties DEF Texts
    <3>5. o[k] + Len(all[k]) <= Len(text)
      BY <3>1 DEF Has
    <3>6. Has(start, o[k], all[k])
      BY <2>1, <3>1, <3>3, HasStays
    <3>7. o[k] = 0 \/ start[o[k]] = NewLineChar
      <4> SUFFICES ASSUME o[k] # 0 PROVE start[o[k]] = text[o[k]]
        BY <3>1
      <4>1. o[k] \in 1 .. Len(text)
        BY <2>4, <3>1, <3>4, <3>5
      <4> QED  BY <2>3, <4>1
    <3>8. start[o[k] + Len(all[k]) + 1] = NewLineChar
      <4>1. CASE o[k] + Len(all[k]) = Len(text)
        BY <2>3, <4>1
      <4>2. CASE o[k] + Len(all[k]) # Len(text)
        <5>1. o[k] + Len(all[k]) + 1 \in 1 .. Len(text)
          BY <2>4, <3>1, <3>4, <3>5, <4>2
        <5> QED  BY <2>3, <3>1, <4>2, <5>1
      <4> QED  BY <4>1, <4>2
    <3> QED  BY <2>3, <2>4, <3>1, <3>4, <3>5, <3>6, <3>7, <3>8
  <2>6. ASSUME NEW p \in 1 .. Len(start)
        PROVE  \/ start[p] = NewLineChar
               \/ \E k \in M : p \in o[k] + 1 .. o[k] + Len(all[k])
    <3>1. CASE p = Len(text) + 1
      BY <2>3, <3>1
    <3>2. CASE p # Len(text) + 1
      <4>1. p \in 1 .. Len(text)
        BY <2>3, <2>4, <3>2
      <4>2. \/ text[p] = NewLineChar
            \/ \E k \in M : p \in o[k] + 1 .. o[k] + Len(all[k])
        BY <4>1 DEF Lines, M
      <4> QED  BY <2>3, <4>1, <4>2
    <3> QED  BY <3>1, <3>2
  <2> QED  BY <2>3, <2>5, <2>6 DEF start, M
<1> QED  BY <1>1, <1>2

(* A header that is put on a line of its own.                              *)
LEMMA LinesTake ==
  ASSUME NEW text \in Texts, NEW all \in Seq(Texts), NEW n \in Nat,
         n < Len(all), NEW o \in [1 .. Len(all) -> Nat],
         Lines(text, all, n, o), IsEmc(all[n + 1])
  PROVE  LET start == LineStart(text, all, n)
         IN Lines(Cat(start, all[n + 1]), all, n + 1,
                  [o EXCEPT ![n + 1] = Len(start)])
<1> DEFINE start == LineStart(text, all, n)  h == all[n + 1]
           new == Cat(start, h)  q == [o EXCEPT ![n + 1] = Len(start)]
           M == Emc(all, n)  W == Emc(all, n + 1)
<1>1. Len(all) \in Nat /\ n \in 0 .. Len(all) /\ n + 1 \in 1 .. Len(all)
  BY LenProperties
<1>2. h \in Texts
  BY <1>1, ElementOfSeq
<1>3. /\ start \in Texts
      /\ start = << >> \/ start[Len(start)] = NewLineChar
      /\ \A k \in M :
           /\ Has(start, o[k], all[k])
           /\ o[k] = 0 \/ start[o[k]] = NewLineChar
           /\ o[k] + Len(all[k]) < Len(start)
           /\ start[o[k] + Len(all[k]) + 1] = NewLineChar
      /\ \A p \in 1 .. Len(start) :
           \/ start[p] = NewLineChar
           \/ \E k \in M : p \in o[k] + 1 .. o[k] + Len(all[k])
  BY <1>1, LineStarts
<1>4. /\ W = M \cup {n + 1} /\ n + 1 \notin M
      /\ \A k \in M : k \in 1 .. Len(all) /\ k < n + 1
  BY <1>1 DEF Emc
<1>5. /\ Len(start) \in Nat /\ Len(h) \in Nat
  BY <1>2, <1>3, LenProperties DEF Texts
<1>6. /\ q[n + 1] = Len(start)
      /\ \A k \in M : q[k] = o[k] /\ o[k] \in Nat
  BY <1>1, <1>4
<1>7. \A k \in M : Len(all[k]) \in Nat /\ all[k] \in Texts
  <2> TAKE k \in M
  <2>1. all[k] \in Texts
    BY <1>4, ElementOfSeq
  <2> QED  BY <2>1, LenProperties DEF Texts
<1>8. \A k, m \in M : k < m => o[k] + Len(all[k]) < o[m]
  BY DEF Lines
<1> HIDE DEF q, M, W, start, h
<1>9. /\ new \in Texts /\ Len(new) = Len(start) + Len(h)
      /\ \A i \in 1 .. Len(start) : new[i] = start[i]
      /\ Has(new, Len(start), h)
  BY <1>2, <1>3, CatTexts, HasNext
<1>10. \A k \in M : Has(new, o[k], all[k])
  BY <1>2, <1>3, <1>6, <1>7, HasStays
<1> HIDE DEF new
<1>11. ASSUME NEW k \in W
       PROVE  /\ q[k] \in Nat
              /\ Has(new, q[k], all[k])
              /\ q[k] = 0 \/ new[q[k]] = NewLineChar
              /\ \/ q[k] + Len(all[k]) = Len(new)
                 \/ new[q[k] + Len(all[k]) + 1] = NewLineChar
  <2>1. CASE k = n + 1
    <3>1. q[k] = Len(start) /\ all[k] = h
      BY <1>6, <2>1 DEF h
    <3>2. q[k] = 0 \/ new[q[k]] = NewLineChar
      <4> SUFFICES ASSUME Len(start) # 0
                   PROVE  new[Len(start)] = start[Len(start)] /\ start # << >>
        BY <1>3, <3>1
      <4>1. Len(start) \in 1 .. Len(start) /\ start # << >>
        BY <1>5, EmptySeq
      <4> QED  BY <1>9, <4>1
    <3> QED  BY <1>5, <1>9, <3>1, <3>2
  <2>2. CASE k # n + 1
    <3>1. k \in M
      BY <1>4, <2>2
    <3>2. /\ q[k] = o[k] /\ o[k] \in Nat /\ Len(all[k]) \in Nat
          /\ Has(start, o[k], all[k])
          /\ o[k] = 0 \/ start[o[k]] = NewLineChar
          /\ o[k] + Len(all[k]) < Len(start)
          /\ start[o[k] + Len(all[k]) + 1] = NewLineChar
      BY <1>3, <1>6, <1>7, <3>1
    <3>3. o[k] + Len(all[k]) + 1 \in 1 .. Len(start)
      BY <1>5, <3>2
    <3>4. o[k] # 0 => o[k] \in 1 .. Len(start)
      BY <1>5, <3>2
    <3> QED  BY <1>9, <1>10, <3>1, <3>2, <3>3, <3>4
  <2> QED  BY <2>1, <2>2
<1>12. ASSUME NEW k \in W, NEW m \in W, k < m
       PROVE  q[k] + Len(all[k]) < q[m]
  <2>1. k \in M
    BY <1>1, <1>4, <1>12
  <2>2. CASE m = n + 1
    BY <1>3, <1>6, <2>1, <2>2
  <2>3. CASE m # n + 1
    <3>1. m \in M
      BY <1>4, <2>3
    <3> QED  BY <1>6, <1>8, <1>12, <2>1, <3>1
  <2> QED  BY <2>2, <2>3
<1>13. ASSUME NEW p \in 1 .. Len(new)
       PROVE  \/ new[p] = NewLineChar
              \/ \E k \in W : p \in q[k] + 1 .. q[k] + Len(all[k])
  <2>1. CASE p \in 1 .. Len(start)
    BY <1>3, <1>4, <1>6, <1>9, <2>1
  <2>2. CASE p \notin 1 .. Len(start)
    <3>1. p \in Len(start) + 1 .. Len(start) + Len(h)
      BY <1>5, <1>9, <2>2
    <3>2. n + 1 \in W
      BY <1>4
    <3> QED  BY <1>6, <3>1, <3>2 DEF h
  <2> QED  BY <2>1, <2>2
<1>14. W # {}
  BY <1>4
<1>15. Lines(new, all, n + 1, q)
  BY <1>11, <1>12, <1>13, <1>14 DEF Lines, W
<1> QED  BY <1>15 DEF new, q, h, start

LEMMA SameSize ==
  ASSUME NEW S, IsFiniteSet(S), NEW T, NEW f \in [S -> T],
         \A a, b \in S : f[a] = f[b] => a = b,
         \A t \in T : \E s \in S : f[s] = t
  PROVE  Cardinality(T) = Cardinality(S)
<1>1. f \in Bijection(S, T)
  BY DEF Bijection, Injection, Surjection, IsInjective
<1>2. ExistsBijection(S, T)
  BY <1>1 DEF ExistsBijection
<1> QED  BY <1>2, FS_Bijection

(* From p[1] to p[2] is a line of text.                                    *)
IsLine(text, p) ==
  /\ p[1] <= p[2]
  /\ p[1] = 1 \/ text[p[1] - 1] = NewLineChar
  /\ p[2] = Len(text) \/ text[p[2] + 1] = NewLineChar
  /\ \A k \in p[1] .. p[2] : text[k] # NewLineChar

LEMMA LinesOfIs ==
  ASSUME NEW text
  PROVE  LinesOf(text) =
           {p \in (1 .. Len(text)) \X (1 .. Len(text)) : IsLine(text, p)}
BY Zenon DEF LinesOf, IsLine, NewLineChar

(* There is no line break inside a header.                                 *)
Unbroken(all) == \A k \in 1 .. Len(all) : Free(all[k], {NewLineChar})

(* Where the line of header k is.                                          *)
Place(all, o, k) == <<o[k] + 1, o[k] + Len(all[k])>>

LEMMA EmcType ==
  ASSUME NEW all \in Seq(Texts), NEW n \in 0 .. Len(all), NEW k \in Emc(all, n)
  PROVE  /\ k \in 1 .. Len(all) /\ all[k] \in Texts
         /\ Len(all[k]) \in Nat \ {0}
<1>1. k \in 1 .. Len(all) /\ all[k] # << >>
  BY LenProperties DEF Emc, IsEmc
<1>2. all[k] \in Texts
  BY <1>1, ElementOfSeq
<1> QED  BY <1>1, <1>2, LenProperties, EmptySeq DEF Texts

LEMMA PlaceIsLine ==
  ASSUME NEW text \in Texts, NEW all \in Seq(Texts),
         NEW n \in 0 .. Len(all), NEW o, Lines(text, all, n, o),
         Unbroken(all),
         NEW k \in Emc(all, n)
  PROVE  /\ Place(all, o, k) \in LinesOf(text)
         /\ Place(all, o, k)[1] = o[k] + 1
         /\ Place(all, o, k)[2] = o[k] + Len(all[k])
         /\ SubSeq(text, o[k] + 1, o[k] + Len(all[k])) = all[k]
<1> DEFINE p == Place(all, o, k)  L == Len(text)  m == Len(all[k])
<1>1. k \in 1 .. Len(all) /\ all[k] \in Texts /\ m \in Nat \ {0}
  BY EmcType
<1>2. L \in Nat
  BY LenProperties DEF Texts
<1>3. /\ o[k] \in Nat /\ Has(text, o[k], all[k])
      /\ o[k] = 0 \/ text[o[k]] = NewLineChar
      /\ o[k] + m = L \/ text[o[k] + m + 1] = NewLineChar
  BY DEF Lines
<1>4. o[k] + m <= L
  BY <1>3 DEF Has
<1>5. \A i \in o[k] + 1 .. o[k] + m : text[i] # NewLineChar
  BY <1>1, <1>3, HasFree DEF Unbroken
<1>6. p[1] = o[k] + 1 /\ p[2] = o[k] + m
  BY DEF Place
<1>7. p \in (1 .. L) \X (1 .. L)
  BY <1>1, <1>2, <1>3, <1>4 DEF Place
<1>8. SubSeq(text, o[k] + 1, o[k] + Len(all[k])) = all[k]
  BY <1>1, <1>3, HasSubSeq
<1> HIDE DEF p, L, m
<1>9. IsLine(text, p)
  <2>1. (o[k] + 1) - 1 = o[k] /\ (o[k] = 0 => o[k] + 1 = 1)
    BY <1>3
  <2>2. p[1] = 1 \/ text[p[1] - 1] = NewLineChar
    BY <1>3, <1>6, <2>1
  <2>3. p[1] <= p[2]
    BY <1>1, <1>3, <1>6
  <2>4. p[2] = Len(text) \/ text[p[2] + 1] = NewLineChar
    BY <1>3, <1>6 DEF L
  <2> QED  BY <1>5, <1>6, <2>2, <2>3, <2>4 DEF IsLine
<1>10. p \in LinesOf(text)
  BY <1>7, <1>9, LinesOfIs DEF L
<1> QED  BY <1>6, <1>8, <1>10 DEF p, m

LEMMA LineIsPlace ==
  ASSUME NEW text \in Texts, NEW all \in Seq(Texts),
         NEW n \in 0 .. Len(all), NEW o, Lines(text, all, n, o),
         Unbroken(all),
         NEW p \in LinesOf(text)
  PROVE  \E k \in Emc(all, n) : p = Place(all, o, k)
<1> DEFINE L == Len(text)
<1>1. p \in (1 .. L) \X (1 .. L) /\ IsLine(text, p)
  BY LinesOfIs
<1>2. /\ p[1] \in 1 .. L /\ p[2] \in 1 .. L /\ p[1] <= p[2]
      /\ p = <<p[1], p[2]>>
      /\ p[1] = 1 \/ text[p[1] - 1] = NewLineChar
      /\ p[2] = L \/ text[p[2] + 1] = NewLineChar
      /\ \A k \in p[1] .. p[2] : text[k] # NewLineChar
  BY <1>1 DEF IsLine
<1>3. L \in Nat
  BY LenProperties DEF Texts
<1> HIDE DEF L
<1> DEFINE a == p[1]  b == p[2]
<1>4. /\ a \in 1 .. L /\ b \in 1 .. L /\ a <= b /\ p = <<a, b>>
      /\ a = 1 \/ text[a - 1] = NewLineChar
      /\ b = L \/ text[b + 1] = NewLineChar
      /\ \A k \in a .. b : text[k] # NewLineChar
  BY <1>2
<1> HIDE DEF a, b
<1>5. PICK k \in Emc(all, n) : a \in o[k] + 1 .. o[k] + Len(all[k])
  <2>1. text[a] # NewLineChar
    BY <1>4
  <2> QED  BY <1>4, <2>1 DEF Lines, L
<1> DEFINE m == Len(all[k])
<1>6. k \in 1 .. Len(all) /\ all[k] \in Texts /\ m \in Nat \ {0}
  BY EmcType
<1>7. /\ o[k] \in Nat /\ Has(text, o[k], all[k])
      /\ o[k] + m = L \/ text[o[k] + m + 1] = NewLineChar
  BY DEF Lines, L
<1>8. o[k] + m <= L
  BY <1>7 DEF Has, L
<1>9. \A i \in o[k] + 1 .. o[k] + m : text[i] # NewLineChar
  BY <1>6, <1>7, HasFree DEF Unbroken
<1> HIDE DEF m
<1>10. a = o[k] + 1
  <2> SUFFICES ASSUME a # o[k] + 1 PROVE FALSE
    OBVIOUS
  <2>1. a - 1 \in o[k] + 1 .. o[k] + m /\ a # 1
    BY <1>4, <1>5, <1>7 DEF m
  <2> QED  BY <1>4, <1>9, <2>1
<1>11. b = o[k] + m
  <2>1. ASSUME b < o[k] + m PROVE FALSE
    <3>1. b + 1 \in o[k] + 1 .. o[k] + m /\ b # L
      BY <1>4, <1>5, <1>7, <1>8, <2>1 DEF m
    <3> QED  BY <1>4, <1>9, <3>1
  <2>2. ASSUME b > o[k] + m PROVE FALSE
    <3>1. o[k] + m + 1 \in a .. b /\ o[k] + m # L
      BY <1>4, <1>6, <1>7, <1>10, <2>2
    <3> QED  BY <1>4, <1>7, <3>1
  <2> QED  BY <1>4, <1>6, <1>7, <2>1, <2>2
<1> QED  BY <1>4, <1>10, <1>11 DEF Place, m

(* The lines of the text are the headers, each once and in their order.    *)
LEMMA LinesFound ==
  ASSUME NEW text \in Texts, NEW all \in Seq(Texts),
         NEW n \in 0 .. Len(all), NEW o, Lines(text, all, n, o),
         Unbroken(all)
  PROVE  /\ {SubSeq(text, p[1], p[2]) : p \in LinesOf(text)}
              = {all[k] : k \in Emc(all, n)}
         /\ Cardinality(LinesOf(text)) = Cardinality(Emc(all, n))
         /\ \A p, q \in LinesOf(text) : p[1] < q[1] =>
              \E k, m \in Emc(all, n) :
                /\ k < m
                /\ SubSeq(text, p[1], p[2]) = all[k]
                /\ SubSeq(text, q[1], q[2]) = all[m]
<1> DEFINE M == Emc(all, n)  P(k) == Place(all, o, k)
           Line(p) == SubSeq(text, p[1], p[2])
<1>1. \A k \in M : /\ P(k) \in LinesOf(text)
                   /\ P(k)[1] = o[k] + 1
                   /\ Line(P(k)) = all[k]
  <2> TAKE k \in M
  <2>1. /\ P(k) \in LinesOf(text)
        /\ P(k)[1] = o[k] + 1 /\ P(k)[2] = o[k] + Len(all[k])
        /\ SubSeq(text, o[k] + 1, o[k] + Len(all[k])) = all[k]
    BY PlaceIsLine
  <2> HIDE DEF P, M
  <2> QED  BY <2>1
<1>2. \A p \in LinesOf(text) : \E k \in M : p = P(k)
  BY LineIsPlace
<1>3. \A k \in M : k \in Nat /\ o[k] \in Nat /\ Len(all[k]) \in Nat
  <2> TAKE k \in M
  <2>1. k \in 1 .. Len(all) /\ Len(all[k]) \in Nat \ {0}
    BY EmcType
  <2>2. o[k] \in Nat
    BY DEF Lines
  <2> QED  BY <2>1, <2>2
<1>4. \A k, m \in M : k < m => o[k] + Len(all[k]) < o[m]
  BY DEF Lines
<1>5. IsFiniteSet(M)
  <2>1. M \in SUBSET (1 .. n) /\ n \in Nat
    BY LenProperties DEF Emc
  <2>2. IsFiniteSet(1 .. n)
    BY <2>1, FS_Interval
  <2> QED  BY <2>1, <2>2, FS_Subset
<1> HIDE DEF M, P, Line
<1>6. \A k \in M : P(k)[1] = o[k] + 1
  BY <1>1
<1>7. \A k, m \in M : k < m => P(k)[1] < P(m)[1]
  <2> TAKE k, m \in M
  <2> DEFINE ok == o[k]  om == o[m]  lk == Len(all[k])
  <2>1. P(k)[1] = ok + 1 /\ P(m)[1] = om + 1
    BY <1>6
  <2>2. ok \in Nat /\ om \in Nat /\ lk \in Nat
    BY <1>3
  <2>3. k < m => ok + lk < om
    BY <1>4
  <2> HIDE DEF ok, om, lk
  <2> QED  BY <2>1, <2>2, <2>3
<1>8. \A k, m \in M : k < m \/ k = m \/ m < k
  BY <1>3
<1>9. \A k \in M : P(k)[1] \in Int
  BY <1>3, <1>6
<1>10. \A k, m \in M : P(k)[1] < P(m)[1] => k < m
  <2> TAKE k, m \in M
  <2> DEFINE a == P(k)[1]  b == P(m)[1]
  <2>1. a \in Int /\ b \in Int
    BY <1>9
  <2>2. (m < k => b < a) /\ (k = m => a = b)
    BY <1>7
  <2>3. k < m \/ k = m \/ m < k
    BY <1>8
  <2> HIDE DEF a, b
  <2>4. a < b => k < m
    BY <2>1, <2>2, <2>3
  <2> QED  BY <2>4 DEF a, b
<1>11. \A k, m \in M : P(k) = P(m) => k = m
  <2> TAKE k, m \in M
  <2> DEFINE a == P(k)[1]  b == P(m)[1]
  <2>1. a \in Int /\ b \in Int /\ (P(k) = P(m) => a = b)
    BY <1>9
  <2>2. (m < k => b < a) /\ (k < m => a < b)
    BY <1>7
  <2>3. k < m \/ k = m \/ m < k
    BY <1>8
  <2> HIDE DEF a, b
  <2>4. a = b => k = m
    BY <2>1, <2>2, <2>3
  <2> QED  BY <2>1, <2>4
<1>12. {Line(p) : p \in LinesOf(text)} = {all[k] : k \in M}
  BY <1>1, <1>2
<1>13. Cardinality(LinesOf(text)) = Cardinality(M)
  <2> DEFINE f == [k \in M |-> P(k)]
  <2>1. f \in [M -> LinesOf(text)]
    BY <1>1
  <2>2. \A k, m \in M : f[k] = f[m] => k = m
    BY <1>11
  <2>3. \A p \in LinesOf(text) : \E k \in M : f[k] = p
    BY <1>2
  <2> HIDE DEF f
  <2> QED  BY <1>5, <2>1, <2>2, <2>3, SameSize
<1>14. ASSUME NEW p \in LinesOf(text), NEW q \in LinesOf(text), p[1] < q[1]
       PROVE  \E k, m \in M : k < m /\ Line(p) = all[k] /\ Line(q) = all[m]
  <2>1. PICK k \in M : p = P(k)
    BY <1>2
  <2>2. PICK m \in M : q = P(m)
    BY <1>2
  <2>3. k < m
    BY <1>10, <1>14, <2>1, <2>2
  <2> QED  BY <1>1, <2>1, <2>2, <2>3
<1> QED  BY <1>12, <1>13, <1>14 DEF M, Line

-----------------------------------------------------------------------------
(* The headers in their normal form.                                       *)

(* A request whose headers have no line breaks.                            *)
PlainRequest(req) ==
  \A k \in 1 .. Len(req.headers) : Free(req.headers[k], {NewLineChar})

(* What becomes of header k.                                               *)
Form(req, k) == NormalForm(LowercaseHeader(req.headers[k]))

Prepared(list, req) ==
  /\ Len(list) <= Len(req.headers)
  /\ \A k \in 1 .. Len(list) :
       /\ list[k] = Form(req, k)
       /\ PlainRequest(req) => Free(list[k], {NewLineChar})

HeadersInv ==
  job \in SignJobs =>
    /\ pc \in {"headers", "normalize"} =>
         Prepared(headers, job) /\ firstheader /\ buffer.text = << >>
    /\ pc = "normalize" => Normalizing(loop, Input)

LEMMA LowerCharBreak ==
  ASSUME NEW c, c # NewLineChar PROVE LowerChar(c) # NewLineChar
BY Zenon DEF LowerChar, NewLineChar

LEMMA LowercaseHeaderFree ==
  ASSUME NEW header \in Texts, Free(header, {NewLineChar})
  PROVE  Free(LowercaseHeader(header), {NewLineChar})
<1> DEFINE low == LowercaseHeader(header)
<1>1. DOMAIN low = DOMAIN header
  BY DEF LowercaseHeader
<1>2. \A k \in DOMAIN header :
        low[k] = header[k] \/ low[k] = LowerChar(header[k])
  BY Zenon DEF LowercaseHeader
<1> HIDE DEF low
<1> QED  BY <1>1, <1>2, LowerCharBreak DEF Free, low

LEMMA LoopResultFree ==
  ASSUME NEW input \in Texts, NEW lp, Normalizing(lp, input), LoopEnds(lp),
         Free(input, {NewLineChar})
  PROVE  Free(LoopResult(lp), {NewLineChar})
<1> DEFINE n == Len(input)  j == lp.j  h == lp.header
<1>1. /\ n \in Nat /\ j \in Nat /\ h \in Seq(Chars) /\ Len(h) = n /\ j <= n
      /\ lp.i = n /\ DOMAIN input = 1 .. n
  BY LenProperties DEF Normalizing, InPlace, Loops, Texts, LoopEnds
<1>2. \A m \in 1 .. j : \E k \in 1 .. n : h[m] = input[k]
  BY <1>1 DEF Normalizing, Written
<1>3. \A m \in 1 .. j : h[m] \in Chars
  BY <1>1, ElementOfSeq
<1>4. /\ LoopResult(lp) \in Seq(Chars)
      /\ Len(LoopResult(lp)) = IF 1 <= j THEN j - 1 + 1 ELSE 0
      /\ \A m \in 1 .. j - 1 + 1 : LoopResult(lp)[m] = h[1 + m - 1]
  BY <1>1, <1>3, SubSeqProperties DEF LoopResult
<1>5. DOMAIN LoopResult(lp) = 1 .. j
  <2>1. DOMAIN LoopResult(lp) = 1 .. Len(LoopResult(lp))
    BY <1>4, LenProperties
  <2> QED  BY <1>1, <1>4, <2>1
<1>6. \A m \in 1 .. j : LoopResult(lp)[m] = h[m]
  BY <1>1, <1>4
<1> HIDE DEF n, j, h
<1> QED  BY <1>1, <1>2, <1>5, <1>6 DEF Free

LEMMA HeadersInvInit == ASSUME Init PROVE HeadersInv
<1>1. headers = << >> /\ buffer.text = << >> /\ pc # "normalize"
      /\ firstheader
  BY DEF Init, NoBuffer
<1>2. ASSUME job \in SignJobs PROVE Prepared(headers, job)
  <2>1. job.headers \in Seq(Texts)
    BY <1>2 DEF SignJobs
  <2>2. Len(job.headers) \in Nat
    BY <2>1, LenProperties
  <2> QED  BY <1>1, <2>2, EmptySeq DEF Prepared
<1> QED  BY <1>1, <1>2 DEF HeadersInv

LEMMA HeadersInvTakeHeader ==
  ASSUME IInv, HeadersInv, TakeHeader PROVE HeadersInv'
<1>1. /\ job \in SignJobs /\ job' = job /\ headers' = headers
      /\ firstheader' = firstheader /\ buffer' = buffer
      /\ pc = "headers" /\ pc' = "normalize"
  BY DEF IInv, PcInv, TakeHeader
<1>2. Input \in Texts /\ Input' = Input
  BY <1>1, InputType DEF IInv, PlainInv, TakeHeader, MoreHeaders, Input
<1>3. loop' = StartLoop(Input)
  BY DEF TakeHeader, Input
<1>4. Normalizing(loop', Input)
  BY <1>2, <1>3, StartLoopNormalizing
<1>5. Prepared(headers, job) /\ firstheader /\ buffer.text = << >>
  BY <1>1 DEF HeadersInv
<1> QED  BY <1>1, <1>2, <1>4, <1>5 DEF HeadersInv

LEMMA HeadersInvNormalizeStep ==
  ASSUME IInv, HeadersInv, NormalizeStep PROVE HeadersInv'
<1>1. /\ job \in SignJobs /\ job' = job /\ headers' = headers
      /\ firstheader' = firstheader /\ buffer' = buffer
      /\ pc = "normalize" /\ pc' = pc /\ loop' = LoopStep(loop)
      /\ ~LoopEnds(loop)
  BY DEF IInv, PcInv, NormalizeStep
<1>2. Input \in Texts /\ Input' = Input
  BY <1>1, InputType DEF IInv, PlainInv, PcInv, Input
<1>3. Prepared(headers, job) /\ firstheader /\ buffer.text = << >>
      /\ Normalizing(loop, Input)
  BY <1>1 DEF HeadersInv
<1>4. Normalizing(loop', Input)
  BY <1>1, <1>2, <1>3, LoopStepNormalizing
<1> QED  BY <1>1, <1>2, <1>3, <1>4 DEF HeadersInv

LEMMA HeadersInvNormalizeEnd ==
  ASSUME IInv, HeadersInv, NormalizeEnd PROVE HeadersInv'
<1>1. /\ job \in SignJobs /\ job' = job
      /\ firstheader' = firstheader /\ buffer' = buffer
      /\ pc = "normalize" /\ pc' = "headers" /\ LoopEnds(loop)
      /\ headers' = Append(headers, LoopResult(loop))
      /\ headers \in Seq(Texts) /\ Len(headers) < Len(job.headers)
  BY DEF IInv, PlainInv, PcInv, NormalizeEnd
<1>2. Input \in Texts
  BY <1>1, InputType
<1>3. Prepared(headers, job) /\ firstheader /\ buffer.text = << >>
      /\ Normalizing(loop, Input)
  BY <1>1 DEF HeadersInv
<1> DEFINE n == Len(headers)
<1>4. n \in Nat /\ job.headers \in Seq(Texts) /\ Len(job.headers) \in Nat
  <2>1. job.headers \in Seq(Texts)
    BY <1>1 DEF SignJobs
  <2> QED  BY <1>1, <2>1, LenProperties
<1>5. LoopResult(loop) = Form(job, n + 1)
  BY <1>1, <1>2, <1>3, LoopResultNormal DEF Form, Input
<1>6. PlainRequest(job) => Free(LoopResult(loop), {NewLineChar})
  <2> SUFFICES ASSUME PlainRequest(job)
               PROVE  Free(Input, {NewLineChar})
    BY <1>1, <1>2, <1>3, LoopResultFree
  <2>1. n + 1 \in 1 .. Len(job.headers)
    BY <1>1, <1>4
  <2>2. job.headers[n + 1] \in Texts
    BY <1>4, <2>1, ElementOfSeq
  <2> QED  BY <2>1, <2>2, LowercaseHeaderFree DEF PlainRequest, Input
<1>7. LoopResult(loop) \in Texts
  BY <1>2, <1>3, LoopResultType DEF Normalizing
<1>8. /\ Len(headers') = n + 1 /\ headers'[n + 1] = LoopResult(loop)
      /\ \A k \in 1 .. n : headers'[k] = headers[k]
  BY <1>1, <1>7, AppendProperties
<1> HIDE DEF n
<1>9. Prepared(headers', job)
  <2>1. Len(headers') <= Len(job.headers)
    BY <1>1, <1>4, <1>8 DEF n
  <2>2. ASSUME NEW k \in 1 .. n + 1
        PROVE  /\ headers'[k] = Form(job, k)
               /\ PlainRequest(job) => Free(headers'[k], {NewLineChar})
    <3>1. CASE k = n + 1
      BY <1>5, <1>6, <1>8, <3>1
    <3>2. CASE k # n + 1
      <4>1. k \in 1 .. n
        BY <1>4, <3>2
      <4> QED  BY <1>3, <1>8, <4>1 DEF Prepared, n
    <3> QED  BY <3>1, <3>2
  <2> QED  BY <1>8, <2>1, <2>2 DEF Prepared
<1> QED  BY <1>1, <1>3, <1>9 DEF HeadersInv

(* Behind the sorting nothing is said.                                     *)
LEMMA HeadersInvOther ==
  ASSUME IInv, HeadersInv,
         SortHeaders \/ AppendHeader \/ StartLink \/ AppendPiece
           \/ AppendFails \/ Sign \/ ReturnUrl \/ UNCHANGED vars
  PROVE  HeadersInv'
<1>1. CASE UNCHANGED vars
  BY <1>1 DEF vars, HeadersInv, Prepared, Form, PlainRequest, Input
<1>2. CASE SortHeaders \/ AppendHeader \/ StartLink \/ AppendPiece
             \/ AppendFails \/ Sign \/ ReturnUrl
  <2>1. pc' \notin {"headers", "normalize"}
    BY <1>2 DEF SortHeaders, AppendHeader, StartLink, AppendPiece,
                AppendFails, Sign, ReturnUrl, Appending
  <2> QED  BY <2>1 DEF HeadersInv
<1> QED  BY <1>1, <1>2

(* AtmosUtil_normalize_whitespace brings the headers into their normal     *)
(* form, one by one, for every header and without any bound on its length. *)
THEOREM HeadersNormal == Spec => [](IInv /\ HeadersInv)
<1>1. Init => IInv /\ HeadersInv
  BY IInvInit, HeadersInvInit
<1>2. IInv /\ HeadersInv /\ [Next]_vars => HeadersInv'
  BY HeadersInvTakeHeader, HeadersInvNormalizeStep, HeadersInvNormalizeEnd,
     HeadersInvOther DEF Next
<1> QED  BY Inductive, <1>1, <1>2, PTL DEF Spec

-----------------------------------------------------------------------------
(* The string to sign.                                                     *)

(* all is the headers of a request in their normal form, sorted.           *)
Whole(all, req) ==
  /\ all \in Seq(Texts)
  /\ Len(all) = Len(req.headers)
  /\ \E perm \in [1 .. Len(all) -> 1 .. Len(all)] :
       /\ \A k, m \in 1 .. Len(all) : perm[k] = perm[m] => k = m
       /\ \A k \in 1 .. Len(all) : all[k] = Form(req, perm[k])
  /\ Sorted(all)
  /\ PlainRequest(req) => Unbroken(all)

(* What is left of all behind its first n.                                 *)
Behind(left, all, n) ==
  /\ n + Len(left) = Len(all)
  /\ \A k \in 1 .. Len(left) : left[k] = all[n + k]

(* The buffer and the pieces that are left make up the head of the string  *)
(* and the lines of the headers that were taken.                           *)
Taken(req, buf, rest, left, first, all, n, text, o) ==
  /\ Whole(all, req)
  /\ n \in 0 .. Len(all) /\ text \in Texts /\ o \in [1 .. Len(all) -> Nat]
  /\ Behind(left, all, n)
  /\ first <=> Emc(all, n) = {}
  /\ Completes(buf, rest, Cat(SignHead(req), text))
  /\ Lines(text, all, n, o)

Appended(req, buf, rest, left, first) ==
  \E all, n, text, o : Taken(req, buf, rest, left, first, all, n, text, o)

Signed(req, string) ==
  \E all, text, o :
    /\ Whole(all, req) /\ text \in Texts
    /\ Lines(text, all, Len(all), o)
    /\ string = Cat(SignHead(req), text)

StringInv ==
  job \in SignJobs /\ lost = 0 =>
    /\ pc = "hash" =>
         Appended(job, buffer.text, pieces, headers, firstheader)
    /\ pc = "done" => Signed(job, hash_string)

(* The invariant of the next state, by the place in the program.           *)
LEMMA StringInvNext ==
  ASSUME job' = job,
         job \in SignJobs /\ lost' = 0 =>
           /\ pc' = "hash" =>
                Appended(job, buffer'.text, pieces', headers', firstheader')
           /\ pc' = "done" => Signed(job, hash_string')
  PROVE  StringInv'
BY DEF StringInv

(* The headers, once all are prepared and sorted.                          *)
LEMMA WholeSorted ==
  ASSUME NEW req \in SignJobs, NEW list \in Seq(Texts), Prepared(list, req),
         Len(list) >= Len(req.headers),
         NEW perm \in [DOMAIN list -> DOMAIN list],
         \A k, m \in DOMAIN list : perm[k] = perm[m] => k = m,
         NEW all, all = [k \in DOMAIN list |-> list[perm[k]]], Sorted(all)
  PROVE  Whole(all, req)
<1>1. /\ DOMAIN list = 1 .. Len(list) /\ Len(list) \in Nat
      /\ \A k \in 1 .. Len(list) : list[k] \in Texts
  BY LenProperties, ElementOfSeq
<1>2. req.headers \in Seq(Texts) /\ Len(req.headers) \in Nat
  <2>1. req.headers \in Seq(Texts)
    BY DEF SignJobs
  <2> QED  BY <2>1, LenProperties
<1>3. Len(list) = Len(req.headers)
  BY <1>1, <1>2 DEF Prepared
<1>4. perm \in [1 .. Len(list) -> 1 .. Len(list)]
  BY <1>1
<1>5. all = [k \in 1 .. Len(list) |-> list[perm[k]]]
  BY <1>1
<1>6. /\ all \in [1 .. Len(list) -> Texts]
      /\ \A k \in 1 .. Len(list) : all[k] = list[perm[k]]
  BY <1>1, <1>4, <1>5
<1>7. all \in Seq(Texts)
  BY <1>1, <1>6, SeqDef
<1>8. Len(all) = Len(list)
  BY <1>1, <1>6, <1>7, LenProperties
<1>9. \A k \in 1 .. Len(list) :
        /\ all[k] = Form(req, perm[k])
        /\ PlainRequest(req) => Free(all[k], {NewLineChar})
  BY <1>4, <1>6 DEF Prepared
<1>10. PlainRequest(req) => Unbroken(all)
  BY <1>8, <1>9 DEF Unbroken
<1>11. \A k, m \in 1 .. Len(list) : perm[k] = perm[m] => k = m
  BY <1>1
<1> QED  BY <1>3, <1>4, <1>7, <1>8, <1>9, <1>10, <1>11 DEF Whole

LEMMA StringInvInit == ASSUME Init PROVE StringInv
<1>1. pc \in {"headers", "link"}
  BY DEF Init
<1> QED  BY <1>1 DEF StringInv

LEMMA StringInvSortHeaders ==
  ASSUME IInv, HeadersInv, SortHeaders PROVE StringInv'
<1>1. /\ job' = job /\ pc = "headers" /\ pc' = "hash" /\ job \in SignJobs
      /\ headers \in Seq(Texts) /\ ~MoreHeaders
      /\ firstheader' = firstheader /\ buffer' = buffer
      /\ pieces' = SignPieces(job)
  BY DEF IInv, PlainInv, PcInv, SortHeaders
<1>2. Prepared(headers, job) /\ firstheader /\ buffer.text = << >>
  BY <1>1 DEF HeadersInv
<1>3. PICK perm \in [DOMAIN headers -> DOMAIN headers] :
        /\ \A k, m \in DOMAIN headers : perm[k] = perm[m] => k = m
        /\ Sorted([k \in DOMAIN headers |-> headers[perm[k]]])
        /\ headers' = [k \in DOMAIN headers |-> headers[perm[k]]]
  BY DEF SortHeaders
<1>4. Len(headers) >= Len(job.headers)
  <2>1. job.headers \in Seq(Texts)
    BY <1>1 DEF SignJobs
  <2>2. Len(headers) \in Nat /\ Len(job.headers) \in Nat
    BY <1>1, <2>1, LenProperties
  <2> QED  BY <1>1, <2>2 DEF MoreHeaders
<1> DEFINE all == headers'  o == [k \in 1 .. Len(all) |-> 0]
<1>5. Whole(all, job)
  <2> HIDE DEF all
  <2>1. all = [k \in DOMAIN headers |-> headers[perm[k]]] /\ Sorted(all)
    BY <1>3 DEF all
  <2>2. \A k, m \in DOMAIN headers : perm[k] = perm[m] => k = m
    BY <1>3
  <2>3. job \in SignJobs /\ headers \in Seq(Texts) /\ Prepared(headers, job)
    BY <1>1, <1>2
  <2> QED  BY <1>4, <2>1, <2>2, <2>3, WholeSorted, Zenon
<1>6. Len(all) \in Nat
  BY <1>5, LenProperties DEF Whole
<1>7. Lines(<< >>, all, 0, o) /\ o \in [1 .. Len(all) -> Nat]
  BY NoLines
<1>8. Emc(all, 0) = {} /\ << >> \in Texts /\ 0 \in 0 .. Len(all)
  BY <1>6, FixedTexts DEF Emc
<1>9. Behind(headers', all, 0)
  BY <1>6 DEF Behind
<1>10. Completes(<< >>, SignPieces(job), Cat(SignHead(job), << >>))
  <2>1. Completes(<< >>, SignPieces(job), SignHead(job))
        /\ SignHead(job) \in Texts
    BY <1>1, SignPiecesComplete
  <2>2. Cat(SignHead(job), << >>) = SignHead(job)
    BY <2>1, ConcatEmptySeq DEF Cat, Texts
  <2> QED  BY <2>1, <2>2
<1> HIDE DEF o
<1>11. Taken(job, << >>, SignPieces(job), headers', TRUE, all, 0, << >>, o)
  BY <1>5, <1>7, <1>8, <1>9, <1>10 DEF Taken
<1>12. Taken(job, buffer'.text, pieces', headers', firstheader', all, 0,
             << >>, o)
  BY <1>1, <1>2, <1>11
<1>13. Appended(job, buffer'.text, pieces', headers', firstheader')
  BY <1>12 DEF Appended
<1> QED  BY <1>1, <1>13, StringInvNext

LEMMA StringInvAppendPiece ==
  ASSUME IInv, StringInv, AppendPiece PROVE StringInv'
<1>1. /\ job' = job /\ lost' = lost /\ pc' = pc /\ pc \in {"hash", "url"}
      /\ headers' = headers /\ pieces # << >> /\ pieces' = Tail(pieces)
      /\ firstheader' = firstheader
      /\ buffer'.text = buffer.text \o Head(pieces)
      /\ pieces \in Seq(Texts)
  BY CstringAppendText DEF AppendPiece, Appending, IInv, PlainInv
<1> SUFFICES ASSUME job \in SignJobs, lost = 0, pc = "hash"
             PROVE  Appended(job, buffer'.text, pieces', headers',
                             firstheader')
  BY <1>1, StringInvNext
<1>2. PICK all, n, text, o : Taken(job, buffer.text, pieces, headers,
                                   firstheader, all, n, text, o)
  BY DEF StringInv, Appended
<1>3. Completes(buffer'.text, pieces', Cat(SignHead(job), text))
  BY <1>1, <1>2, CompletesNext DEF Taken
<1>4. Taken(job, buffer'.text, pieces', headers', firstheader', all, n,
            text, o)
  BY <1>1, <1>2, <1>3 DEF Taken
<1> QED  BY <1>4 DEF Appended

(* The next header of all is the first that is left.                       *)
LEMMA BehindNext ==
  ASSUME NEW left \in Seq(Texts), NEW all \in Seq(Texts), NEW n \in Nat,
         Behind(left, all, n), left # << >>
  PROVE  /\ n < Len(all) /\ Head(left) = all[n + 1]
         /\ Behind(Tail(left), all, n + 1)
<1>1. /\ Len(left) \in Nat /\ Len(left) > 0 /\ Len(all) \in Nat
  BY LenProperties, EmptySeq
<1>2. /\ Head(left) = left[1] /\ Len(Tail(left)) = Len(left) - 1
      /\ \A k \in 1 .. Len(left) - 1 : Tail(left)[k] = left[k + 1]
  BY HeadTailProperties
<1>3. ASSUME NEW k \in 1 .. Len(left) - 1
      PROVE  Tail(left)[k] = all[(n + 1) + k]
  <2>1. k + 1 \in 1 .. Len(left) /\ n + (k + 1) = (n + 1) + k
    BY <1>1
  <2>2. left[k + 1] = all[n + (k + 1)]
    BY <2>1 DEF Behind
  <2> QED  BY <1>2, <2>1, <2>2
<1>4. 1 \in 1 .. Len(left)
  BY <1>1
<1> QED  BY <1>1, <1>2, <1>3, <1>4 DEF Behind

(* A header that is taken, and the pieces it is put in.                    *)
LEMMA TakenNext ==
  ASSUME NEW req \in SignJobs, NEW buf, NEW left \in Seq(Texts),
         NEW first \in BOOLEAN, left # << >>,
         NEW all, NEW n, NEW text, NEW o,
         Taken(req, buf, << >>, left, first, all, n, text, o),
         IsEmc(Head(left))
  PROVE  LET rest == (IF first THEN << >> ELSE <<NewLine>>) \o <<Head(left)>>
         IN Appended(req, buf, rest, Tail(left), FALSE)
<1> DEFINE h == Head(left)  head == SignHead(req)
           rest == (IF first THEN << >> ELSE <<NewLine>>) \o <<h>>
           start == LineStart(text, all, n)
           q == [o EXCEPT ![n + 1] = Len(start)]
<1>1. /\ Whole(all, req) /\ all \in Seq(Texts)
      /\ n \in 0 .. Len(all) /\ n \in Nat /\ text \in Texts
      /\ o \in [1 .. Len(all) -> Nat]
      /\ Behind(left, all, n)
      /\ first <=> Emc(all, n) = {}
      /\ Completes(buf, << >>, Cat(head, text))
      /\ Lines(text, all, n, o)
  BY DEF Taken, Whole
<1>2. n < Len(all) /\ h = all[n + 1] /\ Behind(Tail(left), all, n + 1)
  BY <1>1, BehindNext
<1>3. /\ Len(all) \in Nat /\ n + 1 \in 1 .. Len(all)
      /\ n + 1 \in 0 .. Len(all)
  BY <1>1, <1>2, LenProperties
<1>4. h \in Texts /\ start \in Texts /\ head \in Texts
  <2>1. h \in Texts
    BY <1>1, <1>2, <1>3, ElementOfSeq
  <2>2. start \in Texts
    BY <1>1, LineStarts
  <2> QED  BY <2>1, <2>2, SignPiecesComplete
<1>5. Lines(Cat(start, h), all, n + 1, q)
  BY <1>1, <1>2, LinesTake
<1>6. Cat(start, h) \in Texts /\ q \in [1 .. Len(all) -> Nat]
  BY <1>1, <1>4, CatTexts, LenProperties DEF Texts
<1>7. Emc(all, n + 1) # {}
  BY <1>2, <1>3 DEF Emc
<1>8. buf = Cat(head, text) /\ buf \in Texts
  BY <1>1, <1>4, NothingLeft, CatTexts
<1> HIDE DEF start, q, head, h
<1>9. Completes(buf, rest, Cat(head, Cat(start, h)))
  <2>1. Completes(buf, << >>, buf) /\ << >> \in Seq(Texts)
    BY <1>8, CompletesNone, EmptySeq
  <2>2. CASE first
    <3>1. start = << >> /\ text = << >>
      BY <1>1, <2>2 DEF start, LineStart, Lines
    <3>2. Cat(start, h) = h /\ buf = head
      BY <1>4, <1>8, <3>1, ConcatEmptySeq DEF Cat, Texts
    <3>3. rest = Append(<< >>, h)
      BY <1>4, <2>1, <2>2, AppendIsConcat
    <3>4. Completes(buf, Append(<< >>, h), Cat(buf, h))
      BY <1>4, <2>1, CompletesAppend DEF Cat
    <3> QED  BY <3>2, <3>3, <3>4
  <2>3. CASE ~first
    <3>1. start = Cat(text, NewLine) /\ NewLine \in Texts
      BY <1>1, <2>3, FixedTexts DEF start, LineStart
    <3>2. rest = Append(Append(<< >>, NewLine), h)
      <4>1. Append(<< >>, NewLine) = <<NewLine>> /\ <<NewLine>> \in Seq(Texts)
        BY <3>1
      <4>2. rest = <<NewLine>> \o <<h>>
        BY <2>3
      <4> QED  BY <1>4, <4>1, <4>2, AppendIsConcat
    <3>3. /\ Append(<< >>, NewLine) \in Seq(Texts)
          /\ Completes(buf, Append(<< >>, NewLine), Cat(buf, NewLine))
      BY <2>1, <3>1, CompletesAppend, AppendProperties DEF Cat
    <3>4. Completes(buf, Append(Append(<< >>, NewLine), h),
                    Cat(Cat(buf, NewLine), h))
      BY <1>4, <3>3, CompletesAppend DEF Cat
    <3>5. Cat(Cat(buf, NewLine), h) = Cat(head, Cat(start, h))
      <4>1. Cat(buf, NewLine) = Cat(head, start)
        BY <1>1, <1>4, <1>8, <3>1, CatAssociative
      <4> QED  BY <1>4, <4>1, CatAssociative
    <3> QED  BY <3>2, <3>4, <3>5
  <2> QED  BY <2>2, <2>3
<1> HIDE DEF rest
<1>10. Taken(req, buf, rest, Tail(left), FALSE, all, n + 1, Cat(start, h), q)
  BY <1>1, <1>2, <1>3, <1>5, <1>6, <1>7, <1>9 DEF Taken, head
<1> QED  BY <1>10 DEF Appended, rest, h

LEMMA StringInvAppendHeader ==
  ASSUME IInv, StringInv, AppendHeader PROVE StringInv'
<1>1. /\ job' = job /\ lost' = lost /\ pc' = pc /\ pc = "hash"
      /\ headers # << >> /\ pieces = << >> /\ headers' = Tail(headers)
      /\ buffer' = buffer /\ headers \in Seq(Texts) /\ firstheader \in BOOLEAN
  BY DEF AppendHeader, IInv, PlainInv
<1> SUFFICES ASSUME job \in SignJobs, lost = 0
             PROVE  Appended(job, buffer'.text, pieces', headers',
                             firstheader')
  BY <1>1, StringInvNext
<1>2. PICK all, n, text, o : Taken(job, buffer.text, << >>, headers,
                                   firstheader, all, n, text, o)
  BY <1>1 DEF StringInv, Appended
<1>3. CASE IsEmc(Head(headers))
  <2> DEFINE rest == (IF firstheader THEN << >> ELSE <<NewLine>>)
                       \o <<Head(headers)>>
  <2>1. pieces' = rest /\ firstheader' = FALSE
    BY <1>3 DEF AppendHeader
  <2>2. Appended(job, buffer.text, rest, Tail(headers), FALSE)
    BY <1>1, <1>2, <1>3, TakenNext
  <2> HIDE DEF rest
  <2> QED  BY <1>1, <2>1, <2>2
<1>4. CASE ~IsEmc(Head(headers))
  <2>1. pieces' = << >> /\ firstheader' = firstheader
    BY <1>1, <1>4 DEF AppendHeader
  <2>2. /\ Whole(all, job) /\ all \in Seq(Texts)
        /\ n \in 0 .. Len(all) /\ n \in Nat
        /\ Behind(headers, all, n) /\ Lines(text, all, n, o)
    <3>1. /\ Whole(all, job) /\ n \in 0 .. Len(all)
          /\ Behind(headers, all, n) /\ Lines(text, all, n, o)
      BY <1>2 DEF Taken
    <3>2. all \in Seq(Texts) /\ Len(all) \in Nat
      BY <3>1, LenProperties DEF Whole
    <3> QED  BY <3>1, <3>2
  <2>3. /\ n < Len(all) /\ Head(headers) = all[n + 1]
        /\ Behind(Tail(headers), all, n + 1)
    BY <1>1, <2>2, BehindNext
  <2>4. n + 1 \in 0 .. Len(all)
    BY <2>2, <2>3, LenProperties
  <2>5. Lines(text, all, n + 1, o) /\ Emc(all, n + 1) = Emc(all, n)
    BY <1>4, <2>2, <2>3, LinesSkip
  <2>6. Taken(job, buffer'.text, pieces', headers', firstheader', all, n + 1,
              text, o)
    BY <1>1, <1>2, <2>1, <2>3, <2>4, <2>5 DEF Taken
  <2> QED  BY <2>6 DEF Appended
<1> QED  BY <1>3, <1>4

LEMMA StringInvSign ==
  ASSUME IInv, StringInv, Sign PROVE StringInv'
<1>1. /\ job' = job /\ lost' = lost /\ pc = "hash" /\ pieces = << >>
      /\ headers = << >> /\ pc' # "hash"
      /\ pc' = "done" => hash_string' = buffer.text
  BY DEF Sign
<1> SUFFICES ASSUME job \in SignJobs, lost = 0
             PROVE  Signed(job, buffer.text)
  BY <1>1, StringInvNext
<1>2. PICK all, n, text, o : Taken(job, buffer.text, << >>, << >>,
                                   firstheader, all, n, text, o)
  BY <1>1 DEF StringInv, Appended
<1>3. n = Len(all)
  <2>1. n + Len(<< >>) = Len(all) /\ n \in 0 .. Len(all)
    BY <1>2 DEF Taken, Behind
  <2>2. Len(<< >>) = 0
    BY EmptySeq
  <2>3. all \in Seq(Texts)
    BY <1>2 DEF Taken, Whole
  <2> QED  BY <2>1, <2>2, <2>3, LenProperties
<1>4. buffer.text = Cat(SignHead(job), text)
  BY <1>2, NothingLeft DEF Taken
<1> QED  BY <1>2, <1>3, <1>4 DEF Taken, Signed

LEMMA StringInvOther ==
  ASSUME IInv, StringInv,
         TakeHeader \/ NormalizeStep \/ NormalizeEnd \/ StartLink
           \/ AppendFails \/ ReturnUrl
  PROVE  StringInv'
<1>1. CASE TakeHeader \/ NormalizeStep \/ NormalizeEnd
  <2>1. job' = job /\ pc' \in {"headers", "normalize"}
    BY <1>1 DEF TakeHeader, NormalizeStep, NormalizeEnd
  <2> QED  BY <2>1, StringInvNext
<1>2. CASE AppendFails
  <2>1. job' = job /\ lost' = lost + 1 /\ lost \in Nat
    BY <1>2, SigningAssumption DEF AppendFails, IInv, PlainInv
  <2>2. lost' # 0
    BY <2>1
  <2> QED  BY <2>1, <2>2, StringInvNext
<1>3. CASE StartLink \/ ReturnUrl
  <2>1. job' = job /\ pc \in {"link", "url"}
    BY <1>3 DEF StartLink, ReturnUrl
  <2>2. job \notin SignJobs
    <3>1. job \in LinkJobs
      BY <2>1 DEF IInv, PcInv
    <3> QED  BY <3>1 DEF SignJobs, LinkJobs
  <2> QED  BY <2>1, <2>2, StringInvNext
<1> QED  BY <1>1, <1>2, <1>3

LEMMA StringInvStutter ==
  ASSUME StringInv, UNCHANGED vars PROVE StringInv'
BY StringInvNext DEF StringInv, vars

(* Every header has a place.                                               *)
LEMMA PermOnto ==
  ASSUME NEW n \in Nat, NEW perm \in [1 .. n -> 1 .. n],
         \A k, m \in 1 .. n : perm[k] = perm[m] => k = m
  PROVE  \A m \in 1 .. n : \E k \in 1 .. n : perm[k] = m
<1>1. perm \in Injection(1 .. n, 1 .. n)
  BY DEF Injection, IsInjective
<1>2. IsFiniteSet(1 .. n)
  BY FS_Interval
<1>3. perm \in Surjection(1 .. n, 1 .. n)
  BY <1>1, <1>2, FS_Injection
<1> QED  BY <1>3 DEF Surjection

(* The x-emc headers of a request.                                         *)
EmcOf(req) == {k \in DOMAIN req.headers : IsEmc(Form(req, k))}

LEMMA EmcSame ==
  ASSUME NEW req \in SignJobs, NEW all, Whole(all, req)
  PROVE  LET E == Emc(all, Len(all))
         IN /\ {all[k] : k \in E} = {Form(req, k) : k \in EmcOf(req)}
            /\ Cardinality(E) = Cardinality(EmcOf(req))
<1> DEFINE n == Len(all)  E == Emc(all, n)  R == EmcOf(req)
<1>1. n \in Nat /\ DOMAIN req.headers = 1 .. n
  <2>1. req.headers \in Seq(Texts)
    BY DEF SignJobs
  <2> QED  BY <2>1, LenProperties DEF Whole
<1>2. PICK perm \in [1 .. n -> 1 .. n] :
        /\ \A k, m \in 1 .. n : perm[k] = perm[m] => k = m
        /\ \A k \in 1 .. n : all[k] = Form(req, perm[k])
  BY DEF Whole
<1>3. \A m \in 1 .. n : \E k \in 1 .. n : perm[k] = m
  BY <1>1, <1>2, PermOnto
<1>4. /\ \A k \in E : k \in 1 .. n /\ IsEmc(all[k])
      /\ \A k \in 1 .. n : IsEmc(all[k]) => k \in E
  BY DEF Emc
<1>5. /\ \A k \in R : k \in 1 .. n /\ IsEmc(Form(req, k))
      /\ \A k \in 1 .. n : IsEmc(Form(req, k)) => k \in R
  BY <1>1 DEF EmcOf
<1>6. IsFiniteSet(E)
  <2>1. E \subseteq 1 .. n /\ IsFiniteSet(1 .. n)
    BY <1>1, <1>4, FS_Interval
  <2> QED  BY <2>1, FS_Subset
<1> HIDE DEF n, E, R
<1>7. /\ \A k \in E : perm[k] \in R
      /\ \A m \in R : \E k \in E : perm[k] = m
  <2>1. ASSUME NEW k \in E PROVE perm[k] \in R
    <3>1. /\ k \in 1 .. n /\ IsEmc(all[k]) /\ perm[k] \in 1 .. n
          /\ all[k] = Form(req, perm[k])
      BY <1>2, <1>4
    <3> QED  BY <1>5, <3>1
  <2>2. ASSUME NEW m \in R PROVE \E k \in E : perm[k] = m
    <3>1. m \in 1 .. n /\ IsEmc(Form(req, m))
      BY <1>5
    <3>2. PICK k \in 1 .. n : perm[k] = m
      BY <1>3, <3>1
    <3>3. all[k] = Form(req, m)
      BY <1>2, <3>2
    <3> QED  BY <1>4, <3>1, <3>2, <3>3
  <2> QED  BY <2>1, <2>2
<1>8. Cardinality(E) = Cardinality(R)
  <2> DEFINE f == [k \in E |-> perm[k]]
  <2>1. f \in [E -> R] /\ \A k \in E : f[k] = perm[k]
    BY <1>7
  <2>2. \A k, m \in E : f[k] = f[m] => k = m
    BY <1>2, <1>4, <2>1
  <2>3. \A m \in R : \E k \in E : f[k] = m
    BY <1>7, <2>1
  <2> HIDE DEF f
  <2> QED  BY <1>6, <2>1, <2>2, <2>3, SameSize
<1>9. {all[k] : k \in E} = {Form(req, k) : k \in R}
  BY <1>2, <1>4, <1>7
<1> QED  BY <1>8, <1>9 DEF n, E, R

(* The lines of the string that was signed are those headers.              *)
LEMMA StringInvImplies ==
  ASSUME IInv, StringInv, PlainRequest(job) PROVE StringToSign
<1> SUFFICES ASSUME pc = "done", job.call = "sign_request", lost = 0
             PROVE  StringToSign
  BY DEF StringToSign
<1>1. job \in SignJobs
  BY DEF IInv, PlainInv, LinkJobs
<1>2. PICK all, text, o :
        /\ Whole(all, job) /\ text \in Texts
        /\ Lines(text, all, Len(all), o)
        /\ hash_string = Cat(SignHead(job), text)
  BY <1>1 DEF StringInv, Signed
<1> DEFINE head == SignHead(job)  E == Emc(all, Len(all))
           tail == SubSeq(hash_string, Len(head) + 1, Len(hash_string))
           lines == LinesOf(tail)
<1>3. head \in Texts
  BY <1>1, SignPiecesComplete
<1>4. Len(head) \in Nat /\ Len(text) \in Nat
  BY <1>2, <1>3, LenProperties DEF Texts
<1>5. /\ hash_string \in Texts
      /\ Len(hash_string) = Len(head) + Len(text)
      /\ Has(hash_string, 0, head) /\ Has(hash_string, Len(head), text)
  <2>1. Has(head, 0, head)
    BY <1>3, HasBegin
  <2>2. Has(Cat(head, text), 0, head)
    BY <1>2, <1>3, <2>1, HasStays
  <2> HIDE DEF head
  <2>3. hash_string = Cat(head, text) /\ Has(hash_string, 0, head)
    BY <1>2, <2>2 DEF head
  <2>4. /\ Cat(head, text) \in Texts
        /\ Len(Cat(head, text)) = Len(head) + Len(text)
    BY <1>2, <1>3, CatTexts
  <2>5. Has(Cat(head, text), Len(head), text)
    BY <1>2, <1>3, HasNext
  <2> QED  BY <2>3, <2>4, <2>5
<1> HIDE DEF head
<1>6. SubSeq(hash_string, 1, Len(head)) = head
  <2>1. SubSeq(hash_string, 0 + 1, 0 + Len(head)) = head
    BY <1>3, <1>5, HasSubSeq
  <2>2. 0 + 1 = 1 /\ 0 + Len(head) = Len(head)
    BY <1>4
  <2> QED  BY <2>1, <2>2
<1>7. tail = text
  <2>1. SubSeq(hash_string, Len(head) + 1, Len(head) + Len(text)) = text
    BY <1>2, <1>3, <1>4, <1>5, HasSubSeq
  <2> QED  BY <1>5, <2>1
<1>8. /\ all \in Seq(Texts) /\ Len(all) \in 0 .. Len(all)
      /\ Unbroken(all) /\ Sorted(all)
      /\ DOMAIN all = 1 .. Len(all)
  BY <1>2, LenProperties DEF Whole
<1>9. /\ {SubSeq(text, p[1], p[2]) : p \in LinesOf(text)}
           = {all[k] : k \in E}
      /\ Cardinality(LinesOf(text)) = Cardinality(E)
      /\ \A p, q \in LinesOf(text) : p[1] < q[1] =>
           \E k, m \in E :
             /\ k < m
             /\ SubSeq(text, p[1], p[2]) = all[k]
             /\ SubSeq(text, q[1], q[2]) = all[m]
  BY <1>2, <1>8, LinesFound
<1>10. /\ {all[k] : k \in E} = {Form(job, k) : k \in EmcOf(job)}
       /\ Cardinality(E) = Cardinality(EmcOf(job))
  BY <1>1, <1>2, EmcSame
<1>11. \A k \in E : k \in DOMAIN all
  BY <1>8 DEF Emc
<1> HIDE DEF E, tail, lines
<1>12. ASSUME NEW p \in LinesOf(text), NEW q \in LinesOf(text), p[1] < q[1]
       PROVE  NotBehind(SubSeq(text, p[1], p[2]), SubSeq(text, q[1], q[2]))
  <2>1. PICK k \in E, m \in E :
          /\ k < m
          /\ SubSeq(text, p[1], p[2]) = all[k]
          /\ SubSeq(text, q[1], q[2]) = all[m]
    BY <1>9, <1>12
  <2>2. NotBehind(all[k], all[m])
    BY <1>8, <1>11, <2>1 DEF Sorted
  <2> QED  BY <2>1, <2>2
<1>13. /\ SubSeq(hash_string, 1, Len(head)) = head
       /\ {SubSeq(tail, p[1], p[2]) : p \in lines}
            = {Form(job, k) : k \in EmcOf(job)}
       /\ Cardinality(lines) = Cardinality(EmcOf(job))
       /\ \A p, q \in lines : p[1] < q[1] =>
            NotBehind(SubSeq(tail, p[1], p[2]), SubSeq(tail, q[1], q[2]))
  BY <1>6, <1>7, <1>9, <1>10, <1>12 DEF lines
<1> QED  BY Zenon, <1>13
           DEF StringToSign, head, lines, tail, SignHead, EmcOf, Form

(* The string that is signed has its five lines and then the x-emc headers *)
(* in their normal form, one to a line and sorted, each once, whatever     *)
(* their case and spacing and in whichever order the filters added them:   *)
(* if no piece of it was lost and no header has a line break in it.        *)
THEOREM StringsSigned == Spec => [](PlainRequest(job) => StringToSign)
<1>1. Init => StringInv
  BY StringInvInit
<1>2. IInv /\ HeadersInv /\ StringInv /\ [Next]_vars => StringInv'
  BY StringInvSortHeaders, StringInvAppendPiece, StringInvAppendHeader,
     StringInvSign, StringInvOther, StringInvStutter DEF Next
<1>3. IInv /\ StringInv => (PlainRequest(job) => StringToSign)
  BY StringInvImplies
<1> QED  BY HeadersNormal, <1>1, <1>2, <1>3, PTL DEF Spec
=============================================================================
