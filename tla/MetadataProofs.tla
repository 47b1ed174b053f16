---------------------------- MODULE MetadataProofs ----------------------------
(***************************************************************************)
(* Proofs about Metadata.                                                  *)
(***************************************************************************)
EXTENDS Metadata, SequenceTheorems, FiniteSetTheorems, TLAPS

-----------------------------------------------------------------------------
(* Words and escapes.                                                      *)

Special == {Comma, Equals, Space, Umlaut}

LEMMA WordsDiffer ==
  /\ Comma # Equals /\ Comma # Space /\ Comma # Umlaut
  /\ Equals # Space /\ Equals # Umlaut /\ Space # Umlaut
  /\ Special \subseteq Words
BY WordsAssumption DEF Special, Comma, Equals, Space, Umlaut

(* Escaped words are no words that the code looks for, and differ.         *)
LEMMA EscapedWords ==
  /\ DOMAIN EscapedWord = Special
  /\ \A w \in Special : EscapedWord[w] \in Words /\ EscapedWord[w] \notin Special
  /\ \A v, w \in Special : EscapedWord[v] = EscapedWord[w] => v = w
<1>1. DOMAIN EscapedWord = Special
  BY DEF EscapedWord, Special
<1>2. \A w \in Special : EscapedWord[w] \in Words
  BY <1>1, WordsAssumption DEF Range
<1>3. \A w \in Special : EscapedWord[w] \notin Special
  BY DEF EscapedWord, Special, Comma, Equals, Space, Umlaut
<1>4. \A v, w \in Special : EscapedWord[v] = EscapedWord[w] => v = w
  BY DEF EscapedWord, Special, Comma, Equals, Space, Umlaut
<1> QED  BY <1>1, <1>2, <1>3, <1>4

(* One word, escaped and unescaped.                                        *)
LEMMA UnescapedWord ==
  /\ DOMAIN AntiFunction(EscapedWord) = Range(EscapedWord)
  /\ \A w \in Special : /\ EscapedWord[w] \in Range(EscapedWord)
                        /\ AntiFunction(EscapedWord)[EscapedWord[w]] = w
  /\ \A e \in Range(EscapedWord) : e \in Words /\ e \notin Special
<1>1. \A e \in Range(EscapedWord) : \E w \in Special : e = EscapedWord[w]
  BY EscapedWords DEF Range
<1>2. \A w \in Special : EscapedWord[w] \in Range(EscapedWord)
  BY EscapedWords DEF Range
<1>3. DOMAIN AntiFunction(EscapedWord) = Range(EscapedWord)
  BY DEF AntiFunction, Inverse
<1>4. ASSUME NEW w \in Special
      PROVE  AntiFunction(EscapedWord)[EscapedWord[w]] = w
  <2>1. AntiFunction(EscapedWord)[EscapedWord[w]]
          = CHOOSE v \in Special : EscapedWord[w] \in Range(EscapedWord)
                                      => EscapedWord[v] = EscapedWord[w]
    BY <1>2, EscapedWords DEF AntiFunction, Inverse
  <2> QED  BY <1>2, <2>1, EscapedWords
<1> QED  BY <1>1, <1>2, <1>3, <1>4, EscapedWords

(* A text of the caller's, on its way through a header: encoded it keeps   *)
(* its length, in the UTF-8 mode has no word that the code looks for, and  *)
(* decoded it is what it was.                                              *)
LEMMA EncodedText ==
  ASSUME NEW text \in Texts, Unescaped(text), NEW mode \in BOOLEAN
  PROVE  /\ Encode(text, mode) \in Texts
         /\ Len(Encode(text, mode)) = Len(text)
         /\ Decode(Encode(text, mode), mode) = text
         /\ mode => \A i \in 1 .. Len(text) : Encode(text, mode)[i] \notin Special
         /\ ~mode => Encode(text, mode) = text
         /\ \A i \in 1 .. Len(text) :
              text[i] \notin Special => Encode(text, mode)[i] = text[i]
         /\ \A i \in 1 .. Len(text) : Encode(text, mode)[i] \in Special
              => Encode(text, mode)[i] = text[i]
<1>1. /\ Len(text) \in Nat
      /\ DOMAIN text = 1 .. Len(text)
      /\ \A i \in 1 .. Len(text) : text[i] \in Words
      /\ \A i \in 1 .. Len(text) : text[i] \notin Range(EscapedWord)
  BY LenProperties, ElementOfSeq DEF Texts, Unescaped
<1>2. CASE ~mode
  BY <1>1, <1>2 DEF Encode, Decode
<1>3. CASE mode
  <2> DEFINE e == [i \in 1 .. Len(text) |->
                     IF text[i] \in Special THEN EscapedWord[text[i]]
                     ELSE text[i]]
  <2>1. Encode(text, mode) = e
    BY <1>1, <1>3, EscapedWords DEF Encode, Escape, Replace
  <2>2. \A i \in 1 .. Len(text) : /\ e[i] \in Words /\ e[i] \notin Special
                                  /\ text[i] \notin Special => e[i] = text[i]
    BY <1>1, EscapedWords
  <2>3. e \in Texts /\ Len(e) = Len(text) /\ DOMAIN e = 1 .. Len(text)
    <3>1. \A i \in 1 .. Len(text) : e[i] \in Words
      BY <2>2
    <3>2. e = [i \in 1 .. Len(text) |-> e[i]]
      OBVIOUS
    <3> HIDE DEF e
    <3>3. e \in [1 .. Len(text) -> Words]
      BY <3>1, <3>2
    <3> QED  BY <1>1, <3>3, IsASeq DEF Texts
  <2>4. Unescape(e) = [i \in 1 .. Len(text) |->
                         IF e[i] \in Range(EscapedWord)
                           THEN AntiFunction(EscapedWord)[e[i]] ELSE e[i]]
    <3> HIDE DEF e
    <3> QED  BY <2>3, UnescapedWord DEF Unescape, Replace
  <2>5. \A i \in 1 .. Len(text) :
          (IF e[i] \in Range(EscapedWord)
             THEN AntiFunction(EscapedWord)[e[i]] ELSE e[i]) = text[i]
    BY <1>1, UnescapedWord
  <2>6. text = [i \in 1 .. Len(text) |-> text[i]]
    <3>1. text \in [1 .. Len(text) -> Words]
      BY LenProperties DEF Texts
    <3> QED  BY <3>1
  <2>7. Unescape(e) = text
    <3> HIDE DEF e
    <3> QED  BY <2>4, <2>5, <2>6
  <2> HIDE DEF e
  <2>8. Decode(e, mode) = text
    BY <1>3, <2>7 DEF Decode
  <2>9. \A i \in 1 .. Len(text) : /\ e[i] \notin Special
                                  /\ text[i] \notin Special => e[i] = text[i]
    BY <2>2, Zenon
  <2> QED  BY <1>3, <2>1, <2>3, <2>8, <2>9
<1> QED  BY <1>2, <1>3

-----------------------------------------------------------------------------
(* Recursive functions.                                                    *)

(* An induction over the naturals, for a set rather than a predicate: the  *)
(* least number outside it would have a predecessor in it.                 *)
LEMMA SetInduction ==
  ASSUME NEW G, 0 \in G, \A n \in Nat : n \in G => n + 1 \in G
  PROVE  \A n \in Nat : n \in G
<1> DEFINE T == {n \in Nat : n \notin G}
           R == {ss \in Nat \X Nat : ss[1] < ss[2]}
<1>1. SUFFICES ASSUME T # {} PROVE FALSE
  OBVIOUS
<1>2. IsWellFoundedOn(R, Nat)
  BY NatLessThanWellFounded, Zenon DEF OpToRel
<1>3. PICK x \in T : \A y \in T : <<y, x>> \notin R
  <2>1. T \subseteq Nat
    OBVIOUS
  <2> HIDE DEF T, R
  <2> QED  BY <1>1, <1>2, <2>1, WFMin
<1>4. \A y \in T : ~(y < x)
  BY <1>3
<1>5. x \in Nat /\ x # 0
  OBVIOUS
<1>6. x - 1 \in Nat /\ x - 1 \notin T
  BY <1>4, <1>5
<1> QED  BY <1>5, <1>6


Cat(s, t) == s \o t

(* Concat, by its recursion.                                               *)
ConcatStep(texts, g, n) ==
  IF n = 0 THEN << >>
  ELSE Cat(g[n - 1], texts[n])

ConcatsBy(texts, m, g) == g = [n \in 0 .. m |-> ConcatStep(texts, g, n)]

LEMMA ConcatExists ==
  ASSUME NEW texts
  PROVE  \A m \in Nat : \E g : ConcatsBy(texts, m, g)
<1> DEFINE G == {m \in Nat : \E g : ConcatsBy(texts, m, g)}
<1>1. 0 \in G
  <2> DEFINE g == [n \in 0 .. 0 |-> << >>]
  <2>1. ConcatsBy(texts, 0, g)
    BY DEF ConcatsBy, ConcatStep
  <2> QED  BY <2>1
<1>2. ASSUME NEW m \in Nat, m \in G
      PROVE  m + 1 \in G
  <2>1. PICK g : ConcatsBy(texts, m, g)
    BY <1>2
  <2> DEFINE h == [n \in 0 .. m + 1 |->
                     IF n = m + 1 THEN ConcatStep(texts, g, n) ELSE g[n]]
  <2>2. \A n \in 0 .. m : h[n] = g[n] /\ g[n] = ConcatStep(texts, g, n)
    BY <2>1 DEF ConcatsBy
  <2>3. h[m + 1] = ConcatStep(texts, g, m + 1)
    OBVIOUS
  <2>4. \A n \in 0 .. m + 1 : h[n] = ConcatStep(texts, h, n)
    <3>1. \A n \in 0 .. m + 1 : ConcatStep(texts, h, n) = ConcatStep(texts, g, n)
      <4>1. \A n \in 0 .. m + 1 : n # 0 => h[n - 1] = g[n - 1]
        BY <2>2
      <4> HIDE DEF h
      <4> QED  BY <4>1 DEF ConcatStep
    <3> HIDE DEF h
    <3> QED  BY <2>2, <2>3, <3>1
  <2>5. h = [n \in 0 .. m + 1 |-> h[n]]
    OBVIOUS
  <2> HIDE DEF h
  <2>6. ConcatsBy(texts, m + 1, h)
    BY <2>4, <2>5 DEF ConcatsBy
  <2> QED  BY <2>6
<1> HIDE DEF G
<1>3. \A m \in Nat : m \in G
  BY <1>1, <1>2, SetInduction
<1> QED  BY <1>3 DEF G

LEMMA ConcatUnfold ==
  ASSUME NEW texts, Len(texts) \in Nat
  PROVE  \E g : /\ g[0] = << >>
                /\ \A n \in 1 .. Len(texts) : g[n] = ConcatStep(texts, g, n)
                /\ Concat(texts) = g[Len(texts)]
<1> DEFINE g == CHOOSE h : ConcatsBy(texts, Len(texts), h)
<1>1. ConcatsBy(texts, Len(texts), g)
  BY ConcatExists
<1>2. Concat(texts) = g[Len(texts)]
  BY DEF Concat, ConcatsBy, ConcatStep, Cat
<1> HIDE DEF g
<1>3. \A n \in 0 .. Len(texts) : g[n] = ConcatStep(texts, g, n)
  BY <1>1 DEF ConcatsBy
<1>4. g[0] = << >>
  BY <1>3 DEF ConcatStep
<1>5. \A n \in 1 .. Len(texts) : g[n] = ConcatStep(texts, g, n)
  BY <1>3
<1> QED  BY <1>2, <1>4, <1>5


Cut(parts, word) ==
  IF word = Comma THEN Append(parts, << >>)
  ELSE [parts EXCEPT ![Len(parts)] = Append(@, word)]

(* Split, by its recursion.                                                *)
SplitStep(text, g, n) ==
  IF n = 0 THEN << << >> >>
  ELSE Cut(g[n - 1], text[n])

SplitsBy(text, m, g) == g = [n \in 0 .. m |-> SplitStep(text, g, n)]

LEMMA SplitExists ==
  ASSUME NEW text
  PROVE  \A m \in Nat : \E g : SplitsBy(text, m, g)
<1> DEFINE G == {m \in Nat : \E g : SplitsBy(text, m, g)}
<1>1. 0 \in G
  <2> DEFINE g == [n \in 0 .. 0 |-> << << >> >>]
  <2>1. SplitsBy(text, 0, g)
    BY DEF SplitsBy, SplitStep
  <2> QED  BY <2>1
<1>2. ASSUME NEW m \in Nat, m \in G
      PROVE  m + 1 \in G
  <2>1. PICK g : SplitsBy(text, m, g)
    BY <1>2
  <2> DEFINE h == [n \in 0 .. m + 1 |->
                     IF n = m + 1 THEN SplitStep(text, g, n) ELSE g[n]]
  <2>2. \A n \in 0 .. m : h[n] = g[n] /\ g[n] = SplitStep(text, g, n)
    BY <2>1 DEF SplitsBy
  <2>3. h[m + 1] = SplitStep(text, g, m + 1)
    OBVIOUS
  <2>4. \A n \in 0 .. m + 1 : h[n] = SplitStep(text, h, n)
    <3>1. \A n \in 0 .. m + 1 : SplitStep(text, h, n) = SplitStep(text, g, n)
      <4>1. \A n \in 0 .. m + 1 : n # 0 => h[n - 1] = g[n - 1]
        BY <2>2
      <4> HIDE DEF h
      <4> QED  BY <4>1 DEF SplitStep
    <3> HIDE DEF h
    <3> QED  BY <2>2, <2>3, <3>1
  <2>5. h = [n \in 0 .. m + 1 |-> h[n]]
    OBVIOUS
  <2> HIDE DEF h
  <2>6. SplitsBy(text, m + 1, h)
    BY <2>4, <2>5 DEF SplitsBy
  <2> QED  BY <2>6
<1> HIDE DEF G
<1>3. \A m \in Nat : m \in G
  BY <1>1, <1>2, SetInduction
<1> QED  BY <1>3 DEF G

LEMMA SplitUnfold ==
  ASSUME NEW text, Len(text) \in Nat
  PROVE  \E g : /\ g[0] = << << >> >>
                /\ \A n \in 1 .. Len(text) : g[n] = SplitStep(text, g, n)
                /\ Split(text) = g[Len(text)]
<1> DEFINE g == CHOOSE h : SplitsBy(text, Len(text), h)
<1>1. SplitsBy(text, Len(text), g)
  BY SplitExists
<1>2. Split(text) = g[Len(text)]
  BY DEF Split, SplitsBy, SplitStep, Cut
<1> HIDE DEF g
<1>3. \A n \in 0 .. Len(text) : g[n] = SplitStep(text, g, n)
  BY <1>1 DEF SplitsBy
<1>4. g[0] = << << >> >>
  BY <1>3 DEF SplitStep
<1>5. \A n \in 1 .. Len(text) : g[n] = SplitStep(text, g, n)
  BY <1>3
<1> QED  BY <1>2, <1>4, <1>5


(* Chosen, by its recursion.                                               *)
ChosenStep(list, places, g, n) ==
  IF n = 0 THEN << >>
  ELSE IF n \in places THEN Append(g[n - 1], list[n])
  ELSE g[n - 1]

ChosensBy(list, places, m, g) == g = [n \in 0 .. m |-> ChosenStep(list, places, g, n)]

LEMMA ChosenExists ==
  ASSUME NEW list, NEW places
  PROVE  \A m \in Nat : \E g : ChosensBy(list, places, m, g)
<1> DEFINE G == {m \in Nat : \E g : ChosensBy(list, places, m, g)}
<1>1. 0 \in G
  <2> DEFINE g == [n \in 0 .. 0 |-> << >>]
  <2>1. ChosensBy(list, places, 0, g)
    BY DEF ChosensBy, ChosenStep
  <2> QED  BY <2>1
<1>2. ASSUME NEW m \in Nat, m \in G
      PROVE  m + 1 \in G
  <2>1. PICK g : ChosensBy(list, places, m, g)
    BY <1>2
  <2> DEFINE h == [n \in 0 .. m + 1 |->
                     IF n = m + 1 THEN ChosenStep(list, places, g, n) ELSE g[n]]
  <2>2. \A n \in 0 .. m : h[n] = g[n] /\ g[n] = ChosenStep(list, places, g, n)
    BY <2>1 DEF ChosensBy
  <2>3. h[m + 1] = ChosenStep(list, places, g, m + 1)
    OBVIOUS
  <2>4. \A n \in 0 .. m + 1 : h[n] = ChosenStep(list, places, h, n)
    <3>1. \A n \in 0 .. m + 1 : ChosenStep(list, places, h, n) = ChosenStep(list, places, g, n)
      <4>1. \A n \in 0 .. m + 1 : n # 0 => h[n - 1] = g[n - 1]
        BY <2>2
      <4> HIDE DEF h
      <4> QED  BY <4>1 DEF ChosenStep
    <3> HIDE DEF h
    <3> QED  BY <2>2, <2>3, <3>1
  <2>5. h = [n \in 0 .. m + 1 |-> h[n]]
    OBVIOUS
  <2> HIDE DEF h
  <2>6. ChosensBy(list, places, m + 1, h)
    BY <2>4, <2>5 DEF ChosensBy
  <2> QED  BY <2>6
<1> HIDE DEF G
<1>3. \A m \in Nat : m \in G
  BY <1>1, <1>2, SetInduction
<1> QED  BY <1>3 DEF G

LEMMA ChosenUnfold ==
  ASSUME NEW list, NEW places, Len(list) \in Nat
  PROVE  \E g : /\ g[0] = << >>
                /\ \A n \in 1 .. Len(list) : g[n] = ChosenStep(list, places, g, n)
                /\ Chosen(list, places) = g[Len(list)]
<1> DEFINE g == CHOOSE h : ChosensBy(list, places, Len(list), h)
<1>1. ChosensBy(list, places, Len(list), g)
  BY ChosenExists
<1>2. Chosen(list, places) = g[Len(list)]
  BY DEF Chosen, ChosensBy, ChosenStep
<1> HIDE DEF g
<1>3. \A n \in 0 .. Len(list) : g[n] = ChosenStep(list, places, g, n)
  BY <1>1 DEF ChosensBy
<1>4. g[0] = << >>
  BY <1>3 DEF ChosenStep
<1>5. \A n \in 1 .. Len(list) : g[n] = ChosenStep(list, places, g, n)
  BY <1>3
<1> QED  BY <1>2, <1>4, <1>5

-----------------------------------------------------------------------------
(* Cutting a text at its commas.                                           *)

Free(text, word) == \A i \in 1 .. Len(text) : text[i] # word

Upto(text, k) == SubSeq(text, 1, k)

LEMMA UptoGrows ==
  ASSUME NEW S, NEW text \in Seq(S), NEW k \in Nat, k + 1 <= Len(text)
  PROVE  /\ Upto(text, k) \in Seq(S)
         /\ Append(Upto(text, k), text[k + 1]) = Upto(text, k + 1)
<1>1. Len(text) \in Nat
  BY LenProperties
<1>2. \A i \in 1 .. Len(text) : text[i] \in S
  BY ElementOfSeq
<1>3. /\ \A i \in 1 .. k : text[i] \in S
      /\ \A i \in 1 .. k + 1 : text[i] \in S
  BY <1>1, <1>2
<1>4. /\ Upto(text, k) \in Seq(S)
      /\ Len(Upto(text, k)) = k
      /\ \A i \in 1 .. k : Upto(text, k)[i] = text[i]
  <2>1. /\ SubSeq(text, 1, k) \in Seq(S)
        /\ Len(SubSeq(text, 1, k)) = IF 1 <= k THEN k - 1 + 1 ELSE 0
        /\ \A i \in 1 .. k - 1 + 1 : SubSeq(text, 1, k)[i] = text[1 + i - 1]
    BY <1>3, SubSeqProperties
  <2> QED  BY <2>1 DEF Upto
<1>5. /\ Upto(text, k + 1) \in Seq(S)
      /\ Len(Upto(text, k + 1)) = k + 1
      /\ \A i \in 1 .. k + 1 : Upto(text, k + 1)[i] = text[i]
  <2>1. /\ SubSeq(text, 1, k + 1) \in Seq(S)
        /\ Len(SubSeq(text, 1, k + 1))
             = IF 1 <= k + 1 THEN (k + 1) - 1 + 1 ELSE 0
        /\ \A i \in 1 .. (k + 1) - 1 + 1 :
             SubSeq(text, 1, k + 1)[i] = text[1 + i - 1]
    BY <1>3, SubSeqProperties
  <2> QED  BY <2>1 DEF Upto
<1>6. text[k + 1] \in S
  BY <1>1, <1>2
<1> HIDE DEF Upto
<1> DEFINE a == Append(Upto(text, k), text[k + 1])
<1>7. /\ a \in Seq(S)
      /\ Len(a) = k + 1
      /\ \A i \in 1 .. k : a[i] = text[i]
      /\ a[k + 1] = text[k + 1]
  BY <1>4, <1>6, AppendProperties
<1> HIDE DEF a
<1>8. \A i \in 1 .. Len(a) : a[i] = Upto(text, k + 1)[i]
  BY <1>5, <1>7
<1>9. a = Upto(text, k + 1)
  BY <1>5, <1>7, <1>8, SeqEqual
<1> QED  BY <1>4, <1>9 DEF a

LEMMA UptoEnds ==
  ASSUME NEW S, NEW text \in Seq(S)
  PROVE  Upto(text, 0) = << >> /\ Upto(text, Len(text)) = text
BY SubSeqEmpty, SubSeqFull DEF Upto

(* A word that is no comma goes to the last part.                          *)
LEMMA CutInside ==
  ASSUME NEW P \in Seq(Texts), NEW q \in Texts, NEW w \in Words, w # Comma
  PROVE  Cut(Append(P, q), w) = Append(P, Append(q, w))
<1> DEFINE s == Append(P, q)
           t == Append(P, Append(q, w))
<1>1. Append(q, w) \in Texts
  BY AppendProperties DEF Texts
<1>2. Len(P) \in Nat
  BY LenProperties
<1>3. /\ s \in Seq(Texts) /\ Len(s) = Len(P) + 1 /\ s[Len(P) + 1] = q
      /\ \A i \in 1 .. Len(P) : s[i] = P[i]
  BY AppendProperties
<1>4. /\ t \in Seq(Texts) /\ Len(t) = Len(P) + 1
      /\ t[Len(P) + 1] = Append(q, w)
      /\ \A i \in 1 .. Len(P) : t[i] = P[i]
  BY <1>1, AppendProperties
<1> HIDE DEF s, t
<1> DEFINE u == [s EXCEPT ![Len(s)] = Append(q, w)]
<1>5. Cut(s, w) = u
  <2>1. s[Len(s)] = q
    BY <1>3
  <2> QED  BY <2>1 DEF Cut
<1>6. Len(s) \in 1 .. Len(s)
  BY <1>2, <1>3
<1>7. /\ u \in Seq(Texts) /\ Len(u) = Len(s)
      /\ \A j \in 1 .. Len(s) :
           u[j] = IF j = Len(s) THEN Append(q, w) ELSE s[j]
  BY <1>1, <1>3, <1>6, ExceptSeq
<1> HIDE DEF u
<1>8. ASSUME NEW j \in 1 .. Len(u)
      PROVE  u[j] = t[j]
  <2>1. j \in 1 .. Len(P) \/ j = Len(P) + 1
    BY <1>2, <1>3, <1>7
  <2>2. CASE j = Len(P) + 1
    BY <1>3, <1>4, <1>7, <2>2
  <2>3. CASE j \in 1 .. Len(P)
    <3>1. j \in 1 .. Len(s) /\ j # Len(s)
      BY <1>2, <1>3, <2>3
    <3>2. u[j] = s[j]
      BY <1>7, <3>1
    <3> QED  BY <1>3, <1>4, <2>3, <3>2
  <2> QED  BY <2>1, <2>2, <2>3
<1>9. u = t
  BY <1>3, <1>4, <1>7, <1>8, SeqEqual
<1> QED  BY <1>5, <1>9 DEF s, t

(* A text without commas becomes the last part, behind those of P.         *)
LEMMA LastPart ==
  ASSUME NEW P \in Seq(Texts), NEW b \in Texts, Free(b, Comma),
         NEW g, NEW p \in Nat, g[p] = Append(P, << >>),
         \A k \in 1 .. Len(b) : g[p + k] = Cut(g[p + k - 1], b[k])
  PROVE  g[p + Len(b)] = Append(P, b)
<1> DEFINE G == {k \in Nat : k <= Len(b) => g[p + k] = Append(P, Upto(b, k))}
<1>1. Len(b) \in Nat /\ \A i \in 1 .. Len(b) : b[i] \in Words
  BY LenProperties, ElementOfSeq DEF Texts
<1>2. 0 \in G
  <2>1. p + 0 = p
    OBVIOUS
  <2> QED  BY <2>1, UptoEnds DEF Texts
<1>3. ASSUME NEW k \in Nat, k \in G
      PROVE  k + 1 \in G
  <2>1. SUFFICES ASSUME k + 1 <= Len(b)
                 PROVE  g[p + (k + 1)] = Append(P, Upto(b, k + 1))
    OBVIOUS
  <2>2. g[p + k] = Append(P, Upto(b, k))
    BY <1>1, <1>3, <2>1
  <2>3. k + 1 \in 1 .. Len(b) /\ p + (k + 1) - 1 = p + k
    BY <1>1, <2>1
  <2>4. g[p + (k + 1)] = Cut(g[p + k], b[k + 1])
    <3>1. g[p + (k + 1)] = Cut(g[p + (k + 1) - 1], b[k + 1])
      BY <2>3
    <3> QED  BY <2>3, <3>1
  <2>5. b[k + 1] \in Words /\ b[k + 1] # Comma
    BY <1>1, <2>3 DEF Free
  <2>6. /\ Upto(b, k) \in Texts
        /\ Append(Upto(b, k), b[k + 1]) = Upto(b, k + 1)
    BY <2>1, UptoGrows DEF Texts
  <2>7. Cut(Append(P, Upto(b, k)), b[k + 1])
          = Append(P, Append(Upto(b, k), b[k + 1]))
    BY <2>5, <2>6, CutInside
  <2> QED  BY <2>2, <2>4, <2>6, <2>7
<1> HIDE DEF G
<1>4. Len(b) \in G
  BY <1>1, <1>2, <1>3, SetInduction
<1> QED  BY <1>1, <1>4, UptoEnds DEF G, Texts

LEMMA CutTyped ==
  ASSUME NEW s \in Seq(Texts), Len(s) # 0, NEW w \in Words
  PROVE  Cut(s, w) \in Seq(Texts) /\ Len(Cut(s, w)) # 0
<1>1. Len(s) \in Nat /\ Len(s) \in 1 .. Len(s)
  BY LenProperties
<1>2. CASE w = Comma
  <2>1. << >> \in Texts
    BY EmptySeq DEF Texts
  <2>2. Append(s, << >>) \in Seq(Texts) /\ Len(Append(s, << >>)) = Len(s) + 1
    BY <2>1, AppendProperties
  <2>3. Cut(s, w) = Append(s, << >>)
    BY <1>2 DEF Cut
  <2> QED  BY <1>1, <2>2, <2>3
<1>3. CASE w # Comma
  <2>1. s[Len(s)] \in Texts
    BY <1>1, ElementOfSeq
  <2>2. Append(s[Len(s)], w) \in Texts
    BY <2>1, AppendProperties DEF Texts
  <2>3. Cut(s, w) = [s EXCEPT ![Len(s)] = Append(s[Len(s)], w)]
    BY <1>3 DEF Cut
  <2> QED  BY <1>1, <2>2, <2>3, ExceptSeq
<1> QED  BY <1>2, <1>3

(* The parts of a text.                                                    *)
LEMMA SplitTyped ==
  ASSUME NEW text \in Texts
  PROVE  Split(text) \in Seq(Texts) /\ Len(Split(text)) # 0
<1>1. Len(text) \in Nat /\ \A i \in 1 .. Len(text) : text[i] \in Words
  BY LenProperties, ElementOfSeq DEF Texts
<1>2. PICK g : /\ g[0] = << << >> >>
               /\ \A n \in 1 .. Len(text) : g[n] = SplitStep(text, g, n)
               /\ Split(text) = g[Len(text)]
  BY <1>1, SplitUnfold
<1> DEFINE G == {n \in Nat : n <= Len(text) =>
                               g[n] \in Seq(Texts) /\ Len(g[n]) # 0}
<1>3. 0 \in G
  <2> DEFINE e == << >>
  <2>1. e \in Texts /\ e \in Seq(Texts) /\ Len(e) = 0
    BY EmptySeq DEF Texts
  <2>2. g[0] = Append(e, e)
    BY <1>2
  <2> HIDE DEF e
  <2>3. Append(e, e) \in Seq(Texts) /\ Len(Append(e, e)) = Len(e) + 1
    BY <2>1, AppendProperties
  <2>4. g[0] \in Seq(Texts) /\ Len(g[0]) # 0
    BY <2>1, <2>2, <2>3
  <2> QED  BY <2>4
<1>4. ASSUME NEW n \in Nat, n \in G
      PROVE  n + 1 \in G
  <2>1. SUFFICES ASSUME n + 1 <= Len(text)
                 PROVE  g[n + 1] \in Seq(Texts) /\ Len(g[n + 1]) # 0
    OBVIOUS
  <2>2. g[n] \in Seq(Texts) /\ Len(g[n]) # 0
    BY <1>1, <1>4, <2>1
  <2>3. n + 1 \in 1 .. Len(text) /\ text[n + 1] \in Words
    BY <1>1, <2>1
  <2>4. g[n + 1] = Cut(g[n], text[n + 1])
    BY <1>2, <2>3 DEF SplitStep
  <2> DEFINE s == g[n]
             w == text[n + 1]
  <2>5. s \in Seq(Texts) /\ Len(s) # 0 /\ Len(s) \in Nat
    BY <2>2, LenProperties
  <2>6. w \in Words
    BY <2>3
  <2> HIDE DEF s, w
  <2> QED  BY <2>4, <2>5, <2>6, CutTyped DEF s, w
<1> HIDE DEF G
<1>5. Len(text) \in G
  BY <1>1, <1>3, <1>4, SetInduction
<1> QED  BY <1>1, <1>2, <1>5 DEF G

(* A text without commas is one part.                                      *)
LEMMA SplitFree ==
  ASSUME NEW b \in Texts, Free(b, Comma)
  PROVE  Split(b) = <<b>>
<1>1. Len(b) \in Nat
  BY LenProperties DEF Texts
<1>2. PICK g : /\ g[0] = << << >> >>
               /\ \A n \in 1 .. Len(b) : g[n] = SplitStep(b, g, n)
               /\ Split(b) = g[Len(b)]
  BY <1>1, SplitUnfold
<1>3. << >> \in Seq(Texts) /\ g[0] = Append(<< >>, << >>)
  BY <1>2, EmptySeq
<1>4. \A k \in 1 .. Len(b) : g[0 + k] = Cut(g[0 + k - 1], b[k])
  BY <1>1, <1>2 DEF SplitStep
<1>5. g[0 + Len(b)] = Append(<< >>, b)
  BY <1>3, <1>4, LastPart
<1> QED  BY <1>1, <1>2, <1>5

(* What is cut behind the parts of P does not change them.                 *)
LEMMA CutBehind ==
  ASSUME NEW P \in Seq(Texts), NEW H \in Seq(Texts), Len(H) # 0, NEW w \in Words
  PROVE  Cat(P, Cut(H, w)) = Cut(Cat(P, H), w)
<1>1. Len(P) \in Nat /\ Len(H) \in Nat /\ Len(H) \in 1 .. Len(H)
  BY LenProperties
<1> DEFINE C == Cat(P, H)
<1>2. /\ C \in Seq(Texts) /\ Len(C) = Len(P) + Len(H)
      /\ \A i \in 1 .. Len(P) + Len(H) :
           C[i] = IF i <= Len(P) THEN P[i] ELSE H[i - Len(P)]
  BY ConcatProperties DEF Cat
<1> HIDE DEF C
<1>3. CASE w = Comma
  <2> DEFINE e == << >>
  <2>1. e \in Texts
    BY EmptySeq DEF Texts
  <2>2. Cut(H, w) = Append(H, e) /\ Cut(C, w) = Append(C, e)
    BY <1>3 DEF Cut
  <2> HIDE DEF e
  <2> DEFINE A == Append(H, e)
             B == Append(C, e)
             D == Cat(P, A)
  <2>3. /\ A \in Seq(Texts) /\ Len(A) = Len(H) + 1 /\ A[Len(H) + 1] = e
        /\ \A i \in 1 .. Len(H) : A[i] = H[i]
    BY <2>1, AppendProperties
  <2>4. /\ B \in Seq(Texts) /\ Len(B) = Len(C) + 1 /\ B[Len(C) + 1] = e
        /\ \A i \in 1 .. Len(C) : B[i] = C[i]
    <3>1. C \in Seq(Texts)
      BY <1>2
    <3> QED  BY <2>1, <3>1, AppendProperties
  <2> HIDE DEF A, B
  <2>5. /\ D \in Seq(Texts) /\ Len(D) = Len(P) + Len(A)
        /\ \A i \in 1 .. Len(P) + Len(A) :
             D[i] = IF i <= Len(P) THEN P[i] ELSE A[i - Len(P)]
    BY <2>3, ConcatProperties DEF Cat
  <2> HIDE DEF D
  <2>6. ASSUME NEW i \in 1 .. Len(D)
        PROVE  D[i] = B[i]
    <3>1. i \in 1 .. Len(P) + Len(A) /\ Len(C) = Len(P) + Len(H)
      BY <1>1, <1>2, <2>5
    <3>2. CASE i <= Len(P)
      <4>1. i \in 1 .. Len(C) /\ i \in 1 .. Len(P) + Len(H)
        BY <1>1, <3>1, <3>2
      <4> QED  BY <1>2, <2>4, <2>5, <3>1, <3>2, <4>1
    <3>3. CASE ~(i <= Len(P)) /\ i <= Len(C)
      <4>1. /\ i \in 1 .. Len(C) /\ i \in 1 .. Len(P) + Len(H)
            /\ i - Len(P) \in 1 .. Len(H)
        BY <1>1, <3>1, <3>3
      <4> QED  BY <1>2, <2>3, <2>4, <2>5, <3>1, <3>3, <4>1
    <3>4. CASE i = Len(C) + 1
      <4>1. i - Len(P) = Len(H) + 1 /\ ~(i <= Len(P))
        BY <1>1, <3>1, <3>4
      <4> QED  BY <2>3, <2>4, <2>5, <3>1, <3>4, <4>1
    <3>5. i <= Len(P) \/ (~(i <= Len(P)) /\ i <= Len(C)) \/ i = Len(C) + 1
      BY <1>1, <2>3, <3>1
    <3> QED  BY <3>2, <3>3, <3>4, <3>5
  <2>7. Len(D) = Len(B)
    BY <1>1, <1>2, <2>3, <2>4, <2>5
  <2>8. D = B
    BY <2>4, <2>5, <2>6, <2>7, SeqEqual
  <2> QED  BY <2>2, <2>8 DEF A, B, C, D
<1>4. CASE w # Comma
  <2> DEFINE q == Append(H[Len(H)], w)
             A == [H EXCEPT ![Len(H)] = q]
             B == [C EXCEPT ![Len(C)] = q]
             D == Cat(P, A)
  <2>1. C[Len(C)] = H[Len(H)] /\ Len(C) \in 1 .. Len(C) /\ Len(C) \in Nat
    <3> DEFINE n == Len(P) + Len(H)
    <3>1. /\ n \in 1 .. n /\ n \in Nat /\ ~(n <= Len(P))
          /\ n - Len(P) = Len(H) /\ Len(C) = n
      BY <1>1, <1>2
    <3>2. C[n] = H[n - Len(P)]
      BY <1>2, <3>1
    <3> HIDE DEF n
    <3> QED  BY <3>1, <3>2
  <2>2. Cut(H, w) = A /\ Cut(C, w) = B
    BY <1>4, <2>1 DEF Cut
  <2>3. q \in Texts
    <3>1. H[Len(H)] \in Texts
      BY <1>1, ElementOfSeq
    <3> QED  BY <3>1, AppendProperties DEF Texts
  <2> HIDE DEF q
  <2>4. /\ A \in Seq(Texts) /\ Len(A) = Len(H)
        /\ \A j \in 1 .. Len(H) : A[j] = IF j = Len(H) THEN q ELSE H[j]
    BY <1>1, <2>3, ExceptSeq
  <2>5. /\ B \in Seq(Texts) /\ Len(B) = Len(C)
        /\ \A j \in 1 .. Len(C) : B[j] = IF j = Len(C) THEN q ELSE C[j]
    BY <1>2, <2>1, <2>3, ExceptSeq
  <2> HIDE DEF A, B
  <2>6. /\ D \in Seq(Texts) /\ Len(D) = Len(P) + Len(A)
        /\ \A i \in 1 .. Len(P) + Len(A) :
             D[i] = IF i <= Len(P) THEN P[i] ELSE A[i - Len(P)]
    BY <2>4, ConcatProperties DEF Cat
  <2> HIDE DEF D
  <2>7. ASSUME NEW i \in 1 .. Len(D)
        PROVE  D[i] = B[i]
    <3>1. /\ i \in 1 .. Len(P) + Len(A) /\ i \in 1 .. Len(C)
          /\ i \in 1 .. Len(P) + Len(H) /\ Len(C) = Len(P) + Len(H)
      BY <1>1, <1>2, <2>4, <2>6
    <3>2. CASE i <= Len(P)
      <4>1. i # Len(C)
        BY <1>1, <3>1, <3>2
      <4> QED  BY <1>2, <2>5, <2>6, <3>1, <3>2, <4>1
    <3>3. CASE ~(i <= Len(P))
      <4>1. i - Len(P) \in 1 .. Len(H) /\ (i - Len(P) = Len(H) <=> i = Len(C))
        BY <1>1, <3>1, <3>3
      <4> QED  BY <1>2, <2>4, <2>5, <2>6, <3>1, <3>3, <4>1
    <3> QED  BY <3>2, <3>3
  <2>8. Len(D) = Len(B)
    BY <1>2, <2>4, <2>5, <2>6
  <2>9. D = B
    BY <2>5, <2>6, <2>7, <2>8, SeqEqual
  <2> QED  BY <2>2, <2>9 DEF A, B, C, D
<1> QED  BY <1>3, <1>4

(* A comma keeps the parts on its two sides apart.                         *)
LEMMA SplitBoth ==
  ASSUME NEW a \in Texts, NEW b \in Texts
  PROVE  /\ a \o (<<Comma>> \o b) \in Texts
         /\ Split(a \o (<<Comma>> \o b)) = Cat(Split(a), Split(b))
<1> DEFINE c == <<Comma>> \o b
           t == a \o c
           p == Len(a) + 1
<1>1. Len(a) \in Nat /\ Len(b) \in Nat
  BY LenProperties DEF Texts
<1>2. <<Comma>> \in Seq(Words)
  BY WordsDiffer DEF Special
<1>3. /\ c \in Seq(Words) /\ Len(c) = 1 + Len(b)
      /\ \A i \in 1 .. 1 + Len(b) :
           c[i] = IF i <= 1 THEN Comma ELSE b[i - 1]
  BY <1>2, ConcatProperties DEF Texts
<1> HIDE DEF c
<1>4. /\ t \in Seq(Words) /\ Len(t) = Len(a) + Len(c)
      /\ \A i \in 1 .. Len(a) + Len(c) :
           t[i] = IF i <= Len(a) THEN a[i] ELSE c[i - Len(a)]
  BY <1>3, ConcatProperties DEF Texts
<1> HIDE DEF t
<1>5. /\ Len(t) = p + Len(b)
      /\ \A i \in 1 .. Len(a) : t[i] = a[i]
      /\ t[p] = Comma
      /\ \A k \in 1 .. Len(b) : t[p + k] = b[k]
  <2>1. Len(t) = p + Len(b)
    BY <1>1, <1>3, <1>4
  <2>2. ASSUME NEW i \in 1 .. Len(a)
        PROVE  t[i] = a[i]
    <3>1. i \in 1 .. Len(a) + Len(c) /\ i <= Len(a)
      BY <1>1, <1>3
    <3> QED  BY <1>4, <3>1
  <2>3. t[p] = Comma
    <3>1. p \in 1 .. Len(a) + Len(c) /\ ~(p <= Len(a)) /\ p - Len(a) = 1
      BY <1>1, <1>3
    <3>2. t[p] = c[1]
      BY <1>4, <3>1
    <3>3. 1 \in 1 .. 1 + Len(b)
      BY <1>1
    <3> QED  BY <1>3, <3>2, <3>3
  <2>4. ASSUME NEW k \in 1 .. Len(b)
        PROVE  t[p + k] = b[k]
    <3>1. /\ p + k \in 1 .. Len(a) + Len(c) /\ ~(p + k <= Len(a))
          /\ p + k - Len(a) = k + 1
          /\ k + 1 \in 1 .. 1 + Len(b) /\ ~(k + 1 <= 1) /\ k + 1 - 1 = k
      BY <1>1, <1>3
    <3>2. t[p + k] = c[k + 1]
      BY <1>4, <3>1
    <3>3. c[k + 1] = b[k]
      BY <1>3, <3>1
    <3> QED  BY <3>2, <3>3
  <2> QED  BY <2>1, <2>2, <2>3, <2>4
<1>6. Len(t) \in Nat /\ p \in Nat
  BY <1>1, <1>5
<1>7. PICK h : /\ h[0] = << << >> >>
               /\ \A n \in 1 .. Len(a) : h[n] = SplitStep(a, h, n)
               /\ Split(a) = h[Len(a)]
  BY <1>1, SplitUnfold
<1>8. PICK g : /\ g[0] = << << >> >>
               /\ \A n \in 1 .. Len(t) : g[n] = SplitStep(t, g, n)
               /\ Split(t) = g[Len(t)]
  BY <1>6, SplitUnfold
<1> DEFINE G == {n \in Nat : n <= Len(a) => g[n] = h[n]}
<1>9. 0 \in G
  BY <1>7, <1>8
<1>10. ASSUME NEW n \in Nat, n \in G
       PROVE  n + 1 \in G
  <2>1. SUFFICES ASSUME n + 1 <= Len(a) PROVE g[n + 1] = h[n + 1]
    OBVIOUS
  <2>2. g[n] = h[n]
    BY <1>1, <1>10, <2>1
  <2>3. /\ n + 1 \in 1 .. Len(a) /\ n + 1 \in 1 .. Len(t)
        /\ n + 1 - 1 = n /\ n + 1 # 0
    BY <1>1, <1>5, <2>1
  <2>4. t[n + 1] = a[n + 1]
    BY <1>5, <2>3
  <2>5. g[n + 1] = Cut(g[n], t[n + 1])
    BY <1>8, <2>3 DEF SplitStep
  <2>6. h[n + 1] = Cut(h[n], a[n + 1])
    BY <1>7, <2>3 DEF SplitStep
  <2> QED  BY <2>2, <2>4, <2>5, <2>6
<1> HIDE DEF G
<1>11. Len(a) \in G
  BY <1>1, <1>9, <1>10, SetInduction
<1>12. g[Len(a)] = Split(a)
  BY <1>1, <1>7, <1>11 DEF G
<1>13. g[p] = Append(Split(a), << >>)
  <2>1. p \in 1 .. Len(t) /\ p - 1 = Len(a) /\ p # 0
    BY <1>1, <1>5
  <2>2. g[p] = Cut(g[Len(a)], t[p])
    BY <1>8, <2>1 DEF SplitStep
  <2> QED  BY <1>5, <1>12, <2>2 DEF Cut
<1>14. PICK f : /\ f[0] = << << >> >>
                /\ \A k \in 1 .. Len(b) : f[k] = SplitStep(b, f, k)
                /\ Split(b) = f[Len(b)]
  BY <1>1, SplitUnfold
<1> DEFINE F == {k \in Nat : k <= Len(b) =>
                   /\ f[k] \in Seq(Texts) /\ Len(f[k]) # 0
                   /\ g[p + k] = Cat(Split(a), f[k])}
<1>15. 0 \in F
  <2> DEFINE e == << >>
             s == Split(a)
             d == << e >>
  <2>1. e \in Texts /\ e \in Seq(Texts) /\ Len(e) = 0 /\ s \in Seq(Texts)
    BY EmptySeq, SplitTyped DEF Texts
  <2>2. f[0] = d /\ g[p + 0] = Append(s, e)
    BY <1>6, <1>13, <1>14
  <2> HIDE DEF e, s
  <2>3. d \in Seq(Texts) /\ Len(d) = 1
    BY <2>1
  <2>4. Append(s, e) = Cat(s, d)
    BY <2>1, AppendIsConcat DEF Cat
  <2> HIDE DEF d
  <2>5. Len(f[0]) # 0 /\ f[0] \in Seq(Texts) /\ g[p + 0] = Cat(s, f[0])
    BY <2>2, <2>3, <2>4
  <2> QED  BY <2>5 DEF s
<1>16. ASSUME NEW k \in Nat, k \in F
       PROVE  k + 1 \in F
  <2>1. SUFFICES ASSUME k + 1 <= Len(b)
                 PROVE  /\ f[k + 1] \in Seq(Texts) /\ Len(f[k + 1]) # 0
                        /\ g[p + (k + 1)] = Cat(Split(a), f[k + 1])
    OBVIOUS
  <2>2. /\ f[k] \in Seq(Texts) /\ Len(f[k]) # 0
        /\ g[p + k] = Cat(Split(a), f[k])
    BY <1>1, <1>16, <2>1
  <2>3. /\ k + 1 \in 1 .. Len(b) /\ p + (k + 1) \in 1 .. Len(t)
        /\ p + (k + 1) - 1 = p + k /\ k + 1 - 1 = k
        /\ p + (k + 1) # 0 /\ k + 1 # 0
    BY <1>1, <1>5, <2>1
  <2> DEFINE w == b[k + 1]
             s == f[k]
  <2>4. w \in Words
    BY <2>3, ElementOfSeq DEF Texts
  <2>5. g[p + (k + 1)] = Cut(g[p + k], t[p + (k + 1)])
    BY <1>8, <2>3 DEF SplitStep
  <2>6. t[p + (k + 1)] = w
    BY <1>5, <2>3
  <2>7. f[k + 1] = Cut(s, w)
    BY <1>14, <2>3 DEF SplitStep
  <2>8. s \in Seq(Texts) /\ Len(s) # 0 /\ g[p + k] = Cat(Split(a), s)
    BY <2>2
  <2> HIDE DEF w, s
  <2>9. Cut(s, w) \in Seq(Texts) /\ Len(Cut(s, w)) # 0
    BY <2>4, <2>8, CutTyped
  <2>10. Cat(Split(a), Cut(s, w)) = Cut(Cat(Split(a), s), w)
    BY <2>4, <2>8, CutBehind, SplitTyped
  <2> QED  BY <2>5, <2>6, <2>7, <2>8, <2>9, <2>10
<1> HIDE DEF F
<1>17. Len(b) \in F
  BY <1>1, <1>15, <1>16, SetInduction
<1>18. g[p + Len(b)] = Cat(Split(a), Split(b))
  BY <1>1, <1>14, <1>17 DEF F
<1> QED  BY <1>4, <1>5, <1>8, <1>18 DEF t, c, Texts

(* A comma and a text without commas add one part.                         *)
LEMMA SplitCat ==
  ASSUME NEW a \in Texts, NEW b \in Texts, Free(b, Comma)
  PROVE  /\ a \o (<<Comma>> \o b) \in Texts
         /\ Split(a \o (<<Comma>> \o b)) = Append(Split(a), b)
<1> DEFINE s == Split(a)
<1>1. s \in Seq(Texts) /\ Split(b) = <<b>>
  BY SplitTyped, SplitFree
<1>2. Split(a \o (<<Comma>> \o b)) = Cat(s, <<b>>)
  BY <1>1, SplitBoth
<1> HIDE DEF s
<1>3. Append(s, b) = Cat(s, <<b>>)
  BY <1>1, AppendIsConcat DEF Cat
<1> QED  BY <1>2, <1>3, SplitBoth DEF s

-----------------------------------------------------------------------------
(* Joining texts, and cutting what was joined.                             *)

LEMMA ConcatBuilt ==
  ASSUME NEW texts \in Seq(Texts)
  PROVE  \E g : /\ g[0] = << >>
                /\ \A n \in 1 .. Len(texts) : g[n] = Cat(g[n - 1], texts[n])
                /\ \A n \in 0 .. Len(texts) : g[n] \in Texts
                /\ Concat(texts) = g[Len(texts)]
<1>1. Len(texts) \in Nat /\ \A n \in 1 .. Len(texts) : texts[n] \in Texts
  BY LenProperties, ElementOfSeq
<1>2. PICK g : /\ g[0] = << >>
               /\ \A n \in 1 .. Len(texts) : g[n] = ConcatStep(texts, g, n)
               /\ Concat(texts) = g[Len(texts)]
  BY <1>1, ConcatUnfold
<1>3. \A n \in 1 .. Len(texts) : g[n] = Cat(g[n - 1], texts[n])
  BY <1>1, <1>2 DEF ConcatStep
<1> DEFINE G == {n \in Nat : n <= Len(texts) => g[n] \in Texts}
<1>4. 0 \in G
  BY <1>2, EmptySeq DEF Texts
<1>5. ASSUME NEW n \in Nat, n \in G
      PROVE  n + 1 \in G
  <2>1. SUFFICES ASSUME n + 1 <= Len(texts) PROVE g[n + 1] \in Texts
    OBVIOUS
  <2>2. g[n] \in Texts
    BY <1>1, <1>5, <2>1
  <2>3. n + 1 \in 1 .. Len(texts) /\ n + 1 - 1 = n
    BY <1>1, <2>1
  <2>4. g[n + 1] = Cat(g[n], texts[n + 1]) /\ texts[n + 1] \in Texts
    BY <1>1, <1>3, <2>3
  <2>5. Cat(g[n], texts[n + 1]) \in Texts
    BY <2>2, <2>4, ConcatProperties DEF Texts, Cat
  <2> QED  BY <2>4, <2>5
<1> HIDE DEF G
<1>6. \A n \in Nat : n \in G
  BY <1>4, <1>5, SetInduction
<1>7. \A n \in 0 .. Len(texts) : g[n] \in Texts
  BY <1>1, <1>6 DEF G
<1> QED  BY <1>2, <1>3, <1>7

(* The parts that a text joined with a comma and some padding has.         *)
Padded(texts, pad) ==
  [i \in 1 .. Len(texts) |-> IF i > 1 THEN pad \o texts[i] ELSE texts[i]]

LEMMA PaddedTyped ==
  ASSUME NEW texts \in Seq(Texts), NEW pad \in Texts
  PROVE  /\ Padded(texts, pad) \in Seq(Texts)
         /\ Len(Padded(texts, pad)) = Len(texts)
         /\ \A i \in 1 .. Len(texts) :
              Padded(texts, pad)[i] = IF i > 1 THEN pad \o texts[i] ELSE texts[i]
<1> DEFINE p == [i \in 1 .. Len(texts) |->
                   IF i > 1 THEN pad \o texts[i] ELSE texts[i]]
<1>1. Len(texts) \in Nat /\ \A i \in 1 .. Len(texts) : texts[i] \in Texts
  BY LenProperties, ElementOfSeq
<1>2. \A i \in 1 .. Len(texts) : pad \o texts[i] \in Texts
  BY <1>1, ConcatProperties DEF Texts
<1>3. \A i \in 1 .. Len(texts) :
        (IF i > 1 THEN pad \o texts[i] ELSE texts[i]) \in Texts
  BY <1>1, <1>2
<1>4. p \in [1 .. Len(texts) -> Texts]
  BY <1>3
<1>5. \A i \in 1 .. Len(texts) :
        p[i] = IF i > 1 THEN pad \o texts[i] ELSE texts[i]
  OBVIOUS
<1> HIDE DEF p
<1>6. p \in Seq(Texts) /\ Len(p) = Len(texts)
  BY <1>1, <1>4
<1> QED  BY <1>5, <1>6 DEF p, Padded

(* A joined text is the first one, and the others each behind a comma and  *)
(* the padding.                                                            *)
LEMMA JoinBuilt ==
  ASSUME NEW texts \in Seq(Texts), Len(texts) # 0, NEW pad \in Texts
  PROVE  \E g : /\ g[1] = texts[1]
                /\ \A m \in Nat \ {0} : m + 1 <= Len(texts) =>
                     g[m + 1] = g[m] \o (<<Comma>> \o (pad \o texts[m + 1]))
                /\ \A m \in 1 .. Len(texts) : g[m] \in Texts
                /\ Join(texts, <<Comma>> \o pad) = g[Len(texts)]
<1> DEFINE separator == <<Comma>> \o pad
           pieces == [i \in DOMAIN texts |->
                        (IF i > 1 THEN separator ELSE << >>) \o texts[i]]
<1>1. /\ Len(texts) \in Nat
      /\ DOMAIN texts = 1 .. Len(texts)
      /\ \A i \in 1 .. Len(texts) : texts[i] \in Texts
  BY LenProperties, ElementOfSeq
<1>2. << >> \in Texts /\ <<Comma>> \in Texts /\ separator \in Texts
  <2>1. <<Comma>> \in Texts
    BY WordsDiffer DEF Special, Texts
  <2>2. separator \in Texts
    BY <2>1, ConcatProperties DEF Texts
  <2> QED  BY <2>1, <2>2, EmptySeq DEF Texts
<1>4. /\ pieces \in Seq(Texts)
      /\ Len(pieces) = Len(texts)
      /\ \A i \in 1 .. Len(texts) :
           pieces[i] = IF i > 1 THEN <<Comma>> \o (pad \o texts[i]) ELSE texts[i]
  <2>1. ASSUME NEW i \in 1 .. Len(texts)
        PROVE  /\ (IF i > 1 THEN separator ELSE << >>) \o texts[i] \in Texts
               /\ (IF i > 1 THEN separator ELSE << >>) \o texts[i]
                    = IF i > 1 THEN <<Comma>> \o (pad \o texts[i]) ELSE texts[i]
    <3>1. texts[i] \in Texts
      BY <1>1
    <3>2. CASE i > 1
      <4>1. separator \o texts[i] = <<Comma>> \o (pad \o texts[i])
        <5>1. \A x \in Texts :
                (<<Comma>> \o pad) \o x = <<Comma>> \o (pad \o x)
          BY <1>2, ConcatAssociative DEF Texts
        <5> QED  BY <3>1, <5>1, Zenon
      <4> HIDE DEF separator
      <4>2. separator \o texts[i] \in Texts
        BY <1>2, <3>1, ConcatProperties DEF Texts
      <4> QED  BY <3>2, <4>1, <4>2
    <3>3. CASE ~(i > 1)
      <4>1. << >> \o texts[i] = texts[i]
        BY <3>1, ConcatEmptySeq DEF Texts
      <4> QED  BY <3>1, <3>3, <4>1
    <3> QED  BY <3>2, <3>3
  <2> HIDE DEF separator
  <2>2. \A i \in 1 .. Len(texts) :
          pieces[i] = (IF i > 1 THEN separator ELSE << >>) \o texts[i]
    BY <1>1
  <2>3. pieces \in [1 .. Len(texts) -> Texts]
    BY <1>1, <2>1
  <2> HIDE DEF pieces
  <2>4. pieces \in Seq(Texts) /\ Len(pieces) = Len(texts)
    BY <1>1, <2>3
  <2> QED  BY <2>1, <2>2, <2>4
<1>5. Join(texts, separator) = Concat(pieces)
  BY DEF Join
<1> HIDE DEF pieces, separator
<1>6. PICK g : /\ g[0] = << >>
               /\ \A n \in 1 .. Len(pieces) : g[n] = Cat(g[n - 1], pieces[n])
               /\ \A n \in 0 .. Len(pieces) : g[n] \in Texts
               /\ Concat(pieces) = g[Len(pieces)]
  BY <1>4, ConcatBuilt
<1>7. g[1] = texts[1]
  <2>1. 1 \in 1 .. Len(texts) /\ 1 - 1 = 0 /\ ~(1 > 1)
    BY <1>1
  <2>2. g[1] = Cat(<< >>, texts[1])
    BY <1>4, <1>6, <2>1
  <2> QED  BY <1>1, <2>1, <2>2, ConcatEmptySeq DEF Texts, Cat
<1>8. ASSUME NEW m \in Nat \ {0}, m + 1 <= Len(texts)
      PROVE  g[m + 1] = g[m] \o (<<Comma>> \o (pad \o texts[m + 1]))
  <2>1. /\ m + 1 \in 1 .. Len(texts) /\ m + 1 > 1 /\ (m + 1) - 1 = m
        /\ m + 1 \in 1 .. Len(pieces)
    BY <1>1, <1>4, <1>8
  <2>2. g[m + 1] = Cat(g[m], pieces[m + 1])
    BY <1>6, <2>1
  <2>3. pieces[m + 1] = <<Comma>> \o (pad \o texts[m + 1])
    BY <1>4, <2>1
  <2> QED  BY <2>2, <2>3 DEF Cat
<1>9. \A m \in 1 .. Len(texts) : g[m] \in Texts
  BY <1>1, <1>4, <1>6
<1> QED  BY <1>4, <1>5, <1>6, <1>7, <1>8, <1>9 DEF separator

LEMMA SplitJoin ==
  ASSUME NEW texts \in Seq(Texts), Len(texts) # 0, NEW pad \in Texts,
         Free(pad, Comma), \A i \in 1 .. Len(texts) : Free(texts[i], Comma)
  PROVE  /\ Join(texts, <<Comma>> \o pad) \in Texts
         /\ Split(Join(texts, <<Comma>> \o pad)) = Padded(texts, pad)
<1> DEFINE separator == <<Comma>> \o pad
           P == Padded(texts, pad)
<1>1. /\ Len(texts) \in Nat
      /\ \A i \in 1 .. Len(texts) : texts[i] \in Texts
  BY LenProperties, ElementOfSeq
<1>3. /\ P \in Seq(Texts)
      /\ Len(P) = Len(texts)
      /\ \A i \in 1 .. Len(texts) : P[i] = IF i > 1 THEN pad \o texts[i] ELSE texts[i]
  BY PaddedTyped
<1> HIDE DEF P
<1>6. PICK g : /\ g[1] = texts[1]
               /\ \A m \in Nat \ {0} : m + 1 <= Len(texts) =>
                    g[m + 1] = g[m] \o (<<Comma>> \o (pad \o texts[m + 1]))
               /\ \A m \in 1 .. Len(texts) : g[m] \in Texts
               /\ Join(texts, separator) = g[Len(texts)]
  BY JoinBuilt
<1> HIDE DEF separator
<1> DEFINE G == {n \in Nat : n + 1 <= Len(texts) =>
                                Split(g[n + 1]) = Upto(P, n + 1)}
<1>7. 0 \in G
  <2>1. 1 \in 1 .. Len(texts) /\ ~(1 > 1)
    BY <1>1
  <2>3. g[1] = texts[1] /\ texts[1] \in Texts
    BY <1>1, <1>6, <2>1
  <2>4. Split(g[1]) = <<texts[1]>>
    BY <2>1, <2>3, SplitFree
  <2>5. P[1] = texts[1]
    BY <1>3, <2>1
  <2>6. Append(Upto(P, 0), P[0 + 1]) = Upto(P, 0 + 1)
    BY <1>1, <1>3, UptoGrows
  <2>7. Upto(P, 0) = << >>
    BY <1>3, UptoEnds
  <2> QED  BY <2>4, <2>5, <2>6, <2>7
<1>8. ASSUME NEW n \in Nat, n \in G
      PROVE  n + 1 \in G
  <2> DEFINE m == n + 1
  <2>1. SUFFICES ASSUME m + 1 <= Len(texts)
                 PROVE  Split(g[m + 1]) = Upto(P, m + 1)
    OBVIOUS
  <2>2. Split(g[m]) = Upto(P, m)
    BY <1>1, <1>8, <2>1
  <2>3. /\ m \in Nat \ {0} /\ m \in 1 .. Len(texts) /\ m + 1 \in 1 .. Len(texts)
        /\ m + 1 > 1 /\ m + 1 <= Len(P) /\ m + 1 <= Len(texts)
    BY <1>1, <1>3, <2>1
  <2> HIDE DEF m
  <2> DEFINE b == pad \o texts[m + 1]
  <2>4. b \in Texts /\ Free(b, Comma)
    <3>1. /\ texts[m + 1] \in Texts /\ Free(texts[m + 1], Comma)
          /\ Len(texts[m + 1]) \in Nat /\ Len(pad) \in Nat
      BY <1>1, <2>3, LenProperties DEF Texts
    <3> DEFINE c == texts[m + 1]
    <3> HIDE DEF c
    <3>2. /\ pad \o c \in Texts
          /\ Len(pad \o c) = Len(pad) + Len(c)
          /\ \A i \in 1 .. Len(pad) + Len(c) :
               (pad \o c)[i] = IF i <= Len(pad) THEN pad[i] ELSE c[i - Len(pad)]
      BY <3>1, ConcatProperties DEF Texts, c
    <3>3. \A i \in 1 .. Len(pad) + Len(c) : (pad \o c)[i] # Comma
      BY <3>1, <3>2 DEF Free, c
    <3> QED  BY <3>2, <3>3 DEF Free, c
  <2>5. P[m + 1] = b
    BY <1>3, <2>3
  <2>6. g[m + 1] = g[m] \o (<<Comma>> \o b) /\ g[m] \in Texts
    BY <1>6, <2>3
  <2> HIDE DEF b
  <2>7. Split(g[m] \o (<<Comma>> \o b)) = Append(Split(g[m]), b)
    BY <2>4, <2>6, SplitCat
  <2>8. Append(Upto(P, m), P[m + 1]) = Upto(P, m + 1)
    BY <1>3, <2>3, UptoGrows
  <2> QED  BY <2>2, <2>5, <2>6, <2>7, <2>8
<1> HIDE DEF G
<1>9. Len(texts) - 1 \in Nat
  BY <1>1
<1>10. Len(texts) - 1 \in G
  BY <1>7, <1>8, <1>9, SetInduction
<1>11. Split(g[Len(texts)]) = Upto(P, Len(texts))
  BY <1>1, <1>10 DEF G
<1>12. Upto(P, Len(P)) = P
  BY <1>3, UptoEnds
<1>13. g[Len(texts)] \in Texts
  BY <1>1, <1>6
<1> QED  BY <1>3, <1>6, <1>11, <1>12, <1>13 DEF separator, P

-----------------------------------------------------------------------------
(* Leading spaces and delimiters.                                          *)

LEMMA MinIs ==
  ASSUME NEW S \in SUBSET Int, NEW k \in S, \A n \in S : k <= n
  PROVE  Min(S) = k
<1> DEFINE m == CHOOSE x \in S : \A y \in S : x <= y
<1>1. m \in S /\ \A y \in S : m <= y
  OBVIOUS
<1> HIDE DEF m
<1>2. m \in Int /\ k \in Int
  BY <1>1
<1>3. m = k
  BY <1>1, <1>2
<1> QED  BY <1>3 DEF m, Min

LEMMA MaxIs ==
  ASSUME NEW S \in SUBSET Int, NEW k \in S, \A n \in S : n <= k
  PROVE  Max(S) = k
<1> DEFINE m == CHOOSE x \in S : \A y \in S : x >= y
<1>1. m \in S /\ \A y \in S : m >= y
  OBVIOUS
<1> HIDE DEF m
<1>2. m \in Int /\ k \in Int
  BY <1>1
<1>3. m = k
  BY <1>1, <1>2
<1> QED  BY <1>3 DEF m, Max

(* Where the name of an entry ends.                                        *)
LEMMA Delimiter ==
  ASSUME NEW text \in Texts, NEW k \in 1 .. Len(text), text[k] = Equals,
         \A i \in 1 .. Len(text) : i < k => text[i] # Equals
  PROVE  DelimiterOf(text) = k
<1> DEFINE I == {i \in 1 .. Len(text) : text[i] = Equals}
<1>1. DelimiterOf(text) = IF I # {} THEN Min(I) ELSE 0
  BY DEF DelimiterOf, SelectInSeq
<1>2. Len(text) \in Nat
  BY LenProperties DEF Texts
<1>3. I \in SUBSET Int /\ k \in I /\ \A n \in I : k <= n
  BY <1>2
<1> HIDE DEF I
<1> QED  BY <1>1, <1>3, MinIs

LEMMA NoDelimiter ==
  ASSUME NEW text, Free(text, Equals)
  PROVE  DelimiterOf(text) = 0
BY DEF DelimiterOf, SelectInSeq, Free

SkipsTo(text, k) ==
  /\ k \in 1 .. Len(text)
  /\ text[k] # Space
  /\ \A i \in 1 .. Len(text) : i < k => text[i] = Space

LEMMA SkipSpacesTo ==
  ASSUME NEW text \in Texts, NEW k, SkipsTo(text, k)
  PROVE  SkipSpaces(text) = SubSeq(text, k, Len(text))
<1> DEFINE I == {i \in 1 .. Len(text) : text[i] # Space}
           first == SelectInSeq(text, LAMBDA word : word # Space)
<1>1. first = IF I # {} THEN Min(I) ELSE 0
  BY DEF SelectInSeq
<1>2. Len(text) \in Nat
  BY LenProperties DEF Texts
<1>3. I \in SUBSET Int /\ k \in I /\ \A n \in I : k <= n
  BY <1>2 DEF SkipsTo
<1>4. SkipSpaces(text)
        = IF first = 0 THEN << >> ELSE SubSeq(text, first, Len(text))
  BY DEF SkipSpaces
<1> HIDE DEF I, first
<1>5. first = k /\ k # 0
  BY <1>1, <1>2, <1>3, MinIs DEF SkipsTo
<1> QED  BY <1>4, <1>5

LEMMA SkipNothing ==
  ASSUME NEW text \in Texts, text # << >>, text[1] # Space
  PROVE  SkipSpaces(text) = text
<1>1. Len(text) \in Nat /\ Len(text) # 0
  BY LenProperties, EmptySeq DEF Texts
<1>2. SkipsTo(text, 1)
  BY <1>1 DEF SkipsTo
<1> QED  BY <1>2, SkipSpacesTo, SubSeqFull DEF Texts

LEMMA SkipOneSpace ==
  ASSUME NEW text \in Texts, text # << >>, text[1] # Space
  PROVE  <<Space>> \o text \in Texts /\ SkipSpaces(<<Space>> \o text) = text
<1> DEFINE t == <<Space>> \o text
           u == SubSeq(t, 2, Len(t))
<1>1. Len(text) \in Nat /\ Len(text) # 0
  BY LenProperties, EmptySeq DEF Texts
<1>2. <<Space>> \in Seq(Words)
  BY WordsDiffer DEF Special
<1>3. /\ t \in Seq(Words) /\ Len(t) = 1 + Len(text)
      /\ \A i \in 1 .. 1 + Len(text) :
           t[i] = IF i <= 1 THEN Space ELSE text[i - 1]
  BY <1>2, ConcatProperties DEF Texts
<1> HIDE DEF t
<1>4. t[1] = Space /\ \A i \in 1 .. Len(text) : t[i + 1] = text[i]
  <2>1. 1 \in 1 .. 1 + Len(text) /\ 1 <= 1
    BY <1>1
  <2>2. ASSUME NEW i \in 1 .. Len(text)
        PROVE  t[i + 1] = text[i]
    <3>1. i + 1 \in 1 .. 1 + Len(text) /\ ~(i + 1 <= 1) /\ i + 1 - 1 = i
      BY <1>1
    <3> QED  BY <1>3, <3>1
  <2> QED  BY <1>3, <2>1, <2>2
<1>5. SkipsTo(t, 2)
  <2>1. 1 \in 1 .. Len(text) /\ 1 + 1 = 2
    BY <1>1
  <2>2. t[2] = text[1]
    BY <1>4, <2>1
  <2> QED  BY <1>1, <1>3, <1>4, <2>2 DEF SkipsTo
<1>6. SkipSpaces(t) = u
  BY <1>3, <1>5, SkipSpacesTo DEF Texts
<1>7. /\ u \in Seq(Words) /\ Len(u) = Len(text)
      /\ \A i \in 1 .. Len(text) : u[i] = t[i + 1]
  <2>1. \A i \in 2 .. Len(t) : t[i] \in Words
    BY <1>1, <1>3, ElementOfSeq
  <2>2. Len(t) \in Int /\ 2 \in Int
    BY <1>1, <1>3
  <2>3. /\ u \in Seq(Words)
        /\ Len(u) = IF 2 <= Len(t) THEN Len(t) - 2 + 1 ELSE 0
        /\ \A i \in 1 .. Len(t) - 2 + 1 : u[i] = t[2 + i - 1]
    BY <2>1, <2>2, SubSeqProperties
  <2> HIDE DEF u
  <2>4. Len(t) - 2 + 1 = Len(text) /\ 2 <= Len(t)
    BY <1>1, <1>3
  <2>5. \A i \in 1 .. Len(text) : 2 + i - 1 = i + 1
    OBVIOUS
  <2> QED  BY <2>3, <2>4, <2>5
<1> HIDE DEF u
<1>8. \A i \in 1 .. Len(u) : u[i] = text[i]
  BY <1>4, <1>7
<1>9. u = text
  BY <1>7, <1>8, SeqEqual DEF Texts
<1> QED  BY <1>3, <1>6, <1>9 DEF t, Texts

-----------------------------------------------------------------------------
(* The text of an entry.                                                   *)

(* A name and a value with an equals sign between them.                    *)
Assigned(n, v) == n \o <<Equals>> \o v

LEMMA AssignedParts ==
  ASSUME NEW n \in Texts, NEW v \in Texts, Free(n, Equals)
  PROVE  LET text == Assigned(n, v) IN
         /\ text \in Texts
         /\ Len(text) = Len(n) + 1 + Len(v)
         /\ \A i \in 1 .. Len(n) : text[i] = n[i]
         /\ text[Len(n) + 1] = Equals
         /\ \A i \in 1 .. Len(v) : text[Len(n) + 1 + i] = v[i]
         /\ DelimiterOf(text) = Len(n) + 1
         /\ SubSeq(text, 1, DelimiterOf(text) - 1) = n
         /\ SubSeq(text, DelimiterOf(text) + 1, Len(text)) = v
<1> DEFINE s == n \o <<Equals>>
           text == Assigned(n, v)
           d == Len(n) + 1
           l == Len(v)
<1>1. Len(n) \in Nat /\ l \in Nat /\ d \in Nat /\ d = Len(n) + 1
      /\ \A i \in 1 .. Len(n) : n[i] \in Words
  BY LenProperties, ElementOfSeq DEF Texts
<1>2. <<Equals>> \in Seq(Words)
  BY WordsDiffer DEF Special
<1>3. /\ s \in Seq(Words) /\ Len(s) = d
      /\ \A i \in 1 .. d : s[i] = IF i <= Len(n) THEN n[i] ELSE Equals
  <2>1. /\ s \in Seq(Words) /\ Len(s) = Len(n) + Len(<<Equals>>)
        /\ \A i \in 1 .. Len(n) + Len(<<Equals>>) :
             s[i] = IF i <= Len(n) THEN n[i] ELSE <<Equals>>[i - Len(n)]
    BY <1>2, ConcatProperties DEF Texts
  <2>2. Len(<<Equals>>) = 1
    OBVIOUS
  <2>3. \A i \in 1 .. d : i <= Len(n) \/ i - Len(n) = 1
    BY <1>1
  <2>4. <<Equals>>[1] = Equals
    OBVIOUS
  <2> HIDE DEF s
  <2> QED  BY <1>1, <2>1, <2>2, <2>3, <2>4
<1>4. /\ text \in Seq(Words) /\ Len(text) = d + l
      /\ \A i \in 1 .. d + l : text[i] = IF i <= d THEN s[i] ELSE v[i - d]
  <2>1. Assigned(n, v) = Cat(s, v)
    BY DEF Assigned, Cat
  <2> HIDE DEF s
  <2>2. s \in Seq(Words) /\ v \in Seq(Words)
    BY <1>3 DEF Texts
  <2>3. /\ Cat(s, v) \in Seq(Words) /\ Len(Cat(s, v)) = Len(s) + Len(v)
        /\ \A i \in 1 .. Len(s) + Len(v) :
             Cat(s, v)[i] = IF i <= Len(s) THEN s[i] ELSE v[i - Len(s)]
    BY <2>2, ConcatProperties DEF Cat
  <2> HIDE DEF d, l
  <2>4. Len(s) = d /\ Len(v) = l
    BY <1>3 DEF l
  <2> QED  BY <2>1, <2>3, <2>4, Zenon
<1> HIDE DEF s, text, d, l
<1>5. \A i \in 1 .. Len(n) : text[i] = n[i]
  <2> TAKE i \in 1 .. Len(n)
  <2>1. i \in 1 .. d /\ i \in 1 .. d + l /\ i <= d /\ i <= Len(n)
    BY <1>1
  <2> QED  BY <1>3, <1>4, <2>1
<1>6. text[d] = Equals
  <2>1. d \in 1 .. d /\ d \in 1 .. d + l /\ d <= d /\ ~(d <= Len(n))
    BY <1>1
  <2> QED  BY <1>3, <1>4, <2>1
<1>7. \A i \in 1 .. l : text[d + i] = v[i]
  <2> TAKE i \in 1 .. l
  <2> DEFINE j == d + i
  <2>1. j \in 1 .. d + l /\ ~(j <= d) /\ j - d = i
    BY <1>1
  <2> HIDE DEF j
  <2>2. \A k \in 1 .. d + l : text[k] = IF k <= d THEN s[k] ELSE v[k - d]
    BY <1>4
  <2>3. text[j] = v[j - d]
    BY <2>1, <2>2
  <2>4. text[j] = v[i]
    BY <2>1, <2>3
  <2> QED  BY <2>4 DEF j
<1>8. DelimiterOf(text) = d
  <2>1. d \in 1 .. Len(text)
    BY <1>1, <1>4
  <2>2. \A i \in 1 .. Len(text) : i < d => text[i] # Equals
    <3> TAKE i \in 1 .. Len(text)
    <3> HAVE i < d
    <3>1. i \in 1 .. Len(n)
      BY <1>1, <1>4
    <3> QED  BY <1>5, <3>1 DEF Free
  <2> QED  BY <1>4, <1>6, <2>1, <2>2, Delimiter DEF Texts
<1>9. \A i \in 1 .. Len(text) : text[i] \in Words
  BY <1>4, ElementOfSeq
<1>10. SubSeq(text, 1, d - 1) = n
  <2> DEFINE u == SubSeq(text, 1, d - 1)
  <2>1. /\ u \in Seq(Words)
        /\ Len(u) = IF 1 <= d - 1 THEN (d - 1) - 1 + 1 ELSE 0
        /\ \A i \in 1 .. (d - 1) - 1 + 1 : u[i] = text[1 + i - 1]
    <3>1. \A i \in 1 .. d - 1 : text[i] \in Words
      BY <1>1, <1>4, <1>9
    <3>2. 1 \in Int /\ d - 1 \in Int
      BY <1>1
    <3> QED  BY <3>1, <3>2, SubSeqProperties
  <2> HIDE DEF u
  <2>2. Len(u) = Len(n) /\ \A i \in 1 .. Len(n) : u[i] = text[i]
    BY <1>1, <2>1
  <2>3. \A i \in 1 .. Len(u) : u[i] = n[i]
    BY <1>5, <2>2
  <2>4. u = n
    BY <2>1, <2>2, <2>3, SeqEqual DEF Texts
  <2> QED  BY <2>4 DEF u
<1>11. SubSeq(text, d + 1, Len(text)) = v
  <2> DEFINE u == SubSeq(text, d + 1, Len(text))
  <2>1. /\ u \in Seq(Words)
        /\ Len(u) = IF d + 1 <= Len(text) THEN Len(text) - (d + 1) + 1 ELSE 0
        /\ \A i \in 1 .. Len(text) - (d + 1) + 1 : u[i] = text[(d + 1) + i - 1]
    <3>1. \A i \in d + 1 .. Len(text) : text[i] \in Words
      BY <1>1, <1>4, <1>9
    <3>2. d + 1 \in Int /\ Len(text) \in Int
      BY <1>1, <1>4
    <3> QED  BY <3>1, <3>2, SubSeqProperties
  <2> HIDE DEF u
  <2>2. Len(u) = l /\ \A i \in 1 .. l : u[i] = text[d + i]
    <3>1. Len(text) - (d + 1) + 1 = l /\ \A i \in 1 .. l : (d + 1) + i - 1 = d + i
      BY <1>1, <1>4
    <3>2. Len(u) = l
      BY <1>1, <1>4, <2>1
    <3>3. \A i \in 1 .. l : u[i] = text[d + i]
      <4> TAKE i \in 1 .. l
      <4>1. u[i] = text[(d + 1) + i - 1]
        BY <2>1, <3>1, Zenon
      <4> QED  BY <3>1, <4>1, Zenon
    <3> QED  BY <3>2, <3>3
  <2>3. \A i \in 1 .. Len(u) : u[i] = v[i]
    BY <1>7, <2>2
  <2>4. Len(u) = Len(v)
    BY <2>2 DEF l
  <2>5. u = v
    BY <2>1, <2>3, <2>4, SeqEqual DEF Texts
  <2> QED  BY <2>5 DEF u
<1>12. text \in Texts /\ Len(text) = Len(n) + 1 + Len(v)
  BY <1>1, <1>4 DEF Texts, l
<1>13. text[Len(n) + 1] = Equals /\ DelimiterOf(text) = Len(n) + 1
  BY <1>1, <1>6, <1>8
<1>14. \A i \in 1 .. Len(v) : text[Len(n) + 1 + i] = v[i]
  BY <1>1, <1>7 DEF l
<1>15. /\ SubSeq(text, 1, DelimiterOf(text) - 1) = n
       /\ SubSeq(text, DelimiterOf(text) + 1, Len(text)) = v
  BY <1>8, <1>10, <1>11
<1> QED  BY <1>5, <1>12, <1>13, <1>14, <1>15 DEF text

(* Encoded, or without delimiters from the start, a text has none; nor a   *)
(* space at its start.                                                     *)
LEMMA EncodedFree ==
  ASSUME NEW text \in Texts, Unescaped(text), NEW mode \in BOOLEAN
  PROVE  /\ mode \/ ~MetaCharCheck(text)
             => Free(Encode(text, mode), Comma) /\ Free(Encode(text, mode), Equals)
         /\ mode \/ Free(text, Comma) => Free(Encode(text, mode), Comma)
         /\ text # << >> /\ (mode \/ text[1] # Space)
              => Encode(text, mode) # << >> /\ Encode(text, mode)[1] # Space
<1>1. /\ Encode(text, mode) \in Texts
      /\ Len(Encode(text, mode)) = Len(text)
      /\ mode => \A i \in 1 .. Len(text) : Encode(text, mode)[i] \notin Special
      /\ ~mode => Encode(text, mode) = text
  BY EncodedText
<1>2. Len(text) \in Nat /\ DOMAIN text = 1 .. Len(text)
  BY LenProperties DEF Texts
<1> DEFINE e == Encode(text, mode)
<1> HIDE DEF e
<1>3. mode => \A i \in 1 .. Len(e) : /\ e[i] # Comma
                                     /\ e[i] # Equals
                                     /\ e[i] # Space
  BY <1>1 DEF e, Special
<1>4. mode => Free(e, Comma) /\ Free(e, Equals)
  BY <1>3 DEF Free
<1>5. ~MetaCharCheck(text) => Free(text, Comma) /\ Free(text, Equals)
  BY <1>2 DEF MetaCharCheck, Free
<1>6. ASSUME text # << >>, mode \/ text[1] # Space
      PROVE  e # << >> /\ e[1] # Space
  <2>1. Len(text) # 0
    BY <1>6, EmptySeq DEF Texts
  <2>2. Len(e) # 0 /\ 1 \in 1 .. Len(e)
    BY <1>1, <1>2, <2>1 DEF e
  <2>3. e # << >>
    BY <2>2
  <2>4. CASE mode
    BY <1>3, <2>2, <2>3, <2>4
  <2>5. CASE ~mode
    BY <1>1, <1>6, <2>3, <2>5 DEF e
  <2> QED  BY <2>4, <2>5
<1>7. ~mode => e = text
  BY <1>1 DEF e
<1> QED  BY <1>4, <1>5, <1>6, <1>7 DEF e

(* An entry of a request, which its caller may attach.                     *)
Attachable(e, mode) ==
  /\ e.name \in Texts /\ e.value \in Texts
  /\ Unescaped(e.name) /\ Unescaped(e.value)
  /\ Usable(e.name, mode)

NameIn(text, mode) == Decode(SubSeq(text, 1, DelimiterOf(text) - 1), mode)

ValueIn(text, mode) ==
  Decode(SubSeq(text, DelimiterOf(text) + 1, Len(text)), mode)

(* The text of an entry that is sent can be cut out of a header and taken  *)
(* apart.                                                                  *)
LEMMA EntryTextIs ==
  ASSUME NEW mode \in BOOLEAN, NEW e, Attachable(e, mode), ~Skipped(e, mode)
  PROVE  LET text == EntryText(e, mode) IN
         /\ text \in Texts /\ Free(text, Comma)
         /\ text # << >> /\ text[1] # Space
         /\ DelimiterOf(text) > 1
         /\ NameIn(text, mode) = e.name /\ ValueIn(text, mode) = e.value
<1> DEFINE n == Encode(e.name, mode)
           v == Encode(e.value, mode)
           text == EntryText(e, mode)
<1>1. /\ n \in Texts /\ v \in Texts
      /\ Decode(n, mode) = e.name /\ Decode(v, mode) = e.value
  BY EncodedText DEF Attachable
<1>2. mode \/ (~MetaCharCheck(e.name) /\ ~MetaCharCheck(e.value))
  BY DEF Skipped
<1>3. /\ Free(n, Comma) /\ Free(n, Equals) /\ Free(v, Comma)
      /\ n # << >> /\ n[1] # Space
  BY <1>2, EncodedFree DEF Attachable, Usable
<1>4. text = Assigned(n, v)
  BY DEF EntryText, Assigned
<1> HIDE DEF n, v, text
<1>5. /\ text \in Texts
      /\ Len(text) = Len(n) + 1 + Len(v)
      /\ \A i \in 1 .. Len(n) : text[i] = n[i]
      /\ text[Len(n) + 1] = Equals
      /\ \A i \in 1 .. Len(v) : text[Len(n) + 1 + i] = v[i]
      /\ DelimiterOf(text) = Len(n) + 1
      /\ SubSeq(text, 1, DelimiterOf(text) - 1) = n
      /\ SubSeq(text, DelimiterOf(text) + 1, Len(text)) = v
  BY <1>1, <1>3, <1>4, AssignedParts
<1>6. Len(n) \in Nat /\ Len(v) \in Nat /\ Len(n) # 0
  BY <1>1, <1>3, LenProperties, EmptySeq DEF Texts
<1>7. Free(text, Comma)
  <2> SUFFICES ASSUME NEW i \in 1 .. Len(text)
               PROVE  text[i] # Comma
    BY DEF Free
  <2>1. CASE i \in 1 .. Len(n)
    BY <1>3, <1>5, <2>1 DEF Free
  <2>2. CASE i = Len(n) + 1
    BY <1>5, <2>2, WordsDiffer
  <2>3. CASE i - (Len(n) + 1) \in 1 .. Len(v)
    <3> DEFINE j == i - (Len(n) + 1)
    <3>1. i = Len(n) + 1 + j
      BY <1>6
    <3>2. j \in 1 .. Len(v)
      BY <2>3
    <3> HIDE DEF j
    <3>3. text[i] = v[j]
      BY <1>5, <3>1, <3>2
    <3> QED  BY <1>3, <3>2, <3>3 DEF Free
  <2>4. i \in 1 .. Len(n) \/ i = Len(n) + 1 \/ i - (Len(n) + 1) \in 1 .. Len(v)
    BY <1>5, <1>6
  <2> QED  BY <2>1, <2>2, <2>3, <2>4
<1>8. text # << >> /\ text[1] # Space
  <2>1. Len(text) # 0 /\ 1 \in 1 .. Len(n)
    BY <1>5, <1>6
  <2> QED  BY <1>3, <1>5, <2>1
<1>9. DelimiterOf(text) > 1
  BY <1>5, <1>6
<1>10. NameIn(text, mode) = e.name /\ ValueIn(text, mode) = e.value
  BY <1>1, <1>5 DEF NameIn, ValueIn
<1> QED  BY <1>5, <1>7, <1>8, <1>9, <1>10 DEF text

-----------------------------------------------------------------------------
(* A metadata header.                                                      *)

(* The parts of a text with something in them.                             *)
Filled(text) == {part \in ToSet(Split(text)) : part # << >>}

LEMMA FilledCat ==
  ASSUME NEW a \in Texts, NEW b \in Texts, Free(b, Comma), b # << >>
  PROVE  /\ a \o (<<Comma>> \o b) \in Texts
         /\ Filled(a \o (<<Comma>> \o b)) = Filled(a) \cup {b}
<1> DEFINE t == a \o (<<Comma>> \o b)
           s == Split(a)
<1>1. t \in Texts /\ Split(t) = Append(s, b)
  BY SplitCat
<1>2. s \in Seq(Texts)
  BY SplitTyped
<1> HIDE DEF t, s
<1>3. ToSet(Append(s, b)) = ToSet(s) \cup {b}
  <2>1. /\ Len(s) \in Nat /\ DOMAIN s = 1 .. Len(s)
        /\ Append(s, b) \in Seq(Texts)
        /\ Len(Append(s, b)) = Len(s) + 1
        /\ \A i \in 1 .. Len(s) : Append(s, b)[i] = s[i]
        /\ Append(s, b)[Len(s) + 1] = b
    BY <1>2, AppendProperties, LenProperties
  <2> DEFINE u == Append(s, b)
             l == Len(s)
  <2>2. DOMAIN u = 1 .. l + 1
    BY <2>1, LenProperties
  <2> HIDE DEF u
  <2>3. \A i \in 1 .. l + 1 : i \in 1 .. l \/ i = l + 1
    BY <2>1
  <2>4. 1 .. l \subseteq 1 .. l + 1 /\ l + 1 \in 1 .. l + 1
    BY <2>1
  <2>5. /\ DOMAIN s = 1 .. l /\ u[l + 1] = b
        /\ \A i \in 1 .. l : u[i] = s[i]
    BY <2>1 DEF u
  <2> HIDE DEF l
  <2> QED  BY <2>2, <2>3, <2>4, <2>5 DEF ToSet, u
<1> QED  BY <1>1, <1>3 DEF Filled, t, s

LEMMA FilledFree ==
  ASSUME NEW b \in Texts, Free(b, Comma)
  PROVE  Filled(b) = {b} \ {<< >>}
<1>1. Split(b) = <<b>>
  BY SplitFree
<1>2. ToSet(<<b>>) = {b}
  BY DEF ToSet
<1> QED  BY <1>1, <1>2 DEF Filled

(* The texts of the entries among the first n that are not left out.       *)
SentOf(meta, mode, n) ==
  {EntryText(meta[i], mode) : i \in {k \in 1 .. n : ~Skipped(meta[k], mode)}}

Attached(meta, mode) ==
  /\ Len(meta) \in Nat
  /\ DOMAIN meta = 1 .. Len(meta)
  /\ \A i \in 1 .. Len(meta) : Attachable(meta[i], mode)

(* What the code puts in a metadata header, commas where nothing is before *)
(* them included, has between its commas the entries that are not left     *)
(* out and nothing else.                                                   *)
LEMMA MetadataHeaderIs ==
  ASSUME NEW mode \in BOOLEAN, NEW meta, Attached(meta, mode)
  PROVE  /\ MetadataHeader(meta, mode) \in Texts
         /\ Filled(MetadataHeader(meta, mode)) = SentOf(meta, mode, Len(meta))
<1> DEFINE piece(i) == IF Skipped(meta[i], mode) THEN << >>
                       ELSE (IF i > 1 THEN <<Comma>> ELSE << >>)
                              \o EntryText(meta[i], mode)
           pieces == [i \in DOMAIN meta |-> piece(i)]
<1>1. /\ Len(meta) \in Nat /\ DOMAIN meta = 1 .. Len(meta)
      /\ \A i \in 1 .. Len(meta) : Attachable(meta[i], mode)
  BY DEF Attached
<1>2. << >> \in Texts /\ Free(<< >>, Comma) /\ Len(<< >>) = 0 /\ <<Comma>> \in Texts
  BY WordsDiffer, EmptySeq DEF Special, Texts, Free
<1>3. ASSUME NEW i \in 1 .. Len(meta), ~Skipped(meta[i], mode)
      PROVE  /\ EntryText(meta[i], mode) \in Texts
             /\ Free(EntryText(meta[i], mode), Comma)
             /\ EntryText(meta[i], mode) # << >>
  BY <1>1, <1>3, EntryTextIs
<1>4. ASSUME NEW i \in 1 .. Len(meta)
      PROVE  /\ piece(i) \in Texts
             /\ Skipped(meta[i], mode) => piece(i) = << >>
             /\ ~Skipped(meta[i], mode) /\ i > 1
                  => piece(i) = <<Comma>> \o EntryText(meta[i], mode)
             /\ ~Skipped(meta[i], mode) /\ ~(i > 1)
                  => piece(i) = EntryText(meta[i], mode)
  <2>1. CASE Skipped(meta[i], mode)
    BY <1>2, <2>1
  <2>2. CASE ~Skipped(meta[i], mode)
    <3> DEFINE t == EntryText(meta[i], mode)
    <3>1. t \in Texts
      BY <1>3, <2>2
    <3>2. piece(i) = (IF i > 1 THEN <<Comma>> ELSE << >>) \o t
      BY <2>2
    <3> HIDE DEF t, piece
    <3>3. <<Comma>> \o t \in Texts /\ << >> \o t = t
      BY <1>2, <3>1, ConcatProperties, ConcatEmptySeq DEF Texts
    <3>4. CASE i > 1
      BY <2>2, <3>2, <3>3, <3>4 DEF t
    <3>5. CASE ~(i > 1)
      BY <2>2, <3>1, <3>2, <3>3, <3>5 DEF t
    <3> QED  BY <3>4, <3>5
  <2> QED  BY <2>1, <2>2
<1>5. MetadataHeader(meta, mode) = Concat(pieces)
  BY DEF MetadataHeader
<1> HIDE DEF piece
<1>6. /\ pieces \in Seq(Texts) /\ Len(pieces) = Len(meta)
      /\ \A i \in 1 .. Len(meta) : pieces[i] = piece(i)
  <2>1. \A i \in 1 .. Len(meta) : pieces[i] = piece(i)
    BY <1>1
  <2>2. pieces \in [1 .. Len(meta) -> Texts]
    BY <1>1, <1>4
  <2> HIDE DEF pieces
  <2>3. pieces \in Seq(Texts) /\ Len(pieces) = Len(meta)
    BY <1>1, <2>2
  <2> QED  BY <2>1, <2>3
<1> HIDE DEF pieces
<1>7. PICK g : /\ g[0] = << >>
               /\ \A n \in 1 .. Len(pieces) : g[n] = Cat(g[n - 1], pieces[n])
               /\ \A n \in 0 .. Len(pieces) : g[n] \in Texts
               /\ Concat(pieces) = g[Len(pieces)]
  BY <1>6, ConcatBuilt
<1> DEFINE G == {n \in Nat : n <= Len(meta) =>
                               Filled(g[n]) = SentOf(meta, mode, n)}
<1>8. 0 \in G
  <2>1. Filled(<< >>) = {}
    BY <1>2, FilledFree
  <2>2. SentOf(meta, mode, 0) = {}
    BY DEF SentOf
  <2> QED  BY <1>7, <2>1, <2>2
<1>9. ASSUME NEW n \in Nat, n \in G
      PROVE  n + 1 \in G
  <2> DEFINE m == n + 1
             t == EntryText(meta[m], mode)
  <2>1. SUFFICES ASSUME m <= Len(meta)
                 PROVE  Filled(g[m]) = SentOf(meta, mode, m)
    OBVIOUS
  <2>2. Filled(g[n]) = SentOf(meta, mode, n)
    BY <1>1, <1>9, <2>1
  <2>3. /\ m \in 1 .. Len(meta) /\ m \in 1 .. Len(pieces) /\ m - 1 = n
        /\ n \in 0 .. Len(pieces) /\ (m > 1 \/ n = 0)
        /\ \A k \in 1 .. m : k \in 1 .. n \/ k = m
        /\ 1 .. n \subseteq 1 .. m /\ m \in 1 .. m
    BY <1>1, <1>6, <2>1
  <2> HIDE DEF m
  <2>4. g[m] = Cat(g[n], piece(m)) /\ g[n] \in Texts
    BY <1>6, <1>7, <2>3
  <2>5. CASE Skipped(meta[m], mode)
    <3>1. g[m] = g[n]
      BY <1>4, <2>3, <2>4, <2>5, ConcatEmptySeq DEF Cat, Texts
    <3>2. {k \in 1 .. m : ~Skipped(meta[k], mode)}
            = {k \in 1 .. n : ~Skipped(meta[k], mode)}
      BY <2>3, <2>5
    <3> QED  BY <2>2, <3>1, <3>2 DEF SentOf
  <2>6. CASE ~Skipped(meta[m], mode)
    <3>1. t \in Texts /\ Free(t, Comma) /\ t # << >>
      BY <1>3, <2>3, <2>6
    <3>2. SentOf(meta, mode, m) = SentOf(meta, mode, n) \cup {t}
      BY <2>3, <2>6 DEF SentOf
    <3>3. CASE m > 1
      <4>1. piece(m) = <<Comma>> \o t
        BY <1>4, <2>3, <2>6, <3>3
      <4> HIDE DEF t
      <4>2. Filled(g[n] \o (<<Comma>> \o t)) = Filled(g[n]) \cup {t}
        BY <2>4, <3>1, FilledCat
      <4> QED  BY <2>2, <2>4, <3>2, <4>1, <4>2 DEF Cat
    <3>4. CASE ~(m > 1)
      <4>1. piece(m) = t /\ g[n] = << >>
        BY <1>4, <1>7, <2>3, <2>6, <3>4
      <4> HIDE DEF t
      <4>2. g[m] = t
        BY <2>4, <3>1, <4>1, ConcatEmptySeq DEF Cat, Texts
      <4>3. Filled(g[n]) = {}
        BY <1>2, <4>1, FilledFree
      <4> QED  BY <2>2, <3>1, <3>2, <4>2, <4>3, FilledFree
    <3> QED  BY <3>3, <3>4
  <2> QED  BY <2>5, <2>6
<1> HIDE DEF G
<1>10. Len(meta) \in G
  BY <1>1, <1>8, <1>9, SetInduction
<1>11. Filled(g[Len(meta)]) = SentOf(meta, mode, Len(meta))
  BY <1>1, <1>10 DEF G
<1>12. g[Len(meta)] \in Texts
  BY <1>1, <1>6, <1>7
<1> QED  BY <1>5, <1>6, <1>7, <1>11, <1>12

-----------------------------------------------------------------------------
(* A header of texts that are joined.                                      *)

(* A text that can be one of several between commas.                       *)
Part(text) ==
  text \in Texts /\ Free(text, Comma) /\ text # << >> /\ text[1] # Space

Separators == {<<Comma>>, <<Comma, Space>>}

LEMMA SeparatorIs ==
  ASSUME NEW separator \in Separators
  PROVE  \E pad \in {<< >>, <<Space>>} : /\ separator = <<Comma>> \o pad
                                         /\ pad \in Texts
                                         /\ Free(pad, Comma)
<1>1. <<Space>> \in Texts /\ << >> \in Texts /\ <<Comma>> \in Seq(Words)
  BY WordsDiffer DEF Special, Texts
<1>2. Free(<<Space>>, Comma) /\ Free(<< >>, Comma)
  BY WordsDiffer DEF Free
<1>3. <<Comma>> = <<Comma>> \o << >>
  BY <1>1, ConcatEmptySeq
<1>4. <<Comma, Space>> = <<Comma>> \o <<Space>>
  OBVIOUS
<1> QED  BY <1>1, <1>2, <1>3, <1>4 DEF Separators

(* The parts of joined texts are the texts.                                *)
LEMMA JoinedParts ==
  ASSUME NEW texts \in Seq(Texts), Len(texts) # 0, NEW separator \in Separators,
         \A i \in 1 .. Len(texts) : Part(texts[i])
  PROVE  LET text == Join(texts, separator) IN
         /\ text \in Texts /\ text # << >>
         /\ Split(text) \in Seq(Texts)
         /\ Len(Split(text)) = Len(texts)
         /\ \A i \in 1 .. Len(texts) : SkipSpaces(Split(text)[i]) = texts[i]
<1> DEFINE text == Join(texts, separator)
<1>1. PICK pad \in {<< >>, <<Space>>} : /\ separator = <<Comma>> \o pad
                                        /\ pad \in Texts
                                        /\ Free(pad, Comma)
  BY SeparatorIs
<1>2. text \in Texts /\ Split(text) = Padded(texts, pad)
  BY <1>1, SplitJoin DEF Part
<1> HIDE DEF text
<1>3. /\ Split(text) \in Seq(Texts)
      /\ Len(Split(text)) = Len(texts)
      /\ \A i \in 1 .. Len(texts) :
           Split(text)[i] = IF i > 1 THEN pad \o texts[i] ELSE texts[i]
  BY <1>1, <1>2, PaddedTyped
<1>4. Len(texts) \in Nat /\ \A i \in 1 .. Len(texts) : texts[i] \in Texts
  BY LenProperties, ElementOfSeq
<1>5. \A i \in 1 .. Len(texts) : SkipSpaces(Split(text)[i]) = texts[i]
  <2> TAKE i \in 1 .. Len(texts)
  <2> DEFINE t == texts[i]
             p == Split(text)[i]
  <2>1. /\ p = IF i > 1 THEN pad \o t ELSE t
        /\ t \in Texts /\ t # << >> /\ t[1] # Space
    BY <1>3, <1>4 DEF Part
  <2> HIDE DEF t, p
  <2>2. SkipSpaces(t) = t /\ SkipSpaces(<<Space>> \o t) = t /\ << >> \o t = t
    BY <2>1, SkipNothing, SkipOneSpace, ConcatEmptySeq DEF Texts
  <2>3. SkipSpaces(p) = t
    <3>1. CASE i > 1 /\ pad = <<Space>>
      BY <2>1, <2>2, <3>1
    <3>2. CASE i > 1 /\ pad = << >>
      BY <2>1, <2>2, <3>2
    <3>3. CASE ~(i > 1)
      BY <2>1, <2>2, <3>3
    <3> QED  BY <3>1, <3>2, <3>3
  <2> QED  BY <2>3 DEF t, p
<1>6. text # << >>
  <2> SUFFICES ASSUME text = << >>
               PROVE  FALSE
    OBVIOUS
  <2>1. Free(<< >>, Comma) /\ << >> \in Texts
    BY EmptySeq DEF Free, Texts
  <2>2. Split(text) = << << >> >>
    BY <2>1, SplitFree
  <2>3. 1 \in 1 .. Len(texts) /\ ~(1 > 1)
    BY <1>4
  <2>4. Split(text)[1] = texts[1]
    BY <1>3, <2>3
  <2>5. texts[1] = << >>
    BY <2>2, <2>4
  <2> QED  BY <2>3, <2>5 DEF Part
<1> QED  BY <1>2, <1>3, <1>5, <1>6 DEF text

-----------------------------------------------------------------------------
(* Chosen elements of a list.                                              *)

(* c has the elements of the list at those of the first n places that are  *)
(* chosen: its k-th comes from place h[k].                                 *)
Places(c, n, places, h) ==
  /\ \A k \in 1 .. Len(c) : h[k] \in 1 .. n /\ h[k] \in places
  /\ \A j, k \in 1 .. Len(c) : j # k => h[j] # h[k]
  /\ \A i \in 1 .. n : i \in places => \E k \in 1 .. Len(c) : h[k] = i

Picked(list, places, n, c) ==
  \E h : /\ Places(c, n, places, h)
         /\ \A k \in 1 .. Len(c) : c[k] = list[h[k]]

LEMMA ChosenIs ==
  ASSUME NEW S, NEW list \in Seq(S), NEW places
  PROVE  /\ Chosen(list, places) \in Seq(S)
         /\ Picked(list, places, Len(list), Chosen(list, places))
<1>1. Len(list) \in Nat /\ \A i \in 1 .. Len(list) : list[i] \in S
  BY LenProperties, ElementOfSeq
<1>2. PICK g : /\ g[0] = << >>
               /\ \A n \in 1 .. Len(list) : g[n] = ChosenStep(list, places, g, n)
               /\ Chosen(list, places) = g[Len(list)]
  BY <1>1, ChosenUnfold
<1> DEFINE G == {n \in Nat : n <= Len(list) =>
                   g[n] \in Seq(S) /\ Picked(list, places, n, g[n])}
<1>3. 0 \in G
  <2> DEFINE c == << >>
  <2>1. c \in Seq(S) /\ Len(c) = 0
    BY EmptySeq
  <2> HIDE DEF c
  <2>2. Places(c, 0, places, c)
    BY <2>1 DEF Places
  <2>3. \A k \in 1 .. Len(c) : c[k] = list[c[k]]
    BY <2>1
  <2>4. Picked(list, places, 0, c)
    BY <2>2, <2>3 DEF Picked
  <2> QED  BY <1>2, <2>1, <2>4 DEF c
<1>4. ASSUME NEW n \in Nat, n \in G
      PROVE  n + 1 \in G
  <2> DEFINE m == n + 1
             c == g[n]
  <2>1. SUFFICES ASSUME m <= Len(list)
                 PROVE  g[m] \in Seq(S) /\ Picked(list, places, m, g[m])
    OBVIOUS
  <2>2. c \in Seq(S) /\ Picked(list, places, n, c)
    BY <1>1, <1>4, <2>1
  <2>3. PICK h : /\ Places(c, n, places, h)
                 /\ \A k \in 1 .. Len(c) : c[k] = list[h[k]]
    BY <2>2 DEF Picked
  <2>4. /\ m \in 1 .. Len(list) /\ m - 1 = n /\ m # 0 /\ m \in 1 .. m /\ m \notin 1 .. n
        /\ \A i \in 1 .. m : i \in 1 .. n \/ i = m
        /\ \A i \in 1 .. n : i \in 1 .. m
    BY <1>1, <2>1
  <2> HIDE DEF m
  <2>5. g[m] = IF m \in places THEN Append(c, list[m]) ELSE c
    BY <1>2, <2>4 DEF ChosenStep
  <2> HIDE DEF c
  <2>6. CASE m \notin places
    <3>1. Places(c, m, places, h)
      BY <2>3, <2>4, <2>6 DEF Places
    <3>2. Picked(list, places, m, c)
      BY <2>3, <3>1 DEF Picked
    <3> QED  BY <2>2, <2>5, <2>6, <3>2
  <2>7. CASE m \in places
    <3> DEFINE d == Append(c, list[m])
               l == Len(c)
               q == [k \in 1 .. l + 1 |-> IF k = l + 1 THEN m ELSE h[k]]
    <3>1. /\ d \in Seq(S) /\ Len(d) = l + 1 /\ l \in Nat
          /\ \A k \in 1 .. l : d[k] = c[k]
          /\ d[l + 1] = list[m]
      BY <1>1, <2>2, <2>4, AppendProperties, LenProperties
    <3> HIDE DEF d, l
    <3>2. /\ \A k \in 1 .. l + 1 : k \in 1 .. l \/ k = l + 1
          /\ \A k \in 1 .. l : k \in 1 .. l + 1 /\ k # l + 1
          /\ l + 1 \in 1 .. l + 1
      BY <3>1
    <3>3. q[l + 1] = m /\ \A k \in 1 .. l : q[k] = h[k]
      BY <3>2
    <3> HIDE DEF q
    <3>4. /\ \A k \in 1 .. l : h[k] \in 1 .. n /\ h[k] \in places
          /\ \A j, k \in 1 .. l : j # k => h[j] # h[k]
          /\ \A i \in 1 .. n : i \in places => \E k \in 1 .. l : h[k] = i
          /\ \A k \in 1 .. l : c[k] = list[h[k]]
      BY <2>3 DEF Places, l
    <3>5. \A k \in 1 .. l + 1 : q[k] \in 1 .. m /\ q[k] \in places
      BY <2>4, <2>7, <3>2, <3>3, <3>4
    <3>6. \A j, k \in 1 .. l + 1 : j # k => q[j] # q[k]
      BY <2>4, <3>2, <3>3, <3>4
    <3>7. \A i \in 1 .. m : i \in places => \E k \in 1 .. l + 1 : q[k] = i
      BY <2>4, <3>2, <3>3, <3>4
    <3>8. \A k \in 1 .. l + 1 : d[k] = list[q[k]]
      BY <3>1, <3>2, <3>3, <3>4
    <3>9. Places(d, m, places, q)
      BY <3>1, <3>5, <3>6, <3>7 DEF Places
    <3>10. Picked(list, places, m, d)
      BY <3>1, <3>8, <3>9 DEF Picked
    <3> QED  BY <2>5, <2>7, <3>1, <3>10 DEF d
  <2> QED  BY <2>6, <2>7
<1> HIDE DEF G
<1>5. Len(list) \in G
  BY <1>1, <1>3, <1>4, SetInduction
<1> QED  BY <1>1, <1>2, <1>5 DEF G

(* As a set.                                                               *)
LEMMA ChosenSet ==
  ASSUME NEW S, NEW list \in Seq(S), NEW places
  PROVE  /\ Chosen(list, places) \in Seq(S)
         /\ ToSet(Chosen(list, places))
              = {list[i] : i \in {k \in 1 .. Len(list) : k \in places}}
<1> DEFINE c == Chosen(list, places)
<1>1. c \in Seq(S) /\ Picked(list, places, Len(list), c)
  BY ChosenIs
<1> HIDE DEF c
<1>2. PICK h : /\ Places(c, Len(list), places, h)
               /\ \A k \in 1 .. Len(c) : c[k] = list[h[k]]
  BY <1>1 DEF Picked
<1>3. DOMAIN c = 1 .. Len(c)
  BY <1>1, LenProperties
<1>4. ToSet(c) = {list[i] : i \in {k \in 1 .. Len(list) : k \in places}}
  <2> DEFINE T == {list[i] : i \in {k \in 1 .. Len(list) : k \in places}}
  <2>1. ASSUME NEW x \in ToSet(c)
        PROVE  x \in T
    <3>1. PICK k \in 1 .. Len(c) : x = c[k]
      BY <1>3 DEF ToSet
    <3>2. x = list[h[k]] /\ h[k] \in 1 .. Len(list) /\ h[k] \in places
      BY <1>2, <3>1 DEF Places
    <3> QED  BY <3>2
  <2>2. ASSUME NEW x \in T
        PROVE  x \in ToSet(c)
    <3>1. PICK i \in 1 .. Len(list) : i \in places /\ x = list[i]
      OBVIOUS
    <3>2. PICK k \in 1 .. Len(c) : h[k] = i
      BY <1>2, <3>1 DEF Places
    <3>3. c[k] = x
      BY <1>2, <3>1, <3>2
    <3> QED  BY <1>3, <3>3 DEF ToSet
  <2> QED  BY <2>1, <2>2
<1> QED  BY <1>1, <1>4 DEF c

-----------------------------------------------------------------------------
(* What the server takes out of a metadata header.                         *)

(* The values of some texts and of some entries, by name.                  *)
TextValues(P, mode) ==
  [n \in {NameIn(p, mode) : p \in P} |->
     ValueIn(CHOOSE p \in P : NameIn(p, mode) = n, mode)]

EntryValues(E) ==
  [n \in {e.name : e \in E} |-> (CHOOSE e \in E : e.name = n).value]

(* The values of texts are those of their entries.                         *)
LEMMA FunctionOfTexts ==
  ASSUME NEW mode \in BOOLEAN, NEW E,
         \A e \in E : Attachable(e, mode) /\ ~Skipped(e, mode),
         \A e, f \in E : e.name = f.name => e = f
  PROVE  TextValues({EntryText(e, mode) : e \in E}, mode) = EntryValues(E)
<1> DEFINE P == {EntryText(e, mode) : e \in E}
           p(n) == CHOOSE q \in P : NameIn(q, mode) = n
           c(n) == CHOOSE e \in E : e.name = n
<1>1. \A e \in E : /\ NameIn(EntryText(e, mode), mode) = e.name
                   /\ ValueIn(EntryText(e, mode), mode) = e.value
  BY EntryTextIs
<1>2. {NameIn(q, mode) : q \in P} = {e.name : e \in E}
  BY <1>1
<1>3. ASSUME NEW n \in {e.name : e \in E}
      PROVE  ValueIn(p(n), mode) = c(n).value
  <2>1. c(n) \in E /\ c(n).name = n
    OBVIOUS
  <2>2. p(n) \in P /\ NameIn(p(n), mode) = n
    BY <1>2
  <2> HIDE DEF p, c
  <2>3. PICK e \in E : p(n) = EntryText(e, mode)
    BY <2>2
  <2>4. e.name = n
    BY <1>1, <2>2, <2>3
  <2>5. e = c(n)
    BY <2>1, <2>4
  <2> QED  BY <1>1, <2>3, <2>5
<1> HIDE DEF P
<1>4. TextValues(P, mode) = EntryValues(E)
  BY <1>2, <1>3 DEF TextValues, EntryValues
<1> QED  BY <1>4 DEF P

LEMMA SkippedIs ==
  ASSUME NEW e, utf8 \in BOOLEAN
  PROVE  Sendable(e) <=> ~Skipped(e, utf8)
BY DEF Sendable, Skipped, Plain, MetaCharCheck

(* The parts of a header that have a name, with the spaces before them     *)
(* gone.                                                                   *)
LEMMA NamedParts ==
  ASSUME NEW h \in DOMAIN headers, headers[h] \in Texts,
         \A part \in Filled(headers[h]) : /\ SkipSpaces(part) = part
                                          /\ DelimiterOf(part) > 1
  PROVE  {part \in ToSet(HeaderParts(h)) : DelimiterOf(part) > 1}
           = Filled(headers[h])
<1> DEFINE t == headers[h]
           s == Split(t)
<1>1. Free(<< >>, Comma) /\ Free(<< >>, Equals) /\ << >> \in Texts
  BY EmptySeq DEF Free, Texts
<1>2. DelimiterOf(<< >>) = 0 /\ SkipSpaces(<< >>) = << >>
  BY <1>1, NoDelimiter DEF SkipSpaces, SelectInSeq
<1>3. CASE t = << >>
  <2>1. Filled(t) = {}
    BY <1>1, <1>3, FilledFree
  <2>2. ToSet(HeaderParts(h)) = {}
    BY <1>3 DEF HeaderParts, ToSet
  <2> QED  BY <2>1, <2>2
<1>4. CASE t # << >>
  <2>1. HeaderParts(h) = [i \in DOMAIN s |-> SkipSpaces(s[i])]
    BY <1>4 DEF HeaderParts
  <2>2. Filled(t) = {part \in ToSet(s) : part # << >>}
    BY DEF Filled
  <2>3. \A part \in Filled(t) : SkipSpaces(part) = part /\ DelimiterOf(part) > 1
    OBVIOUS
  <2> HIDE DEF s, t
  <2>4. ToSet(HeaderParts(h)) = {SkipSpaces(part) : part \in ToSet(s)}
    BY <2>1 DEF ToSet
  <2>5. \A part \in ToSet(s) : part = << >> \/ part \in Filled(t)
    BY <2>2
  <2>6. ~(0 > 1)
    OBVIOUS
  <2>7. \A part \in Filled(t) : part \in ToSet(s)
    BY <2>2
  <2>8. {part \in ToSet(HeaderParts(h)) : DelimiterOf(part) > 1} = Filled(t)
    BY <1>2, <2>3, <2>4, <2>5, <2>6, <2>7, Zenon
  <2> QED  BY <2>8 DEF t
<1> QED  BY <1>3, <1>4

(* The lists of a request.                                                 *)
MetaList(meta) ==
  /\ meta \in Lists
  /\ \A i \in 1 .. Len(meta) :
       \E e \in Entries : e.name = meta[i].name /\ e.value = meta[i].value
  /\ \A i, j \in 1 .. Len(meta) : i # j => meta[i].name # meta[j].name

LEMMA MetaListAttached ==
  ASSUME NEW meta, MetaList(meta), NEW mode \in Utf8Modes
  PROVE  /\ Attached(meta, mode)
         /\ \A e, f \in ToSet(meta) : e.name = f.name => e = f
         /\ \A e \in ToSet(meta) : Attachable(e, mode)
<1>1. /\ meta \in Lists
      /\ Len(meta) \in Nat /\ DOMAIN meta = 1 .. Len(meta)
  BY LenProperties DEF MetaList, Lists
<1>2. \A i \in 1 .. Len(meta) :
        \E e \in Entries : e.name = meta[i].name /\ e.value = meta[i].value
  BY DEF MetaList
<1>3. \A e \in Entries : Attachable(e, mode)
  <2> TAKE e \in Entries
  <2>1. /\ e \in [name: Texts, value: Texts, listable: BOOLEAN]
        /\ Unescaped(e.name) /\ Unescaped(e.value)
    BY MetadataAssumption
  <2>2. Usable(e.name, mode)
    BY CallerAssumption
  <2> QED  BY <2>1, <2>2 DEF Attachable
<1>4. \A i \in 1 .. Len(meta) : Attachable(meta[i], mode)
  BY <1>2, <1>3 DEF Attachable
<1>5. \A e, f \in ToSet(meta) : e.name = f.name => e = f
  BY <1>1 DEF ToSet, MetaList
<1> QED  BY <1>1, <1>4, <1>5 DEF Attached, ToSet

(* The server gets what the caller asked for.                              *)
LEMMA SentMetaIs ==
  ASSUME utf8 \in Utf8Modes, ServerUtf8 = utf8, NEW meta, MetaList(meta), NEW h,
         meta = << >> => h \notin DOMAIN headers,
         meta # << >> => /\ h \in DOMAIN headers
                         /\ headers[h] = MetadataHeader(meta, utf8)
  PROVE  SentMeta(h) = Asked(meta)
<1> DEFINE E == {e \in ToSet(meta) : ~Skipped(e, utf8)}
           T == {EntryText(e, utf8) : e \in E}
           P == {part \in ToSet(HeaderParts(h)) : DelimiterOf(part) > 1}
<1>1. /\ utf8 \in BOOLEAN
      /\ Attached(meta, utf8)
      /\ \A e, f \in ToSet(meta) : e.name = f.name => e = f
      /\ \A e \in ToSet(meta) : Attachable(e, utf8)
  BY MetaListAttached, MetadataAssumption
<1>2. P = T
  <2>1. CASE meta = << >>
    <3>1. ToSet(meta) = {}
      BY <2>1 DEF ToSet
    <3>2. HeaderParts(h) = << >>
      BY <2>1 DEF HeaderParts
    <3>3. ToSet(HeaderParts(h)) = {}
      BY <3>2 DEF ToSet
    <3> QED  BY <3>1, <3>3
  <2>2. CASE meta # << >>
    <3>1. /\ h \in DOMAIN headers /\ headers[h] \in Texts
          /\ Filled(headers[h]) = SentOf(meta, utf8, Len(meta))
      BY <1>1, <2>2, MetadataHeaderIs
    <3>2. SentOf(meta, utf8, Len(meta)) = T
      <4>1. DOMAIN meta = 1 .. Len(meta)
        BY <1>1 DEF Attached
      <4> QED  BY <4>1 DEF SentOf, ToSet
    <3>3. \A part \in T : SkipSpaces(part) = part /\ DelimiterOf(part) > 1
      <4> TAKE part \in T
      <4>1. PICK e \in E : part = EntryText(e, utf8)
        OBVIOUS
      <4>2. Attachable(e, utf8) /\ ~Skipped(e, utf8)
        BY <1>1
      <4>3. /\ part \in Texts /\ part # << >> /\ part[1] # Space
            /\ DelimiterOf(part) > 1
        BY <1>1, <4>1, <4>2, EntryTextIs
      <4> QED  BY <4>3, SkipNothing
    <3> HIDE DEF T, P
    <3>4. {part \in ToSet(HeaderParts(h)) : DelimiterOf(part) > 1}
            = Filled(headers[h])
      BY <3>1, <3>2, <3>3, NamedParts
    <3> QED  BY <3>1, <3>2, <3>4 DEF P
  <2> QED  BY <2>1, <2>2
<1>3. SentMeta(h) = TextValues(P, utf8)
  BY DEF SentMeta, NameIn, ValueIn, TextValues
<1>4. Asked(meta) = EntryValues(E)
  <2> DEFINE V == {e \in ToSet(meta) : Sendable(e)}
  <2>1. V = E
    BY <1>1, SkippedIs
  <2>2. Asked(meta) = EntryValues(V)
    BY DEF Asked, EntryValues
  <2> HIDE DEF V, E
  <2> QED  BY <2>1, <2>2
<1>5. /\ \A e \in E : Attachable(e, utf8) /\ ~Skipped(e, utf8)
      /\ \A e, f \in E : e.name = f.name => e = f
  BY <1>1
<1> HIDE DEF P, E
<1>6. TextValues(T, utf8) = EntryValues(E)
  BY <1>1, <1>5, FunctionOfTexts
<1> HIDE DEF T
<1> QED  BY <1>2, <1>3, <1>4, <1>6

-----------------------------------------------------------------------------
(* What the server takes out of a header of joined texts.                  *)

(* Functions joined, the first preferred.                                  *)
LEMMA Joins ==
  ASSUME NEW f, NEW g
  PROVE  /\ DOMAIN (f ++ g) = DOMAIN f \cup DOMAIN g
         /\ \A x \in DOMAIN f : (f ++ g)[x] = f[x]
         /\ \A x \in DOMAIN g : x \notin DOMAIN f => (f ++ g)[x] = g[x]
BY DEF ++

LEMMA HeaderPartsIs ==
  ASSUME NEW texts \in Seq(Texts), NEW separator \in Separators,
         \A i \in 1 .. Len(texts) : Part(texts[i]), NEW h,
         texts = << >> => h \notin DOMAIN headers,
         texts # << >> => /\ h \in DOMAIN headers
                          /\ headers[h] = Join(texts, separator)
  PROVE  HeaderParts(h) = texts
<1>1. CASE texts = << >>
  BY <1>1 DEF HeaderParts
<1>2. CASE texts # << >>
  <2> DEFINE t == headers[h]
             s == Split(t)
  <2>1. Len(texts) # 0 /\ Len(texts) \in Nat
    BY <1>2, EmptySeq, LenProperties
  <2>2. t = Join(texts, separator)
    BY <1>2
  <2> HIDE DEF t
  <2>3. /\ t # << >>
        /\ s \in Seq(Texts)
        /\ Len(s) = Len(texts)
        /\ \A i \in 1 .. Len(texts) : SkipSpaces(s[i]) = texts[i]
    BY <2>1, <2>2, JoinedParts
  <2>4. HeaderParts(h) = [i \in DOMAIN s |-> SkipSpaces(s[i])]
    BY <1>2, <2>3 DEF HeaderParts, t
  <2> HIDE DEF s
  <2>5. DOMAIN s = 1 .. Len(texts)
    BY <2>3, LenProperties
  <2>6. HeaderParts(h) = [i \in 1 .. Len(texts) |-> texts[i]]
    BY <2>3, <2>4, <2>5
  <2>7. texts = [i \in 1 .. Len(texts) |-> texts[i]]
    <3>1. texts \in [1 .. Len(texts) -> Texts]
      BY LenProperties
    <3> QED  BY <3>1
  <2> QED  BY <2>6, <2>7
<1> QED  BY <1>1, <1>2

(* Names that a caller may put in a header of tags.                        *)
NameList(names, mode) ==
  /\ names \in Seq(Texts)
  /\ \A i \in 1 .. Len(names) : /\ Unescaped(names[i])
                                /\ Usable(names[i], mode) /\ Whole(names[i])
                                /\ mode \/ Free(names[i], Comma)

(* A header of tags, encoded for a server that decodes them, names the     *)
(* caller's names.                                                         *)
LEMMA NamesInIs ==
  ASSUME utf8 \in BOOLEAN, ServerUtf8 = utf8, NEW names, NameList(names, utf8),
         NEW h,
         names = << >> => h \notin DOMAIN headers,
         names # << >> => /\ h \in DOMAIN headers
                          /\ headers[h] = TagsHeader(names, utf8)
  PROVE  NamesIn(h) = ToSet(names)
<1> DEFINE texts == [i \in DOMAIN names |-> Encode(names[i], utf8)]
<1>1. /\ names \in Seq(Texts) /\ DOMAIN names = 1 .. Len(names)
      /\ Len(names) \in Nat /\ \A i \in 1 .. Len(names) : names[i] \in Texts
  BY LenProperties, ElementOfSeq DEF NameList
<1>2. ASSUME NEW i \in 1 .. Len(names)
      PROVE  /\ Part(Encode(names[i], utf8))
             /\ Decode(Encode(names[i], utf8), utf8) = names[i]
  <2>1. /\ Unescaped(names[i]) /\ names[i] # << >>
        /\ utf8 \/ names[i][1] # Space
        /\ utf8 \/ Free(names[i], Comma)
        /\ names[i] \in Texts
    BY <1>1 DEF NameList, Usable
  <2>2. /\ Encode(names[i], utf8) \in Texts
        /\ Decode(Encode(names[i], utf8), utf8) = names[i]
    BY <2>1, EncodedText
  <2>3. /\ Free(Encode(names[i], utf8), Comma)
        /\ Encode(names[i], utf8) # << >> /\ Encode(names[i], utf8)[1] # Space
    BY <2>1, EncodedFree
  <2> QED  BY <2>2, <2>3 DEF Part
<1>3. /\ texts \in Seq(Texts) /\ Len(texts) = Len(names)
      /\ DOMAIN texts = 1 .. Len(names)
      /\ \A i \in 1 .. Len(names) : texts[i] = Encode(names[i], utf8)
  <2>1. \A i \in 1 .. Len(names) : Encode(names[i], utf8) \in Texts
    BY <1>2 DEF Part
  <2>2. texts \in [1 .. Len(names) -> Texts]
    BY <1>1, <2>1
  <2>3. \A i \in 1 .. Len(names) : texts[i] = Encode(names[i], utf8)
    BY <1>1
  <2> HIDE DEF texts
  <2>4. texts \in Seq(Texts) /\ Len(texts) = Len(names)
    BY <1>1, <2>2
  <2> QED  BY <2>2, <2>3, <2>4
<1>4. TagsHeader(names, utf8) = Join(texts, <<Comma, Space>>)
  BY DEF TagsHeader
<1> HIDE DEF texts
<1>5. \A i \in 1 .. Len(texts) : Part(texts[i])
  BY <1>2, <1>3
<1>6. texts = << >> <=> names = << >>
  BY <1>1, <1>3, EmptySeq
<1>7. <<Comma, Space>> \in Separators
  BY DEF Separators
<1>8. HeaderParts(h) = texts
  <2>1. texts = << >> => h \notin DOMAIN headers
    BY <1>6
  <2>2. texts # << >> => /\ h \in DOMAIN headers
                         /\ headers[h] = Join(texts, <<Comma, Space>>)
    BY <1>4, <1>6
  <2> QED  BY <1>3, <1>5, <1>7, <2>1, <2>2, HeaderPartsIs
<1>9. NamesIn(h) = {Decode(part, utf8) : part \in ToSet(texts)}
  BY <1>8 DEF NamesIn
<1>10. \A i \in 1 .. Len(names) : Decode(texts[i], utf8) = names[i]
  BY <1>2, <1>3
<1> QED  BY <1>1, <1>3, <1>9, <1>10 DEF ToSet

-----------------------------------------------------------------------------
(* ACLs.                                                                   *)

LEMMA Permissions ==
  /\ \A p \in DOMAIN PermissionString : /\ PermissionString[p] \in Words
                                        /\ PermissionString[p] # Comma
                                        /\ PermissionString[p] # Equals
                                        /\ PermissionString[p] # Space
  /\ \A p, q \in DOMAIN PermissionString :
       PermissionString[p] = PermissionString[q] => p = q
<1>1. DOMAIN PermissionString = {"none", "read", "read_write", "full", "read_acl",
                                 "write_acl", "execute"}
  BY DEF PermissionString
<1>2. /\ PermissionString["none"] = "NONE"
      /\ PermissionString["read"] = "READ"
      /\ PermissionString["read_write"] = "WRITE"
      /\ PermissionString["full"] = "FULL_CONTROL"
      /\ PermissionString["read_acl"] = "READ_ACL"
      /\ PermissionString["write_acl"] = "WRITE_ACL"
      /\ PermissionString["execute"] = "EXECUTE"
  BY DEF PermissionString
<1>3. \A p \in DOMAIN PermissionString : PermissionString[p] \in Words
  BY WordsAssumption DEF Range
<1> QED  BY <1>1, <1>2, <1>3 DEF Comma, Equals, Space

AceText(a) == <<a.principal, Equals, PermissionString[a.permission]>>

PermissionOf(text) ==
  CHOOSE p \in DOMAIN PermissionString : PermissionString[p] = text[3]

Aces == [principal: Words \ {Comma, Equals, Space}, type: {"user", "group"},
         permission: DOMAIN PermissionString]

LEMMA AceTextIs ==
  ASSUME NEW a \in Aces
  PROVE  /\ Part(AceText(a))
         /\ AceText(a)[1] = a.principal
         /\ PermissionOf(AceText(a)) = a.permission
<1> DEFINE w == PermissionString[a.permission]
           t == AceText(a)
<1>1. /\ a.principal \in Words /\ a.principal # Comma /\ a.principal # Space
      /\ a.permission \in DOMAIN PermissionString
  BY DEF Aces
<1>2. w \in Words /\ w # Comma /\ Equals \in Words
  BY <1>1, Permissions, WordsDiffer DEF Special
<1>3. t = <<a.principal, Equals, w>>
  BY DEF AceText
<1> HIDE DEF w, t
<1>4. t \in Seq(Words) /\ Len(t) = 3 /\ t[1] = a.principal /\ t[2] = Equals /\ t[3] = w
  BY <1>1, <1>2, <1>3
<1>5. Free(t, Comma)
  <2> SUFFICES ASSUME NEW i \in 1 .. 3
               PROVE  t[i] # Comma
    BY <1>4 DEF Free
  <2>1. i = 1 \/ i = 2 \/ i = 3
    OBVIOUS
  <2> QED  BY <1>1, <1>2, <1>4, <2>1, WordsDiffer
<1>6. t # << >> /\ t[1] # Space
  <2>1. Len(t) # 0
    BY <1>4
  <2>2. t # << >>
    BY <2>1
  <2>3. t[1] # Space
    BY <1>1, <1>4, Zenon
  <2> QED  BY <2>2, <2>3
<1>7. PermissionOf(t) = a.permission
  <2>1. PermissionOf(t) = CHOOSE p \in DOMAIN PermissionString : PermissionString[p] = w
    BY <1>4 DEF PermissionOf
  <2> DEFINE c == CHOOSE p \in DOMAIN PermissionString : PermissionString[p] = w
  <2>2. c \in DOMAIN PermissionString /\ PermissionString[c] = PermissionString[a.permission]
    BY <1>1 DEF w
  <2> HIDE DEF c
  <2>3. c = a.permission
    BY <1>1, <2>2, Permissions
  <2> QED  BY <2>1, <2>3 DEF c
<1> QED  BY <1>4, <1>5, <1>6, <1>7 DEF Part, Texts, t

LEMMA AclEntriesAreAces ==
  AclEntries \subseteq Aces
<1> SUFFICES ASSUME NEW a \in AclEntries
             PROVE  a \in Aces
  OBVIOUS
<1>1. a \in [principal: Words, type: {"user", "group"},
             permission: DOMAIN PermissionString]
  BY MetadataAssumption
<1>2. a.principal \notin {Comma, Equals, Space}
  BY CallerAssumption
<1> QED  BY <1>1, <1>2 DEF Aces

(* Entries of one type, as the header of that type holds them.             *)
AceTexts(acl) == [i \in DOMAIN acl |-> AceText(acl[i])]

AceOf(text, type) ==
  [principal |-> text[1], type |-> type, permission |-> PermissionOf(text)]

LEMMA AceTextsAre ==
  ASSUME NEW acl \in Seq(Aces)
  PROVE  /\ AceTexts(acl) \in Seq(Texts)
         /\ Len(AceTexts(acl)) = Len(acl)
         /\ DOMAIN AceTexts(acl) = 1 .. Len(acl)
         /\ \A i \in 1 .. Len(acl) : /\ AceTexts(acl)[i] = AceText(acl[i])
                                     /\ Part(AceTexts(acl)[i])
         /\ AceTexts(acl) = << >> <=> acl = << >>
<1> DEFINE texts == AceTexts(acl)
<1>1. /\ Len(acl) \in Nat /\ DOMAIN acl = 1 .. Len(acl)
      /\ \A i \in 1 .. Len(acl) : acl[i] \in Aces
  BY LenProperties, ElementOfSeq
<1>2. \A i \in 1 .. Len(acl) : Part(AceText(acl[i]))
  BY <1>1, AceTextIs
<1>3. \A i \in 1 .. Len(acl) : AceText(acl[i]) \in Texts
  BY <1>2 DEF Part
<1>4. texts = [i \in 1 .. Len(acl) |-> AceText(acl[i])]
  BY <1>1 DEF AceTexts
<1> HIDE DEF texts
<1>5. texts \in [1 .. Len(acl) -> Texts]
  BY <1>3, <1>4
<1>6. texts \in Seq(Texts) /\ Len(texts) = Len(acl) /\ DOMAIN texts = 1 .. Len(acl)
  BY <1>1, <1>5
<1>7. \A i \in 1 .. Len(acl) : texts[i] = AceText(acl[i]) /\ Part(texts[i])
  BY <1>2, <1>4
<1>8. texts = << >> <=> acl = << >>
  BY <1>1, <1>6, EmptySeq
<1> QED  BY <1>6, <1>7, <1>8 DEF texts

(* Read again they are what they were.                                     *)
LEMMA AcesRead ==
  ASSUME NEW acl \in Seq(Aces), NEW type, \A i \in 1 .. Len(acl) : acl[i].type = type
  PROVE  [i \in DOMAIN AceTexts(acl) |-> AceOf(AceTexts(acl)[i], type)] = acl
<1> DEFINE texts == AceTexts(acl)
<1>1. /\ Len(acl) \in Nat /\ DOMAIN acl = 1 .. Len(acl)
      /\ \A i \in 1 .. Len(acl) : acl[i] \in Aces
  BY LenProperties, ElementOfSeq
<1>2. DOMAIN texts = 1 .. Len(acl) /\ \A i \in 1 .. Len(acl) : texts[i] = AceText(acl[i])
  BY AceTextsAre
<1> HIDE DEF texts
<1>3. ASSUME NEW i \in 1 .. Len(acl)
      PROVE  AceOf(texts[i], type) = acl[i]
  <2>1. acl[i] \in Aces /\ acl[i].type = type /\ texts[i] = AceText(acl[i])
    BY <1>1, <1>2
  <2>2. texts[i][1] = acl[i].principal /\ PermissionOf(texts[i]) = acl[i].permission
    BY <2>1, AceTextIs
  <2> DEFINE a == acl[i]
  <2> HIDE DEF a
  <2>3. a = [principal |-> a.principal, type |-> a.type, permission |-> a.permission]
    BY <2>1 DEF Aces, a
  <2> QED  BY <2>1, <2>2, <2>3 DEF AceOf, a
<1>4. acl = [i \in 1 .. Len(acl) |-> acl[i]]
  <2>1. acl \in [1 .. Len(acl) -> Aces]
    BY LenProperties
  <2> QED  BY <2>1
<1>5. [i \in DOMAIN texts |-> AceOf(texts[i], type)] = acl
  BY <1>2, <1>3, <1>4
<1> QED  BY <1>5 DEF texts

LEMMA ToSetCat ==
  ASSUME NEW S, NEW s \in Seq(S), NEW t \in Seq(S)
  PROVE  s \o t \in Seq(S) /\ ToSet(s \o t) = ToSet(s) \cup ToSet(t)
<1> DEFINE u == s \o t
           k == Len(s)
           l == Len(t)
<1>1. /\ u \in Seq(S) /\ Len(u) = Len(s) + Len(t)
      /\ \A i \in 1 .. Len(s) + Len(t) :
           u[i] = IF i <= Len(s) THEN s[i] ELSE t[i - Len(s)]
  BY ConcatProperties
<1>2. k \in Nat /\ l \in Nat /\ DOMAIN s = 1 .. k /\ DOMAIN t = 1 .. l
  BY LenProperties
<1> HIDE DEF u
<1>3. DOMAIN u = 1 .. k + l
  BY <1>1, LenProperties
<1>4. \A i \in 1 .. k + l : u[i] = IF i <= k THEN s[i] ELSE t[i - k]
  BY <1>1
<1> HIDE DEF k, l
<1>5. ASSUME NEW i \in 1 .. k
      PROVE  i \in 1 .. k + l /\ u[i] = s[i]
  <2>1. i \in 1 .. k + l /\ i <= k
    BY <1>2
  <2> QED  BY <1>4, <2>1
<1>6. ASSUME NEW i \in 1 .. l
      PROVE  k + i \in 1 .. k + l /\ u[k + i] = t[i]
  <2> DEFINE j == k + i
  <2>1. j \in 1 .. k + l /\ ~(j <= k) /\ j - k = i
    BY <1>2
  <2> HIDE DEF j
  <2>2. u[j] = t[j - k]
    BY <1>4, <2>1
  <2>3. u[j] = t[i]
    BY <2>1, <2>2
  <2> QED  BY <2>1, <2>3 DEF j
<1>7. ASSUME NEW i \in 1 .. k + l
      PROVE  \/ i \in 1 .. k /\ u[i] = s[i]
             \/ i - k \in 1 .. l /\ u[i] = t[i - k]
  <2>1. \/ i \in 1 .. k /\ i <= k
        \/ i - k \in 1 .. l /\ ~(i <= k)
    BY <1>2
  <2> QED  BY <1>4, <2>1
<1>8. \A x \in ToSet(u) : x \in ToSet(s) \/ x \in ToSet(t)
  BY <1>2, <1>3, <1>7 DEF ToSet
<1>9. \A x \in ToSet(s) : x \in ToSet(u)
  BY <1>2, <1>3, <1>5 DEF ToSet
<1>10. \A x \in ToSet(t) : x \in ToSet(u)
  BY <1>2, <1>3, <1>6 DEF ToSet
<1>11. ToSet(u) = ToSet(s) \cup ToSet(t)
  BY <1>8, <1>9, <1>10
<1> QED  BY <1>1, <1>11 DEF u

(* The entries that a header carries are of its type, and none is lost but *)
(* a group that is not 'other'.                                            *)
SentPlaces(acl, type) ==
  {i \in DOMAIN acl : /\ acl[i].type = type
                      /\ type = "group" => acl[i].principal = "other"}

LEMMA AclSentIs ==
  ASSUME NEW acl \in Seq(AclEntries), NEW type
  PROVE  /\ AclSent(acl, type) \in Seq(Aces)
         /\ AclSent(acl, type) \in Seq(AclEntries)
         /\ \A i \in 1 .. Len(AclSent(acl, type)) : AclSent(acl, type)[i].type = type
         /\ ToSet(AclSent(acl, type))
              = {a \in ToSet(acl) :
                   a.type = type /\ (type = "group" => a.principal = "other")}
<1> DEFINE c == AclSent(acl, type)
           P == SentPlaces(acl, type)
<1>1. c = Chosen(acl, P)
  BY DEF AclSent, SentPlaces
<1>2. Len(acl) \in Nat /\ DOMAIN acl = 1 .. Len(acl)
  BY LenProperties
<1>3. \A i \in P : /\ i \in DOMAIN acl /\ acl[i].type = type
                   /\ type = "group" => acl[i].principal = "other"
  BY DEF SentPlaces
<1>4. \A i \in DOMAIN acl :
        acl[i].type = type /\ (type = "group" => acl[i].principal = "other") => i \in P
  BY DEF SentPlaces
<1> HIDE DEF c, P
<1>5. /\ c \in Seq(AclEntries)
      /\ ToSet(c) = {acl[i] : i \in {k \in 1 .. Len(acl) : k \in P}}
  BY <1>1, ChosenSet
<1>6. c \in Seq(Aces)
  BY <1>5, AclEntriesAreAces, SeqMonotonic
<1>7. ToSet(c) = {a \in ToSet(acl) :
                    a.type = type /\ (type = "group" => a.principal = "other")}
  BY <1>2, <1>3, <1>4, <1>5 DEF ToSet
<1>8. \A i \in 1 .. Len(c) : c[i].type = type
  <2> TAKE i \in 1 .. Len(c)
  <2>1. DOMAIN c = 1 .. Len(c)
    BY <1>5, LenProperties
  <2>2. c[i] \in ToSet(c)
    BY <2>1 DEF ToSet
  <2> QED  BY <1>7, <2>2
<1> QED  BY <1>5, <1>6, <1>7, <1>8 DEF c

AclIn(h, type) ==
  [i \in DOMAIN HeaderParts(h) |-> AceOf(HeaderParts(h)[i], type)]

HasAcl(h, type) ==
  /\ AclSent(request.acl, type) = << >> => h \notin DOMAIN headers
  /\ AclSent(request.acl, type) # << >> =>
       /\ h \in DOMAIN headers
       /\ headers[h] = AclHeader(request.acl, type)

LEMMA AclInIs ==
  ASSUME request.acl \in Seq(AclEntries), NEW h, NEW type, HasAcl(h, type)
  PROVE  AclIn(h, type) = AclSent(request.acl, type)
<1> DEFINE c == AclSent(request.acl, type)
           texts == AceTexts(c)
<1>1. c \in Seq(Aces) /\ \A i \in 1 .. Len(c) : c[i].type = type
  BY AclSentIs
<1>2. AclHeader(request.acl, type) = Join(texts, <<Comma, Space>>)
  BY DEF AclHeader, AceTexts, AceText
<1>3. /\ c = << >> => h \notin DOMAIN headers
      /\ c # << >> => /\ h \in DOMAIN headers
                      /\ headers[h] = AclHeader(request.acl, type)
  BY DEF HasAcl
<1> HIDE DEF c
<1>4. /\ texts \in Seq(Texts)
      /\ Len(texts) = Len(c)
      /\ \A i \in 1 .. Len(c) : Part(texts[i])
      /\ texts = << >> <=> c = << >>
  BY <1>1, AceTextsAre
<1>5. [i \in DOMAIN texts |-> AceOf(texts[i], type)] = c
  BY <1>1, AcesRead
<1> HIDE DEF texts
<1>6. HeaderParts(h) = texts
  <2>1. <<Comma, Space>> \in Separators
    BY DEF Separators
  <2>2. texts = << >> => h \notin DOMAIN headers
    BY <1>3, <1>4
  <2>3. texts # << >> => /\ h \in DOMAIN headers
                         /\ headers[h] = Join(texts, <<Comma, Space>>)
    BY <1>2, <1>3, <1>4
  <2> QED  BY <1>4, <2>1, <2>2, <2>3, HeaderPartsIs
<1>7. AclIn(h, type) = c
  BY <1>5, <1>6 DEF AclIn
<1> QED  BY <1>7 DEF c

(* The server gets the ACL that the caller gave.                           *)
LEMMA SentAclIs ==
  ASSUME request.acl \in Seq(AclEntries),
         HasAcl("x-emc-useracl", "user"), HasAcl("x-emc-groupacl", "group")
  PROVE  /\ SentAcl \in Seq(AclEntries) /\ AclWanted \in Seq(AclEntries)
         /\ ToSet(SentAcl) = ToSet(AclWanted)
         /\ ToSet(SentAcl) \subseteq ToSet(request.acl)
<1> DEFINE u == AclSent(request.acl, "user")
           g == AclSent(request.acl, "group")
           W == {i \in DOMAIN request.acl :
                   request.acl[i].type = "group" =>
                     request.acl[i].principal = "other"}
<1>1. SentAcl = AclIn("x-emc-useracl", "user") \o AclIn("x-emc-groupacl", "group")
  BY DEF SentAcl, AclIn, AceOf, PermissionOf
<1>2. SentAcl = u \o g
  BY <1>1, AclInIs
<1>3. /\ u \in Seq(AclEntries) /\ g \in Seq(AclEntries)
      /\ ToSet(u) = {a \in ToSet(request.acl) :
                       a.type = "user" /\ ("user" = "group" => a.principal = "other")}
      /\ ToSet(g) = {a \in ToSet(request.acl) :
                       a.type = "group" /\ ("group" = "group" => a.principal = "other")}
  BY AclSentIs
<1>4. AclWanted = Chosen(request.acl, W)
  BY DEF AclWanted
<1>5. /\ Len(request.acl) \in Nat /\ DOMAIN request.acl = 1 .. Len(request.acl)
      /\ \A i \in 1 .. Len(request.acl) : request.acl[i] \in Aces
  BY LenProperties, ElementOfSeq, AclEntriesAreAces
<1> HIDE DEF u, g
<1>6. SentAcl \in Seq(AclEntries) /\ ToSet(SentAcl) = ToSet(u) \cup ToSet(g)
  BY <1>2, <1>3, ToSetCat
<1>7. \A a \in ToSet(request.acl) : a.type = "user" \/ a.type = "group"
  BY <1>5 DEF ToSet, Aces
<1>8. ToSet(SentAcl) = {a \in ToSet(request.acl) :
                          a.type = "group" => a.principal = "other"}
  BY <1>3, <1>6, <1>7
<1>9. /\ AclWanted \in Seq(AclEntries)
      /\ ToSet(AclWanted)
           = {request.acl[i] : i \in {k \in 1 .. Len(request.acl) : k \in W}}
  BY <1>4, ChosenSet
<1>10. ToSet(AclWanted) = {a \in ToSet(request.acl) :
                             a.type = "group" => a.principal = "other"}
  BY <1>5, <1>9 DEF ToSet
<1> QED  BY <1>6, <1>8, <1>9, <1>10

-----------------------------------------------------------------------------
(* Requests.                                                               *)

LEMMA SeqOfIs ==
  ASSUME NEW S, NEW n \in Nat, NEW s \in SeqOf(S, n)
  PROVE  s \in Seq(S) /\ DOMAIN s = 1 .. Len(s)
<1>1. PICK m \in 0 .. n : s \in [1 .. m -> S]
  BY DEF SeqOf
<1>2. m \in Nat
  BY <1>1
<1> QED  BY <1>1, <1>2, IsASeq

(* A list of the caller's entries, each name once.                         *)
EntryList(entries) ==
  /\ entries \in Seq(Entries)
  /\ \A i, j \in 1 .. Len(entries) : i # j => entries[i].name # entries[j].name

LEMMA EntryListsAre ==
  ASSUME NEW entries \in EntryLists
  PROVE  EntryList(entries)
<1>1. entries \in SeqOf(Entries, MaxEntries)
  BY DEF EntryLists, ListsOf
<1>2. entries \in Seq(Entries) /\ DOMAIN entries = 1 .. Len(entries)
  BY <1>1, SeqOfIs, MetadataAssumption
<1>3. \A i, j \in DOMAIN entries : i # j => entries[i].name # entries[j].name
  BY DEF EntryLists, ListsOf
<1> QED  BY <1>2, <1>3 DEF EntryList

LEMMA PairsAre ==
  ASSUME NEW entries, EntryList(entries), NEW flag
  PROVE  MetaList(Pairs(entries, flag))
<1> DEFINE places == {i \in DOMAIN entries : entries[i].listable = flag}
           c == Chosen(entries, places)
           pair(e) == [name |-> e.name, value |-> e.value]
           meta == Pairs(entries, flag)
<1>1. /\ entries \in Seq(Entries)
      /\ \A i, j \in 1 .. Len(entries) : i # j => entries[i].name # entries[j].name
  BY DEF EntryList
<1>2. meta = [i \in DOMAIN c |-> pair(c[i])]
  BY DEF Pairs
<1>3. c \in Seq(Entries) /\ Picked(entries, places, Len(entries), c)
  BY <1>1, ChosenIs
<1> HIDE DEF places, c, meta
<1>4. /\ Len(c) \in Nat /\ DOMAIN c = 1 .. Len(c)
      /\ \A i \in 1 .. Len(c) : c[i] \in Entries
  BY <1>3, LenProperties, ElementOfSeq
<1>5. \A i, j \in 1 .. Len(c) : i # j => c[i].name # c[j].name
  <2>1. PICK h : /\ Places(c, Len(entries), places, h)
                 /\ \A k \in 1 .. Len(c) : c[k] = entries[h[k]]
    BY <1>3 DEF Picked
  <2>2. /\ \A k \in 1 .. Len(c) : h[k] \in 1 .. Len(entries)
        /\ \A j, k \in 1 .. Len(c) : j # k => h[j] # h[k]
    BY <2>1 DEF Places
  <2> TAKE i, j \in 1 .. Len(c)
  <2>3. c[i] = entries[h[i]] /\ c[j] = entries[h[j]]
    BY <2>1
  <2> QED  BY <1>1, <2>2, <2>3
<1>6. \A e \in Entries : pair(e) \in [name: Texts, value: Texts]
  BY MetadataAssumption
<1>7. \A i \in 1 .. Len(c) : /\ meta[i] \in [name: Texts, value: Texts]
                             /\ meta[i].name = c[i].name
                             /\ meta[i].value = c[i].value
  BY <1>2, <1>4, <1>6
<1>8. meta \in [1 .. Len(c) -> [name: Texts, value: Texts]]
  BY <1>2, <1>4, <1>7
<1>9. meta \in Lists /\ Len(meta) = Len(c)
  <2> DEFINE R == [name: Texts, value: Texts]
  <2>1. meta \in [1 .. Len(c) -> R]
    BY <1>8
  <2> HIDE DEF R
  <2>2. meta \in Seq(R) /\ Len(meta) = Len(c)
    BY <1>4, <2>1
  <2> QED  BY <2>2 DEF Lists, R
<1>10. \A i \in 1 .. Len(meta) :
         \E e \in Entries : e.name = meta[i].name /\ e.value = meta[i].value
  BY <1>4, <1>7, <1>9
<1>11. \A i, j \in 1 .. Len(meta) : i # j => meta[i].name # meta[j].name
  BY <1>5, <1>7, <1>9
<1> QED  BY <1>9, <1>10, <1>11 DEF MetaList, meta

(* No principal of a type twice.                                           *)
OneEach(A) ==
  \A a, b \in A : a.principal = b.principal /\ a.type = b.type => a = b

LEMMA AclListsAre ==
  ASSUME NEW acl \in AclLists
  PROVE  acl \in Seq(AclEntries) /\ OneEach(ToSet(acl))
<1>1. acl \in SeqOf(AclEntries, MaxEntries)
  BY DEF AclLists, ListsOf
<1>2. acl \in Seq(AclEntries) /\ DOMAIN acl = 1 .. Len(acl)
  BY <1>1, SeqOfIs, MetadataAssumption
<1>3. \A i, j \in DOMAIN acl :
        i # j => <<acl[i].principal, acl[i].type>> # <<acl[j].principal, acl[j].type>>
  BY DEF AclLists, ListsOf
<1>4. OneEach(ToSet(acl))
  BY <1>3 DEF OneEach, ToSet
<1> QED  BY <1>2, <1>4

(* Names, each once.                                                       *)
OnceEach(names) == \A i, j \in 1 .. Len(names) : i # j => names[i] # names[j]

LEMMA NameListsAre ==
  ASSUME NEW mode \in Utf8Modes, NEW names \in NameLists[mode]
  PROVE  NameList(names, mode) /\ OnceEach(names)
<1>1. mode \in BOOLEAN
  BY MetadataAssumption
<1>2. NameLists[mode] = ListsOf(Names[mode], LAMBDA n : n)
  BY <1>1 DEF NameLists
<1>3. /\ names \in SeqOf(Names[mode], MaxEntries)
      /\ \A i, j \in DOMAIN names : i # j => names[i] # names[j]
  BY <1>2 DEF ListsOf
<1>4. names \in Seq(Names[mode]) /\ DOMAIN names = 1 .. Len(names)
  BY <1>3, SeqOfIs, MetadataAssumption
<1>5. \A n \in Names[mode] : /\ n \in Texts /\ Unescaped(n)
                             /\ Usable(n, mode) /\ Whole(n)
                             /\ mode \/ \A i \in DOMAIN n : n[i] # Comma
  <2> TAKE n \in Names[mode]
  <2>1. n \in Texts /\ Unescaped(n)
    BY <1>1, MetadataAssumption
  <2>2. /\ Usable(n, mode) /\ Whole(n)
        /\ mode \/ \A i \in DOMAIN n : n[i] # Comma
    BY CallerAssumption
  <2> QED  BY <2>1, <2>2
<1>6. names \in Seq(Texts)
  BY <1>4, <1>5, SeqMonotonic
<1>7. \A i \in 1 .. Len(names) : names[i] \in Names[mode]
  BY <1>4, ElementOfSeq
<1>8. \A i \in 1 .. Len(names) : /\ Unescaped(names[i])
                                 /\ Usable(names[i], mode) /\ Whole(names[i])
                                 /\ mode \/ Free(names[i], Comma)
  <2> TAKE i \in 1 .. Len(names)
  <2> DEFINE n == names[i]
  <2>1. /\ n \in Texts /\ Unescaped(n) /\ Usable(n, mode) /\ Whole(n)
        /\ mode \/ \A k \in DOMAIN n : n[k] # Comma
    BY <1>5, <1>7
  <2> HIDE DEF n
  <2>2. DOMAIN n = 1 .. Len(n)
    BY <2>1, LenProperties DEF Texts
  <2>3. mode \/ Free(n, Comma)
    BY <2>1, <2>2 DEF Free
  <2> QED  BY <2>1, <2>3 DEF n
<1> QED  BY <1>3, <1>4, <1>6, <1>8 DEF NameList, OnceEach

LEMMA EmptyLists ==
  ASSUME NEW mode
  PROVE  /\ EntryList(<< >>) /\ MetaList(<< >>)
         /\ << >> \in Seq(AclEntries) /\ OneEach(ToSet(<< >>))
         /\ NameList(<< >>, mode) /\ OnceEach(<< >>)
<1> DEFINE e == << >>
<1>1. Len(e) = 0 /\ \A S : e \in Seq(S)
  BY EmptySeq
<1>2. ToSet(e) = {}
  BY DEF ToSet
<1> HIDE DEF e
<1>3. EntryList(e)
  BY <1>1 DEF EntryList
<1>4. MetaList(e)
  BY <1>1 DEF MetaList, Lists
<1>5. e \in Seq(AclEntries) /\ OneEach(ToSet(e))
  BY <1>1, <1>2 DEF OneEach
<1>6. NameList(e, mode) /\ OnceEach(e)
  BY <1>1 DEF NameList, OnceEach
<1> QED  BY <1>3, <1>4, <1>5, <1>6 DEF e

-----------------------------------------------------------------------------
(* The headers of a write.                                                 *)

LEMMA HeaderIs ==
  /\ DOMAIN NoHeaders = {}
  /\ \A h, t : DOMAIN Header(h, t) = {h} /\ Header(h, t)[h] = t
BY DEF NoHeaders, Header

(* H has the header h with text t if there is something to say.            *)
Says(H, h, something, t) ==
  /\ ~something => h \notin DOMAIN H
  /\ something => h \in DOMAIN H /\ H[h] = t

LEMMA SaysOne ==
  ASSUME NEW something \in BOOLEAN, NEW h, NEW t
  PROVE  /\ Says(IF something THEN Header(h, t) ELSE NoHeaders, h, something, t)
         /\ DOMAIN (IF something THEN Header(h, t) ELSE NoHeaders) \subseteq {h}
<1>1. CASE something
  <2>1. (IF something THEN Header(h, t) ELSE NoHeaders) = Header(h, t)
    BY <1>1
  <2>2. DOMAIN Header(h, t) = {h} /\ Header(h, t)[h] = t
    BY HeaderIs
  <2> QED  BY <1>1, <2>1, <2>2 DEF Says
<1>2. CASE ~something
  <2>1. (IF something THEN Header(h, t) ELSE NoHeaders) = NoHeaders
    BY <1>2
  <2>2. DOMAIN NoHeaders = {}
    BY HeaderIs
  <2> QED  BY <1>2, <2>1, <2>2 DEF Says
<1> QED  BY <1>1, <1>2

LEMMA SaysFirst ==
  ASSUME NEW f, NEW g, NEW h, NEW something \in BOOLEAN, NEW t,
         Says(f, h, something, t), h \notin DOMAIN g
  PROVE  Says(f ++ g, h, something, t)
<1> DEFINE j == f ++ g
<1>1. /\ DOMAIN j = DOMAIN f \cup DOMAIN g
      /\ \A x \in DOMAIN f : j[x] = f[x]
  BY Joins
<1> HIDE DEF j
<1>2. Says(j, h, something, t)
  BY <1>1 DEF Says
<1> QED  BY <1>2 DEF j

LEMMA SaysSecond ==
  ASSUME NEW f, NEW g, NEW h, NEW something \in BOOLEAN, NEW t,
         Says(g, h, something, t), h \notin DOMAIN f
  PROVE  Says(f ++ g, h, something, t)
<1> DEFINE j == f ++ g
<1>1. /\ DOMAIN j = DOMAIN f \cup DOMAIN g
      /\ \A x \in DOMAIN g : x \notin DOMAIN f => j[x] = g[x]
  BY Joins
<1> HIDE DEF j
<1>2. Says(j, h, something, t)
  BY <1>1 DEF Says
<1> QED  BY <1>2 DEF j

LEMMA Utf8HeaderIs ==
  ASSUME utf8 \in BOOLEAN
  PROVE  /\ DOMAIN Utf8Header \subseteq {"x-emc-utf8"}
         /\ Says(Utf8Header, "x-emc-utf8", utf8, <<"true">>)
BY SaysOne DEF Utf8Header

LEMMA MetaHeadersAre ==
  /\ DOMAIN MetaHeaders \subseteq {"x-emc-meta", "x-emc-listable-meta"}
  /\ Says(MetaHeaders, "x-emc-meta", request.meta # << >>,
          MetadataHeader(request.meta, utf8))
  /\ Says(MetaHeaders, "x-emc-listable-meta", request.listable_meta # << >>,
          MetadataHeader(request.listable_meta, utf8))
<1> DEFINE f == IF request.meta # << >>
                  THEN Header("x-emc-meta", MetadataHeader(request.meta, utf8))
                  ELSE NoHeaders
           g == IF request.listable_meta # << >>
                  THEN Header("x-emc-listable-meta",
                              MetadataHeader(request.listable_meta, utf8))
                  ELSE NoHeaders
<1>1. /\ DOMAIN f \subseteq {"x-emc-meta"}
      /\ Says(f, "x-emc-meta", request.meta # << >>,
              MetadataHeader(request.meta, utf8))
  BY SaysOne
<1>2. /\ DOMAIN g \subseteq {"x-emc-listable-meta"}
      /\ Says(g, "x-emc-listable-meta", request.listable_meta # << >>,
              MetadataHeader(request.listable_meta, utf8))
  BY SaysOne
<1>3. MetaHeaders = f ++ g
  BY DEF MetaHeaders
<1> HIDE DEF f, g
<1>4. "x-emc-meta" \notin DOMAIN g /\ "x-emc-listable-meta" \notin DOMAIN f
  BY <1>1, <1>2
<1>5. DOMAIN (f ++ g) = DOMAIN f \cup DOMAIN g
  BY Joins
<1>6. Says(f ++ g, "x-emc-meta", request.meta # << >>,
           MetadataHeader(request.meta, utf8))
  BY <1>1, <1>4, SaysFirst
<1>7. Says(f ++ g, "x-emc-listable-meta", request.listable_meta # << >>,
           MetadataHeader(request.listable_meta, utf8))
  BY <1>2, <1>4, SaysSecond
<1> QED  BY <1>1, <1>2, <1>3, <1>5, <1>6, <1>7

LEMMA AclHeadersAre ==
  /\ DOMAIN AclHeaders \subseteq {"x-emc-useracl", "x-emc-groupacl"}
  /\ Says(AclHeaders, "x-emc-useracl", AclSent(request.acl, "user") # << >>,
          AclHeader(request.acl, "user"))
  /\ Says(AclHeaders, "x-emc-groupacl", AclSent(request.acl, "group") # << >>,
          AclHeader(request.acl, "group"))
<1> DEFINE f == IF AclSent(request.acl, "user") # << >>
                  THEN Header("x-emc-useracl", AclHeader(request.acl, "user"))
                  ELSE NoHeaders
           g == IF AclSent(request.acl, "group") # << >>
                  THEN Header("x-emc-groupacl", AclHeader(request.acl, "group"))
                  ELSE NoHeaders
<1>1. /\ DOMAIN f \subseteq {"x-emc-useracl"}
      /\ Says(f, "x-emc-useracl", AclSent(request.acl, "user") # << >>,
              AclHeader(request.acl, "user"))
  BY SaysOne
<1>2. /\ DOMAIN g \subseteq {"x-emc-groupacl"}
      /\ Says(g, "x-emc-groupacl", AclSent(request.acl, "group") # << >>,
              AclHeader(request.acl, "group"))
  BY SaysOne
<1>3. AclHeaders = f ++ g
  BY DEF AclHeaders
<1> HIDE DEF f, g
<1>4. "x-emc-useracl" \notin DOMAIN g /\ "x-emc-groupacl" \notin DOMAIN f
  BY <1>1, <1>2
<1>5. DOMAIN (f ++ g) = DOMAIN f \cup DOMAIN g
  BY Joins
<1>6. Says(f ++ g, "x-emc-useracl", AclSent(request.acl, "user") # << >>,
           AclHeader(request.acl, "user"))
  BY <1>1, <1>4, SaysFirst
<1>7. Says(f ++ g, "x-emc-groupacl", AclSent(request.acl, "group") # << >>,
           AclHeader(request.acl, "group"))
  BY <1>2, <1>4, SaysSecond
<1> QED  BY <1>1, <1>2, <1>3, <1>5, <1>6, <1>7

LEMMA HasAclIs ==
  ASSUME NEW h, NEW type,
         Says(headers, h, AclSent(request.acl, type) # << >>,
              AclHeader(request.acl, type))
  PROVE  HasAcl(h, type)
BY DEF Says, HasAcl

(* The headers that AtmosFilter_set_write_headers leaves.                  *)
LEMMA WriteHeaders ==
  ASSUME utf8 \in BOOLEAN, headers = MetaHeaders ++ Utf8Header ++ AclHeaders
  PROVE  /\ ServerUtf8 = utf8
         /\ Says(headers, "x-emc-meta", request.meta # << >>,
                 MetadataHeader(request.meta, utf8))
         /\ Says(headers, "x-emc-listable-meta", request.listable_meta # << >>,
                 MetadataHeader(request.listable_meta, utf8))
         /\ HasAcl("x-emc-useracl", "user")
         /\ HasAcl("x-emc-groupacl", "group")
<1> DEFINE f == MetaHeaders
           u == Utf8Header
           m == f ++ u
           g == AclHeaders
<1>1. headers = m ++ g
  OBVIOUS
<1>2. /\ DOMAIN f \subseteq {"x-emc-meta", "x-emc-listable-meta"}
      /\ DOMAIN u \subseteq {"x-emc-utf8"}
      /\ DOMAIN g \subseteq {"x-emc-useracl", "x-emc-groupacl"}
  BY MetaHeadersAre, Utf8HeaderIs, AclHeadersAre
<1>3. DOMAIN m = DOMAIN f \cup DOMAIN u
  BY Joins
<1>4. Says(m, "x-emc-meta", request.meta # << >>, MetadataHeader(request.meta, utf8))
  BY <1>2, MetaHeadersAre, SaysFirst
<1>5. Says(m, "x-emc-listable-meta", request.listable_meta # << >>,
           MetadataHeader(request.listable_meta, utf8))
  BY <1>2, MetaHeadersAre, SaysFirst
<1>6. Says(m, "x-emc-utf8", utf8, <<"true">>)
  BY <1>2, Utf8HeaderIs, SaysSecond
<1> HIDE DEF m
<1>7. /\ "x-emc-meta" \notin DOMAIN g /\ "x-emc-listable-meta" \notin DOMAIN g
      /\ "x-emc-utf8" \notin DOMAIN g
      /\ "x-emc-useracl" \notin DOMAIN m /\ "x-emc-groupacl" \notin DOMAIN m
  BY <1>2, <1>3
<1>8. Says(headers, "x-emc-meta", request.meta # << >>,
           MetadataHeader(request.meta, utf8))
  BY <1>1, <1>4, <1>7, SaysFirst
<1>9. Says(headers, "x-emc-listable-meta", request.listable_meta # << >>,
           MetadataHeader(request.listable_meta, utf8))
  BY <1>1, <1>5, <1>7, SaysFirst
<1>10. Says(headers, "x-emc-utf8", utf8, <<"true">>)
  BY <1>1, <1>6, <1>7, SaysFirst
<1>11. Says(headers, "x-emc-useracl", AclSent(request.acl, "user") # << >>,
            AclHeader(request.acl, "user"))
  BY <1>1, <1>7, AclHeadersAre, SaysSecond
<1>12. Says(headers, "x-emc-groupacl", AclSent(request.acl, "group") # << >>,
            AclHeader(request.acl, "group"))
  BY <1>1, <1>7, AclHeadersAre, SaysSecond
<1>13. HasAcl("x-emc-useracl", "user") /\ HasAcl("x-emc-groupacl", "group")
  BY <1>11, <1>12, HasAclIs
<1>14. ServerUtf8 = utf8
  BY <1>10 DEF Says, ServerUtf8
<1> QED  BY <1>8, <1>9, <1>13, <1>14

(* The headers of AtmosClient_delete_user_meta and of a read with tags.    *)
LEMMA TagsHeadersAre ==
  ASSUME utf8 \in BOOLEAN, NEW mode, headers = Utf8Header ++ TagsHeaders(mode)
  PROVE  /\ ServerUtf8 = utf8
         /\ Says(headers, "x-emc-tags", request.names # << >>,
                 TagsHeader(request.names, mode))
<1> DEFINE u == Utf8Header
           g == TagsHeaders(mode)
<1>1. /\ DOMAIN u \subseteq {"x-emc-utf8"}
      /\ Says(u, "x-emc-utf8", utf8, <<"true">>)
  BY Utf8HeaderIs
<1>2. /\ DOMAIN g \subseteq {"x-emc-tags"}
      /\ Says(g, "x-emc-tags", request.names # << >>, TagsHeader(request.names, mode))
  BY SaysOne DEF TagsHeaders, TagsHeaderOf
<1>3. headers = u ++ g
  OBVIOUS
<1> HIDE DEF u, g
<1>4. "x-emc-utf8" \notin DOMAIN g /\ "x-emc-tags" \notin DOMAIN u
  BY <1>1, <1>2
<1>5. Says(headers, "x-emc-utf8", utf8, <<"true">>)
  BY <1>1, <1>3, <1>4, SaysFirst
<1>6. Says(headers, "x-emc-tags", request.names # << >>,
           TagsHeader(request.names, mode))
  BY <1>2, <1>3, <1>4, SaysSecond
<1>7. ServerUtf8 = utf8
  BY <1>5 DEF Says, ServerUtf8
<1> QED  BY <1>6, <1>7

-----------------------------------------------------------------------------
(* The invariant of the writes.                                            *)

RequestShape ==
  [op: Operations \cup {"none"}, meta: Lists, listable_meta: Lists, acl: Acls,
   names: Seq(Texts)]

(* The lists of a request are of the caller's, each entry once.            *)
RequestInv ==
  /\ request \in RequestShape
  /\ pc # "idle" => request.op \in Operations
  /\ MetaList(request.meta) /\ MetaList(request.listable_meta)
  /\ request.acl \in Seq(AclEntries) /\ OneEach(ToSet(request.acl))
  /\ NameList(request.names, utf8) /\ OnceEach(request.names)
  /\ request.op = "set_user_meta" => request.acl = << >>
  /\ request.op = "read_object" => request.names = << >>

ListHeaders ==
  Utf8Header ++ Header("x-emc-include-meta", <<"true">>)
    ++ TagsHeaderOf("x-emc-user-tags", UserTags, utf8)
    ++ TagsHeaderOf("x-emc-system-tags", SystemTags, FALSE)

(* The headers that the filter of each operation sets.                     *)
HeadersFor ==
  /\ request.op \in {"create_object", "set_user_meta"} =>
       headers = MetaHeaders ++ Utf8Header ++ AclHeaders
  /\ request.op \in {"delete_user_meta", "get_user_meta"} =>
       headers = Utf8Header ++ TagsHeaders(utf8)
  /\ request.op = "get_system_meta" => headers = Utf8Header ++ TagsHeaders(FALSE)
  /\ request.op = "set_acl" => headers = AclHeaders
  /\ request.op = "read_object" => headers = Utf8Header
  /\ request.op = "get_acl" => headers = NoHeaders
  /\ request.op = "list_directory" => headers = ListHeaders

HeadersInv == pc \in {"sent", "answered"} => HeadersFor

(* What is kept under a name is the value of an entry of the caller's.     *)
Kept(f) ==
  /\ IsFiniteSet(DOMAIN f)
  /\ \A n \in DOMAIN f :
       \E e \in Entries : e.name = n /\ e.value = f[n] /\ Sendable(e)

KeptAcl(acl) == acl \in Seq(AclEntries) /\ OneEach(ToSet(acl))

Shaped(o) == o = [meta |-> o.meta, listable |-> o.listable, acl |-> o.acl]

(* The server keeps what it was asked to keep.                             *)
StoreInv ==
  /\ Shaped(object) /\ Shaped(wanted)
  /\ object.meta = wanted.meta /\ object.listable = wanted.listable
  /\ ToSet(object.acl) = ToSet(wanted.acl)
  /\ Kept(object.meta) /\ Kept(object.listable)
  /\ KeptAcl(object.acl) /\ KeptAcl(wanted.acl)

WriteInv ==
  /\ pc \in {"idle", "built", "sent", "answered"}
  /\ utf8 \in Utf8Modes
  /\ calls \in 0 .. MaxCalls
  /\ RequestInv
  /\ HeadersInv
  /\ StoreInv

LEMMA KeptNone ==
  Kept(NoHeaders)
BY HeaderIs, FS_EmptySet DEF Kept

LEMMA KeptJoin ==
  ASSUME NEW f, NEW g, Kept(f), Kept(g)
  PROVE  Kept(f ++ g)
<1> DEFINE j == f ++ g
<1>1. /\ DOMAIN j = DOMAIN f \cup DOMAIN g
      /\ \A x \in DOMAIN f : j[x] = f[x]
      /\ \A x \in DOMAIN g : x \notin DOMAIN f => j[x] = g[x]
  BY Joins
<1> HIDE DEF j
<1>2. IsFiniteSet(DOMAIN j)
  <2>1. IsFiniteSet(DOMAIN f) /\ IsFiniteSet(DOMAIN g)
    BY DEF Kept
  <2>2. IsFiniteSet(DOMAIN f \cup DOMAIN g)
    BY <2>1, FS_Union, Zenon
  <2> QED  BY <1>1, <2>2
<1>3. \A n \in DOMAIN j :
        \E e \in Entries : e.name = n /\ e.value = j[n] /\ Sendable(e)
  <2> TAKE n \in DOMAIN j
  <2>1. CASE n \in DOMAIN f
    BY <1>1, <2>1 DEF Kept
  <2>2. CASE n \notin DOMAIN f
    BY <1>1, <2>2 DEF Kept
  <2> QED  BY <2>1, <2>2
<1>4. Kept(j)
  BY <1>2, <1>3 DEF Kept
<1> QED  BY <1>4 DEF j

LEMMA KeptWithout ==
  ASSUME NEW f, NEW names, Kept(f)
  PROVE  Kept(Without(f, names))
<1>1. /\ DOMAIN Without(f, names) \subseteq DOMAIN f
      /\ \A n \in DOMAIN Without(f, names) : Without(f, names)[n] = f[n]
  BY DEF Without
<1> DEFINE w == Without(f, names)
<1> HIDE DEF w
<1>2. DOMAIN w \subseteq DOMAIN f /\ \A n \in DOMAIN w : w[n] = f[n]
  BY <1>1 DEF w
<1>3. IsFiniteSet(DOMAIN w)
  BY <1>2, FS_Subset DEF Kept
<1>4. Kept(w)
  BY <1>2, <1>3 DEF Kept
<1> QED  BY <1>4 DEF w

LEMMA FiniteRange ==
  ASSUME NEW S, IsFiniteSet(S), NEW f, f = [x \in S |-> f[x]]
  PROVE  IsFiniteSet({f[x] : x \in S})
<1> DEFINE T == {f[x] : x \in S}
<1>1. f \in [S -> T]
  <2>1. \A x \in S : f[x] \in T
    OBVIOUS
  <2> HIDE DEF T
  <2> QED  BY <2>1
<1>2. \A t \in T : \E x \in S : f[x] = t
  OBVIOUS
<1> HIDE DEF T
<1>3. f \in Surjection(S, T)
  BY <1>1, <1>2 DEF Surjection
<1>4. IsFiniteSet(T)
  BY <1>3, FS_Surjection
<1> QED  BY <1>4 DEF T

LEMMA ToSetFinite ==
  ASSUME NEW S, NEW s \in Seq(S)
  PROVE  IsFiniteSet(ToSet(s))
<1>1. Len(s) \in Nat /\ DOMAIN s = 1 .. Len(s)
  BY LenProperties
<1>2. IsFiniteSet(1 .. Len(s))
  BY <1>1, FS_Interval
<1>3. IsFiniteSet({s[i] : i \in 1 .. Len(s)})
  <2>1. s = [i \in 1 .. Len(s) |-> s[i]]
    BY LenProperties
  <2> QED  BY <1>2, <2>1, FiniteRange
<1> QED  BY <1>1, <1>3 DEF ToSet

LEMMA KeptAsked ==
  ASSUME utf8 \in Utf8Modes, NEW meta, MetaList(meta)
  PROVE  Kept(Asked(meta))
<1> DEFINE V == {e \in ToSet(meta) : Sendable(e)}
           a == Asked(meta)
<1>1. meta \in Seq([name: Texts, value: Texts]) /\ DOMAIN meta = 1 .. Len(meta)
  BY LenProperties DEF MetaList, Lists
<1>2. a = EntryValues(V)
  BY DEF Asked, EntryValues
<1>3. IsFiniteSet(V)
  BY <1>1, ToSetFinite, FS_Subset
<1>4. \A v \in V : \E e \in Entries : /\ e.name = v.name /\ e.value = v.value
                                      /\ Sendable(e)
  BY <1>1 DEF ToSet, MetaList, Sendable
<1> HIDE DEF V, a
<1>5. DOMAIN a = {e.name : e \in V}
  BY <1>2 DEF EntryValues
<1>6. IsFiniteSet({e.name : e \in V})
  <2> DEFINE name == [e \in V |-> e.name]
  <2>1. name = [e \in V |-> name[e]] /\ \A e \in V : name[e] = e.name
    OBVIOUS
  <2> HIDE DEF name
  <2>2. IsFiniteSet({name[e] : e \in V})
    BY <1>3, <2>1, FiniteRange
  <2>3. {name[e] : e \in V} = {e.name : e \in V}
    BY <2>1
  <2> QED  BY <2>2, <2>3
<1>7. ASSUME NEW n \in DOMAIN a
      PROVE  \E e \in Entries : e.name = n /\ e.value = a[n] /\ Sendable(e)
  <2> DEFINE c == CHOOSE e \in V : e.name = n
  <2>1. c \in V /\ c.name = n
    BY <1>5
  <2>2. a[n] = c.value
    BY <1>2, <1>5 DEF EntryValues
  <2> HIDE DEF c
  <2> QED  BY <1>4, <2>1, <2>2
<1>8. Kept(a)
  BY <1>5, <1>6, <1>7 DEF Kept
<1> QED  BY <1>8 DEF a

(* What a write leaves on the server is what it was asked to leave.        *)
LEMMA SentIsAsked ==
  ASSUME utf8 \in Utf8Modes, RequestInv, HeadersFor,
         request.op \in {"create_object", "set_user_meta"}
  PROVE  /\ SentMeta("x-emc-meta") = Asked(request.meta)
         /\ SentMeta("x-emc-listable-meta") = Asked(request.listable_meta)
         /\ SentAcl \in Seq(AclEntries) /\ AclWanted \in Seq(AclEntries)
         /\ ToSet(SentAcl) = ToSet(AclWanted)
         /\ ToSet(SentAcl) \subseteq ToSet(request.acl)
<1>1. /\ utf8 \in BOOLEAN
      /\ headers = MetaHeaders ++ Utf8Header ++ AclHeaders
      /\ MetaList(request.meta) /\ MetaList(request.listable_meta)
      /\ request.acl \in Seq(AclEntries)
  BY MetadataAssumption DEF HeadersFor, RequestInv
<1>2. /\ ServerUtf8 = utf8
      /\ Says(headers, "x-emc-meta", request.meta # << >>,
              MetadataHeader(request.meta, utf8))
      /\ Says(headers, "x-emc-listable-meta", request.listable_meta # << >>,
              MetadataHeader(request.listable_meta, utf8))
      /\ HasAcl("x-emc-useracl", "user")
      /\ HasAcl("x-emc-groupacl", "group")
  BY <1>1, WriteHeaders
<1>3. SentMeta("x-emc-meta") = Asked(request.meta)
  <2>1. /\ request.meta = << >> => "x-emc-meta" \notin DOMAIN headers
        /\ request.meta # << >> =>
             /\ "x-emc-meta" \in DOMAIN headers
             /\ headers["x-emc-meta"] = MetadataHeader(request.meta, utf8)
    BY <1>2 DEF Says
  <2> QED  BY <1>1, <1>2, <2>1, SentMetaIs
<1>4. SentMeta("x-emc-listable-meta") = Asked(request.listable_meta)
  <2>1. /\ request.listable_meta = << >> =>
             "x-emc-listable-meta" \notin DOMAIN headers
        /\ request.listable_meta # << >> =>
             /\ "x-emc-listable-meta" \in DOMAIN headers
             /\ headers["x-emc-listable-meta"]
                  = MetadataHeader(request.listable_meta, utf8)
    BY <1>2 DEF Says
  <2> QED  BY <1>1, <1>2, <2>1, SentMetaIs
<1> QED  BY <1>1, <1>2, <1>3, <1>4, SentAclIs

LEMMA SentNamesAre ==
  ASSUME utf8 \in Utf8Modes, RequestInv, HeadersFor,
         request.op \in {"delete_user_meta", "get_user_meta"}
  PROVE  SentNames = ToSet(request.names) /\ ServerUtf8 = utf8
<1>1. /\ utf8 \in BOOLEAN
      /\ headers = Utf8Header ++ TagsHeaders(utf8)
      /\ NameList(request.names, utf8)
  BY MetadataAssumption DEF HeadersFor, RequestInv
<1>2. /\ ServerUtf8 = utf8
      /\ Says(headers, "x-emc-tags", request.names # << >>,
              TagsHeader(request.names, utf8))
  BY <1>1, TagsHeadersAre
<1>3. /\ request.names = << >> => "x-emc-tags" \notin DOMAIN headers
      /\ request.names # << >> =>
           /\ "x-emc-tags" \in DOMAIN headers
           /\ headers["x-emc-tags"] = TagsHeader(request.names, utf8)
  BY <1>2 DEF Says
<1> QED  BY <1>1, <1>2, <1>3, NamesInIs DEF SentNames

LEMMA OneEachPart ==
  ASSUME NEW A, NEW B, OneEach(A), B \subseteq A
  PROVE  OneEach(B)
BY DEF OneEach

LEMMA StoreKeeps ==
  ASSUME utf8 \in Utf8Modes, RequestInv, HeadersFor, StoreInv,
         request.op \in Writes, object' = Stored, wanted' = Wanted, utf8' = utf8
  PROVE  StoreInv'
<1>1. /\ MetaList(request.meta) /\ MetaList(request.listable_meta)
      /\ request.acl \in Seq(AclEntries) /\ OneEach(ToSet(request.acl))
      /\ request.op = "set_user_meta" => request.acl = << >>
  BY DEF RequestInv
<1>2. /\ Shaped(object) /\ Shaped(wanted)
      /\ object.meta = wanted.meta /\ object.listable = wanted.listable
      /\ ToSet(object.acl) = ToSet(wanted.acl)
      /\ Kept(object.meta) /\ Kept(object.listable)
      /\ KeptAcl(object.acl) /\ KeptAcl(wanted.acl)
  BY DEF StoreInv
<1>3. \A f : Kept(f)' <=> Kept(f)
  BY DEF Kept, Sendable
<1>4. Kept(Asked(request.meta)) /\ Kept(Asked(request.listable_meta))
  BY <1>1, KeptAsked
<1>5. CASE request.op \in {"create_object", "set_user_meta"}
  <2> DEFINE base == IF request.op = "create_object" THEN NewObject ELSE object
             wbase == IF request.op = "create_object" THEN NewObject ELSE wanted
             m == Asked(request.meta) ++ base.meta
             l == Asked(request.listable_meta) ++ base.listable
  <2>1. /\ SentMeta("x-emc-meta") = Asked(request.meta)
        /\ SentMeta("x-emc-listable-meta") = Asked(request.listable_meta)
        /\ SentAcl \in Seq(AclEntries) /\ AclWanted \in Seq(AclEntries)
        /\ ToSet(SentAcl) = ToSet(AclWanted)
        /\ ToSet(SentAcl) \subseteq ToSet(request.acl)
    BY <1>5, SentIsAsked
  <2>2. /\ base.meta = wbase.meta /\ base.listable = wbase.listable
        /\ Kept(base.meta) /\ Kept(base.listable)
        /\ base.acl \in Seq(AclEntries) /\ wbase.acl \in Seq(AclEntries)
        /\ ToSet(base.acl) = ToSet(wbase.acl)
        /\ OneEach(ToSet(base.acl))
    <3>1. CASE request.op = "create_object"
      <4>1. base = NewObject /\ wbase = NewObject
        BY <3>1
      <4>2. /\ base.meta = NoHeaders /\ base.listable = NoHeaders
            /\ wbase.meta = NoHeaders /\ wbase.listable = NoHeaders
            /\ base.acl = << >> /\ wbase.acl = << >>
        BY <4>1 DEF NewObject
      <4>3. << >> \in Seq(AclEntries) /\ OneEach(ToSet(<< >>))
        BY EmptyLists
      <4> HIDE DEF base, wbase
      <4> QED  BY <4>2, <4>3, KeptNone
    <3>2. CASE request.op # "create_object"
      <4>1. base = object /\ wbase = wanted
        BY <3>2
      <4> QED  BY <1>2, <4>1 DEF KeptAcl
    <3> QED  BY <3>1, <3>2
  <2>3. /\ Stored = [meta |-> SentMeta("x-emc-meta") ++ base.meta,
                     listable |-> SentMeta("x-emc-listable-meta") ++ base.listable,
                     acl |-> base.acl \o SentAcl]
        /\ Wanted = [meta |-> Asked(request.meta) ++ wbase.meta,
                     listable |-> Asked(request.listable_meta) ++ wbase.listable,
                     acl |-> wbase.acl \o AclWanted]
    BY <1>5 DEF Stored, Wanted
  <2>4. request.op = "create_object" => ToSet(base.acl) = {}
    BY DEF NewObject, ToSet
  <2>5. request.op = "set_user_meta" => ToSet(SentAcl) = {}
    <3>1. ToSet(<< >>) = {}
      BY DEF ToSet
    <3> QED  BY <1>1, <2>1, <3>1
  <2> HIDE DEF base, wbase
  <2>6. /\ base.acl \o SentAcl \in Seq(AclEntries)
        /\ ToSet(base.acl \o SentAcl) = ToSet(base.acl) \cup ToSet(SentAcl)
        /\ wbase.acl \o AclWanted \in Seq(AclEntries)
        /\ ToSet(wbase.acl \o AclWanted) = ToSet(wbase.acl) \cup ToSet(AclWanted)
    BY <2>1, <2>2, ToSetCat
  <2>7. OneEach(ToSet(base.acl) \cup ToSet(SentAcl))
    <3>1. OneEach(ToSet(SentAcl))
      BY <1>1, <2>1, OneEachPart
    <3>2. CASE request.op = "create_object"
      BY <2>4, <3>1, <3>2
    <3>3. CASE request.op = "set_user_meta"
      BY <2>2, <2>5, <3>3
    <3> QED  BY <1>5, <3>2, <3>3
  <2>8. Kept(m) /\ Kept(l)
    BY <1>4, <2>2, KeptJoin
  <2> DEFINE a == base.acl \o SentAcl
             b == wbase.acl \o AclWanted
  <2>9. object' = [meta |-> m, listable |-> l, acl |-> a]
    BY <2>1, <2>3
  <2>10. wanted' = [meta |-> m, listable |-> l, acl |-> b]
    BY <2>2, <2>3
  <2>11. KeptAcl(a) /\ KeptAcl(b) /\ ToSet(a) = ToSet(b)
    BY <2>1, <2>2, <2>6, <2>7 DEF KeptAcl
  <2> HIDE DEF m, l, a, b
  <2>12. /\ object'.meta = m /\ object'.listable = l /\ object'.acl = a
         /\ wanted'.meta = m /\ wanted'.listable = l /\ wanted'.acl = b
         /\ Shaped(object') /\ Shaped(wanted')
    BY <2>9, <2>10 DEF Shaped
  <2> QED  BY <1>3, <2>8, <2>11, <2>12 DEF StoreInv
<1>6. CASE request.op = "delete_user_meta"
  <2> DEFINE N == ToSet(request.names)
             m == Without(object.meta, N)
             l == Without(object.listable, N)
  <2>1. SentNames = N
    BY <1>6, SentNamesAre
  <2>2. /\ Stored = [object EXCEPT !.meta = Without(@, SentNames),
                                   !.listable = Without(@, SentNames)]
        /\ Wanted = [wanted EXCEPT !.meta = Without(@, ToSet(request.names)),
                                   !.listable = Without(@, ToSet(request.names))]
    BY <1>6 DEF Stored, Wanted
  <2>3. Kept(m) /\ Kept(l)
    BY <1>2, KeptWithout
  <2>4. object' = [object EXCEPT !.meta = m, !.listable = l]
    BY <2>1, <2>2
  <2>5. wanted' = [wanted EXCEPT !.meta = m, !.listable = l]
    BY <1>2, <2>2
  <2> HIDE DEF m, l
  <2>6. /\ object'.meta = m /\ object'.listable = l /\ object'.acl = object.acl
        /\ Shaped(object')
    BY <1>2, <2>4 DEF Shaped
  <2>7. /\ wanted'.meta = m /\ wanted'.listable = l /\ wanted'.acl = wanted.acl
        /\ Shaped(wanted')
    BY <1>2, <2>5 DEF Shaped
  <2> QED  BY <1>2, <1>3, <2>3, <2>6, <2>7 DEF StoreInv
<1>7. CASE request.op = "set_acl"
  <2>1. headers = AclHeaders
    BY <1>7 DEF HeadersFor
  <2>2. HasAcl("x-emc-useracl", "user") /\ HasAcl("x-emc-groupacl", "group")
    BY <2>1, AclHeadersAre, HasAclIs
  <2>3. /\ SentAcl \in Seq(AclEntries) /\ AclWanted \in Seq(AclEntries)
        /\ ToSet(SentAcl) = ToSet(AclWanted)
        /\ ToSet(SentAcl) \subseteq ToSet(request.acl)
    BY <1>1, <2>2, SentAclIs
  <2>4. KeptAcl(SentAcl) /\ KeptAcl(AclWanted)
    BY <1>1, <2>3, OneEachPart DEF KeptAcl
  <2>5. /\ Stored = [object EXCEPT !.acl = SentAcl]
        /\ Wanted = [wanted EXCEPT !.acl = AclWanted]
    BY <1>7 DEF Stored, Wanted
  <2> DEFINE a == SentAcl
             b == AclWanted
  <2>6. object' = [object EXCEPT !.acl = a] /\ wanted' = [wanted EXCEPT !.acl = b]
    BY <2>5
  <2>7. KeptAcl(a) /\ KeptAcl(b) /\ ToSet(a) = ToSet(b)
    BY <2>3, <2>4
  <2> HIDE DEF a, b
  <2>8. /\ object'.meta = object.meta /\ object'.listable = object.listable
        /\ object'.acl = a /\ Shaped(object')
    BY <1>2, <2>6 DEF Shaped
  <2>9. /\ wanted'.meta = wanted.meta /\ wanted'.listable = wanted.listable
        /\ wanted'.acl = b /\ Shaped(wanted')
    BY <1>2, <2>6 DEF Shaped
  <2> QED  BY <1>2, <1>3, <2>7, <2>8, <2>9 DEF StoreInv
<1> QED  BY <1>5, <1>6, <1>7 DEF Writes

-----------------------------------------------------------------------------
(* Steps.                                                                  *)

LEMMA RequestStays ==
  ASSUME RequestInv, pc # "idle" \/ pc' = "idle", UNCHANGED <<request, utf8>>
  PROVE  RequestInv'
BY DEF RequestInv

LEMMA StoreStays ==
  ASSUME StoreInv, UNCHANGED <<object, wanted, utf8>>
  PROVE  StoreInv'
<1>1. \A f : Kept(f)' <=> Kept(f)
  BY DEF Kept, Sendable
<1> QED  BY <1>1 DEF StoreInv, Shaped, KeptAcl

LEMMA SameHeaders ==
  ASSUME UNCHANGED <<request, utf8>>
  PROVE  /\ MetaHeaders' = MetaHeaders /\ Utf8Header' = Utf8Header
         /\ AclHeaders' = AclHeaders /\ ListHeaders' = ListHeaders
         /\ TagsHeaders(utf8)' = TagsHeaders(utf8)
         /\ TagsHeaders(FALSE)' = TagsHeaders(FALSE)
<1>1. Utf8Header' = Utf8Header
  BY DEF Utf8Header
<1>2. TagsHeaders(utf8)' = TagsHeaders(utf8) /\ TagsHeaders(FALSE)' = TagsHeaders(FALSE)
  BY DEF TagsHeaders
<1>3. SystemPlaces' = SystemPlaces
  BY DEF SystemPlaces
<1>4. UserTags' = UserTags /\ SystemTags' = SystemTags
  BY <1>3 DEF UserTags, SystemTags
<1>5. ListHeaders' = ListHeaders
  BY <1>1, <1>4 DEF ListHeaders
<1>6. MetaHeaders' = MetaHeaders
  BY DEF MetaHeaders
<1>7. AclHeaders' = AclHeaders
  BY DEF AclHeaders
<1> QED  BY <1>1, <1>2, <1>5, <1>6, <1>7

LEMMA HeadersStay ==
  ASSUME HeadersInv, UNCHANGED <<headers, request, utf8>>,
         pc \in {"sent", "answered"} \/ pc' \notin {"sent", "answered"}
  PROVE  HeadersInv'
<1>1. pc \in {"sent", "answered"} => HeadersFor'
  BY SameHeaders DEF HeadersInv, HeadersFor
<1> QED  BY <1>1 DEF HeadersInv

LEMMA BuildKeeps ==
  ASSUME WriteInv, NEW op \in Operations, NEW entries \in EntriesFor(op),
         NEW acl \in AclFor(op), NEW names \in NamesFor(op),
         BuildRequest(op, entries, acl, names)
  PROVE  WriteInv'
<1> DEFINE m == Pairs(entries, FALSE)
           l == Pairs(entries, TRUE)
<1>1. /\ calls < MaxCalls /\ calls' = calls + 1 /\ pc' = "built"
      /\ UNCHANGED <<utf8, object, wanted>>
      /\ request' = [op |-> op, meta |-> m, listable_meta |-> l,
                     acl |-> acl, names |-> names]
  BY DEF BuildRequest
<1>2. utf8 \in Utf8Modes /\ calls \in 0 .. MaxCalls /\ StoreInv
  BY DEF WriteInv
<1>3. EntryList(entries)
  BY EntryListsAre, EmptyLists DEF EntriesFor
<1>4. MetaList(m) /\ MetaList(l)
  BY <1>3, PairsAre
<1>5. acl \in Seq(AclEntries) /\ OneEach(ToSet(acl))
  BY AclListsAre, EmptyLists DEF AclFor
<1>6. NameList(names, utf8) /\ OnceEach(names)
  <2>1. names \in NameLists[utf8] \/ names = << >>
    BY DEF NamesFor
  <2>2. CASE names = << >>
    BY <2>2, EmptyLists
  <2>3. CASE names \in NameLists[utf8]
    BY <1>2, <2>3, NameListsAre
  <2> QED  BY <2>1, <2>2, <2>3
<1>7. /\ op = "set_user_meta" => acl = << >>
      /\ op = "read_object" => names = << >>
  BY DEF AclFor, NamesFor
<1> HIDE DEF m, l
<1>8. m \in Lists /\ l \in Lists /\ names \in Seq(Texts)
  BY <1>4, <1>6 DEF MetaList, NameList
<1>9. acl \in Acls
  BY <1>5, SeqMonotonic, MetadataAssumption DEF Acls
<1>10. /\ request'.op = op /\ request'.meta = m /\ request'.listable_meta = l
       /\ request'.acl = acl /\ request'.names = names
       /\ request' \in RequestShape
  BY <1>1, <1>8, <1>9 DEF RequestShape
<1>11. RequestInv'
  BY <1>1, <1>4, <1>5, <1>6, <1>7, <1>10 DEF RequestInv
<1>12. HeadersInv'
  BY <1>1 DEF HeadersInv
<1>13. StoreInv'
  BY <1>1, <1>2, StoreStays
<1>14. calls' \in 0 .. MaxCalls
  BY <1>1, <1>2, MetadataAssumption
<1> QED  BY <1>1, <1>2, <1>11, <1>12, <1>13, <1>14 DEF WriteInv

(* What every way to send does.                                            *)
LEMMA SendKeeps ==
  ASSUME WriteInv, NEW new, Send(new), HeadersFor'
  PROVE  WriteInv'
<1>1. /\ pc = "built" /\ pc' = "sent"
      /\ UNCHANGED <<utf8, request, object, wanted, calls>>
  BY DEF Send
<1>2. /\ utf8 \in Utf8Modes /\ calls \in 0 .. MaxCalls /\ StoreInv /\ RequestInv
  BY DEF WriteInv
<1>3. RequestInv' /\ StoreInv'
  BY <1>1, <1>2, RequestStays, StoreStays
<1>4. HeadersInv'
  BY DEF HeadersInv
<1> QED  BY <1>1, <1>2, <1>3, <1>4 DEF WriteInv

(* The filters and what each of them sends.                                *)
Sending ==
  \/ SetWriteHeaders \/ DeleteUserMeta \/ SetAcl
  \/ SetGetUserMetaHeaders \/ SetSystemMetaHeaders \/ SetReadObjectHeaders
  \/ GetAcl \/ ListWithMeta

LEMMA SendingIs ==
  ASSUME Sending
  PROVE  (\E new : Send(new)) /\ HeadersFor'
<1>1. ASSUME NEW new, Send(new)
      PROVE  headers' = new /\ UNCHANGED <<request, utf8>>
  BY <1>1 DEF Send
<1>2. CASE SetWriteHeaders
  BY <1>1, <1>2, SameHeaders DEF SetWriteHeaders, HeadersFor
<1>3. CASE DeleteUserMeta
  BY <1>1, <1>3, SameHeaders DEF DeleteUserMeta, HeadersFor
<1>4. CASE SetAcl
  BY <1>1, <1>4, SameHeaders DEF SetAcl, HeadersFor
<1>5. CASE SetGetUserMetaHeaders
  BY <1>1, <1>5, SameHeaders DEF SetGetUserMetaHeaders, HeadersFor
<1>6. CASE SetSystemMetaHeaders
  BY <1>1, <1>6, SameHeaders DEF SetSystemMetaHeaders, HeadersFor
<1>7. CASE SetReadObjectHeaders
  BY <1>1, <1>7, SameHeaders DEF SetReadObjectHeaders, HeadersFor
<1>8. CASE GetAcl
  BY <1>1, <1>8 DEF GetAcl, HeadersFor
<1>9. CASE ListWithMeta
  BY <1>1, <1>9, SameHeaders DEF ListWithMeta, HeadersFor, ListHeaders
<1> QED  BY <1>2, <1>3, <1>4, <1>5, <1>6, <1>7, <1>8, <1>9 DEF Sending

(* What a step without effect on the object does.                          *)
LEMMA AnswerKeeps ==
  ASSUME WriteInv, pc \in {"sent", "answered"}, pc' \in {"answered", "idle"},
         UNCHANGED <<utf8, request, headers, object, wanted, calls>>
  PROVE  WriteInv'
<1>1. /\ utf8 \in Utf8Modes /\ calls \in 0 .. MaxCalls /\ StoreInv /\ RequestInv
      /\ HeadersInv
  BY DEF WriteInv
<1>2. RequestInv' /\ StoreInv' /\ HeadersInv'
  BY <1>1, RequestStays, StoreStays, HeadersStay
<1> QED  BY <1>1, <1>2 DEF WriteInv

Delivering ==
  \/ Refuse
  \/ \E separator \in {<<Comma>>, <<Comma, Space>>}, with_system \in BOOLEAN :
       Deliver(separator, with_system)
  \/ \E listable_first, rest \in BOOLEAN, flag \in {"false", "none"} :
       DeliverListing(listable_first, flag, rest)

Returning ==
  \/ ParseGetUserMeta \/ ParseSystemMetadata \/ ParseGetAcl
  \/ ParseReadObject \/ ParseEntryMeta \/ ReturnWrite

Building ==
  \E op \in Operations :
    \E entries \in EntriesFor(op), acl \in AclFor(op), names \in NamesFor(op) :
      BuildRequest(op, entries, acl, names)

LEMMA NextIs ==
  Next <=> Building \/ Sending \/ Store \/ Delivering \/ Returning
BY DEF Next, Building, Sending, Delivering, Returning

LEMMA DeliveringIs ==
  ASSUME Delivering
  PROVE  /\ pc = "sent" /\ pc' = "answered"
         /\ UNCHANGED <<utf8, request, headers, response, object, wanted, calls>>
BY DEF Delivering, Refuse, Deliver, DeliverListing

LEMMA ReturningIs ==
  ASSUME Returning
  PROVE  /\ pc = "answered" /\ pc' = "idle"
         /\ UNCHANGED <<utf8, request, headers, answer, object, wanted, calls>>
BY DEF Returning, ParseGetUserMeta, ParseSystemMetadata, ParseGetAcl,
       ParseReadObject, ParseEntryMeta, ReturnWrite, Return

LEMMA StoreStep ==
  ASSUME WriteInv, Store
  PROVE  WriteInv'
<1>1. /\ pc = "sent" /\ pc' = "answered" /\ request.op \in Writes
      /\ object' = Stored /\ wanted' = Wanted
      /\ UNCHANGED <<utf8, request, headers, calls>>
  BY DEF Store
<1>2. /\ utf8 \in Utf8Modes /\ calls \in 0 .. MaxCalls /\ StoreInv /\ RequestInv
      /\ HeadersInv
  BY DEF WriteInv
<1>3. HeadersFor
  BY <1>1, <1>2 DEF HeadersInv
<1>4. RequestInv' /\ HeadersInv'
  BY <1>1, <1>2, RequestStays, HeadersStay
<1>5. StoreInv'
  BY <1>1, <1>2, <1>3, StoreKeeps
<1> QED  BY <1>1, <1>2, <1>4, <1>5 DEF WriteInv

LEMMA WriteInvInit ==
  ASSUME Init
  PROVE  WriteInv
<1>1. /\ pc = "idle" /\ utf8 \in Utf8Modes /\ calls = 0
      /\ request = NoRequest /\ object = NewObject /\ wanted = NewObject
  BY DEF Init
<1>2. /\ request.op = "none" /\ request.meta = << >>
      /\ request.listable_meta = << >> /\ request.acl = << >>
      /\ request.names = << >>
  BY <1>1 DEF NoRequest
<1>3. MetaList(<< >>) /\ << >> \in Seq(AclEntries) /\ OneEach(ToSet(<< >>))
  BY EmptyLists
<1>4. NameList(<< >>, utf8) /\ OnceEach(<< >>)
  BY EmptyLists
<1>5. request \in RequestShape
  BY <1>1 DEF NoRequest, RequestShape, Lists, Acls
<1>6. RequestInv
  BY <1>1, <1>2, <1>3, <1>4, <1>5 DEF RequestInv
<1>7. HeadersInv
  BY <1>1 DEF HeadersInv
<1>8. /\ NewObject.meta = NoHeaders /\ NewObject.listable = NoHeaders
      /\ NewObject.acl = << >> /\ Shaped(NewObject)
  BY DEF NewObject, Shaped
<1>9. StoreInv
  BY <1>1, <1>3, <1>8, KeptNone DEF StoreInv, KeptAcl
<1>10. calls \in 0 .. MaxCalls
  BY <1>1, MetadataAssumption
<1> QED  BY <1>1, <1>6, <1>7, <1>9, <1>10 DEF WriteInv

LEMMA WriteInvNext ==
  ASSUME WriteInv, [Next]_vars
  PROVE  WriteInv'
<1>1. CASE Building
  BY <1>1, BuildKeeps DEF Building
<1>2. CASE Sending
  <2>1. PICK new : Send(new)
    BY <1>2, SendingIs
  <2>2. HeadersFor'
    BY <1>2, SendingIs
  <2> QED  BY <2>1, <2>2, SendKeeps
<1>3. CASE Store
  BY <1>3, StoreStep
<1>4. CASE Delivering
  BY <1>4, DeliveringIs, AnswerKeeps
<1>5. CASE Returning
  BY <1>5, ReturningIs, AnswerKeeps
<1>6. CASE UNCHANGED vars
  <2>1. UNCHANGED <<pc, utf8, request, headers, object, wanted, calls>>
    BY <1>6 DEF vars
  <2>2. /\ pc \in {"idle", "built", "sent", "answered"}
        /\ utf8 \in Utf8Modes /\ calls \in 0 .. MaxCalls
        /\ RequestInv /\ HeadersInv /\ StoreInv
    BY DEF WriteInv
  <2>3. RequestInv'
    BY <2>1, <2>2, RequestStays
  <2>4. HeadersInv' /\ StoreInv'
    BY <2>1, <2>2, HeadersStay, StoreStays
  <2> QED  BY <2>1, <2>2, <2>3, <2>4 DEF WriteInv
<1> QED  BY <1>1, <1>2, <1>3, <1>4, <1>5, <1>6, NextIs

(* What the request filters put on a request is what it was built with, and *)
(* what the server keeps is what the calls so far meant it to keep.        *)
THEOREM WritesInvariant ==
  Spec => []WriteInv
<1>1. Init => WriteInv
  BY WriteInvInit
<1>2. WriteInv /\ [Next]_vars => WriteInv'
  BY WriteInvNext
<1> QED  BY <1>1, <1>2, PTL DEF Spec

(* What create_object, set_user_meta, delete_user_meta and set_acl leave   *)
(* on the server is what the caller gave them.                             *)
THEOREM WritesStoreAsGiven ==
  Spec => []StoredAsGiven
<1>1. WriteInv => StoredAsGiven
  BY DEF WriteInv, StoreInv, StoredAsGiven
<1> QED  BY <1>1, WritesInvariant, PTL

(* delete_user_meta removes no name but those it was given.                *)
THEOREM DeleteRemovesOnlyNamed ==
  Spec => DeletesOnlyNamed
<1> DEFINE Kept2 == request.op = "delete_user_meta" =>
             /\ DOMAIN object.meta \subseteq
                  DOMAIN object'.meta \cup ToSet(request.names)
             /\ DOMAIN object.listable \subseteq
                  DOMAIN object'.listable \cup ToSet(request.names)
<1>1. ASSUME WriteInv, [Next]_vars
      PROVE  [Kept2]_vars
  <2>1. CASE Store
    <3> SUFFICES ASSUME request.op = "delete_user_meta"
                 PROVE  Kept2
      OBVIOUS
    <3>1. pc = "sent" /\ object' = Stored
      BY <2>1 DEF Store
    <3>2. utf8 \in Utf8Modes /\ RequestInv /\ HeadersFor /\ Shaped(object)
      BY <1>1, <3>1 DEF WriteInv, HeadersInv, StoreInv
    <3>3. SentNames = ToSet(request.names)
      BY <3>2, SentNamesAre
    <3>4. Stored = [object EXCEPT !.meta = Without(@, SentNames),
                                  !.listable = Without(@, SentNames)]
      BY DEF Stored
    <3>5. /\ object'.meta = Without(object.meta, SentNames)
          /\ object'.listable = Without(object.listable, SentNames)
      BY <3>1, <3>2, <3>4 DEF Shaped
    <3> QED  BY <3>3, <3>5 DEF Without
  <2>2. CASE UNCHANGED object
    BY <2>2
  <2>3. Store \/ UNCHANGED object
    <3>1. Building => UNCHANGED object
      BY DEF Building, BuildRequest
    <3>2. Sending => UNCHANGED object
      BY SendingIs DEF Send
    <3>3. Delivering => UNCHANGED object
      BY DeliveringIs
    <3>4. Returning => UNCHANGED object
      BY ReturningIs
    <3>5. UNCHANGED vars => UNCHANGED object
      BY DEF vars
    <3> QED  BY <1>1, <3>1, <3>2, <3>3, <3>4, <3>5, NextIs
  <2> QED  BY <2>1, <2>2, <2>3
<1>2. Spec => [][Kept2]_vars
  BY <1>1, WritesInvariant, PTL DEF Spec
<1> QED  BY <1>2 DEF DeletesOnlyNamed

-----------------------------------------------------------------------------
(* What the client takes out of a header.                                  *)

LEMMA ParsedEntry ==
  ASSUME NEW part, NEW n \in Texts, NEW v \in Texts, Free(n, Equals),
         SkipSpaces(part) = Assigned(n, v)
  PROVE  ParseEntry(part) = [name |-> n, value |-> SkipSpaces(v)]
<1> DEFINE text == Assigned(n, v)
           d == DelimiterOf(text)
<1>1. /\ Len(n) \in Nat /\ DelimiterOf(text) = Len(n) + 1
      /\ SubSeq(text, 1, DelimiterOf(text) - 1) = n
      /\ SubSeq(text, DelimiterOf(text) + 1, Len(text)) = v
  BY AssignedParts, LenProperties DEF Texts
<1>2. ParseEntry(part) =
        IF d = 0 THEN [name |-> text, value |-> << >>]
        ELSE [name |-> SubSeq(text, 1, d - 1),
              value |-> SkipSpaces(SubSeq(text, d + 1, Len(text)))]
  BY DEF ParseEntry, DelimiterOf
<1> HIDE DEF text
<1>3. d # 0
  BY <1>1
<1> QED  BY <1>1, <1>2, <1>3

(* The entries of a header of joined texts, one for each text.             *)
(* Texts that assign values to names.                                      *)
Assign(texts, N, V) ==
  \A i \in 1 .. Len(texts) : /\ Part(texts[i])
                             /\ N[i] \in Texts /\ V[i] \in Texts
                             /\ Free(N[i], Equals)
                             /\ texts[i] = Assigned(N[i], V[i])

LEMMA ParsedEntries ==
  ASSUME NEW texts \in Seq(Texts), Len(texts) # 0, NEW separator \in Separators,
         NEW N, NEW V, Assign(texts, N, V)
  PROVE  LET entries == ParseEntries(Join(texts, separator)) IN
         /\ DOMAIN entries = 1 .. Len(texts)
         /\ \A i \in 1 .. Len(texts) :
              entries[i] = [name |-> N[i], value |-> SkipSpaces(V[i])]
<1> DEFINE text == Join(texts, separator)
           parts == Split(text)
           entries == ParseEntries(text)
<1>1. /\ parts \in Seq(Texts) /\ Len(parts) = Len(texts)
      /\ \A i \in 1 .. Len(texts) : SkipSpaces(parts[i]) = texts[i]
  BY JoinedParts DEF Assign
<1>2. entries = [i \in DOMAIN parts |-> ParseEntry(parts[i])]
  BY DEF ParseEntries
<1> HIDE DEF text, parts, entries
<1>3. DOMAIN parts = 1 .. Len(texts)
  BY <1>1, LenProperties
<1>4. DOMAIN entries = 1 .. Len(texts)
  BY <1>2, <1>3
<1>5. ASSUME NEW i \in 1 .. Len(texts)
      PROVE  entries[i] = [name |-> N[i], value |-> SkipSpaces(V[i])]
  <2> DEFINE n == N[i]
             v == V[i]
             p == parts[i]
  <2>1. /\ n \in Texts /\ v \in Texts /\ Free(n, Equals)
        /\ SkipSpaces(p) = Assigned(n, v)
    BY <1>1 DEF Assign
  <2>2. entries[i] = ParseEntry(p)
    BY <1>2, <1>3
  <2> HIDE DEF n, v, p
  <2>3. entries[i] = [name |-> n, value |-> SkipSpaces(v)]
    BY <2>1, <2>2, ParsedEntry
  <2> QED  BY <2>3 DEF n, v
<1> QED  BY <1>4, <1>5 DEF entries, text

LEMMA AceAssigned ==
  ASSUME NEW a \in Aces
  PROVE  LET n == <<a.principal>>
             v == <<PermissionString[a.permission]>> IN
         /\ n \in Texts /\ v \in Texts /\ Free(n, Equals)
         /\ AceText(a) = Assigned(n, v)
         /\ SkipSpaces(v) = v
<1> DEFINE p == a.principal
           w == PermissionString[a.permission]
<1>1. p \in Words /\ p # Equals /\ w \in Words /\ w # Space
  BY Permissions DEF Aces
<1>2. Equals \in Words
  BY WordsDiffer DEF Special
<1>3. AceText(a) = <<p, Equals, w>>
  BY DEF AceText
<1> HIDE DEF p, w
<1>4. <<p>> \in Texts /\ <<w>> \in Texts
  BY <1>1 DEF Texts
<1>5. Free(<<p>>, Equals)
  BY <1>1 DEF Free
<1>6. Assigned(<<p>>, <<w>>) = <<p, Equals, w>>
  <2> DEFINE t == Assigned(<<p>>, <<w>>)
  <2>1. /\ t \in Texts /\ Len(t) = Len(<<p>>) + 1 + Len(<<w>>)
        /\ \A i \in 1 .. Len(<<p>>) : t[i] = <<p>>[i]
        /\ t[Len(<<p>>) + 1] = Equals
        /\ \A i \in 1 .. Len(<<w>>) : t[Len(<<p>>) + 1 + i] = <<w>>[i]
    BY <1>4, <1>5, AssignedParts
  <2> HIDE DEF t
  <2>2. Len(<<p>>) = 1 /\ Len(<<w>>) = 1 /\ <<p>>[1] = p /\ <<w>>[1] = w
    OBVIOUS
  <2>3. t \in Seq(Words) /\ Len(t) = 3 /\ t[1] = p /\ t[2] = Equals
    <3>1. 1 \in 1 .. Len(<<p>>)
      BY <2>2
    <3>2. t[1] = <<p>>[1]
      BY <2>1, <3>1
    <3>3. t[1 + 1] = Equals /\ Len(t) = 1 + 1 + 1
      BY <2>1, <2>2
    <3> QED  BY <2>1, <2>2, <3>2, <3>3 DEF Texts
  <2>4. t[3] = w
    <3>1. 1 \in 1 .. Len(<<w>>)
      BY <2>2
    <3>2. t[Len(<<p>>) + 1 + 1] = <<w>>[1]
      BY <2>1, <3>1
    <3> QED  BY <2>2, <3>2
  <2> QED  BY <2>3, <2>4 DEF t
<1>7. SkipSpaces(<<w>>) = <<w>>
  <2>1. <<w>> # << >> /\ <<w>>[1] # Space
    BY <1>1
  <2> QED  BY <1>4, <2>1, SkipNothing
<1> QED  BY <1>3, <1>4, <1>5, <1>6, <1>7 DEF p, w

(* An ACL header read by the client.                                       *)
LEMMA ParsedAcl ==
  ASSUME NEW acl \in Seq(Aces), acl # << >>, NEW separator \in Separators,
         NEW type, \A i \in 1 .. Len(acl) : acl[i].type = type
  PROVE  ParseAcl(Join(AceTexts(acl), separator), type) = acl
<1> DEFINE texts == AceTexts(acl)
           N == [i \in 1 .. Len(acl) |-> <<acl[i].principal>>]
           V == [i \in 1 .. Len(acl) |-> <<PermissionString[acl[i].permission]>>]
           text == Join(texts, separator)
           entries == ParseEntries(text)
<1>1. /\ Len(acl) \in Nat /\ DOMAIN acl = 1 .. Len(acl) /\ Len(acl) # 0
      /\ \A i \in 1 .. Len(acl) : acl[i] \in Aces
  BY LenProperties, ElementOfSeq, EmptySeq
<1>2. /\ texts \in Seq(Texts) /\ Len(texts) = Len(acl)
      /\ \A i \in 1 .. Len(acl) : texts[i] = AceText(acl[i]) /\ Part(texts[i])
  BY AceTextsAre
<1>3. /\ \A i \in 1 .. Len(acl) : N[i] = <<acl[i].principal>>
      /\ \A i \in 1 .. Len(acl) : V[i] = <<PermissionString[acl[i].permission]>>
  OBVIOUS
<1> HIDE DEF texts, N, V
<1>4. \A i \in 1 .. Len(acl) : /\ N[i] \in Texts /\ V[i] \in Texts
                               /\ Free(N[i], Equals)
                               /\ texts[i] = Assigned(N[i], V[i])
                               /\ SkipSpaces(V[i]) = V[i]
  <2> TAKE i \in 1 .. Len(acl)
  <2> DEFINE a == acl[i]
  <2>1. a \in Aces /\ texts[i] = AceText(a)
        /\ N[i] = <<a.principal>> /\ V[i] = <<PermissionString[a.permission]>>
    BY <1>1, <1>2, <1>3
  <2> HIDE DEF a
  <2> QED  BY <2>1, AceAssigned
<1>10. Len(texts) # 0 /\ Assign(texts, N, V)
  BY <1>1, <1>2, <1>4 DEF Assign
<1>5. /\ DOMAIN entries = 1 .. Len(acl)
      /\ \A i \in 1 .. Len(acl) :
           entries[i] = [name |-> N[i], value |-> SkipSpaces(V[i])]
  <2>1. texts \in Seq(Texts) /\ Len(texts) = Len(acl)
    BY <1>2
  <2>2. /\ DOMAIN entries = 1 .. Len(texts)
        /\ \A i \in 1 .. Len(texts) :
             entries[i] = [name |-> N[i], value |-> SkipSpaces(V[i])]
    BY <1>10, <2>1, ParsedEntries
  <2> QED  BY <2>1, <2>2
<1> DEFINE Known(value) == {p \in DOMAIN PermissionString :
                              value = <<PermissionString[p]>>}
           Permission(value) == IF Known(value) = {} THEN "none"
                                ELSE CHOOSE p \in Known(value) : TRUE
<1>6. ParseAcl(text, type)
        = [i \in DOMAIN entries |->
             [principal |-> entries[i].name[1], type |-> type,
              permission |-> Permission(entries[i].value)]]
  BY DEF ParseAcl
<1>7. \A p \in DOMAIN PermissionString : Permission(<<PermissionString[p]>>) = p
  <2> TAKE p \in DOMAIN PermissionString
  <2>1. \A q \in DOMAIN PermissionString :
          <<PermissionString[p]>> = <<PermissionString[q]>> => p = q
    BY Permissions
  <2>2. Known(<<PermissionString[p]>>) = {p}
    BY <2>1
  <2> HIDE DEF Known
  <2> QED  BY <2>2
<1> HIDE DEF entries, Permission
<1>8. ASSUME NEW i \in 1 .. Len(acl)
      PROVE  acl[i] = [principal |-> entries[i].name[1], type |-> type,
                       permission |-> Permission(entries[i].value)]
  <2> DEFINE a == acl[i]
  <2>1. a \in Aces /\ a.type = type
    BY <1>1
  <2>2. entries[i] = [name |-> <<a.principal>>,
                      value |-> <<PermissionString[a.permission]>>]
    BY <1>3, <1>4, <1>5
  <2> HIDE DEF a
  <2>3. a = [principal |-> a.principal, type |-> type, permission |-> a.permission]
        /\ a.permission \in DOMAIN PermissionString
    BY <2>1 DEF Aces
  <2>4. /\ entries[i].name[1] = a.principal
        /\ Permission(entries[i].value) = a.permission
    BY <1>7, <2>2, <2>3
  <2> QED  BY <2>3, <2>4 DEF a
<1>9. acl = [i \in 1 .. Len(acl) |-> acl[i]]
  <2>1. acl \in [1 .. Len(acl) -> Aces]
    BY LenProperties
  <2> QED  BY <2>1
<1> QED  BY <1>5, <1>6, <1>8, <1>9 DEF texts

LEMMA LeastOf ==
  ASSUME NEW S \in SUBSET Nat, S # {}
  PROVE  \E k \in S : \A n \in S : k <= n
<1> SUFFICES ASSUME \A k \in S : \E n \in S : ~(k <= n)
             PROVE  FALSE
  OBVIOUS
<1> DEFINE G == {n \in Nat : \A k \in S : k > n}
<1>1. 0 \in G
  OBVIOUS
<1>2. ASSUME NEW n \in Nat, n \in G
      PROVE  n + 1 \in G
  <2>1. \A k \in S : k \in Nat /\ k >= n + 1
    BY <1>2
  <2>2. n + 1 \notin S
    BY <2>1
  <2>3. \A k \in S : k > n + 1
    BY <2>1, <2>2
  <2> QED  BY <2>3
<1> HIDE DEF G
<1>3. \A n \in Nat : n \in G
  BY <1>1, <1>2, SetInduction
<1>4. PICK k : k \in S
  OBVIOUS
<1>5. k \in Nat /\ k \in G
  BY <1>3, <1>4
<1>6. k > k
  BY <1>4, <1>5 DEF G
<1> QED  BY <1>5, <1>6

(* The permission of a principal of a list that has each of them once.     *)
LEMMA PermissionIs ==
  ASSUME NEW acl \in Seq(AclEntries), OneEach(ToSet(acl)),
         NEW principal, NEW type
  PROVE  LET aces == {a \in ToSet(acl) : a.principal = principal /\ a.type = type} IN
         AclPermission(acl, principal, type)
           = IF aces = {} THEN "none" ELSE (CHOOSE a \in aces : TRUE).permission
<1> DEFINE aces == {a \in ToSet(acl) : a.principal = principal /\ a.type = type}
           I == {i \in 1 .. Len(acl) : acl[i].principal = principal
                                        /\ acl[i].type = type}
<1>1. AclPermission(acl, principal, type)
        = IF (IF I # {} THEN Min(I) ELSE 0) = 0 THEN "none"
          ELSE acl[IF I # {} THEN Min(I) ELSE 0].permission
  BY DEF AclPermission, SelectInSeq
<1>2. Len(acl) \in Nat /\ DOMAIN acl = 1 .. Len(acl)
  BY LenProperties
<1>3. CASE I = {}
  <2>1. aces = {}
    BY <1>2, <1>3 DEF ToSet
  <2> QED  BY <1>1, <1>3, <2>1
<1>4. CASE I # {}
  <2> DEFINE a == CHOOSE x \in aces : TRUE
  <2>1. Min(I) \in I
    <3>1. I \in SUBSET Nat /\ I # {}
      BY <1>2, <1>4
    <3> HIDE DEF I
    <3>2. PICK k \in I : \A n \in I : k <= n
      BY <3>1, LeastOf
    <3>3. I \in SUBSET Int
      BY <3>1
    <3> QED  BY <3>2, <3>3, MinIs
  <2> DEFINE m == Min(I)
  <2> HIDE DEF m
  <2>6. m \in 1 .. Len(acl) /\ acl[m].principal = principal /\ acl[m].type = type
    BY <2>1 DEF m
  <2>7. acl[m] \in ToSet(acl) /\ m # 0
    BY <1>2, <2>6 DEF ToSet
  <2>2. acl[Min(I)] \in aces /\ Min(I) # 0
    BY <2>6, <2>7 DEF m
  <2>3. a \in aces
    BY <2>2
  <2>4. acl[Min(I)] = a
    <3> HIDE DEF a
    <3> QED  BY <2>2, <2>3 DEF OneEach
  <2>5. aces # {}
    BY <2>2
  <2> QED  BY <1>1, <1>4, <2>2, <2>4, <2>5
<1> QED  BY <1>3, <1>4

-----------------------------------------------------------------------------
(* The server's answers.                                                   *)

(* The texts of the header x-emc-meta.                                     *)
MixedTexts(with_system) ==
  (IF with_system THEN MetaTexts(SystemMeta, SystemAsked) ELSE << >>)
    \o UserMetaTexts(object.meta)

AclAnswer(separator) ==
  IF request.op \in AclReads
    THEN HeaderOf("x-emc-useracl", AclTexts("user"), separator)
           ++ HeaderOf("x-emc-groupacl", AclTexts("group"), separator)
    ELSE NoHeaders

Utf8Answer == IF ServerUtf8 THEN Header("x-emc-utf8", <<"true">>) ELSE NoHeaders

(* The headers of an answer to anything but a listing.                     *)
Delivered(separator, with_system) ==
  HeaderOf("x-emc-meta", MixedTexts(with_system), separator)
  ++ HeaderOf("x-emc-listable-meta", UserMetaTexts(object.listable), separator)
  ++ AclAnswer(separator) ++ Utf8Answer

LEMMA HeaderOfIs ==
  ASSUME NEW h, NEW texts, NEW separator
  PROVE  /\ DOMAIN HeaderOf(h, texts, separator) \subseteq {h}
         /\ Says(HeaderOf(h, texts, separator), h, texts # << >>,
                 Join(texts, separator))
<1> DEFINE H == HeaderOf(h, texts, separator)
           t == Join(texts, separator)
<1>1. CASE texts = << >>
  <2>1. H = NoHeaders
    BY <1>1 DEF HeaderOf
  <2> HIDE DEF H
  <2>2. DOMAIN H = {}
    BY <2>1, HeaderIs
  <2>3. DOMAIN H \subseteq {h} /\ Says(H, h, texts # << >>, t)
    BY <1>1, <2>2 DEF Says
  <2> QED  BY <2>3 DEF H
<1>2. CASE texts # << >>
  <2>1. H = Header(h, t)
    BY <1>2 DEF HeaderOf
  <2> HIDE DEF H, t
  <2>2. DOMAIN H = {h} /\ H[h] = t
    BY <2>1, HeaderIs
  <2>3. DOMAIN H \subseteq {h} /\ Says(H, h, texts # << >>, t)
    BY <1>2, <2>2 DEF Says
  <2> QED  BY <2>3 DEF H, t
<1> QED  BY <1>1, <1>2

LEMMA DeliveredSays ==
  ASSUME NEW separator, NEW with_system, answer.headers = Delivered(separator, with_system)
  PROVE  /\ Says(answer.headers, "x-emc-meta", MixedTexts(with_system) # << >>,
                 Join(MixedTexts(with_system), separator))
         /\ Says(answer.headers, "x-emc-listable-meta",
                 UserMetaTexts(object.listable) # << >>,
                 Join(UserMetaTexts(object.listable), separator))
         /\ request.op \in AclReads =>
              /\ Says(answer.headers, "x-emc-useracl", AclTexts("user") # << >>,
                      Join(AclTexts("user"), separator))
              /\ Says(answer.headers, "x-emc-groupacl", AclTexts("group") # << >>,
                      Join(AclTexts("group"), separator))
         /\ AnswerUtf8 = ServerUtf8
         /\ DOMAIN answer.headers \subseteq
              {"x-emc-meta", "x-emc-listable-meta", "x-emc-useracl",
               "x-emc-groupacl", "x-emc-utf8"}
         /\ ServerUtf8 => answer.headers["x-emc-utf8"] = <<"true">>
<1> DEFINE m == HeaderOf("x-emc-meta", MixedTexts(with_system), separator)
           l == HeaderOf("x-emc-listable-meta", UserMetaTexts(object.listable),
                         separator)
           u == HeaderOf("x-emc-useracl", AclTexts("user"), separator)
           g == HeaderOf("x-emc-groupacl", AclTexts("group"), separator)
           a == AclAnswer(separator)
           t == Utf8Answer
           ml == m ++ l
           mla == ml ++ a
           h == answer.headers
<1>1. h = mla ++ t
  BY DEF Delivered
<1>2. /\ DOMAIN m \subseteq {"x-emc-meta"}
      /\ DOMAIN l \subseteq {"x-emc-listable-meta"}
      /\ DOMAIN u \subseteq {"x-emc-useracl"}
      /\ DOMAIN g \subseteq {"x-emc-groupacl"}
      /\ DOMAIN t \subseteq {"x-emc-utf8"}
  BY HeaderOfIs, SaysOne DEF Utf8Answer
<1>3. a = IF request.op \in AclReads THEN u ++ g ELSE NoHeaders
  BY DEF AclAnswer
<1>4. Says(m, "x-emc-meta", MixedTexts(with_system) # << >>,
           Join(MixedTexts(with_system), separator))
  BY HeaderOfIs
<1>5. Says(l, "x-emc-listable-meta", UserMetaTexts(object.listable) # << >>,
           Join(UserMetaTexts(object.listable), separator))
  BY HeaderOfIs
<1>6. Says(u, "x-emc-useracl", AclTexts("user") # << >>,
           Join(AclTexts("user"), separator))
  BY HeaderOfIs
<1>7. Says(g, "x-emc-groupacl", AclTexts("group") # << >>,
           Join(AclTexts("group"), separator))
  BY HeaderOfIs
<1>8. Says(t, "x-emc-utf8", ServerUtf8, <<"true">>)
  BY HeaderIs DEF Utf8Answer, Says
<1>9. /\ DOMAIN ml = DOMAIN m \cup DOMAIN l
      /\ DOMAIN mla = DOMAIN ml \cup DOMAIN a
      /\ DOMAIN h = DOMAIN mla \cup DOMAIN t
      /\ DOMAIN (u ++ g) = DOMAIN u \cup DOMAIN g
  BY <1>1, Joins
<1> HIDE DEF m, l, u, g, a, t, ml, mla, h
<1>10. DOMAIN a \subseteq {"x-emc-useracl", "x-emc-groupacl"}
  BY <1>2, <1>3, <1>9, HeaderIs
<1>11. DOMAIN ml \subseteq {"x-emc-meta", "x-emc-listable-meta"}
  BY <1>2, <1>9
<1>12. /\ "x-emc-meta" \notin DOMAIN l /\ "x-emc-listable-meta" \notin DOMAIN m
       /\ "x-emc-useracl" \notin DOMAIN g /\ "x-emc-groupacl" \notin DOMAIN u
       /\ "x-emc-meta" \notin DOMAIN a /\ "x-emc-listable-meta" \notin DOMAIN a
       /\ "x-emc-useracl" \notin DOMAIN ml /\ "x-emc-groupacl" \notin DOMAIN ml
       /\ "x-emc-utf8" \notin DOMAIN mla
       /\ "x-emc-meta" \notin DOMAIN t /\ "x-emc-listable-meta" \notin DOMAIN t
       /\ "x-emc-useracl" \notin DOMAIN t /\ "x-emc-groupacl" \notin DOMAIN t
  BY <1>2, <1>9, <1>10, <1>11
<1>13. Says(h, "x-emc-meta", MixedTexts(with_system) # << >>,
            Join(MixedTexts(with_system), separator))
  <2>1. Says(ml, "x-emc-meta", MixedTexts(with_system) # << >>,
             Join(MixedTexts(with_system), separator))
    BY <1>4, <1>12, SaysFirst DEF ml
  <2>2. Says(mla, "x-emc-meta", MixedTexts(with_system) # << >>,
             Join(MixedTexts(with_system), separator))
    BY <1>12, <2>1, SaysFirst DEF mla
  <2> QED  BY <1>1, <1>12, <2>2, SaysFirst
<1>14. Says(h, "x-emc-listable-meta", UserMetaTexts(object.listable) # << >>,
            Join(UserMetaTexts(object.listable), separator))
  <2>1. Says(ml, "x-emc-listable-meta", UserMetaTexts(object.listable) # << >>,
             Join(UserMetaTexts(object.listable), separator))
    BY <1>5, <1>12, SaysSecond DEF ml
  <2>2. Says(mla, "x-emc-listable-meta", UserMetaTexts(object.listable) # << >>,
             Join(UserMetaTexts(object.listable), separator))
    BY <1>12, <2>1, SaysFirst DEF mla
  <2> QED  BY <1>1, <1>12, <2>2, SaysFirst
<1>15. ASSUME request.op \in AclReads
       PROVE  /\ Says(h, "x-emc-useracl", AclTexts("user") # << >>,
                      Join(AclTexts("user"), separator))
              /\ Says(h, "x-emc-groupacl", AclTexts("group") # << >>,
                      Join(AclTexts("group"), separator))
  <2>1. Says(a, "x-emc-useracl", AclTexts("user") # << >>,
             Join(AclTexts("user"), separator))
    BY <1>3, <1>6, <1>12, <1>15, SaysFirst
  <2>2. Says(a, "x-emc-groupacl", AclTexts("group") # << >>,
             Join(AclTexts("group"), separator))
    BY <1>3, <1>7, <1>12, <1>15, SaysSecond
  <2>3. Says(mla, "x-emc-useracl", AclTexts("user") # << >>,
             Join(AclTexts("user"), separator))
    BY <1>12, <2>1, SaysSecond DEF mla
  <2>4. Says(mla, "x-emc-groupacl", AclTexts("group") # << >>,
             Join(AclTexts("group"), separator))
    BY <1>12, <2>2, SaysSecond DEF mla
  <2> QED  BY <1>1, <1>12, <2>3, <2>4, SaysFirst
<1>16. Says(h, "x-emc-utf8", ServerUtf8, <<"true">>)
  <2>1. ServerUtf8 \in BOOLEAN
    BY DEF ServerUtf8
  <2> QED  BY <1>1, <1>8, <1>12, <2>1, SaysSecond
<1>17. AnswerUtf8 = ServerUtf8 /\ (ServerUtf8 => h["x-emc-utf8"] = <<"true">>)
  <2>1. AnswerUtf8 <=> "x-emc-utf8" \in DOMAIN h
    BY DEF AnswerUtf8, h
  <2> QED  BY <1>16, <2>1 DEF Says, AnswerUtf8, ServerUtf8
<1>18. DOMAIN h \subseteq {"x-emc-meta", "x-emc-listable-meta", "x-emc-useracl",
                           "x-emc-groupacl", "x-emc-utf8"}
  BY <1>2, <1>9, <1>10, <1>11
<1> QED  BY <1>13, <1>14, <1>15, <1>17, <1>18 DEF h

(* The ACL that the client reads is the one that the server keeps.         *)
KeptOf(type) ==
  Chosen(object.acl, {i \in DOMAIN object.acl : object.acl[i].type = type})

LEMMA KeptOfIs ==
  ASSUME object.acl \in Seq(AclEntries), NEW type
  PROVE  /\ KeptOf(type) \in Seq(AclEntries) /\ KeptOf(type) \in Seq(Aces)
         /\ ToSet(KeptOf(type)) = {a \in ToSet(object.acl) : a.type = type}
         /\ \A i \in 1 .. Len(KeptOf(type)) : KeptOf(type)[i].type = type
         /\ AclTexts(type) = AceTexts(KeptOf(type))
<1> DEFINE P == {i \in DOMAIN object.acl : object.acl[i].type = type}
           c == KeptOf(type)
<1>1. c = Chosen(object.acl, P)
  BY DEF KeptOf
<1>2. DOMAIN object.acl = 1 .. Len(object.acl)
  BY LenProperties
<1>3. /\ \A i \in P : i \in DOMAIN object.acl /\ object.acl[i].type = type
      /\ \A i \in DOMAIN object.acl : object.acl[i].type = type => i \in P
  OBVIOUS
<1>4. AclTexts(type) = AceTexts(c)
  BY DEF AclTexts, AceTexts, AceText, KeptOf
<1> HIDE DEF P, c
<1>5. /\ c \in Seq(AclEntries)
      /\ ToSet(c) = {object.acl[i] : i \in {k \in 1 .. Len(object.acl) : k \in P}}
  BY <1>1, ChosenSet
<1>6. ToSet(c) = {a \in ToSet(object.acl) : a.type = type}
  BY <1>2, <1>3, <1>5 DEF ToSet
<1>7. c \in Seq(Aces)
  BY <1>5, AclEntriesAreAces, SeqMonotonic
<1>8. \A i \in 1 .. Len(c) : c[i].type = type
  <2>1. DOMAIN c = 1 .. Len(c)
    BY <1>5, LenProperties
  <2> QED  BY <1>6, <2>1 DEF ToSet
<1> QED  BY <1>4, <1>5, <1>6, <1>7, <1>8 DEF c

LEMMA AclOfIs ==
  ASSUME object.acl \in Seq(AclEntries), NEW h, NEW type,
         NEW separator \in Separators,
         Says(answer.headers, h, AclTexts(type) # << >>,
              Join(AclTexts(type), separator))
  PROVE  AclOf(h, type) = KeptOf(type)
<1> DEFINE c == KeptOf(type)
           text == Join(AclTexts(type), separator)
<1>1. /\ c \in Seq(Aces) /\ \A i \in 1 .. Len(c) : c[i].type = type
      /\ AclTexts(type) = AceTexts(c)
  BY KeptOfIs
<1> HIDE DEF c
<1>2. AclTexts(type) = << >> <=> c = << >>
  BY <1>1, AceTextsAre
<1>3. CASE c = << >>
  <2>1. h \notin DOMAIN answer.headers
    BY <1>2, <1>3 DEF Says
  <2> QED  BY <1>3, <2>1 DEF AclOf, c
<1>4. CASE c # << >>
  <2>1. h \in DOMAIN answer.headers /\ answer.headers[h] = text
    BY <1>2, <1>4 DEF Says
  <2>2. ParseAcl(text, type) = c
    BY <1>1, <1>4, ParsedAcl
  <2> HIDE DEF text
  <2> QED  BY <2>1, <2>2 DEF AclOf, c
<1> QED  BY <1>3, <1>4

LEMMA AclParsedIs ==
  ASSUME object.acl \in Seq(AclEntries), request.op \in AclReads,
         NEW separator \in Separators, NEW with_system,
         answer.headers = Delivered(separator, with_system)
  PROVE  /\ AclParsed \in Seq(AclEntries)
         /\ ToSet(AclParsed) = ToSet(object.acl)
<1> DEFINE u == KeptOf("user")
           g == KeptOf("group")
<1>1. AclOf("x-emc-useracl", "user") = u /\ AclOf("x-emc-groupacl", "group") = g
  BY DeliveredSays, AclOfIs
<1>2. /\ u \in Seq(AclEntries) /\ g \in Seq(AclEntries)
      /\ ToSet(u) = {a \in ToSet(object.acl) : a.type = "user"}
      /\ ToSet(g) = {a \in ToSet(object.acl) : a.type = "group"}
  BY KeptOfIs
<1>3. AclParsed = u \o g
  BY <1>1 DEF AclParsed
<1> HIDE DEF u, g
<1>4. AclParsed \in Seq(AclEntries) /\ ToSet(AclParsed) = ToSet(u) \cup ToSet(g)
  BY <1>2, <1>3, ToSetCat
<1>5. \A a \in ToSet(object.acl) : a.type = "user" \/ a.type = "group"
  <2>1. DOMAIN object.acl = 1 .. Len(object.acl)
    BY LenProperties
  <2>2. \A i \in 1 .. Len(object.acl) : object.acl[i] \in Aces
    BY ElementOfSeq, AclEntriesAreAces
  <2> QED  BY <2>1, <2>2 DEF ToSet, Aces
<1> QED  BY <1>2, <1>4, <1>5

-----------------------------------------------------------------------------
(* Entries in some order.                                                  *)

LEMMA OrderIs ==
  ASSUME NEW S, IsFiniteSet(S)
  PROVE  LET order == SetToSeq(S) IN
         /\ order \in Seq(S) /\ DOMAIN order = 1 .. Len(order)
         /\ ToSet(order) = S
         /\ \A i, j \in 1 .. Len(order) : order[i] = order[j] => i = j
<1> DEFINE n == Cardinality(S)
           order == SetToSeq(S)
<1>1. n \in Nat /\ ExistsBijection(1 .. n, S)
  BY FS_CardinalityType
<1>2. \E f \in [1 .. n -> S] : IsInjective(f)
  BY <1>1 DEF ExistsBijection, Bijection, Injection
<1>3. order \in [1 .. n -> S] /\ IsInjective(order)
  BY <1>2 DEF SetToSeq
<1> HIDE DEF order
<1>4. IsFiniteSet(1 .. n) /\ Cardinality(1 .. n) = n
  BY <1>1, FS_Interval
<1>5. order \in Surjection(1 .. n, S)
  <2>1. order \in Injection(1 .. n, S)
    BY <1>3 DEF Injection
  <2> QED  BY <1>4, <2>1, FS_Injection
<1>6. \A t \in S : \E i \in 1 .. n : order[i] = t
  BY <1>5 DEF Surjection
<1> HIDE DEF n
<1>7. order \in Seq(S) /\ Len(order) = n /\ DOMAIN order = 1 .. n
  BY <1>1, <1>3
<1>8. ToSet(order) = S
  BY <1>3, <1>6, <1>7 DEF ToSet
<1>9. \A i, j \in 1 .. n : order[i] = order[j] => i = j
  BY <1>3, <1>7 DEF IsInjective
<1> QED  BY <1>7, <1>8, <1>9 DEF order

(* A list that has each of its names once has as many places as names.     *)
LEMMA CountedOnce ==
  ASSUME NEW n \in Nat, NEW T, NEW f, \A i \in 1 .. n : f[i] \in T,
         \A t \in T : \E i \in 1 .. n : f[i] = t,
         \A i, j \in 1 .. n : f[i] = f[j] => i = j
  PROVE  Cardinality(T) = n
<1> DEFINE g == [i \in 1 .. n |-> f[i]]
<1>1. g \in [1 .. n -> T]
  OBVIOUS
<1>2. \A i, j \in 1 .. n : g[i] = g[j] => i = j
  OBVIOUS
<1>3. \A t \in T : \E i \in 1 .. n : g[i] = t
  OBVIOUS
<1> HIDE DEF g
<1>4. g \in Bijection(1 .. n, T)
  BY <1>1, <1>2, <1>3 DEF Bijection, Injection, Surjection, IsInjective
<1>5. IsFiniteSet(1 .. n) /\ Cardinality(1 .. n) = n
  BY FS_Interval
<1>6. ExistsBijection(1 .. n, T)
  BY <1>4 DEF ExistsBijection
<1>7. Cardinality(T) = Cardinality(1 .. n)
  BY <1>5, <1>6, FS_Bijection
<1> QED  BY <1>5, <1>7

LEMMA SkipTyped ==
  ASSUME NEW text \in Texts
  PROVE  SkipSpaces(text) \in Texts
<1> DEFINE I == {i \in 1 .. Len(text) : text[i] # Space}
           m == Min(I)
<1>1. text \in Seq(Words) /\ Len(text) \in Nat
  BY LenProperties DEF Texts
<1>2. SkipSpaces(text)
        = IF (IF I # {} THEN m ELSE 0) = 0 THEN << >>
          ELSE SubSeq(text, IF I # {} THEN m ELSE 0, Len(text))
  BY DEF SkipSpaces, SelectInSeq
<1>3. CASE I = {}
  <2>1. << >> \in Texts
    BY EmptySeq DEF Texts
  <2> QED  BY <1>2, <1>3, <2>1
<1>4. CASE I # {}
  <2>1. I \in SUBSET Nat /\ I \subseteq 1 .. Len(text)
    BY <1>1
  <2> HIDE DEF I
  <2>2. PICK k \in I : \A n \in I : k <= n
    BY <1>4, <2>1, LeastOf
  <2>3. m = k
    <3>1. I \in SUBSET Int
      BY <2>1
    <3> QED  BY <2>2, <3>1, MinIs
  <2> HIDE DEF m
  <2>4. m \in 1 .. Len(text) /\ m # 0
    BY <2>1, <2>2, <2>3
  <2>5. SubSeq(text, m, Len(text)) \in Seq(Words)
    <3>1. \A i \in m .. Len(text) : text[i] \in Words
      BY <1>1, <2>4, ElementOfSeq
    <3> QED  BY <1>1, <2>4, SubSeqProperties
  <2> QED  BY <1>2, <1>4, <2>4, <2>5 DEF Texts
<1> QED  BY <1>3, <1>4

LEMMA SkipEmpty ==
  SkipSpaces(<< >>) = << >>
BY EmptySeq DEF SkipSpaces, SelectInSeq

-----------------------------------------------------------------------------
(* What the client takes out of a header with metadata.                    *)

(* The entries that a header can carry.                                    *)
Sound(mode) == {e \in [name: Texts, value: Texts] :
                  Attachable(e, mode) /\ ~Skipped(e, mode)}

(* An entry read from a header.                                            *)
ReadPair(e, mode) ==
  [name |-> e.name, value |-> IF mode THEN e.value ELSE SkipSpaces(e.value)]

LEMMA NameEncoded ==
  ASSUME NEW n \in Texts, Unescaped(n), NEW mode \in BOOLEAN
  PROVE  /\ Encode(n, mode) \in SystemNames <=> n \in SystemNames
         /\ n \in SystemNames => Encode(n, mode) = n
<1> DEFINE e == Encode(n, mode)
<1>1. /\ e \in Seq(Words) /\ Len(e) = Len(n) /\ n \in Seq(Words) /\ Len(n) \in Nat
      /\ \A i \in 1 .. Len(n) : n[i] \notin Special => e[i] = n[i]
      /\ ~mode => e = n
  BY EncodedText, LenProperties DEF Texts
<1>2. \A w \in Special : EscapedWord[w] # "size" /\ EscapedWord[w] # "objname"
  BY DEF EscapedWord, Special, Comma, Equals, Space, Umlaut
<1>3. mode => \A i \in 1 .. Len(n) : n[i] \in Special => e[i] = EscapedWord[n[i]]
  BY <1>1, EscapedWords DEF Encode, Escape, Replace
<1>4. "size" \notin Special /\ "objname" \notin Special
  BY DEF Special, Comma, Equals, Space, Umlaut
<1> HIDE DEF e
<1>5. ASSUME NEW w \in {"size", "objname"}
      PROVE  e = <<w>> <=> n = <<w>>
  <2>1. \A s \in Seq(Words) : s = <<w>> <=> Len(s) = 1 /\ s[1] = w
    OBVIOUS
  <2>2. CASE Len(n) = 1
    <3>1. 1 \in 1 .. Len(n)
      BY <2>2
    <3>2. n[1] \notin Special => e[1] = n[1]
      BY <1>1, <3>1
    <3>3. mode /\ n[1] \in Special => e[1] = EscapedWord[n[1]]
      BY <1>3, <3>1
    <3>4. e[1] = w <=> n[1] = w
      BY <1>1, <1>2, <1>4, <3>2, <3>3
    <3> QED  BY <1>1, <2>1, <2>2, <3>4
  <2>3. CASE Len(n) # 1
    BY <1>1, <2>1, <2>3
  <2> QED  BY <2>2, <2>3
<1>6. e \in SystemNames <=> n \in SystemNames
  BY <1>5 DEF SystemNames
<1>7. n \in SystemNames => e = n
  BY <1>5 DEF SystemNames
<1> QED  BY <1>6, <1>7 DEF e

LEMMA SoundText ==
  ASSUME NEW mode \in BOOLEAN, NEW e \in Sound(mode)
  PROVE  LET n == Encode(e.name, mode)
             v == Encode(e.value, mode) IN
         /\ Part(EntryText(e, mode)) /\ EntryText(e, mode) = Assigned(n, v)
         /\ n \in Texts /\ v \in Texts /\ Free(n, Equals)
         /\ n \in SystemNames <=> e.name \in SystemNames
         /\ n \in SystemNames => n = e.name
         /\ [name |-> Decode(n, mode), value |-> Decode(SkipSpaces(v), mode)]
              = ReadPair(e, mode)
         /\ ReadPair(e, mode) \in [name: Texts, value: Texts]
<1> DEFINE n == Encode(e.name, mode)
           v == Encode(e.value, mode)
<1>1. Attachable(e, mode) /\ ~Skipped(e, mode)
  BY DEF Sound
<1>2. /\ e.name \in Texts /\ e.value \in Texts
      /\ Unescaped(e.name) /\ Unescaped(e.value) /\ Usable(e.name, mode)
      /\ mode \/ ~MetaCharCheck(e.name)
  BY <1>1 DEF Attachable, Skipped
<1>3. Part(EntryText(e, mode))
  BY <1>1, EntryTextIs DEF Part
<1>4. EntryText(e, mode) = Assigned(n, v)
  BY DEF EntryText, Assigned
<1>5. /\ n \in Texts /\ v \in Texts /\ Len(v) = Len(e.value)
      /\ Decode(n, mode) = e.name /\ Decode(v, mode) = e.value
      /\ ~mode => v = e.value
  BY <1>2, EncodedText
<1>6. Free(n, Equals)
  BY <1>2, EncodedFree
<1>7. /\ n \in SystemNames <=> e.name \in SystemNames
      /\ n \in SystemNames => n = e.name
  BY <1>2, NameEncoded
<1>8. mode => SkipSpaces(v) = v
  <2>1. CASE e.value = << >>
    <3>1. v = << >>
      BY <1>5, <2>1, EmptySeq DEF Texts
    <3> HIDE DEF v
    <3> QED  BY <3>1, SkipEmpty
  <2>2. CASE e.value # << >>
    <3>1. mode => v # << >> /\ v[1] # Space
      BY <1>2, <2>2, EncodedFree
    <3> HIDE DEF v
    <3> QED  BY <1>5, <3>1, SkipNothing
  <2> QED  BY <2>1, <2>2
<1>9. Decode(SkipSpaces(v), mode) = IF mode THEN e.value ELSE SkipSpaces(e.value)
  <2>1. CASE mode
    BY <1>5, <1>8, <2>1
  <2>2. CASE ~mode
    BY <1>5, <2>2 DEF Decode
  <2> QED  BY <2>1, <2>2
<1>10. ReadPair(e, mode) \in [name: Texts, value: Texts]
  BY <1>2, SkipTyped DEF ReadPair
<1> HIDE DEF n, v
<1>11. [name |-> Decode(n, mode), value |-> Decode(SkipSpaces(v), mode)]
         = ReadPair(e, mode)
  BY <1>5, <1>9 DEF ReadPair
<1> QED  BY <1>3, <1>4, <1>5, <1>6, <1>7, <1>10, <1>11 DEF n, v

TextsOf(P, mode) == [i \in DOMAIN P |-> EntryText(P[i], mode)]

LEMMA TextsOfAre ==
  ASSUME NEW mode \in BOOLEAN, NEW P \in Seq(Sound(mode))
  PROVE  /\ TextsOf(P, mode) \in Seq(Texts)
         /\ Len(TextsOf(P, mode)) = Len(P) /\ Len(P) \in Nat
         /\ DOMAIN P = 1 .. Len(P)
         /\ \A i \in 1 .. Len(P) : /\ P[i] \in Sound(mode)
                                   /\ TextsOf(P, mode)[i] = EntryText(P[i], mode)
         /\ TextsOf(P, mode) = << >> <=> P = << >>
<1> DEFINE T == TextsOf(P, mode)
           n == Len(P)
<1>1. n \in Nat /\ DOMAIN P = 1 .. n /\ \A i \in 1 .. n : P[i] \in Sound(mode)
  BY LenProperties, ElementOfSeq
<1>2. T = [i \in 1 .. n |-> EntryText(P[i], mode)]
  BY <1>1 DEF TextsOf
<1>3. \A i \in 1 .. n : EntryText(P[i], mode) \in Texts
  BY <1>1, SoundText DEF Part
<1>4. P = << >> <=> n = 0
  BY EmptySeq
<1> HIDE DEF T, n
<1>5. T \in [1 .. n -> Texts] /\ \A i \in 1 .. n : T[i] = EntryText(P[i], mode)
  BY <1>2, <1>3
<1>6. T \in Seq(Texts) /\ Len(T) = n
  BY <1>1, <1>5
<1>7. T = << >> <=> P = << >>
  BY <1>4, <1>6, EmptySeq
<1> QED  BY <1>1, <1>5, <1>6, <1>7 DEF T, n

LEMMA TextsOfCat ==
  ASSUME NEW mode \in BOOLEAN, NEW P \in Seq(Sound(mode)), NEW Q \in Seq(Sound(mode))
  PROVE  /\ P \o Q \in Seq(Sound(mode))
         /\ TextsOf(P \o Q, mode) = TextsOf(P, mode) \o TextsOf(Q, mode)
<1> DEFINE R == P \o Q
           S == TextsOf(P, mode)
           T == TextsOf(Q, mode)
           U == TextsOf(R, mode)
           W == S \o T
           m == Len(P)
           n == Len(Q)
<1>1. /\ R \in Seq(Sound(mode)) /\ Len(R) = m + n
      /\ \A i \in 1 .. m + n : R[i] = IF i <= m THEN P[i] ELSE Q[i - m]
  BY ConcatProperties
<1>2. /\ S \in Seq(Texts) /\ Len(S) = m /\ m \in Nat
      /\ \A i \in 1 .. m : S[i] = EntryText(P[i], mode)
  BY TextsOfAre
<1>3. /\ T \in Seq(Texts) /\ Len(T) = n /\ n \in Nat
      /\ \A i \in 1 .. n : T[i] = EntryText(Q[i], mode)
  BY TextsOfAre
<1> HIDE DEF R, S, T
<1>4. /\ U \in Seq(Texts) /\ Len(U) = m + n
      /\ \A i \in 1 .. m + n : U[i] = EntryText(R[i], mode)
  BY <1>1, TextsOfAre
<1>5. /\ W \in Seq(Texts) /\ Len(W) = m + n
      /\ \A i \in 1 .. m + n : W[i] = IF i <= m THEN S[i] ELSE T[i - m]
  <2>1. /\ W \in Seq(Texts) /\ Len(W) = Len(S) + Len(T)
        /\ \A i \in 1 .. Len(S) + Len(T) :
             W[i] = IF i <= Len(S) THEN S[i] ELSE T[i - Len(S)]
    <3>1. S \in Seq(Texts) /\ T \in Seq(Texts)
      BY <1>2, <1>3
    <3> QED  BY <3>1, ConcatProperties
  <2>2. Len(S) = m /\ Len(T) = n
    BY <1>2, <1>3
  <2> HIDE DEF W
  <2> QED  BY <2>1, <2>2
<1> HIDE DEF U, W, m, n
<1>6. \A i \in 1 .. m + n : U[i] = W[i]
  <2> TAKE i \in 1 .. m + n
  <2>1. CASE i <= m
    <3>1. i \in 1 .. m
      BY <1>2, <1>3, <2>1
    <3> QED  BY <1>1, <1>2, <1>4, <1>5, <2>1, <3>1
  <2>2. CASE ~(i <= m)
    <3>1. i - m \in 1 .. n
      BY <1>2, <1>3, <2>2
    <3> DEFINE k == i - m
    <3> HIDE DEF k
    <3>2. k \in 1 .. n /\ R[i] = Q[k] /\ W[i] = T[k]
      BY <1>1, <1>5, <2>2, <3>1 DEF k
    <3> QED  BY <1>3, <1>4, <3>2
  <2> QED  BY <2>1, <2>2
<1>7. U = W
  BY <1>4, <1>5, <1>6, SeqEqual
<1> QED  BY <1>1, <1>7 DEF U, W, R, S, T

LEMMA ParsedPairs ==
  ASSUME NEW mode \in BOOLEAN, NEW P \in Seq(Sound(mode)), P # << >>,
         NEW separator \in Separators
  PROVE  LET entries == ParseEntries(Join(TextsOf(P, mode), separator)) IN
         /\ DOMAIN entries = 1 .. Len(P)
         /\ \A i \in 1 .. Len(P) :
              entries[i] = [name |-> Encode(P[i].name, mode),
                            value |-> SkipSpaces(Encode(P[i].value, mode))]
<1> DEFINE T == TextsOf(P, mode)
           n == Len(P)
           N == [i \in 1 .. n |-> Encode(P[i].name, mode)]
           V == [i \in 1 .. n |-> Encode(P[i].value, mode)]
           text == Join(T, separator)
           entries == ParseEntries(text)
<1>1. /\ T \in Seq(Texts) /\ Len(T) = n /\ n \in Nat
      /\ \A i \in 1 .. n : P[i] \in Sound(mode) /\ T[i] = EntryText(P[i], mode)
  BY TextsOfAre
<1>2. n # 0
  BY EmptySeq
<1>3. /\ \A i \in 1 .. n : N[i] = Encode(P[i].name, mode)
      /\ \A i \in 1 .. n : V[i] = Encode(P[i].value, mode)
  OBVIOUS
<1> HIDE DEF T, n, N, V
<1>4. \A i \in 1 .. n : /\ Part(T[i])
                        /\ N[i] \in Texts /\ V[i] \in Texts
                        /\ Free(N[i], Equals)
                        /\ T[i] = Assigned(N[i], V[i])
  <2> TAKE i \in 1 .. n
  <2> DEFINE e == P[i]
  <2>1. /\ e \in Sound(mode) /\ T[i] = EntryText(e, mode)
        /\ N[i] = Encode(e.name, mode) /\ V[i] = Encode(e.value, mode)
    BY <1>1, <1>3
  <2> HIDE DEF e
  <2> QED  BY <2>1, SoundText
<1>5. Len(T) # 0 /\ Assign(T, N, V)
  BY <1>1, <1>2, <1>4 DEF Assign
<1>6. /\ DOMAIN entries = 1 .. Len(T)
      /\ \A i \in 1 .. Len(T) :
           entries[i] = [name |-> N[i], value |-> SkipSpaces(V[i])]
  <2>1. T \in Seq(Texts)
    BY <1>1
  <2> HIDE DEF text
  <2> QED  BY <1>5, <2>1, ParsedEntries DEF text
<1> HIDE DEF entries
<1>7. /\ DOMAIN entries = 1 .. n
      /\ \A i \in 1 .. n :
           entries[i] = [name |-> Encode(P[i].name, mode),
                         value |-> SkipSpaces(Encode(P[i].value, mode))]
  BY <1>1, <1>3, <1>6
<1> QED  BY <1>7 DEF entries, T, n, text

(* A list has what was read of the entries that are the user's.            *)
UserPlaces(P) == {i \in 1 .. Len(P) : P[i].name \notin SystemNames}

Drawn(list, P, mode) ==
  /\ list \in Lists
  /\ \E h : /\ Places(list, Len(P), UserPlaces(P), h)
            /\ \A k \in 1 .. Len(list) : list[k] = ReadPair(P[h[k]], mode)

LEMMA ParsedUser ==
  ASSUME NEW mode \in BOOLEAN, NEW P \in Seq(Sound(mode)), P # << >>,
         NEW separator \in Separators
  PROVE  Drawn(ParseMetaHeaderString(Join(TextsOf(P, mode), separator), mode),
               P, mode)
<1> DEFINE text == Join(TextsOf(P, mode), separator)
           entries == ParseEntries(text)
           n == Len(P)
           R == [name: Texts, value: Texts]
           I == {i \in DOMAIN entries : entries[i].name \notin SystemNames}
           user == Chosen(entries, I)
           list == ParseMetaHeaderString(text, mode)
<1>1. /\ DOMAIN entries = 1 .. n
      /\ \A i \in 1 .. n :
           entries[i] = [name |-> Encode(P[i].name, mode),
                         value |-> SkipSpaces(Encode(P[i].value, mode))]
  BY ParsedPairs
<1>2. n \in Nat /\ \A i \in 1 .. n : P[i] \in Sound(mode)
  BY TextsOfAre
<1>3. list = [k \in DOMAIN user |-> [name |-> Decode(user[k].name, mode),
                                     value |-> Decode(user[k].value, mode)]]
  BY DEF ParseMetaHeaderString
<1>4. \E f : entries = [i \in DOMAIN entries |-> f[i]]
  <2>1. entries = [i \in DOMAIN Split(text) |-> ParseEntry(Split(text)[i])]
    BY DEF ParseEntries
  <2> HIDE DEF entries
  <2> QED  BY <2>1
<1>5. /\ \A i \in I : i \in DOMAIN entries /\ entries[i].name \notin SystemNames
      /\ \A i \in DOMAIN entries : entries[i].name \notin SystemNames => i \in I
  OBVIOUS
<1> HIDE DEF text, entries, n, I, user, list
<1>6. ASSUME NEW i \in 1 .. n
      PROVE  /\ entries[i] \in R
             /\ entries[i].name \notin SystemNames <=> P[i].name \notin SystemNames
             /\ [name |-> Decode(entries[i].name, mode),
                 value |-> Decode(entries[i].value, mode)] = ReadPair(P[i], mode)
             /\ ReadPair(P[i], mode) \in R
  <2> DEFINE e == P[i]
             a == Encode(e.name, mode)
             v == Encode(e.value, mode)
  <2>1. e \in Sound(mode) /\ entries[i] = [name |-> a, value |-> SkipSpaces(v)]
    BY <1>1, <1>2
  <2> HIDE DEF e
  <2>2. /\ a \in Texts /\ v \in Texts
        /\ a \in SystemNames <=> e.name \in SystemNames
        /\ [name |-> Decode(a, mode), value |-> Decode(SkipSpaces(v), mode)]
             = ReadPair(e, mode)
        /\ ReadPair(e, mode) \in R
    BY <2>1, SoundText
  <2> HIDE DEF a, v
  <2>3. SkipSpaces(v) \in Texts
    BY <2>2, SkipTyped
  <2> QED  BY <2>1, <2>2, <2>3 DEF e
<1> HIDE DEF R
<1>7. entries \in Seq(R) /\ Len(entries) = n
  <2>1. entries \in [1 .. n -> R]
    BY <1>1, <1>4, <1>6
  <2> QED  BY <1>2, <2>1
<1>8. user \in Seq(R) /\ Picked(entries, I, n, user)
  BY <1>7, ChosenIs DEF user
<1>9. PICK h : /\ Places(user, n, I, h)
               /\ \A k \in 1 .. Len(user) : user[k] = entries[h[k]]
  BY <1>8 DEF Picked
<1>10. /\ Len(user) \in Nat /\ DOMAIN user = 1 .. Len(user)
       /\ \A k \in 1 .. Len(user) : h[k] \in 1 .. n /\ h[k] \in I
  BY <1>8, <1>9, LenProperties DEF Places
<1>11. \A k \in 1 .. Len(user) : list[k] = ReadPair(P[h[k]], mode) /\ list[k] \in R
  BY <1>3, <1>6, <1>9, <1>10
<1>12. list \in Seq(R) /\ Len(list) = Len(user)
  <2>1. list \in [1 .. Len(user) -> R]
    BY <1>3, <1>10, <1>11
  <2> QED  BY <1>10, <2>1
<1>13. \A i \in 1 .. n : i \in I <=> i \in UserPlaces(P)
  BY <1>1, <1>5, <1>6 DEF UserPlaces, n
<1>14. Places(list, Len(P), UserPlaces(P), h)
  BY <1>9, <1>12, <1>13 DEF Places, n
<1>15. \A k \in 1 .. Len(list) : list[k] = ReadPair(P[h[k]], mode)
  BY <1>11, <1>12
<1>16. list \in Lists
  BY <1>12 DEF Lists, R
<1> QED  BY <1>14, <1>15, <1>16 DEF Drawn, list, text

UserEntries(P) == {e \in ToSet(P) : e.name \notin SystemNames}

LEMMA DrawnOnce ==
  ASSUME NEW mode \in BOOLEAN, NEW P \in Seq(Sound(mode)), NEW list,
         Drawn(list, P, mode),
         \A i, j \in UserPlaces(P) : P[i].name = P[j].name => i = j
  PROVE  /\ ToSet(list) = {ReadPair(e, mode) : e \in UserEntries(P)}
         /\ Len(list) = Cardinality({e.name : e \in UserEntries(P)})
<1> DEFINE U == UserEntries(P)
           n == Len(list)
<1>1. list \in Lists
  BY DEF Drawn
<1>2. n \in Nat /\ DOMAIN list = 1 .. n /\ DOMAIN P = 1 .. Len(P)
  BY <1>1, LenProperties DEF Lists
<1>3. PICK h : /\ Places(list, Len(P), UserPlaces(P), h)
               /\ \A k \in 1 .. n : list[k] = ReadPair(P[h[k]], mode)
  BY DEF Drawn
<1> HIDE DEF n
<1>4. /\ \A k \in 1 .. n : h[k] \in 1 .. Len(P) /\ h[k] \in UserPlaces(P)
      /\ \A j, k \in 1 .. n : j # k => h[j] # h[k]
      /\ \A i \in 1 .. Len(P) : i \in UserPlaces(P) => \E k \in 1 .. n : h[k] = i
  BY <1>3 DEF Places, n
<1>5. \A k \in 1 .. n : P[h[k]] \in U
  BY <1>2, <1>4 DEF UserEntries, UserPlaces, ToSet
<1>6. \A e \in U : \E k \in 1 .. n : P[h[k]] = e
  <2> TAKE e \in U
  <2>1. PICK i \in 1 .. Len(P) : P[i] = e /\ e.name \notin SystemNames
    BY <1>2 DEF UserEntries, ToSet
  <2>2. i \in UserPlaces(P)
    BY <2>1 DEF UserPlaces
  <2>3. PICK k \in 1 .. n : h[k] = i
    BY <1>4, <2>2
  <2> QED  BY <2>1, <2>3
<1> HIDE DEF U
<1>7. ToSet(list) = {ReadPair(e, mode) : e \in U}
  <2>1. \A x \in ToSet(list) : \E e \in U : x = ReadPair(e, mode)
    BY <1>2, <1>3, <1>5 DEF ToSet
  <2>2. \A e \in U : ReadPair(e, mode) \in ToSet(list)
    BY <1>2, <1>3, <1>6 DEF ToSet
  <2> QED  BY <2>1, <2>2
<1> DEFINE f == [k \in 1 .. n |-> P[h[k]].name]
           T == {e.name : e \in U}
<1>8. \A k \in 1 .. n : f[k] = P[h[k]].name
  OBVIOUS
<1> HIDE DEF f
<1>9. \A j, k \in 1 .. n : f[j] = f[k] => j = k
  BY <1>4, <1>8
<1>10. /\ \A k \in 1 .. n : f[k] \in T
       /\ \A t \in T : \E k \in 1 .. n : f[k] = t
  BY <1>5, <1>6, <1>8
<1> HIDE DEF T
<1>11. Cardinality(T) = n
  BY <1>2, <1>9, <1>10, CountedOnce
<1> QED  BY <1>7, <1>11 DEF U, n, T

(* The system metadata with a name that at most one entry has.             *)
HasName(P, s) == \E i \in 1 .. Len(P) : P[i].name = s

NameOnce(P, s) ==
  \A i, j \in 1 .. Len(P) : P[i].name = s /\ P[j].name = s => i = j

NameMeans(P, s, v, mode) ==
  \A i \in 1 .. Len(P) : P[i].name = s =>
    SystemValue([name |-> s, value |-> SkipSpaces(Encode(P[i].value, mode))], mode)
      = v

LEMMA ParsedSystem ==
  ASSUME NEW mode \in BOOLEAN, NEW P \in Seq(Sound(mode)), P # << >>,
         NEW separator \in Separators, NEW s \in SystemNames, NEW v,
         NameOnce(P, s), NameMeans(P, s, v, mode)
  PROVE  ParseSystemMeta(Join(TextsOf(P, mode), separator), mode)[s]
           = IF HasName(P, s) THEN v ELSE << >>
<1> DEFINE text == Join(TextsOf(P, mode), separator)
           entries == ParseEntries(text)
           n == Len(P)
           I == {i \in DOMAIN entries : entries[i].name = s}
           m == Max(I)
<1>1. /\ DOMAIN entries = 1 .. n
      /\ \A i \in 1 .. n :
           entries[i] = [name |-> Encode(P[i].name, mode),
                         value |-> SkipSpaces(Encode(P[i].value, mode))]
  BY ParsedPairs
<1>2. n \in Nat /\ \A i \in 1 .. n : P[i] \in Sound(mode)
  BY TextsOfAre
<1>3. ParseSystemMeta(text, mode)[s]
        = IF I = {} THEN << >> ELSE SystemValue(entries[m], mode)
  BY DEF ParseSystemMeta, LastValues, NoSystemMeta
<1>4. /\ \A i \in I : i \in DOMAIN entries /\ entries[i].name = s
      /\ \A i \in DOMAIN entries : entries[i].name = s => i \in I
  OBVIOUS
<1> HIDE DEF text, entries, n, I
<1>5. \A i \in 1 .. n : entries[i].name = s <=> P[i].name = s
  <2> TAKE i \in 1 .. n
  <2> DEFINE e == P[i]
             a == Encode(e.name, mode)
  <2>1. e \in Sound(mode) /\ entries[i].name = a
    BY <1>1, <1>2
  <2> HIDE DEF e
  <2>2. /\ a \in SystemNames <=> e.name \in SystemNames
        /\ a \in SystemNames => a = e.name
    BY <2>1, SoundText
  <2> HIDE DEF a
  <2> QED  BY <2>1, <2>2 DEF e
<1>8. HasName(P, s) <=> \E i \in 1 .. n : P[i].name = s
  BY DEF HasName, n
<1>9. /\ \A i, j \in 1 .. n : P[i].name = s /\ P[j].name = s => i = j
      /\ \A i \in 1 .. n : P[i].name = s =>
           SystemValue([name |-> s,
                        value |-> SkipSpaces(Encode(P[i].value, mode))], mode) = v
  BY DEF NameOnce, NameMeans, n
<1>6. CASE HasName(P, s)
  <2>1. PICK i \in 1 .. n : P[i].name = s
    BY <1>6, <1>8
  <2>2. i \in I /\ \A k \in I : k \in 1 .. n /\ P[k].name = s
    BY <1>1, <1>4, <1>5, <2>1
  <2>3. \A k \in I : k = i
    BY <1>9, <2>1, <2>2
  <2>4. m = i
    <3>1. I \in SUBSET Int /\ \A k \in I : k <= i
      BY <1>2, <2>1, <2>3
    <3> QED  BY <2>2, <3>1, MaxIs
  <2>5. entries[i] = [name |-> s, value |-> SkipSpaces(Encode(P[i].value, mode))]
    BY <1>1, <1>5, <2>1
  <2>6. SystemValue(entries[i], mode) = v
    BY <1>9, <2>1, <2>5
  <2> HIDE DEF m
  <2>7. I # {}
    BY <2>2
  <2> QED  BY <1>3, <1>6, <2>4, <2>6, <2>7 DEF text
<1>7. CASE ~HasName(P, s)
  <2>1. I = {}
    BY <1>1, <1>4, <1>5, <1>7, <1>8
  <2> HIDE DEF m
  <2> QED  BY <1>3, <1>7, <2>1 DEF text
<1> QED  BY <1>6, <1>7

LEMMA PlainText ==
  ASSUME NEW text \in Texts, \A i \in 1 .. Len(text) : text[i] \notin Special,
         Unescaped(text), text # << >>, NEW mode \in BOOLEAN
  PROVE  /\ Encode(text, mode) = text
         /\ SkipSpaces(text) = text
<1>1. Len(text) \in Nat /\ Len(text) # 0
  BY LenProperties, EmptySeq DEF Texts
<1>2. /\ Encode(text, mode) \in Seq(Words) /\ text \in Seq(Words)
      /\ Len(Encode(text, mode)) = Len(text)
      /\ \A i \in 1 .. Len(text) : Encode(text, mode)[i] = text[i]
  BY EncodedText DEF Texts
<1>3. Encode(text, mode) = text
  BY <1>2, SeqEqual
<1>4. 1 \in 1 .. Len(text)
  BY <1>1
<1>5. text[1] # Space
  BY <1>4 DEF Special
<1> QED  BY <1>3, <1>5, SkipNothing

LEMMA SystemMetaIs ==
  /\ DOMAIN SystemMeta = SystemNames
  /\ \A s \in SystemNames, mode \in BOOLEAN :
       /\ [name |-> s, value |-> SystemMeta[s]] \in Sound(mode)
       /\ SystemValue([name |-> s,
                       value |-> SkipSpaces(Encode(SystemMeta[s], mode))], mode)
            = SystemMeta[s]
       /\ SystemValue([name |-> s, value |-> SystemMeta[s]], FALSE) = SystemMeta[s]
       /\ SystemMeta[s] \in Texts
<1>1. /\ DOMAIN SystemMeta = SystemNames
      /\ SystemMeta[<<"size">>] = <<"7">>
      /\ SystemMeta[<<"objname">>] = <<"x", Space, "y">>
  <2>1. <<"size">> # <<"objname">>
    OBVIOUS
  <2> QED  BY <2>1 DEF SystemMeta, SystemNames
<1>2. /\ {"size", "objname", "7", "x", "y"} \subseteq Words /\ Space \in Words
      /\ \A w \in {"size", "objname", "7", "x", "y"} : w \notin Special
  BY WordsAssumption, MetadataAssumption, WordsDiffer
     DEF Special, Comma, Equals, Space, Umlaut
<1>3. \A w \in {"size", "objname", "7", "x", "y", Space} : w \notin Range(EscapedWord)
  <2>1. \A w \in Special : EscapedWord[w] \notin {"size", "objname", "7", "x", "y", "space"}
    BY DEF EscapedWord, Special, Comma, Equals, Space, Umlaut
  <2>2. \A e \in Range(EscapedWord) : \E w \in Special : e = EscapedWord[w]
    BY EscapedWords DEF Range
  <2> QED  BY <2>1, <2>2 DEF Space
<1>4. ASSUME NEW w \in {"size", "objname", "7"}, NEW mode \in BOOLEAN
      PROVE  /\ <<w>> \in Texts /\ Unescaped(<<w>>) /\ Usable(<<w>>, mode)
             /\ ~MetaCharCheck(<<w>>)
             /\ Encode(<<w>>, mode) = <<w>> /\ SkipSpaces(<<w>>) = <<w>>
  <2>1. <<w>> \in Texts /\ <<w>> # << >> /\ <<w>>[1] = w /\ DOMAIN <<w>> = {1}
    BY <1>2 DEF Texts
  <2>2. Unescaped(<<w>>)
    BY <1>3, <2>1 DEF Unescaped
  <2>3. w \notin Special
    BY <1>2
  <2>4. Usable(<<w>>, mode) /\ ~MetaCharCheck(<<w>>)
    BY <2>1, <2>3 DEF Usable, MetaCharCheck, Special
  <2>5. \A i \in 1 .. Len(<<w>>) : <<w>>[i] \notin Special
    BY <2>1, <2>3
  <2> QED  BY <2>1, <2>2, <2>4, <2>5, PlainText
<1> DEFINE t == <<"x", Space, "y">>
<1>5. /\ t \in Texts /\ t # << >> /\ t[1] # Space
      /\ Unescaped(t) /\ ~MetaCharCheck(t)
  <2>1. /\ t \in Seq(Words) /\ Len(t) = 3 /\ DOMAIN t = 1 .. 3
        /\ t[1] = "x" /\ t[2] = Space /\ t[3] = "y"
    BY <1>2
  <2> HIDE DEF t
  <2>2. t # << >>
    BY <2>1
  <2>3. \A i \in 1 .. 3 : i = 1 \/ i = 2 \/ i = 3
    OBVIOUS
  <2>4. Unescaped(t)
    BY <1>3, <2>1, <2>3 DEF Unescaped
  <2>5. ~MetaCharCheck(t)
    BY <1>2, <2>1, <2>3, WordsDiffer DEF MetaCharCheck, Special
  <2>6. "x" # Space
    BY <1>2 DEF Special
  <2> QED  BY <2>1, <2>2, <2>4, <2>5, <2>6 DEF Texts
<1> HIDE DEF t
<1>6. ASSUME NEW mode \in BOOLEAN
      PROVE  /\ [name |-> <<"size">>, value |-> <<"7">>] \in Sound(mode)
             /\ [name |-> <<"objname">>, value |-> t] \in Sound(mode)
  BY <1>4, <1>5 DEF Sound, Attachable, Skipped
<1>7. ASSUME NEW mode \in BOOLEAN
      PROVE  SystemValue([name |-> <<"size">>,
                          value |-> SkipSpaces(Encode(<<"7">>, mode))], mode) = <<"7">>
  <2>1. <<"size">> # <<"objname">>
    OBVIOUS
  <2>2. SkipSpaces(Encode(<<"7">>, mode)) = <<"7">>
    BY <1>4
  <2> QED  BY <2>1, <2>2 DEF SystemValue
<1>8. ASSUME NEW mode \in BOOLEAN
      PROVE  SystemValue([name |-> <<"objname">>,
                          value |-> SkipSpaces(Encode(t, mode))], mode) = t
  <2> DEFINE e == [name |-> <<"objname">>, value |-> t]
             d == Decode(SkipSpaces(Encode(t, mode)), mode)
  <2>1. e \in Sound(mode) /\ e.value = t /\ e.name = <<"objname">>
    BY <1>6
  <2> HIDE DEF e
  <2>2. [name |-> Decode(Encode(e.name, mode), mode),
         value |-> Decode(SkipSpaces(Encode(e.value, mode)), mode)] = ReadPair(e, mode)
    BY <2>1, SoundText
  <2>3. d = IF mode THEN t ELSE SkipSpaces(t)
    BY <2>1, <2>2 DEF ReadPair
  <2>4. SkipSpaces(t) = t
    BY <1>5, SkipNothing
  <2>5. d = t
    BY <2>3, <2>4
  <2> QED  BY <2>5 DEF SystemValue
<1>9. /\ SystemValue([name |-> <<"size">>, value |-> <<"7">>], FALSE) = <<"7">>
      /\ SystemValue([name |-> <<"objname">>, value |-> t], FALSE) = t
  BY DEF SystemValue, Decode
<1>10. <<"7">> \in Texts
  BY <1>4
<1> QED  BY <1>1, <1>5, <1>6, <1>7, <1>8, <1>9, <1>10 DEF SystemNames, t

-----------------------------------------------------------------------------
(* The entries that the server puts in a header.                           *)

PairOf(f, n) == [name |-> n, value |-> f[n]]

PairSet(f, names) == {PairOf(f, n) : n \in DOMAIN f \cap names}

PairsOf(f, names) ==
  LET order == SetToSeq(DOMAIN f \cap names) IN
  [i \in DOMAIN order |-> PairOf(f, order[i])]

LEMMA PairsOfAre ==
  ASSUME NEW f, NEW names, NEW mode, IsFiniteSet(DOMAIN f),
         \A n \in DOMAIN f : PairOf(f, n) \in Sound(mode)
  PROVE  LET P == PairsOf(f, names) IN
         /\ P \in Seq(Sound(mode)) /\ DOMAIN P = 1 .. Len(P)
         /\ ToSet(P) = {PairOf(f, n) : n \in DOMAIN f \cap names}
         /\ \A i \in 1 .. Len(P) : /\ P[i].name \in DOMAIN f \cap names
                                   /\ P[i].value = f[P[i].name]
         /\ \A n \in DOMAIN f \cap names : \E i \in 1 .. Len(P) : P[i].name = n
         /\ \A i, j \in 1 .. Len(P) : P[i].name = P[j].name => i = j
<1> DEFINE S == DOMAIN f \cap names
           order == SetToSeq(S)
           P == PairsOf(f, names)
           k == Len(order)
<1>1. IsFiniteSet(S)
  <2>1. S \in SUBSET DOMAIN f
    OBVIOUS
  <2> QED  BY <2>1, FS_Subset
<1>2. P = [i \in DOMAIN order |-> PairOf(f, order[i])]
  BY DEF PairsOf
<1> HIDE DEF P
<1>3. \A n \in S : n \in DOMAIN f /\ PairOf(f, n) \in Sound(mode)
  OBVIOUS
<1> HIDE DEF S
<1>4. /\ order \in Seq(S) /\ DOMAIN order = 1 .. k
      /\ ToSet(order) = S
      /\ \A i, j \in 1 .. k : order[i] = order[j] => i = j
  BY <1>1, OrderIs
<1>5. k \in Nat /\ \A i \in 1 .. k : order[i] \in S
  BY <1>4, LenProperties, ElementOfSeq
<1> HIDE DEF order, k
<1>6. P = [i \in 1 .. k |-> PairOf(f, order[i])]
  BY <1>2, <1>4
<1>7. P \in Seq(Sound(mode)) /\ Len(P) = k /\ DOMAIN P = 1 .. k
  <2>1. P \in [1 .. k -> Sound(mode)]
    BY <1>3, <1>5, <1>6
  <2> QED  BY <1>5, <2>1
<1>8. \A i \in 1 .. k : /\ P[i] = PairOf(f, order[i]) /\ P[i].name = order[i]
                        /\ P[i].value = f[order[i]]
  BY <1>6 DEF PairOf
<1>9. ToSet(P) = {PairOf(f, n) : n \in S}
  <2>1. \A x \in ToSet(P) : \E n \in S : x = PairOf(f, n)
    BY <1>5, <1>7, <1>8 DEF ToSet
  <2>2. \A n \in S : PairOf(f, n) \in ToSet(P)
    BY <1>4, <1>7, <1>8 DEF ToSet
  <2> QED  BY <2>1, <2>2
<1>10. \A n \in S : \E i \in 1 .. k : P[i].name = n
  BY <1>4, <1>8 DEF ToSet
<1>11. \A i, j \in 1 .. k : P[i].name = P[j].name => i = j
  BY <1>4, <1>8
<1>12. \A i \in 1 .. k : P[i].name \in S /\ P[i].value = f[P[i].name]
  BY <1>5, <1>8
<1> QED  BY <1>7, <1>9, <1>10, <1>11, <1>12 DEF P, S

LEMMA MetaTextsAre ==
  ASSUME NEW f, NEW names
  PROVE  MetaTexts(f, names) = TextsOf(PairsOf(f, names), ServerUtf8)
<1> DEFINE order == SetToSeq(DOMAIN f \cap names)
           P == PairsOf(f, names)
<1>1. P = [i \in DOMAIN order |-> PairOf(f, order[i])]
  BY DEF PairsOf
<1>2. MetaTexts(f, names)
        = [i \in DOMAIN order |->
             Encode(order[i], ServerUtf8) \o <<Equals>>
               \o Encode(f[order[i]], ServerUtf8)]
  BY DEF MetaTexts
<1> HIDE DEF order, P
<1>3. \A i \in DOMAIN order :
        EntryText(P[i], ServerUtf8)
          = Encode(order[i], ServerUtf8) \o <<Equals>>
              \o Encode(f[order[i]], ServerUtf8)
  BY <1>1 DEF EntryText, PairOf
<1>4. TextsOf(P, ServerUtf8) = [i \in DOMAIN order |-> EntryText(P[i], ServerUtf8)]
  BY <1>1 DEF TextsOf
<1> QED  BY <1>2, <1>3, <1>4 DEF P

LEMMA KeptPairs ==
  ASSUME utf8 \in Utf8Modes, NEW f, Kept(f)
  PROVE  /\ IsFiniteSet(DOMAIN f)
         /\ \A n \in DOMAIN f : PairOf(f, n) \in Sound(utf8) /\ n \notin SystemNames
<1>1. IsFiniteSet(DOMAIN f)
  BY DEF Kept
<1>2. ASSUME NEW n \in DOMAIN f
      PROVE  PairOf(f, n) \in Sound(utf8) /\ n \notin SystemNames
  <2>1. PICK e \in Entries : e.name = n /\ e.value = f[n] /\ Sendable(e)
    BY DEF Kept
  <2>2. /\ e.name \in Texts /\ e.value \in Texts
        /\ Unescaped(e.name) /\ Unescaped(e.value)
    BY MetadataAssumption
  <2>3. Usable(e.name, utf8) /\ e.name \notin SystemNames
    BY CallerAssumption
  <2> DEFINE p == PairOf(f, n)
  <2>4. p.name = e.name /\ p.value = e.value /\ p \in [name: Texts, value: Texts]
    BY <2>1, <2>2 DEF PairOf
  <2>5. ~Skipped(p, utf8)
    BY <2>1, <2>4 DEF Skipped, Sendable, Plain, MetaCharCheck
  <2>6. Attachable(p, utf8)
    BY <2>2, <2>3, <2>4 DEF Attachable
  <2> QED  BY <2>1, <2>3, <2>4, <2>5, <2>6 DEF Sound
<1> QED  BY <1>1, <1>2

LEMMA SystemPairs ==
  ASSUME NEW mode \in BOOLEAN
  PROVE  /\ IsFiniteSet(DOMAIN SystemMeta)
         /\ \A n \in DOMAIN SystemMeta : PairOf(SystemMeta, n) \in Sound(mode)
<1>1. IsFiniteSet(SystemNames)
  <2>1. IsFiniteSet({<<"size">>}) /\ IsFiniteSet({<<"objname">>})
    BY FS_Singleton
  <2>2. IsFiniteSet({<<"size">>} \cup {<<"objname">>})
    BY <2>1, FS_Union, Zenon
  <2>3. SystemNames = {<<"size">>} \cup {<<"objname">>}
    BY DEF SystemNames
  <2> QED  BY <2>2, <2>3
<1> QED  BY <1>1, SystemMetaIs DEF PairOf

(* System metadata in front of the user's.                                 *)
Fronts(X, A) == X = PairsOf(SystemMeta, A) \/ X = << >>

Mixed(P, X, A, f, B) ==
  /\ P \in Seq(Sound(utf8))
  /\ UserEntries(P) = PairSet(f, B)
  /\ \A i, j \in UserPlaces(P) : P[i].name = P[j].name => i = j
  /\ \A s \in SystemNames :
       /\ NameOnce(P, s)
       /\ \A i \in 1 .. Len(P) : P[i].name = s => P[i].value = SystemMeta[s]
       /\ X = PairsOf(SystemMeta, A) => (s \in A <=> HasName(P, s))

LEMMA MixedPairs ==
  ASSUME utf8 \in Utf8Modes, NEW X, NEW A, Fronts(X, A),
         NEW f, Kept(f), NEW B
  PROVE  /\ X \in Seq(Sound(utf8)) /\ PairsOf(f, B) \in Seq(Sound(utf8))
         /\ Mixed(X \o PairsOf(f, B), X, A, f, B)
<1> DEFINE Y == PairsOf(f, B)
           P == X \o Y
           m == Len(X)
           n == Len(Y)
<1>1. utf8 \in BOOLEAN
  BY MetadataAssumption
<1>2. /\ IsFiniteSet(DOMAIN f)
      /\ \A k \in DOMAIN f : PairOf(f, k) \in Sound(utf8) /\ k \notin SystemNames
  BY KeptPairs
<1>3. /\ Y \in Seq(Sound(utf8)) /\ DOMAIN Y = 1 .. n
      /\ ToSet(Y) = {PairOf(f, k) : k \in DOMAIN f \cap B}
      /\ \A i \in 1 .. n : Y[i].name \in DOMAIN f \cap B
      /\ \A i, j \in 1 .. n : Y[i].name = Y[j].name => i = j
  BY <1>2, PairsOfAre
<1>4. /\ X \in Seq(Sound(utf8)) /\ DOMAIN X = 1 .. m
      /\ \A i \in 1 .. m : /\ X[i].name \in SystemNames
                           /\ X[i].value = SystemMeta[X[i].name]
      /\ \A i, j \in 1 .. m : X[i].name = X[j].name => i = j
      /\ X = PairsOf(SystemMeta, A) =>
           /\ \A s \in SystemNames \cap A : \E i \in 1 .. m : X[i].name = s
           /\ \A i \in 1 .. m : X[i].name \in A
  <2>1. CASE X = PairsOf(SystemMeta, A)
    BY <1>1, <2>1, SystemPairs, SystemMetaIs, PairsOfAre
  <2>2. CASE X = << >> /\ X # PairsOf(SystemMeta, A)
    BY <2>2, EmptySeq
  <2> QED  BY <2>1, <2>2 DEF Fronts
<1> HIDE DEF Y
<1>5. /\ P \in Seq(Sound(utf8)) /\ Len(P) = m + n
      /\ ToSet(P) = ToSet(X) \cup ToSet(Y)
      /\ \A i \in 1 .. m + n : P[i] = IF i <= m THEN X[i] ELSE Y[i - m]
  BY <1>3, <1>4, ConcatProperties, ToSetCat
<1>6. m \in Nat /\ n \in Nat
  BY <1>3, <1>4, LenProperties
<1> HIDE DEF P, m, n
<1>7. ASSUME NEW i \in 1 .. m
      PROVE  i \in 1 .. m + n /\ P[i] = X[i]
  <2>1. i \in 1 .. m + n /\ i <= m
    BY <1>6
  <2> QED  BY <1>5, <2>1
<1>8. ASSUME NEW i \in 1 .. m + n
      PROVE  \/ i \in 1 .. m /\ P[i] = X[i] /\ P[i].name \in SystemNames
             \/ \E k \in 1 .. n : /\ i = m + k /\ P[i] = Y[k]
                                  /\ P[i].name \in DOMAIN f \cap B
                                  /\ P[i].name \notin SystemNames
  <2>1. CASE i <= m
    <3>1. i \in 1 .. m
      BY <1>6, <2>1
    <3> QED  BY <1>4, <1>5, <2>1, <3>1
  <2>2. CASE ~(i <= m)
    <3> DEFINE k == i - m
    <3>1. k \in 1 .. n /\ i = m + k
      BY <1>6, <2>2
    <3>2. P[i] = Y[k]
      BY <1>5, <2>2
    <3> HIDE DEF k
    <3> QED  BY <1>2, <1>3, <3>1, <3>2
  <2> QED  BY <2>1, <2>2
<1>9. UserEntries(P) = PairSet(f, B)
  <2>1. \A e \in ToSet(X) : e.name \in SystemNames
    BY <1>4 DEF ToSet
  <2>2. \A e \in ToSet(Y) : e.name \notin SystemNames
    BY <1>2, <1>3 DEF ToSet
  <2>3. UserEntries(P) = ToSet(Y)
    BY <1>5, <2>1, <2>2 DEF UserEntries
  <2> QED  BY <1>3, <2>3 DEF PairSet
<1>10. \A i, j \in UserPlaces(P) : P[i].name = P[j].name => i = j
  <2> SUFFICES ASSUME NEW i \in 1 .. m + n, NEW j \in 1 .. m + n,
                      P[i].name \notin SystemNames, P[i].name = P[j].name
               PROVE  i = j
    BY <1>5 DEF UserPlaces
  <2>1. PICK k \in 1 .. n : i = m + k /\ P[i] = Y[k]
    BY <1>8
  <2>2. PICK l \in 1 .. n : j = m + l /\ P[j] = Y[l]
    BY <1>8
  <2>3. k = l
    BY <1>3, <2>1, <2>2
  <2> QED  BY <2>1, <2>2, <2>3
<1>11. ASSUME NEW s \in SystemNames
       PROVE  /\ \A i, j \in 1 .. m + n : P[i].name = s /\ P[j].name = s => i = j
              /\ \A i \in 1 .. m + n : P[i].name = s => P[i].value = SystemMeta[s]
              /\ X = PairsOf(SystemMeta, A) =>
                   (s \in A <=> \E i \in 1 .. m + n : P[i].name = s)
  <2>1. \A i \in 1 .. m + n : P[i].name = s => i \in 1 .. m /\ P[i] = X[i]
    BY <1>8
  <2>2. \A i, j \in 1 .. m + n : P[i].name = s /\ P[j].name = s => i = j
    BY <1>4, <2>1
  <2>3. \A i \in 1 .. m + n : P[i].name = s => P[i].value = SystemMeta[s]
    BY <1>4, <2>1
  <2>4. ASSUME X = PairsOf(SystemMeta, A)
        PROVE  s \in A <=> \E i \in 1 .. m + n : P[i].name = s
    <3>1. s \in A => \E i \in 1 .. m : X[i].name = s
      BY <1>4, <2>4
    <3>2. s \in A => \E i \in 1 .. m + n : P[i].name = s
      BY <1>7, <3>1
    <3>3. \A i \in 1 .. m + n : P[i].name = s => s \in A
      BY <1>4, <2>1, <2>4
    <3> QED  BY <3>2, <3>3
  <2> QED  BY <2>2, <2>3, <2>4
<1>12. \A s \in SystemNames :
         /\ NameOnce(P, s)
         /\ \A i \in 1 .. Len(P) : P[i].name = s => P[i].value = SystemMeta[s]
         /\ X = PairsOf(SystemMeta, A) => (s \in A <=> HasName(P, s))
  BY <1>5, <1>11 DEF NameOnce, HasName
<1>13. /\ X \in Seq(Sound(utf8)) /\ Y \in Seq(Sound(utf8)) /\ P \in Seq(Sound(utf8))
  BY <1>3, <1>4, <1>5
<1>14. Mixed(P, X, A, f, B)
  BY <1>9, <1>10, <1>12, <1>13 DEF Mixed
<1> QED  BY <1>13, <1>14 DEF P, Y

LEMMA NoPairs ==
  /\ \A f : PairsOf(f, {}) = << >>
  /\ \A mode : TextsOf(<< >>, mode) = << >>
<1>1. ASSUME NEW f
      PROVE  PairsOf(f, {}) = << >>
  <2> DEFINE order == SetToSeq({})
  <2>1. IsFiniteSet({})
    BY FS_EmptySet
  <2>2. order \in Seq({}) /\ DOMAIN order = 1 .. Len(order)
    BY <2>1, OrderIs
  <2>3. DOMAIN f \cap {} = {}
    OBVIOUS
  <2>4. PairsOf(f, {}) = [i \in DOMAIN order |-> PairOf(f, order[i])]
    BY <2>3 DEF PairsOf
  <2> HIDE DEF order
  <2>5. Len(order) \in Nat /\ \A i \in 1 .. Len(order) : order[i] \in {}
    BY <2>2, LenProperties, ElementOfSeq
  <2>6. 1 .. Len(order) = {}
    BY <2>5
  <2>7. PairsOf(f, {}) = [i \in {} |-> PairOf(f, order[i])]
    BY <2>2, <2>4, <2>6
  <2> QED  BY <2>7
<1>2. ASSUME NEW mode
      PROVE  TextsOf(<< >>, mode) = << >>
  BY DEF TextsOf
<1> QED  BY <1>1, <1>2

(* A list of the response that holds what the server has under some names. *)
ReadAs(list, f, names) ==
  /\ list \in Lists
  /\ ToSet(list) = {ReadPair(PairOf(f, n), utf8) : n \in DOMAIN f \cap names}
  /\ Len(list) = Cardinality(DOMAIN f \cap names)

LEMMA DrawnFrom ==
  ASSUME utf8 \in Utf8Modes, AnswerUtf8 = utf8,
         NEW P \in Seq(Sound(utf8)), NEW h, NEW separator \in Separators,
         Says(answer.headers, h, TextsOf(P, utf8) # << >>,
              Join(TextsOf(P, utf8), separator))
  PROVE  Drawn(UserMeta(h), P, utf8)
<1> DEFINE text == Join(TextsOf(P, utf8), separator)
<1>1. utf8 \in BOOLEAN
  BY MetadataAssumption
<1>2. TextsOf(P, utf8) = << >> <=> P = << >>
  BY <1>1, TextsOfAre
<1>3. CASE P = << >>
  <2>1. UserMeta(h) = << >>
    BY <1>2, <1>3 DEF Says, UserMeta
  <2>2. << >> \in Lists /\ Len(<< >>) = 0
    BY EmptySeq DEF Lists
  <2> DEFINE l == << >>
  <2>3. Places(l, Len(P), UserPlaces(P), l)
    BY <1>3, <2>2 DEF Places, UserPlaces
  <2>4. \A k \in 1 .. Len(l) : l[k] = ReadPair(P[l[k]], utf8)
    BY <2>2
  <2> HIDE DEF l
  <2>5. Drawn(l, P, utf8)
    BY <2>2, <2>3, <2>4 DEF Drawn, l
  <2> QED  BY <2>1, <2>5 DEF l
<1>4. CASE P # << >>
  <2>1. UserMeta(h) = ParseMetaHeaderString(text, utf8)
    BY <1>2, <1>4 DEF Says, UserMeta
  <2>2. Drawn(ParseMetaHeaderString(text, utf8), P, utf8)
    BY <1>1, <1>4, ParsedUser
  <2> HIDE DEF text
  <2> QED  BY <2>1, <2>2
<1> QED  BY <1>3, <1>4

LEMMA ReadFrom ==
  ASSUME utf8 \in Utf8Modes, AnswerUtf8 = utf8,
         NEW X, NEW A, Fronts(X, A),
         NEW f, Kept(f), NEW B, NEW h, NEW separator \in Separators,
         Says(answer.headers, h, TextsOf(X \o PairsOf(f, B), utf8) # << >>,
              Join(TextsOf(X \o PairsOf(f, B), utf8), separator))
  PROVE  ReadAs(UserMeta(h), f, B)
<1> DEFINE P == X \o PairsOf(f, B)
           list == UserMeta(h)
           S == DOMAIN f \cap B
<1>1. utf8 \in BOOLEAN
  BY MetadataAssumption
<1>10. Mixed(P, X, A, f, B)
  BY MixedPairs
<1>3. Says(answer.headers, h, TextsOf(P, utf8) # << >>,
           Join(TextsOf(P, utf8), separator))
  OBVIOUS
<1>9. PairSet(f, B) = {PairOf(f, n) : n \in S}
  BY DEF PairSet
<1> HIDE DEF P, list, S
<1>2. /\ P \in Seq(Sound(utf8))
      /\ UserEntries(P) = PairSet(f, B)
      /\ \A i, j \in UserPlaces(P) : P[i].name = P[j].name => i = j
  BY <1>10 DEF Mixed
<1>4. Drawn(list, P, utf8)
  BY <1>2, <1>3, DrawnFrom DEF list
<1>5. /\ ToSet(list) = {ReadPair(e, utf8) : e \in UserEntries(P)}
      /\ Len(list) = Cardinality({e.name : e \in UserEntries(P)})
  BY <1>1, <1>2, <1>4, DrawnOnce
<1>6. ToSet(list) = {ReadPair(PairOf(f, n), utf8) : n \in S}
  BY <1>2, <1>5, <1>9
<1>7. {e.name : e \in UserEntries(P)} = S
  <2>1. \A n \in S : PairOf(f, n).name = n
    BY DEF PairOf
  <2>2. \A e \in UserEntries(P) : e.name \in S
    BY <1>2, <1>9, <2>1
  <2>3. \A n \in S : \E e \in UserEntries(P) : e.name = n
    BY <1>2, <1>9, <2>1
  <2> QED  BY <2>2, <2>3
<1>8. list \in Lists
  BY <1>4 DEF Drawn
<1> QED  BY <1>5, <1>6, <1>7, <1>8 DEF ReadAs, list, S

LEMMA SystemFrom ==
  ASSUME utf8 \in Utf8Modes, AnswerUtf8 = utf8, response = NoResponse,
         NEW A, NEW f, Kept(f), NEW B, NEW separator \in Separators,
         LET P == PairsOf(SystemMeta, A) \o PairsOf(f, B) IN
         Says(answer.headers, "x-emc-meta", TextsOf(P, utf8) # << >>,
              Join(TextsOf(P, utf8), separator))
  PROVE  /\ DOMAIN SystemMetaOf = SystemNames
         /\ SystemMetaOf = [s \in SystemNames |-> SystemMetaOf[s]]
         /\ \A s \in SystemNames :
              SystemMetaOf[s] = IF s \in A THEN SystemMeta[s] ELSE << >>
<1> DEFINE X == PairsOf(SystemMeta, A)
           P == X \o PairsOf(f, B)
           text == Join(TextsOf(P, utf8), separator)
<1>1. utf8 \in BOOLEAN
  BY MetadataAssumption
<1>10. Mixed(P, X, A, f, B)
  BY MixedPairs DEF Fronts
<1>3. Says(answer.headers, "x-emc-meta", TextsOf(P, utf8) # << >>, text)
  OBVIOUS
<1>11. X = PairsOf(SystemMeta, A)
  OBVIOUS
<1> HIDE DEF X, P
<1>2. /\ P \in Seq(Sound(utf8))
      /\ \A s \in SystemNames :
           /\ NameOnce(P, s)
           /\ \A i \in 1 .. Len(P) : P[i].name = s => P[i].value = SystemMeta[s]
           /\ s \in A <=> HasName(P, s)
  BY <1>10, <1>11 DEF Mixed
<1>4. TextsOf(P, utf8) = << >> <=> P = << >>
  BY <1>1, <1>2, TextsOfAre
<1>5. response.system = NoSystemMeta
  BY DEF NoResponse
<1>6. CASE P = << >>
  <2>1. SystemMetaOf = NoSystemMeta
    BY <1>3, <1>4, <1>5, <1>6 DEF Says, SystemMetaOf
  <2>2. Len(P) = 0
    BY <1>6
  <2>3. \A s \in SystemNames : s \notin A
    BY <1>2, <2>2 DEF HasName
  <2> QED  BY <2>1, <2>3 DEF NoSystemMeta
<1>7. CASE P # << >>
  <2>1. SystemMetaOf = ParseSystemMeta(text, utf8)
    BY <1>3, <1>4, <1>7 DEF Says, SystemMetaOf
  <2>2. /\ DOMAIN ParseSystemMeta(text, utf8) = SystemNames
        /\ ParseSystemMeta(text, utf8)
             = [s \in SystemNames |-> ParseSystemMeta(text, utf8)[s]]
    BY DEF ParseSystemMeta, LastValues
  <2>3. ASSUME NEW s \in SystemNames
        PROVE  ParseSystemMeta(text, utf8)[s]
                 = IF s \in A THEN SystemMeta[s] ELSE << >>
    <3> DEFINE v == SystemMeta[s]
    <3>1. SystemValue([name |-> s, value |-> SkipSpaces(Encode(v, utf8))], utf8) = v
      BY <1>1, SystemMetaIs
    <3> HIDE DEF v
    <3>2. /\ NameOnce(P, s) /\ (s \in A <=> HasName(P, s))
          /\ \A i \in 1 .. Len(P) : P[i].name = s => P[i].value = v
      BY <1>2 DEF v
    <3>3. NameMeans(P, s, v, utf8)
      BY <3>1, <3>2 DEF NameMeans
    <3>4. ParseSystemMeta(text, utf8)[s] = IF HasName(P, s) THEN v ELSE << >>
      BY <1>1, <1>2, <1>7, <3>2, <3>3, ParsedSystem
    <3> QED  BY <3>2, <3>4 DEF v
  <2> HIDE DEF text
  <2> QED  BY <2>1, <2>2, <2>3
<1> QED  BY <1>6, <1>7

-----------------------------------------------------------------------------
(* The invariant of the reads: the answer is one of those that the server  *)
(* gives for what it keeps.                                                *)

Listed(listable_first, flag, rest) ==
  LET regular == Nodes(object.meta,
                       ListedNames(object.meta, "x-emc-user-tags", rest), flag)
      listable == Nodes(object.listable,
                        ListedNames(object.listable, "x-emc-user-tags", rest),
                        "true") IN
  [system |-> Nodes(SystemMeta,
                    ListedNames(SystemMeta, "x-emc-system-tags", rest), "none"),
   user |-> IF listable_first THEN listable \o regular
            ELSE regular \o listable]

HeadersDelivered ==
  \E separator \in Separators, with_system \in BOOLEAN :
    /\ request.op \in SystemMetaReads => with_system
    /\ answer.headers = Delivered(separator, with_system)

DocumentDelivered ==
  \E listable_first, rest \in BOOLEAN, flag \in {"false", "none"} :
    answer.document = Listed(listable_first, flag, rest)

AnswerInv ==
  /\ answer.http_code \in {200, 400}
  /\ request.op \in Reads \ {"list_directory"} => HeadersDelivered
  /\ request.op = "list_directory" => DocumentDelivered

ReadInv ==
  /\ WriteInv
  /\ answer.http_code \in {0, 200, 400}
  /\ pc # "idle" => response = NoResponse
  /\ pc = "answered" => AnswerInv

LEMMA DeliveredStays ==
  ASSUME UNCHANGED <<request, object, headers>>, NEW separator, NEW with_system
  PROVE  Delivered(separator, with_system)' = Delivered(separator, with_system)
<1>1. ServerUtf8' = ServerUtf8
  BY DEF ServerUtf8
<1>2. SentNames' = SentNames
  BY <1>1 DEF SentNames, NamesIn, HeaderParts
<1>3. \A f, names : MetaTexts(f, names)' = MetaTexts(f, names)
  BY <1>1 DEF MetaTexts
<1>4. \A f : NamesAsked(f)' = NamesAsked(f)
  BY <1>2 DEF NamesAsked
<1>5. \A f : UserMetaTexts(f)' = UserMetaTexts(f)
  BY <1>3, <1>4 DEF UserMetaTexts
<1>6. MixedTexts(with_system)' = MixedTexts(with_system)
  BY <1>3, <1>4, <1>5 DEF MixedTexts, SystemAsked
<1>7. AclAnswer(separator)' = AclAnswer(separator)
  BY DEF AclAnswer, AclTexts
<1>8. Utf8Answer' = Utf8Answer
  BY <1>1 DEF Utf8Answer
<1> QED  BY <1>5, <1>6, <1>7, <1>8 DEF Delivered

LEMMA ListedStays ==
  ASSUME UNCHANGED <<request, object, headers>>,
         NEW listable_first, NEW flag, NEW rest
  PROVE  Listed(listable_first, flag, rest)' = Listed(listable_first, flag, rest)
<1>1. \A h : NamesIn(h)' = NamesIn(h)
  BY DEF NamesIn, HeaderParts, ServerUtf8
<1>2. \A f, h : ListedNames(f, h, rest)' = ListedNames(f, h, rest)
  BY <1>1 DEF ListedNames
<1> QED  BY <1>2 DEF Listed

LEMMA AnswerStays ==
  ASSUME AnswerInv, UNCHANGED <<answer, request, object, headers>>
  PROVE  AnswerInv'
<1>1. HeadersDelivered => HeadersDelivered'
  BY DeliveredStays DEF HeadersDelivered
<1>2. DocumentDelivered => DocumentDelivered'
  BY ListedStays DEF DocumentDelivered
<1> QED  BY <1>1, <1>2 DEF AnswerInv

LEMMA DeliverAnswers ==
  ASSUME Delivering
  PROVE  AnswerInv'
<1>1. UNCHANGED <<request, object, headers>>
  BY DeliveringIs
<1>2. CASE Refuse
  <2>1. answer'.http_code = 400 /\ request.op \in Writes
    BY <1>2 DEF Refuse, NoAnswer
  <2> QED  BY <1>1, <2>1 DEF AnswerInv, Writes, Reads
<1>3. ASSUME NEW separator \in Separators, NEW with_system \in BOOLEAN,
             Deliver(separator, with_system)
      PROVE  AnswerInv'
  <2>1. /\ answer'.http_code = 200
        /\ answer'.headers = Delivered(separator, with_system)
        /\ request.op \in SystemMetaReads => with_system
        /\ request.op # "list_directory"
    BY <1>3 DEF Deliver, Delivered, MixedTexts, AclAnswer, Utf8Answer, NoAnswer
  <2>2. HeadersDelivered'
    BY <1>1, <2>1, DeliveredStays DEF HeadersDelivered
  <2> QED  BY <1>1, <2>1, <2>2 DEF AnswerInv
<1>4. ASSUME NEW listable_first \in BOOLEAN, NEW rest \in BOOLEAN,
             NEW flag \in {"false", "none"},
             DeliverListing(listable_first, flag, rest)
      PROVE  AnswerInv'
  <2>1. /\ answer'.http_code = 200
        /\ answer'.document = Listed(listable_first, flag, rest)
        /\ request.op = "list_directory"
    BY <1>4 DEF DeliverListing, Listed, NoAnswer
  <2>2. DocumentDelivered'
    BY <1>1, <2>1, ListedStays DEF DocumentDelivered
  <2> QED  BY <1>1, <2>1, <2>2 DEF AnswerInv
<1> QED  BY <1>2, <1>3, <1>4 DEF Delivering, Separators

LEMMA ReadInvInit ==
  ASSUME Init
  PROVE  ReadInv
<1>1. pc = "idle" /\ answer = NoAnswer
  BY DEF Init
<1>2. answer.http_code = 0
  BY <1>1 DEF NoAnswer
<1> QED  BY <1>1, <1>2, WriteInvInit DEF ReadInv

LEMMA ReadInvNext ==
  ASSUME ReadInv, [Next]_vars
  PROVE  ReadInv'
<1>1. WriteInv /\ WriteInv'
  BY WriteInvNext DEF ReadInv
<1>2. CASE Building
  <2>1. pc' = "built" /\ response' = NoResponse /\ UNCHANGED answer
    BY <1>2 DEF Building, BuildRequest
  <2> QED  BY <1>1, <2>1 DEF ReadInv
<1>3. CASE Sending
  <2>1. pc = "built" /\ pc' = "sent" /\ UNCHANGED <<response, answer>>
    BY <1>3, SendingIs DEF Send
  <2> QED  BY <1>1, <2>1 DEF ReadInv
<1>4. CASE Store
  <2>1. /\ pc = "sent" /\ pc' = "answered" /\ request.op \in Writes
        /\ UNCHANGED <<response, request>> /\ answer'.http_code = 200
    BY <1>4 DEF Store, NoAnswer
  <2>2. AnswerInv'
    BY <2>1 DEF AnswerInv, Writes, Reads
  <2> QED  BY <1>1, <2>1, <2>2 DEF ReadInv
<1>5. CASE Delivering
  <2>1. pc = "sent" /\ pc' = "answered" /\ UNCHANGED response
    BY <1>5, DeliveringIs
  <2>2. AnswerInv'
    BY <1>5, DeliverAnswers
  <2> QED  BY <1>1, <2>1, <2>2 DEF ReadInv, AnswerInv
<1>6. CASE Returning
  <2>1. pc' = "idle" /\ UNCHANGED answer
    BY <1>6, ReturningIs
  <2> QED  BY <1>1, <2>1 DEF ReadInv
<1>7. CASE UNCHANGED vars
  <2>1. UNCHANGED <<pc, answer, response, request, object, headers>>
    BY <1>7 DEF vars
  <2> QED  BY <1>1, <2>1, AnswerStays DEF ReadInv
<1> QED  BY <1>2, <1>3, <1>4, <1>5, <1>6, <1>7, NextIs

(* The answer to a call is one the server may give for what it keeps, and a *)
(* response object is empty until the filter of its operation parses one.  *)
THEOREM ReadsInvariant ==
  Spec => []ReadInv
<1>1. Init => ReadInv
  BY ReadInvInit
<1>2. ReadInv /\ [Next]_vars => ReadInv'
  BY ReadInvNext
<1> QED  BY <1>1, <1>2, PTL DEF Spec

-----------------------------------------------------------------------------
(* The ACL.                                                                *)

LEMMA AclAnswered ==
  ASSUME ReadInv, pc = "answered", request.op \in AclReads
  PROVE  /\ AclParsed \in Seq(AclEntries)
         /\ \A principal, type :
              AclPermission(AclParsed, principal, type) = Given(principal, type)
<1>1. /\ StoreInv /\ HeadersDelivered
  BY DEF ReadInv, WriteInv, AnswerInv, AclReads, Reads
<1>2. PICK separator \in Separators, with_system \in BOOLEAN :
        answer.headers = Delivered(separator, with_system)
  BY <1>1 DEF HeadersDelivered
<1>3. /\ object.acl \in Seq(AclEntries) /\ OneEach(ToSet(object.acl))
      /\ ToSet(object.acl) = ToSet(wanted.acl)
  BY <1>1 DEF StoreInv, KeptAcl
<1>4. AclParsed \in Seq(AclEntries) /\ ToSet(AclParsed) = ToSet(wanted.acl)
  BY <1>2, <1>3, AclParsedIs
<1>5. OneEach(ToSet(AclParsed))
  BY <1>3, <1>4
<1>6. ASSUME NEW principal, NEW type
      PROVE  AclPermission(AclParsed, principal, type) = Given(principal, type)
  <2>1. LET aces == {a \in ToSet(AclParsed) :
                       a.principal = principal /\ a.type = type} IN
        AclPermission(AclParsed, principal, type)
          = IF aces = {} THEN "none" ELSE (CHOOSE a \in aces : TRUE).permission
    BY <1>4, <1>5, PermissionIs
  <2> QED  BY <1>4, <2>1 DEF Given
<1> QED  BY <1>4, <1>6

LEMMA AclReturned ==
  ASSUME ReadInv, AclReadsBack, [Next]_vars
  PROVE  AclReadsBack'
<1>1. CASE Building \/ Sending \/ Store \/ Delivering
  <2>1. pc' # "idle"
    BY <1>1, SendingIs, DeliveringIs DEF Building, BuildRequest, Send, Store
  <2> QED  BY <2>1 DEF AclReadsBack, Read
<1>2. CASE Returning
  <2>1. /\ pc = "answered" /\ response = NoResponse
        /\ UNCHANGED <<request, wanted>>
    BY <1>2, ReturningIs DEF ReadInv
  <2> SUFFICES ASSUME request.op \in AclReads
               PROVE  \A principal, type :
                        AclPermission(response'.acl, principal, type)
                          = Given(principal, type)'
    BY <2>1 DEF AclReadsBack, Read
  <2>2. response.acl = << >>
    BY <2>1 DEF NoResponse
  <2>3. << >> \o AclParsed = AclParsed
    BY <2>1, AclAnswered, EmptySeq, ConcatProperties
  <2>4. response'.acl = AclParsed
    <3>1. ParseGetAcl \/ ParseReadObject
      BY <1>2 DEF Returning, AclReads, Writes, ParseGetUserMeta,
           ParseSystemMetadata, ParseEntryMeta, ReturnWrite
    <3>2. ParseGetAcl => response'.acl = response.acl \o AclParsed
      BY <2>1 DEF ParseGetAcl, Return, NoResponse
    <3>3. ParseReadObject => response'.acl = response.acl \o AclParsed
      BY <2>1 DEF ParseReadObject, Return, NoResponse
    <3> QED  BY <2>2, <2>3, <3>1, <3>2, <3>3
  <2>5. \A principal, type : Given(principal, type)' = Given(principal, type)
    BY <2>1 DEF Given
  <2> QED  BY <2>1, <2>4, <2>5, AclAnswered
<1>3. CASE UNCHANGED vars
  <2>1. UNCHANGED <<pc, request, response, wanted>>
    BY <1>3 DEF vars
  <2> QED  BY <2>1 DEF AclReadsBack, Read, Given
<1> QED  BY <1>1, <1>2, <1>3, NextIs

(* get_acl and read_object give every principal the permission it was      *)
(* given, of a user or of a group.                                         *)
THEOREM AclIsReadBack ==
  Spec => []AclReadsBack
<1>1. Init => AclReadsBack
  BY DEF Init, AclReadsBack, Read, NoResponse
<1>2. ReadInv /\ AclReadsBack /\ [Next]_vars => AclReadsBack'
  BY AclReturned
<1> QED  BY <1>1, <1>2, ReadsInvariant, PTL DEF Spec

-----------------------------------------------------------------------------
(* Metadata in headers.                                                    *)

UserAsked(f) == IF request.op \in UserMetaReads THEN NamesAsked(f) ELSE {}

LEMMA UserTextsAre ==
  ASSUME ServerUtf8 = utf8, NEW f
  PROVE  UserMetaTexts(f) = TextsOf(PairsOf(f, UserAsked(f)), utf8)
<1>1. CASE request.op \in UserMetaReads
  BY <1>1, MetaTextsAre DEF UserMetaTexts, UserAsked
<1>2. CASE request.op \notin UserMetaReads
  <2>1. TextsOf(PairsOf(f, {}), utf8) = << >>
    BY NoPairs
  <2> QED  BY <1>2, <2>1 DEF UserMetaTexts, UserAsked
<1> QED  BY <1>1, <1>2

LEMMA MixedTextsAre ==
  ASSUME utf8 \in Utf8Modes, ServerUtf8 = utf8, NEW f, f = object.meta, Kept(f),
         NEW with_system \in BOOLEAN
  PROVE  \E X : /\ Fronts(X, SystemAsked)
                /\ with_system => X = PairsOf(SystemMeta, SystemAsked)
                /\ MixedTexts(with_system)
                     = TextsOf(X \o PairsOf(f, UserAsked(f)), utf8)
<1> DEFINE Y == PairsOf(f, UserAsked(f))
           X == IF with_system THEN PairsOf(SystemMeta, SystemAsked) ELSE << >>
           T == IF with_system THEN MetaTexts(SystemMeta, SystemAsked) ELSE << >>
<1>1. utf8 \in BOOLEAN
  BY MetadataAssumption
<1>2. Fronts(X, SystemAsked)
  BY DEF Fronts
<1>3. with_system => X = PairsOf(SystemMeta, SystemAsked)
  OBVIOUS
<1>4. MixedTexts(with_system) = T \o TextsOf(Y, utf8)
  BY UserTextsAre DEF MixedTexts
<1>5. T = TextsOf(X, utf8)
  <2>1. CASE with_system
    BY <2>1, MetaTextsAre
  <2>2. CASE ~with_system
    BY <2>2, NoPairs
  <2> QED  BY <2>1, <2>2
<1> HIDE DEF X, T
<1>6. X \in Seq(Sound(utf8)) /\ Y \in Seq(Sound(utf8))
  BY <1>2, MixedPairs
<1> HIDE DEF Y
<1>7. TextsOf(X \o Y, utf8) = TextsOf(X, utf8) \o TextsOf(Y, utf8)
  BY <1>1, <1>6, TextsOfCat
<1>8. MixedTexts(with_system) = TextsOf(X \o Y, utf8)
  BY <1>4, <1>5, <1>7
<1> QED  BY <1>2, <1>3, <1>8 DEF Y

LEMMA ServerReads ==
  ASSUME utf8 \in Utf8Modes, RequestInv, HeadersFor,
         request.op \in {"get_user_meta", "get_system_meta", "read_object"}
  PROVE  /\ ServerUtf8 = utf8
         /\ request.op # "get_system_meta" => SentNames = ToSet(request.names)
<1>1. utf8 \in BOOLEAN
  BY MetadataAssumption
<1>2. CASE request.op = "get_user_meta"
  BY <1>2, SentNamesAre
<1>3. CASE request.op = "get_system_meta"
  BY <1>1, <1>3, TagsHeadersAre DEF HeadersFor
<1>4. CASE request.op = "read_object"
  <2>1. headers = Utf8Header /\ request.names = << >>
    BY <1>4 DEF HeadersFor, RequestInv
  <2>2. /\ DOMAIN headers \subseteq {"x-emc-utf8"}
        /\ Says(headers, "x-emc-utf8", utf8, <<"true">>)
    BY <1>1, <2>1, Utf8HeaderIs
  <2>3. ServerUtf8 = utf8
    BY <1>1, <2>2 DEF Says, ServerUtf8
  <2>4. NameList(request.names, utf8)
    BY DEF RequestInv
  <2>5. SentNames = ToSet(request.names)
    BY <1>1, <2>1, <2>2, <2>3, <2>4, NamesInIs DEF SentNames
  <2> QED  BY <2>3, <2>5
<1> QED  BY <1>2, <1>3, <1>4

LEMMA HeadersReadAs ==
  ASSUME ReadInv, pc = "answered", request.op \in {"get_user_meta", "read_object"}
  PROVE  /\ ReadAs(UserMeta("x-emc-meta"), object.meta, NamesAsked(object.meta))
         /\ ReadAs(UserMeta("x-emc-listable-meta"), object.listable,
                   NamesAsked(object.listable))
<1> DEFINE f == object.meta
           g == object.listable
<1>1. /\ utf8 \in Utf8Modes /\ RequestInv /\ HeadersFor /\ HeadersDelivered
      /\ Kept(f) /\ Kept(g)
  BY DEF ReadInv, WriteInv, HeadersInv, StoreInv, AnswerInv, Reads
<1>2. PICK separator \in Separators, with_system \in BOOLEAN :
        answer.headers = Delivered(separator, with_system)
  BY <1>1 DEF HeadersDelivered
<1>3. ServerUtf8 = utf8
  BY <1>1, ServerReads
<1>4. /\ Says(answer.headers, "x-emc-meta", MixedTexts(with_system) # << >>,
              Join(MixedTexts(with_system), separator))
      /\ Says(answer.headers, "x-emc-listable-meta", UserMetaTexts(g) # << >>,
              Join(UserMetaTexts(g), separator))
      /\ AnswerUtf8 = utf8
  BY <1>2, <1>3, DeliveredSays
<1> HIDE DEF f, g
<1>5. UserAsked(f) = NamesAsked(f) /\ UserAsked(g) = NamesAsked(g)
  BY DEF UserAsked, UserMetaReads
<1>6. ReadAs(UserMeta("x-emc-meta"), f, NamesAsked(f))
  <2>1. PICK X : /\ Fronts(X, SystemAsked)
                 /\ MixedTexts(with_system)
                      = TextsOf(X \o PairsOf(f, UserAsked(f)), utf8)
    BY <1>1, <1>3, MixedTextsAre DEF f
  <2>2. Says(answer.headers, "x-emc-meta",
             TextsOf(X \o PairsOf(f, NamesAsked(f)), utf8) # << >>,
             Join(TextsOf(X \o PairsOf(f, NamesAsked(f)), utf8), separator))
    BY <1>4, <1>5, <2>1
  <2> QED  BY <1>1, <1>4, <2>1, <2>2, ReadFrom
<1>7. ReadAs(UserMeta("x-emc-listable-meta"), g, NamesAsked(g))
  <2> DEFINE Y == PairsOf(g, NamesAsked(g))
  <2>1. UserMetaTexts(g) = TextsOf(Y, utf8)
    BY <1>3, <1>5, UserTextsAre
  <2>2. Fronts(<< >>, {})
    BY DEF Fronts
  <2>3. Y \in Seq(Sound(utf8))
    BY <1>1, <2>2, MixedPairs
  <2>4. << >> \o Y = Y
    <3> HIDE DEF Y
    <3> QED  BY <2>3, EmptySeq, ConcatProperties
  <2>5. Says(answer.headers, "x-emc-listable-meta",
             TextsOf(<< >> \o Y, utf8) # << >>,
             Join(TextsOf(<< >> \o Y, utf8), separator))
    BY <1>4, <2>1, <2>4
  <2> QED  BY <1>1, <1>4, <2>2, <2>5, ReadFrom
<1> QED  BY <1>6, <1>7 DEF f, g

LEMMA SystemReadAs ==
  ASSUME ReadInv, pc = "answered", request.op \in {"get_system_meta", "read_object"}
  PROVE  /\ DOMAIN SystemMetaOf = SystemNames
         /\ SystemMetaOf = [s \in SystemNames |-> SystemMetaOf[s]]
         /\ \A s \in SystemNames :
              SystemMetaOf[s] = IF s \in SystemAsked THEN SystemMeta[s] ELSE << >>
<1> DEFINE f == object.meta
<1>1. /\ utf8 \in Utf8Modes /\ RequestInv /\ HeadersFor /\ HeadersDelivered
      /\ Kept(f) /\ response = NoResponse
  BY DEF ReadInv, WriteInv, HeadersInv, StoreInv, AnswerInv, Reads
<1>2. PICK separator \in Separators, with_system \in BOOLEAN :
        /\ with_system
        /\ answer.headers = Delivered(separator, with_system)
  BY <1>1 DEF HeadersDelivered, SystemMetaReads
<1>3. ServerUtf8 = utf8
  BY <1>1, ServerReads
<1>4. /\ Says(answer.headers, "x-emc-meta", MixedTexts(with_system) # << >>,
              Join(MixedTexts(with_system), separator))
      /\ AnswerUtf8 = utf8
  BY <1>2, <1>3, DeliveredSays
<1> HIDE DEF f
<1>5. PICK X : /\ X = PairsOf(SystemMeta, SystemAsked)
               /\ MixedTexts(with_system)
                    = TextsOf(X \o PairsOf(f, UserAsked(f)), utf8)
  BY <1>1, <1>2, <1>3, MixedTextsAre DEF f
<1> DEFINE P == PairsOf(SystemMeta, SystemAsked) \o PairsOf(f, UserAsked(f))
<1>6. Says(answer.headers, "x-emc-meta", TextsOf(P, utf8) # << >>,
           Join(TextsOf(P, utf8), separator))
  BY <1>4, <1>5
<1> QED  BY <1>1, <1>4, <1>6, SystemFrom

-----------------------------------------------------------------------------
(* Tags of a listing.                                                      *)

LEMMA ListHeadersSay ==
  ASSUME utf8 \in BOOLEAN, headers = ListHeaders
  PROVE  /\ ServerUtf8 = utf8
         /\ Says(headers, "x-emc-user-tags", UserTags # << >>,
                 TagsHeader(UserTags, utf8))
         /\ Says(headers, "x-emc-system-tags", SystemTags # << >>,
                 TagsHeader(SystemTags, FALSE))
<1> DEFINE u == Utf8Header
           i == Header("x-emc-include-meta", <<"true">>)
           t == TagsHeaderOf("x-emc-user-tags", UserTags, utf8)
           s == TagsHeaderOf("x-emc-system-tags", SystemTags, FALSE)
           ui == u ++ i
           uit == ui ++ t
           plain == TagsHeader(SystemTags, FALSE)
<1>1. headers = uit ++ s
  BY DEF ListHeaders
<1>2. /\ DOMAIN u \subseteq {"x-emc-utf8"}
      /\ Says(u, "x-emc-utf8", utf8, <<"true">>)
  BY Utf8HeaderIs
<1>3. DOMAIN i = {"x-emc-include-meta"}
  BY HeaderIs
<1>4. /\ DOMAIN t \subseteq {"x-emc-user-tags"}
      /\ Says(t, "x-emc-user-tags", UserTags # << >>, TagsHeader(UserTags, utf8))
  BY SaysOne DEF TagsHeaderOf
<1>5. /\ DOMAIN s \subseteq {"x-emc-system-tags"}
      /\ Says(s, "x-emc-system-tags", SystemTags # << >>, plain)
  BY SaysOne DEF TagsHeaderOf
<1>6. /\ DOMAIN ui = DOMAIN u \cup DOMAIN i
      /\ DOMAIN uit = DOMAIN ui \cup DOMAIN t
  BY Joins
<1> HIDE DEF u, i, t, s, ui, uit, plain
<1>7. /\ "x-emc-utf8" \notin DOMAIN i /\ "x-emc-utf8" \notin DOMAIN t
      /\ "x-emc-utf8" \notin DOMAIN s
      /\ "x-emc-user-tags" \notin DOMAIN ui /\ "x-emc-user-tags" \notin DOMAIN s
      /\ "x-emc-system-tags" \notin DOMAIN uit
  BY <1>2, <1>3, <1>4, <1>5, <1>6
<1>8. Says(headers, "x-emc-utf8", utf8, <<"true">>)
  <2>1. Says(ui, "x-emc-utf8", utf8, <<"true">>)
    BY <1>2, <1>7, SaysFirst DEF ui
  <2>2. Says(uit, "x-emc-utf8", utf8, <<"true">>)
    BY <1>7, <2>1, SaysFirst DEF uit
  <2> QED  BY <1>1, <1>7, <2>2, SaysFirst
<1>9. Says(headers, "x-emc-user-tags", UserTags # << >>, TagsHeader(UserTags, utf8))
  <2>1. Says(uit, "x-emc-user-tags", UserTags # << >>, TagsHeader(UserTags, utf8))
    BY <1>4, <1>7, SaysSecond DEF uit
  <2> QED  BY <1>1, <1>7, <2>1, SaysFirst
<1>10. Says(headers, "x-emc-system-tags", SystemTags # << >>, plain)
  <2>1. Says(uit ++ s, "x-emc-system-tags", SystemTags # << >>, plain)
    BY <1>5, <1>7, SaysSecond
  <2> QED  BY <1>1, <2>1
<1>11. ServerUtf8 = utf8
  BY <1>8 DEF Says, ServerUtf8
<1> QED  BY <1>9, <1>10, <1>11 DEF plain

(* Some names of a list are a list of names.                               *)
LEMMA ChosenNames ==
  ASSUME NEW names, NEW mode, NameList(names, mode), NEW places
  PROVE  /\ NameList(Chosen(names, places), mode)
         /\ ToSet(Chosen(names, places))
              = {names[i] : i \in {k \in 1 .. Len(names) : k \in places}}
<1> DEFINE c == Chosen(names, places)
<1>1. names \in Seq(Texts)
  BY DEF NameList
<1>2. /\ c \in Seq(Texts)
      /\ ToSet(c) = {names[i] : i \in {k \in 1 .. Len(names) : k \in places}}
  BY <1>1, ChosenSet
<1> HIDE DEF c
<1>3. \A i \in 1 .. Len(c) : \E k \in 1 .. Len(names) : c[i] = names[k]
  <2>1. DOMAIN c = 1 .. Len(c)
    BY <1>2, LenProperties
  <2> QED  BY <1>2, <2>1 DEF ToSet
<1>4. NameList(c, mode)
  BY <1>2, <1>3 DEF NameList
<1> QED  BY <1>2, <1>4 DEF c

LEMMA TagsNamed ==
  ASSUME utf8 \in Utf8Modes, RequestInv, HeadersFor, request.op = "list_directory"
  PROVE  /\ NamesIn("x-emc-user-tags") = ToSet(UserTags)
         /\ NamesIn("x-emc-system-tags") = ToSet(SystemTags)
<1>1. utf8 \in BOOLEAN /\ headers = ListHeaders /\ NameList(request.names, utf8)
  BY MetadataAssumption DEF HeadersFor, RequestInv
<1>2. /\ ServerUtf8 = utf8
      /\ Says(headers, "x-emc-user-tags", UserTags # << >>,
              TagsHeader(UserTags, utf8))
      /\ Says(headers, "x-emc-system-tags", SystemTags # << >>,
              TagsHeader(SystemTags, FALSE))
  BY <1>1, ListHeadersSay
<1>3. NameList(UserTags, utf8) /\ NameList(SystemTags, utf8)
  BY <1>1, ChosenNames DEF UserTags, SystemTags
<1>4. NamesIn("x-emc-user-tags") = ToSet(UserTags)
  BY <1>1, <1>2, <1>3, NamesInIs DEF Says
<1>5. TagsHeader(SystemTags, FALSE) = TagsHeader(SystemTags, utf8)
  <2> DEFINE c == SystemTags
  <2>1. ToSet(c) = {request.names[i] : i \in {k \in 1 .. Len(request.names) :
                                                k \in SystemPlaces}}
    BY <1>1, ChosenNames DEF SystemTags
  <2>2. c \in Seq(Texts) /\ \A i \in 1 .. Len(c) : Unescaped(c[i])
    BY <1>3 DEF NameList
  <2> HIDE DEF c
  <2>3. DOMAIN c = 1 .. Len(c) /\ \A i \in 1 .. Len(c) : c[i] \in Texts
    BY <2>2, LenProperties, ElementOfSeq
  <2>4. \A i \in 1 .. Len(c) : c[i] \in SystemNames
    BY <2>1, <2>3 DEF ToSet, SystemPlaces
  <2>5. \A i \in DOMAIN c : Encode(c[i], utf8) = c[i] /\ Encode(c[i], FALSE) = c[i]
    BY <1>1, <2>2, <2>3, <2>4, NameEncoded
  <2>6. [i \in DOMAIN c |-> Encode(c[i], FALSE)] = [i \in DOMAIN c |-> Encode(c[i], utf8)]
    BY <2>5
  <2> QED  BY <2>6 DEF TagsHeader, c
<1>6. NamesIn("x-emc-system-tags") = ToSet(SystemTags)
  BY <1>1, <1>2, <1>3, <1>5, NamesInIs DEF Says
<1> QED  BY <1>4, <1>6

-----------------------------------------------------------------------------
(* Nodes of a document.                                                    *)

NodeShape == [name: Texts, value: Texts, listable: {"true", "false", "none"}]

(* The nodes of a list with the flag, or those without it.                 *)
Sided(node, flag) == IsListable(node) = flag

(* They are what f has under some names.                                   *)
Carries(nodes, f, names, flag) ==
  /\ nodes \in Seq(NodeShape)
  /\ \A i \in 1 .. Len(nodes) : Sided(nodes[i], flag) =>
       nodes[i].name \in names /\ nodes[i].value = f[nodes[i].name]
  /\ \A n \in names : \E i \in 1 .. Len(nodes) :
       Sided(nodes[i], flag) /\ nodes[i].name = n
  /\ \A i, j \in 1 .. Len(nodes) :
       /\ Sided(nodes[i], flag) /\ Sided(nodes[j], flag)
       /\ nodes[i].name = nodes[j].name
       => i = j

Lacks(nodes, flag) ==
  nodes \in Seq(NodeShape) /\ \A i \in 1 .. Len(nodes) : ~Sided(nodes[i], flag)

LEMMA NodesAre ==
  ASSUME NEW f, NEW names, NEW mark \in {"true", "false", "none"},
         IsFiniteSet(DOMAIN f), \A n \in DOMAIN f : n \in Texts /\ f[n] \in Texts
  PROVE  /\ Carries(Nodes(f, names, mark), f, DOMAIN f \cap names, mark = "true")
         /\ Lacks(Nodes(f, names, mark), mark # "true")
<1> DEFINE S == DOMAIN f \cap names
           order == SetToSeq(S)
           N == Nodes(f, names, mark)
           k == Len(order)
<1>1. IsFiniteSet(S)
  <2>1. S \in SUBSET DOMAIN f
    OBVIOUS
  <2> QED  BY <2>1, FS_Subset
<1>2. N = [i \in DOMAIN order |->
             [name |-> order[i], value |-> f[order[i]], listable |-> mark]]
  BY DEF Nodes
<1>3. \A n \in S : n \in Texts /\ f[n] \in Texts
  OBVIOUS
<1> HIDE DEF N, S
<1>4. /\ order \in Seq(S) /\ DOMAIN order = 1 .. k
      /\ ToSet(order) = S
      /\ \A i, j \in 1 .. k : order[i] = order[j] => i = j
  BY <1>1, OrderIs
<1>5. k \in Nat /\ \A i \in 1 .. k : order[i] \in S
  BY <1>4, LenProperties, ElementOfSeq
<1> HIDE DEF order, k
<1>6. N = [i \in 1 .. k |->
             [name |-> order[i], value |-> f[order[i]], listable |-> mark]]
  BY <1>2, <1>4
<1>7. \A i \in 1 .. k : /\ N[i] \in NodeShape /\ N[i].name = order[i]
                        /\ N[i].value = f[order[i]] /\ N[i].listable = mark
  BY <1>3, <1>5, <1>6 DEF NodeShape
<1>8. N \in Seq(NodeShape) /\ Len(N) = k
  <2>1. N \in [1 .. k -> NodeShape]
    BY <1>6, <1>7
  <2> QED  BY <1>5, <2>1
<1>9. \A i \in 1 .. k : /\ Sided(N[i], mark = "true")
                        /\ ~Sided(N[i], mark # "true")
  BY <1>7 DEF Sided, IsListable
<1>10. \A n \in S : \E i \in 1 .. k : N[i].name = n
  BY <1>4, <1>7 DEF ToSet
<1>11. Carries(N, f, S, mark = "true")
  BY <1>4, <1>5, <1>7, <1>8, <1>9, <1>10 DEF Carries
<1>12. Lacks(N, mark # "true")
  BY <1>8, <1>9 DEF Lacks
<1> QED  BY <1>11, <1>12 DEF N, S

LEMMA CarriesFirst ==
  ASSUME NEW L, NEW M, NEW f, NEW names, NEW flag,
         Carries(L, f, names, flag), Lacks(M, flag)
  PROVE  Carries(L \o M, f, names, flag) /\ Carries(M \o L, f, names, flag)
<1> DEFINE LM == L \o M
           ML == M \o L
           l == Len(L)
           m == Len(M)
<1>1. L \in Seq(NodeShape) /\ M \in Seq(NodeShape)
  BY DEF Carries, Lacks
<1>2. /\ LM \in Seq(NodeShape) /\ Len(LM) = l + m
      /\ \A i \in 1 .. l + m : LM[i] = IF i <= l THEN L[i] ELSE M[i - l]
  BY <1>1, ConcatProperties
<1>3. /\ ML \in Seq(NodeShape) /\ Len(ML) = m + l
      /\ \A i \in 1 .. m + l : ML[i] = IF i <= m THEN M[i] ELSE L[i - m]
  BY <1>1, ConcatProperties
<1>4. l \in Nat /\ m \in Nat
  BY <1>1, LenProperties
<1>5. /\ \A i \in 1 .. l : Sided(L[i], flag) =>
           L[i].name \in names /\ L[i].value = f[L[i].name]
      /\ \A n \in names : \E i \in 1 .. l : Sided(L[i], flag) /\ L[i].name = n
      /\ \A i, j \in 1 .. l :
           /\ Sided(L[i], flag) /\ Sided(L[j], flag) /\ L[i].name = L[j].name
           => i = j
      /\ \A i \in 1 .. m : ~Sided(M[i], flag)
  BY DEF Carries, Lacks
<1> HIDE DEF LM, ML, l, m
<1>6. Carries(LM, f, names, flag)
  <2>1. \A i \in 1 .. l + m : Sided(LM[i], flag) => i \in 1 .. l /\ LM[i] = L[i]
    <3> TAKE i \in 1 .. l + m
    <3>1. CASE i <= l
      BY <1>2, <1>4, <3>1
    <3>2. CASE ~(i <= l)
      <4> DEFINE k == i - l
      <4>1. k \in 1 .. m
        BY <1>4, <3>2
      <4>2. LM[i] = M[k]
        BY <1>2, <3>2
      <4> HIDE DEF k
      <4> QED  BY <1>5, <4>1, <4>2
    <3> QED  BY <3>1, <3>2
  <2>2. \A i \in 1 .. l : i \in 1 .. l + m /\ LM[i] = L[i]
    BY <1>2, <1>4
  <2> QED  BY <1>2, <1>5, <2>1, <2>2 DEF Carries
<1>7. Carries(ML, f, names, flag)
  <2>1. \A i \in 1 .. m + l : Sided(ML[i], flag) =>
          \E k \in 1 .. l : i = m + k /\ ML[i] = L[k]
    <3> TAKE i \in 1 .. m + l
    <3>1. CASE i <= m
      <4>1. i \in 1 .. m /\ ML[i] = M[i]
        BY <1>3, <1>4, <3>1
      <4> QED  BY <1>5, <4>1
    <3>2. CASE ~(i <= m)
      <4> DEFINE k == i - m
      <4>1. k \in 1 .. l /\ i = m + k
        BY <1>4, <3>2
      <4>2. ML[i] = L[k]
        BY <1>3, <3>2
      <4> HIDE DEF k
      <4> QED  BY <4>1, <4>2
    <3> QED  BY <3>1, <3>2
  <2>2. ASSUME NEW k \in 1 .. l
        PROVE  m + k \in 1 .. m + l /\ ML[m + k] = L[k]
    <3> DEFINE j == m + k
    <3>1. j \in 1 .. m + l /\ ~(j <= m) /\ j - m = k
      BY <1>4
    <3> HIDE DEF j
    <3>2. ML[j] = L[k]
      BY <1>3, <3>1
    <3> QED  BY <3>1, <3>2 DEF j
  <2>3. \A n \in names : \E i \in 1 .. m + l : Sided(ML[i], flag) /\ ML[i].name = n
    BY <1>5, <2>2
  <2>4. \A i \in 1 .. m + l : Sided(ML[i], flag) =>
          ML[i].name \in names /\ ML[i].value = f[ML[i].name]
    BY <1>5, <2>1
  <2>5. \A i, j \in 1 .. m + l :
          /\ Sided(ML[i], flag) /\ Sided(ML[j], flag) /\ ML[i].name = ML[j].name
          => i = j
    BY <1>5, <2>1
  <2> QED  BY <1>3, <2>3, <2>4, <2>5 DEF Carries
<1> QED  BY <1>6, <1>7 DEF LM, ML

-----------------------------------------------------------------------------
(* A list of the response has what the nodes of one kind carry.            *)
ListedAs(list, f, asked) ==
  /\ list \in Lists
  /\ ToSet(list) = PairSet(f, asked)
  /\ Len(list) = Cardinality(DOMAIN f \cap asked)

LEMMA CarriedRead ==
  ASSUME NEW f, NEW asked, NEW flag,
         Carries(answer.document.user, f, DOMAIN f \cap asked, flag)
  PROVE  ListedAs(ParseUserNodes(flag), f, asked)
<1> DEFINE names == DOMAIN f \cap asked
           U == answer.document.user
           m == Len(U)
           I == {i \in DOMAIN U : IsListable(U[i]) = flag}
           c == Chosen(U, I)
           k == Len(c)
           list == ParseUserNodes(flag)
           R == [name: Texts, value: Texts]
<1>1. /\ U \in Seq(NodeShape)
      /\ \A i \in 1 .. m : Sided(U[i], flag) =>
           U[i].name \in names /\ U[i].value = f[U[i].name]
      /\ \A n \in names : \E i \in 1 .. m : Sided(U[i], flag) /\ U[i].name = n
      /\ \A i, j \in 1 .. m :
           /\ Sided(U[i], flag) /\ Sided(U[j], flag) /\ U[i].name = U[j].name
           => i = j
  BY DEF Carries
<1>2. list = [i \in 1 .. Cardinality(I) |->
                 IF i <= k THEN [name |-> c[i].name, value |-> c[i].value]
                 ELSE [name |-> << >>, value |-> << >>]]
  BY DEF ParseUserNodes, CountNodes, CopiedNodes
<1>3. DOMAIN U = 1 .. m /\ m \in Nat /\ \A i \in 1 .. m : U[i] \in NodeShape
  BY <1>1, LenProperties, ElementOfSeq
<1>4. \A i \in 1 .. m : i \in I <=> Sided(U[i], flag)
  BY <1>3 DEF Sided
<1> HIDE DEF U, I, m, list, names
<1>5. c \in Seq(NodeShape) /\ Picked(U, I, m, c)
  BY <1>1, ChosenIs DEF m
<1> HIDE DEF c
<1>6. PICK h : /\ Places(c, m, I, h)
               /\ \A i \in 1 .. k : c[i] = U[h[i]]
  BY <1>5 DEF Picked
<1>7. DOMAIN c = 1 .. k /\ k \in Nat
  BY <1>5, LenProperties
<1> HIDE DEF k
<1>8. /\ \A i \in 1 .. k : h[i] \in 1 .. m /\ h[i] \in I
      /\ \A i, j \in 1 .. k : i # j => h[i] # h[j]
      /\ \A i \in 1 .. m : i \in I => \E j \in 1 .. k : h[j] = i
  BY <1>6 DEF Places, k
<1>9. \A i \in 1 .. k : /\ Sided(U[h[i]], flag)
                        /\ c[i] = U[h[i]] /\ c[i] \in NodeShape
                        /\ c[i].name \in names
                        /\ c[i].value = f[c[i].name]
  BY <1>1, <1>3, <1>4, <1>6, <1>8
<1>10. Cardinality(I) = k
  <2>1. \A i \in I : \E j \in 1 .. k : h[j] = i
    <3> TAKE i \in I
    <3>1. i \in 1 .. m
      BY <1>3 DEF I
    <3> QED  BY <1>8, <3>1
  <2>2. \A i \in 1 .. k : h[i] \in I
    BY <1>8
  <2>3. \A i, j \in 1 .. k : h[i] = h[j] => i = j
    BY <1>8
  <2> QED  BY <1>7, <2>1, <2>2, <2>3, CountedOnce
<1>11. /\ DOMAIN list = 1 .. k
      /\ \A i \in 1 .. k :
           list[i] = [name |-> c[i].name, value |-> c[i].value]
  <2>1. \A i \in 1 .. k : i <= k
    BY <1>7
  <2> QED  BY <1>2, <1>10, <2>1
<1>12. \A i \in 1 .. k : /\ list[i] = PairOf(f, c[i].name)
                         /\ list[i] \in R
  BY <1>9, <1>11 DEF PairOf, NodeShape
<1>13. \A n \in names : \E i \in 1 .. k : c[i].name = n
  <2> TAKE n \in names
  <2>1. PICK j \in 1 .. m : Sided(U[j], flag) /\ U[j].name = n
    BY <1>1
  <2>2. PICK i \in 1 .. k : h[i] = j
    BY <1>4, <1>8, <2>1
  <2> QED  BY <1>9, <2>1, <2>2
<1>14. \A i, j \in 1 .. k : c[i].name = c[j].name => i = j
  <2> TAKE i, j \in 1 .. k
  <2> HAVE c[i].name = c[j].name
  <2>1. /\ h[i] \in 1 .. m /\ h[j] \in 1 .. m
        /\ Sided(U[h[i]], flag) /\ Sided(U[h[j]], flag)
        /\ U[h[i]].name = U[h[j]].name
    BY <1>8, <1>9
  <2>2. h[i] = h[j]
    BY <1>1, <2>1
  <2> QED  BY <1>8, <2>2
<1> HIDE DEF R
<1>15. list \in Seq(R) /\ Len(list) = k /\ DOMAIN list = 1 .. k
  <2>1. list \in [1 .. k -> R]
    <3>1. list = [i \in 1 .. k |-> list[i]]
      BY <1>2, <1>10
    <3> QED  BY <1>12, <3>1
  <2> QED  BY <1>7, <2>1
<1>16. ToSet(list) = {PairOf(f, n) : n \in names}
  <2>1. \A x \in ToSet(list) : \E n \in names : x = PairOf(f, n)
    BY <1>9, <1>12, <1>15 DEF ToSet
  <2>2. \A n \in names : PairOf(f, n) \in ToSet(list)
    BY <1>12, <1>13, <1>15 DEF ToSet
  <2> QED  BY <2>1, <2>2
<1>17. Cardinality(names) = k
  <2> DEFINE g == [i \in 1 .. k |-> c[i].name]
  <2>1. \A i \in 1 .. k : g[i] = c[i].name
    OBVIOUS
  <2> HIDE DEF g
  <2>2. \A i \in 1 .. k : g[i] \in names
    BY <1>9, <2>1
  <2>3. \A n \in names : \E i \in 1 .. k : g[i] = n
    BY <1>13, <2>1
  <2>4. \A i, j \in 1 .. k : g[i] = g[j] => i = j
    BY <1>14, <2>1
  <2> QED  BY <1>7, <2>2, <2>3, <2>4, CountedOnce
<1> QED  BY <1>15, <1>16, <1>17 DEF list, Lists, R, ListedAs, PairSet, names

(* System metadata of the response: those asked for.                       *)
SystemIs(system, asked) ==
  /\ system = [s \in SystemNames |-> system[s]]
  /\ \A s \in SystemNames :
       system[s] = IF s \in asked THEN SystemMeta[s] ELSE << >>

LEMMA SystemCarried ==
  ASSUME response = NoResponse, NEW names \in SUBSET SystemNames, NEW flag,
         Carries(answer.document.system, SystemMeta, names, flag),
         \A i \in 1 .. Len(answer.document.system) :
           Sided(answer.document.system[i], flag)
  PROVE  SystemIs(ParseSystemNodes, names)
<1> DEFINE D == answer.document.system
           m == Len(D)
<1>1. /\ D \in Seq(NodeShape)
      /\ \A i \in 1 .. m : D[i].name \in names /\ D[i].value = SystemMeta[D[i].name]
      /\ \A n \in names : \E i \in 1 .. m : D[i].name = n
      /\ \A i, j \in 1 .. m : D[i].name = D[j].name => i = j
  BY DEF Carries
<1>2. ParseSystemNodes
        = [s \in SystemNames |->
             LET places == {i \in DOMAIN D : D[i].name = s} IN
             IF places = {} THEN response.system[s]
             ELSE SystemValue(D[Max(places)], FALSE)]
  BY DEF ParseSystemNodes, LastValues
<1> HIDE DEF D
<1>3. DOMAIN D = 1 .. m
  BY <1>1, LenProperties
<1> HIDE DEF m
<1>4. response.system = [s \in SystemNames |-> << >>]
  BY DEF NoResponse, NoSystemMeta
<1>5. ASSUME NEW s \in SystemNames
      PROVE  ParseSystemNodes[s] = IF s \in names THEN SystemMeta[s] ELSE << >>
  <2> DEFINE places == {i \in DOMAIN D : D[i].name = s}
             v == SystemMeta[s]
  <2>1. ParseSystemNodes[s] = IF places = {} THEN response.system[s]
                              ELSE SystemValue(D[Max(places)], FALSE)
    BY <1>2
  <2>2. CASE s \notin names
    <3>1. places = {}
      BY <1>1, <1>3, <2>2
    <3> QED  BY <1>4, <2>1, <2>2, <3>1
  <2>3. CASE s \in names
    <3>1. PICK i \in 1 .. m : D[i].name = s
      BY <1>1, <2>3
    <3>2. places = {i}
      BY <1>1, <1>3, <3>1
    <3>3. i \in Int
      BY <3>1
    <3>4. Max(places) = i
      <4> HIDE DEF places
      <4> QED  BY <3>2, <3>3, MaxIs
    <3>5. SystemValue(D[i], FALSE) = D[i].value
      BY DEF SystemValue, Decode
    <3>6. D[i].value = v
      BY <1>1, <3>1
    <3> HIDE DEF v
    <3> QED  BY <2>1, <2>3, <3>2, <3>4, <3>5, <3>6 DEF v
  <2> QED  BY <2>2, <2>3
<1>6. ParseSystemNodes = [s \in SystemNames |-> ParseSystemNodes[s]]
  <2>1. \E g : ParseSystemNodes = [s \in SystemNames |-> g[s]]
    <3> DEFINE g == [s \in SystemNames |->
             LET places == {i \in DOMAIN D : D[i].name = s} IN
             IF places = {} THEN response.system[s]
             ELSE SystemValue(D[Max(places)], FALSE)]
    <3>1. g = [s \in SystemNames |-> g[s]]
      OBVIOUS
    <3>2. ParseSystemNodes = g
      BY <1>2
    <3> HIDE DEF g
    <3> QED  BY <3>1, <3>2
  <2> QED  BY <2>1
<1> QED  BY <1>5, <1>6 DEF SystemIs

LEMMA SystemTexts ==
  \A n \in DOMAIN SystemMeta : n \in Texts /\ SystemMeta[n] \in Texts
<1>1. FALSE \in BOOLEAN
  OBVIOUS
<1>2. \A n \in DOMAIN SystemMeta : PairOf(SystemMeta, n) \in Sound(FALSE)
  BY <1>1, SystemPairs
<1> QED  BY <1>2 DEF Sound, PairOf

LEMMA KeptTexts ==
  ASSUME NEW f, Kept(f)
  PROVE  IsFiniteSet(DOMAIN f) /\ \A n \in DOMAIN f : n \in Texts /\ f[n] \in Texts
<1>1. IsFiniteSet(DOMAIN f)
  BY DEF Kept
<1>2. \A n \in DOMAIN f : n \in Texts /\ f[n] \in Texts
  <2> TAKE n \in DOMAIN f
  <2>1. PICK e \in Entries : e.name = n /\ e.value = f[n]
    BY DEF Kept
  <2>2. e.name \in Texts /\ e.value \in Texts
    BY MetadataAssumption
  <2> QED  BY <2>1, <2>2
<1> QED  BY <1>1, <1>2

(* Everything that a listing brings back.                                  *)
UserListed(f, rest) == ListedNames(f, "x-emc-user-tags", rest)
SystemListed(rest) == ListedNames(SystemMeta, "x-emc-system-tags", rest)

LEMMA ListingRead ==
  ASSUME ReadInv, pc = "answered", request.op = "list_directory"
  PROVE  \E rest \in BOOLEAN :
           /\ ListedAs(ParseUserNodes(FALSE), object.meta,
                       UserListed(object.meta, rest))
           /\ ListedAs(ParseUserNodes(TRUE), object.listable,
                       UserListed(object.listable, rest))
           /\ SystemIs(ParseSystemNodes, SystemListed(rest))
<1> DEFINE f == object.meta
           g == object.listable
<1>1. /\ Kept(f) /\ Kept(g) /\ DocumentDelivered /\ response = NoResponse
  BY DEF ReadInv, WriteInv, StoreInv, AnswerInv
<1>2. PICK listable_first \in BOOLEAN, rest \in BOOLEAN, flag \in {"false", "none"} :
        answer.document = Listed(listable_first, flag, rest)
  BY <1>1 DEF DocumentDelivered
<1> DEFINE F == UserListed(f, rest)
           G == UserListed(g, rest)
           S == SystemListed(rest)
           regular == Nodes(f, F, flag)
           listable == Nodes(g, G, "true")
           system == Nodes(SystemMeta, S, "none")
<1>3. /\ answer.document.system = system
      /\ answer.document.user = IF listable_first THEN listable \o regular
                                ELSE regular \o listable
  BY <1>2 DEF Listed, UserListed, SystemListed
<1> HIDE DEF f, g, F, G, S
<1>4. /\ Carries(regular, f, DOMAIN f \cap F, FALSE) /\ Lacks(regular, TRUE)
  <2>1. flag \in {"true", "false", "none"} /\ (flag = "true") = FALSE
        /\ (flag # "true") = TRUE
    OBVIOUS
  <2>2. /\ Carries(regular, f, DOMAIN f \cap F, flag = "true")
        /\ Lacks(regular, flag # "true")
    BY <1>1, <2>1, KeptTexts, NodesAre
  <2> HIDE DEF regular
  <2> QED  BY <2>1, <2>2
<1>5. /\ Carries(listable, g, DOMAIN g \cap G, TRUE) /\ Lacks(listable, FALSE)
  <2>1. ("true" = "true") = TRUE /\ ("true" # "true") = FALSE
    OBVIOUS
  <2>2. /\ Carries(listable, g, DOMAIN g \cap G, "true" = "true")
        /\ Lacks(listable, "true" # "true")
    BY <1>1, KeptTexts, NodesAre
  <2> HIDE DEF listable
  <2> QED  BY <2>1, <2>2
<1>6. /\ Carries(system, SystemMeta, DOMAIN SystemMeta \cap S, FALSE)
      /\ Lacks(system, TRUE)
  <2>1. ("none" = "true") = FALSE /\ ("none" # "true") = TRUE
    OBVIOUS
  <2>2. IsFiniteSet(DOMAIN SystemMeta)
    BY SystemPairs
  <2>3. /\ Carries(system, SystemMeta, DOMAIN SystemMeta \cap S, "none" = "true")
        /\ Lacks(system, "none" # "true")
    BY <2>2, SystemTexts, NodesAre
  <2> HIDE DEF system
  <2> QED  BY <2>1, <2>3
<1> HIDE DEF regular, listable, system
<1>7. /\ Carries(answer.document.user, f, DOMAIN f \cap F, FALSE)
      /\ Carries(answer.document.user, g, DOMAIN g \cap G, TRUE)
  BY <1>3, <1>4, <1>5, CarriesFirst
<1>8. /\ ListedAs(ParseUserNodes(FALSE), f, F)
      /\ ListedAs(ParseUserNodes(TRUE), g, G)
  BY <1>7, CarriedRead
<1>9. SystemIs(ParseSystemNodes, S)
  <2> DEFINE names == DOMAIN SystemMeta \cap S
  <2>1. DOMAIN SystemMeta = SystemNames
    BY DEF SystemMeta
  <2>2. names \in SUBSET SystemNames
    BY <2>1
  <2>3. \A i \in 1 .. Len(system) : Sided(system[i], FALSE)
    BY <1>6 DEF Lacks, Sided, IsListable
  <2> HIDE DEF names
  <2>4. SystemIs(ParseSystemNodes, names)
    BY <1>1, <1>3, <1>6, <2>2, <2>3, SystemCarried DEF names
  <2>5. \A s \in SystemNames : s \in names <=> s \in S
    BY <2>1 DEF names
  <2> QED  BY <2>4, <2>5 DEF SystemIs
<1> QED  BY <1>8, <1>9 DEF f, g, F, G, S

-----------------------------------------------------------------------------
(* What a call that reads metadata returns.                                *)

LEMMA AskedInHeaders ==
  ASSUME request.op \in {"get_user_meta", "read_object"}, RequestInv,
         SentNames = ToSet(request.names), NEW f
  PROVE  NamesAsked(f) \in Readable(DOMAIN f, UserTags)
<1>1. request.names \in Seq(Texts)
  BY DEF RequestInv, NameList
<1> DEFINE names == request.names
<1>2. ToSet(names) = {} => names = << >>
  <2>1. names \in Seq(Texts)
    BY <1>1
  <2> HIDE DEF names
  <2>2. DOMAIN names = 1 .. Len(names) /\ Len(names) \in Nat
    BY <2>1, LenProperties
  <2>3. ASSUME names # << >>
        PROVE  1 \in DOMAIN names
    BY <2>1, <2>2, <2>3, EmptySeq
  <2> QED  BY <2>3 DEF ToSet
<1>3. request.op # "list_directory"
  OBVIOUS
<1> QED  BY <1>2, <1>3 DEF Readable, NamesAsked

LEMMA AskedInTags ==
  ASSUME request.op = "list_directory", NEW f, NEW h, NEW tags,
         NamesIn(h) = ToSet(tags), NEW rest
  PROVE  ListedNames(f, h, rest) \in Readable(DOMAIN f, tags)
BY DEF Readable, ListedNames

LEMMA ReadInHeaders ==
  ASSUME utf8 \in BOOLEAN, request.op # "list_directory", NEW list, NEW f,
         NEW asked \in Readable(DOMAIN f, UserTags), ReadAs(list, f, asked)
  PROVE  ReadsBackAs(list, f)
<1> DEFINE names == DOMAIN f \cap asked
<1>1. /\ ToSet(list) = {ReadPair(PairOf(f, n), utf8) : n \in names}
      /\ Len(list) = Cardinality(names)
  BY DEF ReadAs
<1>2. \A n \in names :
        ReadPair(PairOf(f, n), utf8) = [name |-> n, value |-> AsRead(f[n])]
  BY DEF ReadPair, PairOf, AsRead
<1> HIDE DEF names
<1>3. ToSet(list) = {[name |-> n, value |-> AsRead(f[n])] : n \in names}
  BY <1>1, <1>2
<1> QED  BY <1>1, <1>3 DEF ReadsBackAs, names

LEMMA ReadInListing ==
  ASSUME request.op = "list_directory", NEW list, NEW f,
         NEW asked \in Readable(DOMAIN f, UserTags), ListedAs(list, f, asked)
  PROVE  ReadsBackAs(list, f)
<1> DEFINE names == DOMAIN f \cap asked
<1>1. /\ ToSet(list) = {PairOf(f, n) : n \in names}
      /\ Len(list) = Cardinality(names)
  BY DEF ListedAs, PairSet
<1>2. \A n \in names : PairOf(f, n) = [name |-> n, value |-> AsRead(f[n])]
  BY DEF PairOf, AsRead
<1> HIDE DEF names
<1>3. ToSet(list) = {[name |-> n, value |-> AsRead(f[n])] : n \in names}
  BY <1>1, <1>2
<1> QED  BY <1>1, <1>3 DEF ReadsBackAs, names

(* The response that a parser leaves.                                      *)
Got(meta, listable_meta, acl, system) ==
  [http_code |-> answer.http_code, meta |-> meta,
   listable_meta |-> listable_meta, acl |-> acl, system |-> system]

LEMMA ReturnIs ==
  ASSUME response = NoResponse, Returning
  PROVE  /\ request.op = "get_user_meta" =>
              response' = Got(<< >> \o UserMeta("x-emc-meta"),
                              << >> \o UserMeta("x-emc-listable-meta"),
                              << >>, NoSystemMeta)
         /\ request.op = "get_system_meta" =>
              response' = Got(<< >>, << >>, << >>, SystemMetaOf)
         /\ request.op = "get_acl" =>
              response' = Got(<< >>, << >>, << >> \o AclParsed, NoSystemMeta)
         /\ request.op = "read_object" =>
              response' = Got(<< >> \o UserMeta("x-emc-meta"),
                              << >> \o UserMeta("x-emc-listable-meta"),
                              << >> \o AclParsed, SystemMetaOf)
         /\ request.op = "list_directory" =>
              response' = Got(ParseUserNodes(FALSE), ParseUserNodes(TRUE),
                              << >>, ParseSystemNodes)
         /\ request.op \in Writes =>
              response' = Got(<< >>, << >>, << >>, NoSystemMeta)
         /\ request.op \in Writes \cup Reads
<1>1. CASE ParseGetUserMeta
  BY <1>1 DEF ParseGetUserMeta, Return, NoResponse, Got, Writes, Reads
<1>2. CASE ParseSystemMetadata
  BY <1>2 DEF ParseSystemMetadata, Return, NoResponse, Got, Writes, Reads
<1>3. CASE ParseGetAcl
  BY <1>3 DEF ParseGetAcl, Return, NoResponse, Got, Writes, Reads
<1>4. CASE ParseReadObject
  BY <1>4 DEF ParseReadObject, Return, NoResponse, Got, Writes, Reads
<1>5. CASE ParseEntryMeta
  BY <1>5 DEF ParseEntryMeta, Return, NoResponse, Got, Writes, Reads
<1>6. CASE ReturnWrite
  BY <1>6 DEF ReturnWrite, Return, NoResponse, Got, Writes
<1> QED  BY <1>1, <1>2, <1>3, <1>4, <1>5, <1>6 DEF Returning

LEMMA EmptyFirst ==
  ASSUME NEW S, NEW s \in Seq(S)
  PROVE  << >> \o s = s
BY EmptySeq, ConcatProperties

LEMMA UserMetaReturned ==
  ASSUME ReadInv, Returning, request.op \in UserMetaReads
  PROVE  /\ response'.meta \in Lists /\ response'.listable_meta \in Lists
         /\ ReadsBackAs(response'.meta, wanted.meta)
         /\ ReadsBackAs(response'.listable_meta, wanted.listable)
<1> DEFINE f == object.meta
           g == object.listable
<1>1. /\ pc = "answered" /\ response = NoResponse
      /\ utf8 \in Utf8Modes /\ RequestInv /\ HeadersFor
      /\ f = wanted.meta /\ g = wanted.listable
  BY ReturningIs DEF ReadInv, WriteInv, StoreInv, HeadersInv
<1>2. utf8 \in BOOLEAN
  BY <1>1, MetadataAssumption
<1>3. CASE request.op \in {"get_user_meta", "read_object"}
  <2> DEFINE m == UserMeta("x-emc-meta")
             l == UserMeta("x-emc-listable-meta")
  <2>1. ReadAs(m, f, NamesAsked(f)) /\ ReadAs(l, g, NamesAsked(g))
    BY <1>1, <1>3, HeadersReadAs
  <2>2. SentNames = ToSet(request.names)
    BY <1>1, <1>3, ServerReads
  <2> HIDE DEF f, g
  <2>3. ReadsBackAs(m, f) /\ ReadsBackAs(l, g)
    BY <1>1, <1>2, <1>3, <2>1, <2>2, AskedInHeaders, ReadInHeaders
  <2>4. response'.meta = << >> \o m /\ response'.listable_meta = << >> \o l
    BY <1>1, <1>3, ReturnIs DEF Got
  <2> HIDE DEF m, l
  <2>5. m \in Lists /\ l \in Lists
    BY <2>1 DEF ReadAs
  <2>6. << >> \o m = m /\ << >> \o l = l
    BY <2>5, EmptyFirst DEF Lists
  <2> QED  BY <1>1, <2>3, <2>4, <2>5, <2>6
<1>4. CASE request.op = "list_directory"
  <2> DEFINE m == ParseUserNodes(FALSE)
             l == ParseUserNodes(TRUE)
  <2>1. PICK rest \in BOOLEAN : /\ ListedAs(m, f, UserListed(f, rest))
                                /\ ListedAs(l, g, UserListed(g, rest))
    BY <1>1, <1>4, ListingRead
  <2>2. NamesIn("x-emc-user-tags") = ToSet(UserTags)
    BY <1>1, <1>4, TagsNamed
  <2>3. response' = Got(m, l, << >>, ParseSystemNodes)
    BY <1>1, <1>4, ReturnIs
  <2> HIDE DEF f, g, m, l
  <2>7. response'.meta = m /\ response'.listable_meta = l
    BY <2>3 DEF Got
  <2>4. /\ UserListed(f, rest) \in Readable(DOMAIN f, UserTags)
        /\ UserListed(g, rest) \in Readable(DOMAIN g, UserTags)
    BY <1>4, <2>2, AskedInTags DEF UserListed
  <2>5. ReadsBackAs(m, f) /\ ReadsBackAs(l, g)
    BY <1>4, <2>1, <2>4, ReadInListing
  <2>6. m \in Lists /\ l \in Lists
    BY <2>1 DEF ListedAs
  <2> QED  BY <1>1, <2>5, <2>6, <2>7
<1> QED  BY <1>3, <1>4 DEF UserMetaReads

LEMMA UserMetaStays ==
  ASSUME UNCHANGED <<request, utf8>>
  PROVE  \A list, kept : ReadsBackAs(list, kept)' <=> ReadsBackAs(list, kept)
<1>1. UserTags' = UserTags
  BY DEF UserTags, SystemPlaces
<1>2. \A all : Readable(all, UserTags)' = Readable(all, UserTags)
  BY <1>1 DEF Readable
<1>3. \A value : AsRead(value)' = AsRead(value)
  BY DEF AsRead
<1> QED  BY <1>2, <1>3 DEF ReadsBackAs

LEMMA ReadsBackNext ==
  ASSUME ReadInv, ReadsBack, [Next]_vars
  PROVE  ReadsBack'
<1>1. CASE Building \/ Sending \/ Store \/ Delivering
  <2>1. pc' # "idle"
    BY <1>1, SendingIs, DeliveringIs DEF Building, BuildRequest, Send, Store
  <2> QED  BY <2>1 DEF ReadsBack, Read
<1>2. CASE Returning
  <2>1. UNCHANGED <<request, utf8, wanted>>
    BY <1>2, ReturningIs
  <2> SUFFICES ASSUME request.op \in UserMetaReads
               PROVE  /\ ReadsBackAs(response.meta, wanted.meta)'
                      /\ ReadsBackAs(response.listable_meta, wanted.listable)'
    BY <2>1 DEF ReadsBack, Read
  <2>2. /\ ReadsBackAs(response'.meta, wanted.meta)
        /\ ReadsBackAs(response'.listable_meta, wanted.listable)
    BY <1>2, UserMetaReturned
  <2> QED  BY <2>1, <2>2, UserMetaStays
<1>3. CASE UNCHANGED vars
  <2>1. UNCHANGED <<pc, request, response, utf8, wanted>>
    BY <1>3 DEF vars
  <2> QED  BY <2>1, UserMetaStays DEF ReadsBack, Read
<1> QED  BY <1>1, <1>2, <1>3, NextIs

(* What earlier calls wrote is what get_user_meta, read_object and a       *)
(* listing find, each entry in the list it was given for.                  *)
THEOREM MetadataIsReadBack ==
  Spec => []ReadsBack
<1>1. Init => ReadsBack
  BY DEF Init, ReadsBack, Read, NoResponse
<1>2. ReadInv /\ ReadsBack /\ [Next]_vars => ReadsBack'
  BY ReadsBackNext
<1> QED  BY <1>1, <1>2, ReadsInvariant, PTL DEF Spec

-----------------------------------------------------------------------------
(* The types.                                                              *)

LEMMA JoinTyped ==
  ASSUME NEW texts \in Seq(Texts), NEW separator \in Texts
  PROVE  Join(texts, separator) \in Texts
<1> DEFINE pieces == [i \in DOMAIN texts |->
                        (IF i > 1 THEN separator ELSE << >>) \o texts[i]]
           n == Len(texts)
<1>1. n \in Nat /\ DOMAIN texts = 1 .. n /\ \A i \in 1 .. n : texts[i] \in Texts
  BY LenProperties, ElementOfSeq
<1>2. ASSUME NEW i \in 1 .. n
      PROVE  pieces[i] \in Texts
  <2> DEFINE before == IF i > 1 THEN separator ELSE << >>
             text == texts[i]
  <2>1. before \in Seq(Words) /\ text \in Seq(Words)
    BY <1>1 DEF Texts
  <2>2. pieces[i] = before \o text
    BY <1>1
  <2> HIDE DEF before, text, pieces
  <2> QED  BY <2>1, <2>2, ConcatProperties DEF Texts
<1>3. DOMAIN pieces = 1 .. n
  BY <1>1
<1>4. Join(texts, separator) = Concat(pieces)
  BY DEF Join
<1>5. pieces = [i \in 1 .. n |-> pieces[i]]
  BY <1>1
<1> HIDE DEF pieces, n
<1>6. pieces \in [1 .. n -> Texts]
  BY <1>2, <1>5
<1>7. pieces \in Seq(Texts) /\ Len(pieces) \in 0 .. Len(pieces)
  <2>1. pieces \in Seq(Texts)
    BY <1>1, <1>6
  <2>2. Len(pieces) \in Nat
    BY <2>1, LenProperties
  <2> QED  BY <2>1, <2>2
<1> QED  BY <1>4, <1>7, ConcatBuilt

(* A function from names to texts.                                         *)
Worded(H) == \A h \in DOMAIN H : H[h] \in Texts

LEMMA WordedJoin ==
  ASSUME NEW f, NEW g, Worded(f), Worded(g)
  PROVE  Worded(f ++ g)
<1> DEFINE j == f ++ g
<1>1. /\ DOMAIN j = DOMAIN f \cup DOMAIN g
      /\ \A x \in DOMAIN f : j[x] = f[x]
      /\ \A x \in DOMAIN g : x \notin DOMAIN f => j[x] = g[x]
  BY Joins
<1> HIDE DEF j
<1>2. Worded(j)
  BY <1>1 DEF Worded
<1> QED  BY <1>2 DEF j

LEMMA WordedOne ==
  /\ Worded(NoHeaders)
  /\ \A h, t : t \in Texts => Worded(Header(h, t))
<1>1. Worded(NoHeaders)
  BY DEF NoHeaders, Worded
<1>2. ASSUME NEW h, NEW t, t \in Texts
      PROVE  Worded(Header(h, t))
  <2> DEFINE H == Header(h, t)
  <2>1. DOMAIN H = {h} /\ H[h] = t
    BY HeaderIs
  <2> HIDE DEF H
  <2>2. Worded(H)
    BY <1>2, <2>1 DEF Worded
  <2> QED  BY <2>2 DEF H
<1> QED  BY <1>1, <1>2

LEMMA WordedHeader ==
  ASSUME NEW something \in BOOLEAN, NEW h, NEW t, something => t \in Texts
  PROVE  Worded(IF something THEN Header(h, t) ELSE NoHeaders)
BY WordedOne

LEMMA SeparatorTyped ==
  <<Comma, Space>> \in Texts /\ <<"true">> \in Texts
BY WordsDiffer, MetadataAssumption DEF Special, Texts

LEMMA AclHeaderTyped ==
  ASSUME NEW acl \in Seq(AclEntries), NEW type
  PROVE  AclHeader(acl, type) \in Texts
<1>1. AclSent(acl, type) \in Seq(Aces)
  BY AclSentIs
<1>2. AceTexts(AclSent(acl, type)) \in Seq(Texts)
  BY <1>1, AceTextsAre
<1>3. AclHeader(acl, type) = Join(AceTexts(AclSent(acl, type)), <<Comma, Space>>)
  BY DEF AclHeader, AceTexts, AceText
<1> QED  BY <1>2, <1>3, JoinTyped, SeparatorTyped

LEMMA TagsHeaderTyped ==
  ASSUME NEW names, NEW mode \in BOOLEAN, NEW own, NameList(names, own)
  PROVE  TagsHeader(names, mode) \in Texts
<1> DEFINE texts == [i \in DOMAIN names |-> Encode(names[i], mode)]
           n == Len(names)
<1>1. /\ n \in Nat /\ DOMAIN names = 1 .. n
      /\ \A i \in 1 .. n : names[i] \in Texts /\ Unescaped(names[i])
  BY LenProperties, ElementOfSeq DEF NameList
<1>2. \A i \in 1 .. n : Encode(names[i], mode) \in Texts
  BY <1>1, EncodedText
<1>3. texts \in [1 .. n -> Texts]
  BY <1>1, <1>2
<1>4. TagsHeader(names, mode) = Join(texts, <<Comma, Space>>)
  BY DEF TagsHeader
<1> HIDE DEF texts, n
<1>5. texts \in Seq(Texts)
  BY <1>1, <1>3
<1> QED  BY <1>4, <1>5, JoinTyped, SeparatorTyped

LEMMA TagsWorded ==
  ASSUME NEW h, NEW names, NEW mode \in BOOLEAN, NEW own, NameList(names, own)
  PROVE  Worded(TagsHeaderOf(h, names, mode))
<1>1. TagsHeader(names, mode) \in Texts
  BY TagsHeaderTyped
<1>2. (names # << >>) \in BOOLEAN
  OBVIOUS
<1> QED  BY <1>1, <1>2, WordedHeader DEF TagsHeaderOf

LEMMA MetaWorded ==
  ASSUME utf8 \in Utf8Modes, RequestInv
  PROVE  Worded(MetaHeaders) /\ Worded(AclHeaders) /\ Worded(Utf8Header)
<1>1. utf8 \in BOOLEAN
  BY MetadataAssumption
<1>2. ASSUME NEW meta, MetaList(meta)
      PROVE  MetadataHeader(meta, utf8) \in Texts
  BY <1>1, <1>2, MetaListAttached, MetadataHeaderIs
<1>3. /\ MetadataHeader(request.meta, utf8) \in Texts
      /\ MetadataHeader(request.listable_meta, utf8) \in Texts
  BY <1>2 DEF RequestInv
<1>4. \A type : AclHeader(request.acl, type) \in Texts
  BY AclHeaderTyped DEF RequestInv
<1>5. Worded(MetaHeaders)
  <2>1. /\ Worded(IF request.meta # << >>
                    THEN Header("x-emc-meta", MetadataHeader(request.meta, utf8))
                    ELSE NoHeaders)
        /\ Worded(IF request.listable_meta # << >>
                    THEN Header("x-emc-listable-meta",
                                MetadataHeader(request.listable_meta, utf8))
                    ELSE NoHeaders)
    BY <1>3, WordedHeader
  <2> QED  BY <2>1, WordedJoin DEF MetaHeaders
<1>6. Worded(AclHeaders)
  <2>1. /\ Worded(IF AclSent(request.acl, "user") # << >>
                    THEN Header("x-emc-useracl", AclHeader(request.acl, "user"))
                    ELSE NoHeaders)
        /\ Worded(IF AclSent(request.acl, "group") # << >>
                    THEN Header("x-emc-groupacl", AclHeader(request.acl, "group"))
                    ELSE NoHeaders)
    BY <1>4, WordedHeader
  <2> QED  BY <2>1, WordedJoin DEF AclHeaders
<1>7. Worded(Utf8Header)
  BY <1>1, SeparatorTyped, WordedHeader DEF Utf8Header
<1> QED  BY <1>5, <1>6, <1>7

LEMMA HeadersWorded ==
  ASSUME utf8 \in Utf8Modes, RequestInv, request.op \in Operations, HeadersFor
  PROVE  Worded(headers)
<1>1. /\ utf8 \in BOOLEAN /\ NameList(request.names, utf8)
      /\ request.op \in Writes \cup Reads
  BY MetadataAssumption DEF RequestInv
<1>2. Worded(MetaHeaders) /\ Worded(AclHeaders) /\ Worded(Utf8Header)
  BY MetaWorded
<1>3. Worded(NoHeaders) /\ Worded(Header("x-emc-include-meta", <<"true">>))
  BY WordedOne, SeparatorTyped
<1>4. CASE request.op \in {"create_object", "set_user_meta"}
  <2>1. Worded(MetaHeaders ++ Utf8Header)
    BY <1>2, WordedJoin
  <2> QED  BY <1>2, <1>4, <2>1, WordedJoin DEF HeadersFor
<1>5. CASE request.op \in {"delete_user_meta", "get_user_meta", "get_system_meta"}
  <2>1. Worded(TagsHeaders(utf8)) /\ Worded(TagsHeaders(FALSE))
    BY <1>1, TagsWorded DEF TagsHeaders
  <2>2. /\ Worded(Utf8Header ++ TagsHeaders(utf8))
        /\ Worded(Utf8Header ++ TagsHeaders(FALSE))
    BY <1>2, <2>1, WordedJoin
  <2> QED  BY <1>5, <2>2 DEF HeadersFor
<1>6. CASE request.op \in {"set_acl", "get_acl", "read_object"}
  BY <1>2, <1>3, <1>6 DEF HeadersFor
<1>7. CASE request.op = "list_directory"
  <2>1. NameList(UserTags, utf8) /\ NameList(SystemTags, utf8)
    BY <1>1, ChosenNames DEF UserTags, SystemTags
  <2>2. /\ Worded(TagsHeaderOf("x-emc-user-tags", UserTags, utf8))
        /\ Worded(TagsHeaderOf("x-emc-system-tags", SystemTags, FALSE))
    BY <1>1, <2>1, TagsWorded
  <2>3. Worded(Utf8Header ++ Header("x-emc-include-meta", <<"true">>))
    BY <1>2, <1>3, WordedJoin
  <2>4. Worded(Utf8Header ++ Header("x-emc-include-meta", <<"true">>)
                 ++ TagsHeaderOf("x-emc-user-tags", UserTags, utf8))
    BY <2>2, <2>3, WordedJoin
  <2>5. Worded(ListHeaders)
    BY <2>2, <2>4, WordedJoin DEF ListHeaders
  <2> QED  BY <1>7, <2>5 DEF HeadersFor
<1> QED  BY <1>1, <1>4, <1>5, <1>6, <1>7 DEF Writes, Reads

ResponseShape ==
  [http_code: {0, 200, 400}, meta: Lists, listable_meta: Lists, acl: Acls,
   system: [SystemNames -> Texts]]

LEMMA GotTyped ==
  ASSUME answer.http_code \in {0, 200, 400}, NEW m \in Lists, NEW l \in Lists,
         NEW acl \in Acls, NEW system \in [SystemNames -> Texts]
  PROVE  Got(m, l, acl, system) \in ResponseShape
BY DEF Got, ResponseShape

LEMMA EmptyTyped ==
  << >> \in Lists /\ << >> \in Acls /\ NoSystemMeta \in [SystemNames -> Texts]
BY EmptySeq DEF Lists, Acls, NoSystemMeta, Texts

LEMMA SystemTyped ==
  ASSUME NEW system, NEW asked, SystemIs(system, asked)
  PROVE  system \in [SystemNames -> Texts]
<1>1. DOMAIN SystemMeta = SystemNames
  BY DEF SystemMeta
<1>2. << >> \in Texts
  BY EmptySeq DEF Texts
<1>3. \A s \in SystemNames : system[s] \in Texts
  BY <1>1, <1>2, SystemTexts DEF SystemIs
<1> QED  BY <1>3 DEF SystemIs

LEMMA AclsTyped ==
  Seq(AclEntries) \subseteq Acls
<1> DEFINE R == [principal: Words, type: {"user", "group"},
                permission: DOMAIN PermissionString]
<1>1. AclEntries \subseteq R
  BY MetadataAssumption
<1>2. Acls = Seq(R)
  BY DEF Acls
<1> HIDE DEF R
<1>3. \A acl \in Seq(AclEntries) : acl \in Seq(R)
  <2> TAKE acl \in Seq(AclEntries)
  <2>1. /\ acl \in [1 .. Len(acl) -> AclEntries] /\ Len(acl) \in Nat
    BY LenProperties
  <2>2. acl \in [1 .. Len(acl) -> R]
    BY <1>1, <2>1
  <2> QED  BY <2>1, <2>2
<1> QED  BY <1>2, <1>3

LEMMA AclParsedTyped ==
  ASSUME ReadInv, pc = "answered", request.op \in AclReads
  PROVE  << >> \o AclParsed \in Acls
<1>1. object.acl \in Seq(AclEntries)
  BY DEF ReadInv, WriteInv, StoreInv, KeptAcl
<1>2. HeadersDelivered
  BY DEF ReadInv, AnswerInv, AclReads, Reads
<1>3. AclParsed \in Seq(AclEntries)
  BY <1>1, <1>2, AclParsedIs DEF HeadersDelivered
<1>4. << >> \o AclParsed = AclParsed
  BY <1>3, EmptyFirst
<1> QED  BY <1>3, <1>4, AclsTyped

(* What a call returns has its type.                                       *)
LEMMA ReturnTyped ==
  ASSUME ReadInv, Returning
  PROVE  response' \in ResponseShape
<1>1. /\ pc = "answered" /\ response = NoResponse
      /\ answer.http_code \in {0, 200, 400}
  BY ReturningIs DEF ReadInv
<1>2. ASSUME request.op \in {"get_system_meta", "read_object"}
      PROVE  SystemMetaOf \in [SystemNames -> Texts]
  <2>1. SystemIs(SystemMetaOf, SystemAsked)
    BY <1>1, <1>2, SystemReadAs DEF SystemIs
  <2> QED  BY <2>1, SystemTyped
<1>3. ASSUME request.op \in AclReads
      PROVE  << >> \o AclParsed \in Acls
  BY <1>1, <1>3, AclParsedTyped
<1>4. CASE request.op \in {"get_user_meta", "read_object"}
  <2> DEFINE m == << >> \o UserMeta("x-emc-meta")
             l == << >> \o UserMeta("x-emc-listable-meta")
  <2>1. \E acl, system : /\ response' = Got(m, l, acl, system)
                         /\ acl \in Acls /\ system \in [SystemNames -> Texts]
    <3>1. CASE request.op = "get_user_meta"
      BY <1>1, <3>1, ReturnIs, EmptyTyped
    <3>2. CASE request.op = "read_object"
      BY <1>1, <1>2, <1>3, <3>2, ReturnIs DEF AclReads
    <3> QED  BY <1>4, <3>1, <3>2
  <2>2. response'.meta \in Lists /\ response'.listable_meta \in Lists
    BY <1>4, UserMetaReturned DEF UserMetaReads
  <2> HIDE DEF m, l
  <2>3. m \in Lists /\ l \in Lists
    BY <2>1, <2>2 DEF Got
  <2> QED  BY <1>1, <2>1, <2>3, GotTyped
<1>5. CASE request.op = "get_system_meta"
  BY <1>1, <1>2, <1>5, ReturnIs, EmptyTyped, GotTyped
<1>6. CASE request.op = "get_acl"
  BY <1>1, <1>3, <1>6, ReturnIs, EmptyTyped, GotTyped DEF AclReads
<1>7. CASE request.op = "list_directory"
  <2> DEFINE m == ParseUserNodes(FALSE)
             l == ParseUserNodes(TRUE)
  <2>1. response' = Got(m, l, << >>, ParseSystemNodes)
    BY <1>1, <1>7, ReturnIs
  <2>2. PICK rest \in BOOLEAN : /\ ListedAs(m, object.meta,
                                            UserListed(object.meta, rest))
                                /\ ListedAs(l, object.listable,
                                            UserListed(object.listable, rest))
                                /\ SystemIs(ParseSystemNodes, SystemListed(rest))
    BY <1>1, <1>7, ListingRead
  <2> HIDE DEF m, l
  <2>3. m \in Lists /\ l \in Lists
    BY <2>2 DEF ListedAs
  <2>4. ParseSystemNodes \in [SystemNames -> Texts]
    BY <2>2, SystemTyped
  <2> QED  BY <1>1, <2>1, <2>3, <2>4, EmptyTyped, GotTyped
<1>8. CASE request.op \in Writes
  BY <1>1, <1>8, ReturnIs, EmptyTyped, GotTyped
<1>9. request.op \in Writes \cup Reads
  BY <1>1, ReturnIs
<1> QED  BY <1>4, <1>5, <1>6, <1>7, <1>8, <1>9 DEF Reads

(* What ReadInv leaves open: the headers between calls and the response.   *)
TypeInv ==
  /\ pc = "built" => headers = NoHeaders
  /\ pc = "idle" => Worded(headers) /\ response \in ResponseShape

LEMMA TypeInvInit ==
  Init => TypeInv
<1> SUFFICES ASSUME Init PROVE TypeInv
  OBVIOUS
<1>1. response \in ResponseShape
  BY EmptyTyped DEF Init, NoResponse, ResponseShape
<1> QED  BY <1>1, WordedOne DEF Init, TypeInv

LEMMA TypeInvNext ==
  ReadInv /\ TypeInv /\ [Next]_vars => TypeInv'
<1> SUFFICES ASSUME ReadInv, TypeInv, [Next]_vars
             PROVE  TypeInv'
  OBVIOUS
<1>1. CASE Building
  <2>1. pc' = "built" /\ headers' = NoHeaders
    BY <1>1 DEF Building, BuildRequest
  <2>2. NoHeaders' = NoHeaders
    BY DEF NoHeaders
  <2> QED  BY <2>1, <2>2 DEF TypeInv
<1>2. CASE Sending \/ Store \/ Delivering
  <2>1. pc' \in {"sent", "answered"}
    BY <1>2, SendingIs, DeliveringIs DEF Send, Store
  <2> QED  BY <2>1 DEF TypeInv
<1>3. CASE Returning
  <2>1. /\ pc = "answered" /\ pc' = "idle"
        /\ headers' = headers
    BY <1>3, ReturningIs
  <2>2. Worded(headers)
    BY <2>1, HeadersWorded DEF ReadInv, WriteInv, RequestInv, HeadersInv
  <2>3. response' \in ResponseShape
    BY <1>3, ReturnTyped
  <2>4. Worded(headers)' /\ ResponseShape' = ResponseShape
    BY <2>1, <2>2 DEF Worded, ResponseShape
  <2> QED  BY <2>1, <2>3, <2>4 DEF TypeInv
<1>4. CASE UNCHANGED vars
  BY <1>4 DEF vars, TypeInv, Worded, ResponseShape, NoHeaders
<1> QED  BY <1>1, <1>2, <1>3, <1>4, NextIs

LEMMA TypesFollow ==
  ASSUME ReadInv, TypeInv
  PROVE  TypeOK
<1>1. /\ pc \in {"idle", "built", "sent", "answered"}
      /\ utf8 \in Utf8Modes /\ calls \in 0 .. MaxCalls
      /\ RequestInv /\ request \in RequestShape
      /\ answer.http_code \in {0, 200, 400}
  BY DEF ReadInv, WriteInv, RequestInv
<1>2. Worded(headers)
  <2>1. CASE pc \in {"sent", "answered"}
    <3>1. request.op \in Operations /\ HeadersFor
      BY <2>1 DEF ReadInv, WriteInv, RequestInv, HeadersInv
    <3> QED  BY <1>1, <3>1, HeadersWorded
  <2>2. CASE pc \in {"built", "idle"}
    BY <2>2, WordedOne DEF TypeInv
  <2> QED  BY <1>1, <2>1, <2>2
<1>3. response \in ResponseShape
  <2>1. NoResponse \in ResponseShape
    BY EmptyTyped DEF NoResponse, ResponseShape
  <2> QED  BY <2>1 DEF ReadInv, TypeInv
<1> QED  BY <1>1, <1>2, <1>3 DEF TypeOK, RequestShape, ResponseShape, Worded

(* Every variable has its type: the response of whichever operation, read  *)
(* from a header or a document, and the headers of every request.          *)
THEOREM TypesHold ==
  Spec => []TypeOK
<1>1. ReadInv /\ TypeInv => TypeOK
  BY TypesFollow
<1> QED  BY <1>1, TypeInvInit, TypeInvNext, ReadsInvariant, PTL DEF Spec

-----------------------------------------------------------------------------
(* The system's names among those of get_system_meta, whose header is not  *)
(* encoded.                                                                *)

(* The parts of a text, as a server looks at them.                         *)
Trimmed(text) == {SkipSpaces(part) : part \in ToSet(Split(text))}

LEMMA TrimmedBoth ==
  ASSUME NEW a \in Texts, NEW b \in Texts
  PROVE  /\ a \o (<<Comma>> \o b) \in Texts
         /\ Trimmed(a \o (<<Comma>> \o b)) = Trimmed(a) \cup Trimmed(b)
<1> DEFINE P == Split(a)
           Q == Split(b)
           t == a \o (<<Comma>> \o b)
<1>1. P \in Seq(Texts) /\ Q \in Seq(Texts)
  BY SplitTyped
<1>2. t \in Texts /\ Split(t) = Cat(P, Q)
  BY SplitBoth
<1> HIDE DEF P, Q, t
<1>3. ToSet(Split(t)) = ToSet(P) \cup ToSet(Q)
  BY <1>1, <1>2, ToSetCat DEF Cat
<1>4. Trimmed(t) = {SkipSpaces(part) : part \in ToSet(P)}
                     \cup {SkipSpaces(part) : part \in ToSet(Q)}
  BY <1>3 DEF Trimmed
<1> QED  BY <1>2, <1>4 DEF Trimmed, P, Q, t

LEMMA TrimmedFree ==
  ASSUME NEW b \in Texts, Free(b, Comma)
  PROVE  Trimmed(b) = {SkipSpaces(b)}
<1>1. Split(b) = <<b>>
  BY SplitFree
<1>2. ToSet(<<b>>) = {b}
  BY DEF ToSet
<1> QED  BY <1>1, <1>2 DEF Trimmed

LEMMA TrimmedSome ==
  ASSUME NEW b \in Texts
  PROVE  Trimmed(b) # {}
<1> DEFINE P == Split(b)
<1>1. P \in Seq(Texts) /\ Len(P) # 0 /\ Len(P) \in Nat
  BY SplitTyped, LenProperties
<1> HIDE DEF P
<1>2. P[1] \in ToSet(P)
  <2>1. DOMAIN P = 1 .. Len(P) /\ 1 \in 1 .. Len(P)
    BY <1>1, LenProperties
  <2> QED  BY <2>1 DEF ToSet
<1> QED  BY <1>2 DEF Trimmed, P

(* A text with a comma is what is before its first comma, and the rest.    *)
LEMMA FirstComma ==
  ASSUME NEW n \in Texts, ~Free(n, Comma)
  PROVE  \E u, v \in Texts : Free(u, Comma) /\ n = u \o (<<Comma>> \o v)
<1> DEFINE I == {i \in 1 .. Len(n) : n[i] = Comma}
<1>1. Len(n) \in Nat /\ \A i \in 1 .. Len(n) : n[i] \in Words
  BY LenProperties, ElementOfSeq DEF Texts
<1>2. I \in SUBSET Nat /\ I # {}
  BY <1>1 DEF Free
<1>3. PICK k \in I : \A i \in I : k <= i
  <2> HIDE DEF I
  <2> QED  BY <1>2, LeastOf
<1>4. /\ k \in 1 .. Len(n) /\ n[k] = Comma /\ k \in Nat
      /\ \A i \in 1 .. Len(n) : i < k => n[i] # Comma
  BY <1>1, <1>3
<1> HIDE DEF I
<1> DEFINE u == SubSeq(n, 1, k - 1)
           v == SubSeq(n, k + 1, Len(n))
<1>5. /\ u \in Seq(Words) /\ Len(u) = k - 1
      /\ \A i \in 1 .. k - 1 : u[i] = n[i]
  <2>1. \A i \in 1 .. k - 1 : n[i] \in Words
    BY <1>1, <1>4
  <2>2. k - 1 \in Int /\ 1 \in Int
    BY <1>4
  <2>3. /\ u \in Seq(Words)
        /\ Len(u) = IF 1 <= k - 1 THEN (k - 1) - 1 + 1 ELSE 0
        /\ \A i \in 1 .. (k - 1) - 1 + 1 : u[i] = n[1 + i - 1]
    BY <2>1, <2>2, SubSeqProperties
  <2> HIDE DEF u
  <2> QED  BY <1>4, <2>3
<1>6. /\ v \in Seq(Words) /\ Len(v) = Len(n) - k
      /\ \A i \in 1 .. Len(n) - k : v[i] = n[k + i]
  <2>1. \A i \in k + 1 .. Len(n) : n[i] \in Words
    BY <1>1, <1>4
  <2>2. k + 1 \in Int /\ Len(n) \in Int
    BY <1>1, <1>4
  <2>3. /\ v \in Seq(Words)
        /\ Len(v) = IF k + 1 <= Len(n) THEN Len(n) - (k + 1) + 1 ELSE 0
        /\ \A i \in 1 .. Len(n) - (k + 1) + 1 : v[i] = n[(k + 1) + i - 1]
    BY <2>1, <2>2, SubSeqProperties
  <2> HIDE DEF v
  <2>4. /\ Len(n) - (k + 1) + 1 = Len(n) - k
        /\ \A i \in 1 .. Len(n) - k : (k + 1) + i - 1 = k + i
    BY <1>1, <1>4
  <2>5. Len(v) = Len(n) - k
    BY <1>1, <1>4, <2>3
  <2> QED  BY <2>3, <2>4, <2>5
<1> HIDE DEF u, v
<1> DEFINE c == <<Comma>> \o v
           t == u \o c
<1>7. <<Comma>> \in Seq(Words)
  BY WordsDiffer DEF Special
<1>8. /\ c \in Seq(Words) /\ Len(c) = 1 + Len(v)
      /\ \A i \in 1 .. 1 + Len(v) : c[i] = IF i <= 1 THEN Comma ELSE v[i - 1]
  BY <1>6, <1>7, ConcatProperties
<1> HIDE DEF c
<1>9. /\ t \in Seq(Words) /\ Len(t) = Len(u) + Len(c)
      /\ \A i \in 1 .. Len(u) + Len(c) :
           t[i] = IF i <= Len(u) THEN u[i] ELSE c[i - Len(u)]
  BY <1>5, <1>8, ConcatProperties
<1> HIDE DEF t
<1>10. ASSUME NEW i \in 1 .. Len(t)
       PROVE  t[i] = n[i]
  <2>1. i \in 1 .. Len(n) /\ i \in 1 .. Len(u) + Len(c) /\ Len(u) = k - 1
    BY <1>1, <1>4, <1>5, <1>6, <1>8, <1>9
  <2>2. CASE i < k
    <3>1. i \in 1 .. k - 1 /\ i <= Len(u)
      BY <1>4, <2>1, <2>2
    <3> QED  BY <1>5, <1>9, <2>1, <3>1
  <2>3. CASE i = k
    <3>1. ~(i <= Len(u)) /\ i - Len(u) = 1 /\ 1 \in 1 .. 1 + Len(v)
      BY <1>1, <1>4, <1>6, <2>1, <2>3
    <3> QED  BY <1>4, <1>8, <1>9, <2>1, <2>3, <3>1
  <2>4. CASE i > k
    <3> DEFINE j == i - k
    <3>1. /\ ~(i <= Len(u)) /\ i - Len(u) = j + 1 /\ j + 1 \in 1 .. 1 + Len(v)
          /\ ~(j + 1 <= 1) /\ (j + 1) - 1 = j /\ j \in 1 .. Len(n) - k /\ k + j = i
      BY <1>1, <1>4, <1>6, <2>1, <2>4
    <3> HIDE DEF j
    <3>2. t[i] = c[j + 1]
      BY <1>9, <2>1, <3>1
    <3>3. c[j + 1] = v[j]
      BY <1>8, <3>1
    <3> QED  BY <1>6, <3>1, <3>2, <3>3
  <2> QED  BY <1>4, <2>1, <2>2, <2>3, <2>4
<1>11. Len(t) = Len(n)
  BY <1>1, <1>4, <1>5, <1>6, <1>8, <1>9
<1>12. t = n
  BY <1>9, <1>10, <1>11, SeqEqual DEF Texts
<1>13. Free(u, Comma)
  BY <1>1, <1>4, <1>5 DEF Free
<1>14. n = u \o (<<Comma>> \o v)
  BY <1>12 DEF t, c
<1> QED  BY <1>5, <1>6, <1>13, <1>14 DEF Texts

(* A space before a text is none of it.                                    *)
LEMMA SkipSpace ==
  ASSUME NEW text \in Texts
  PROVE  /\ <<Space>> \o text \in Texts
         /\ SkipSpaces(<<Space>> \o text) = SkipSpaces(text)
         /\ Free(text, Comma) => Free(<<Space>> \o text, Comma)
<1> DEFINE t == <<Space>> \o text
           I == {i \in 1 .. Len(text) : text[i] # Space}
<1>1. Len(text) \in Nat /\ \A i \in 1 .. Len(text) : text[i] \in Words
  BY LenProperties, ElementOfSeq DEF Texts
<1>2. <<Space>> \in Seq(Words)
  BY WordsDiffer DEF Special
<1>3. /\ t \in Seq(Words) /\ Len(t) = 1 + Len(text)
      /\ \A i \in 1 .. 1 + Len(text) :
           t[i] = IF i <= 1 THEN Space ELSE text[i - 1]
  BY <1>2, ConcatProperties DEF Texts
<1> HIDE DEF t
<1>4. t[1] = Space /\ \A i \in 1 .. Len(text) : t[i + 1] = text[i]
  <2>1. 1 \in 1 .. 1 + Len(text) /\ 1 <= 1
    BY <1>1
  <2>2. ASSUME NEW i \in 1 .. Len(text)
        PROVE  t[i + 1] = text[i]
    <3>1. i + 1 \in 1 .. 1 + Len(text) /\ ~(i + 1 <= 1) /\ i + 1 - 1 = i
      BY <1>1
    <3> QED  BY <1>3, <3>1
  <2> QED  BY <1>3, <2>1, <2>2
<1>5. \A j \in 1 .. Len(t) : j = 1 \/ \E i \in 1 .. Len(text) : j = i + 1
  <2> TAKE j \in 1 .. Len(t)
  <2>1. j = 1 \/ (j - 1 \in 1 .. Len(text) /\ j = (j - 1) + 1)
    BY <1>1, <1>3
  <2> QED  BY <2>1
<1>6. Free(text, Comma) => Free(t, Comma)
  BY <1>4, <1>5, WordsDiffer DEF Free
<1>7. SkipSpaces(t) = SkipSpaces(text)
  <2>1. CASE I = {}
    <3>1. \A j \in 1 .. Len(t) : t[j] = Space
      BY <1>4, <1>5, <2>1
    <3>2. {j \in 1 .. Len(t) : t[j] # Space} = {}
      BY <3>1
    <3> QED  BY <2>1, <3>2 DEF SkipSpaces, SelectInSeq
  <2>2. CASE I # {}
    <3>1. I \in SUBSET Nat
      BY <1>1
    <3>2. PICK k \in I : \A i \in I : k <= i
      <4> HIDE DEF I
      <4> QED  BY <2>2, <3>1, LeastOf
    <3>3. /\ k \in 1 .. Len(text) /\ text[k] # Space /\ k \in Nat
          /\ \A i \in 1 .. Len(text) : i < k => text[i] = Space
      BY <1>1, <3>2
    <3>4. SkipsTo(text, k)
      BY <3>3 DEF SkipsTo
    <3>5. SkipsTo(t, k + 1)
      <4>1. k + 1 \in 1 .. Len(t) /\ t[k + 1] # Space
        BY <1>1, <1>3, <1>4, <3>3
      <4>2. ASSUME NEW j \in 1 .. Len(t), j < k + 1
            PROVE  t[j] = Space
        <5>1. CASE j = 1
          BY <1>4, <5>1
        <5>2. CASE j # 1
          <6>1. PICK i \in 1 .. Len(text) : j = i + 1
            BY <1>5, <5>2
          <6>2. i < k
            BY <1>1, <3>3, <4>2, <6>1
          <6> QED  BY <1>4, <3>3, <6>1, <6>2
        <5> QED  BY <5>1, <5>2
      <4> QED  BY <4>1, <4>2 DEF SkipsTo
    <3>6. /\ SkipSpaces(text) = SubSeq(text, k, Len(text))
          /\ SkipSpaces(t) = SubSeq(t, k + 1, Len(t))
      BY <1>3, <3>4, <3>5, SkipSpacesTo DEF Texts
    <3> DEFINE x == SubSeq(text, k, Len(text))
               y == SubSeq(t, k + 1, Len(t))
               m == Len(text) - k + 1
    <3>7. m \in Nat
      BY <1>1, <3>3
    <3>8. x \in Seq(Words) /\ Len(x) = m /\ \A i \in 1 .. m : x[i] = text[k + i - 1]
      <4>1. \A i \in k .. Len(text) : text[i] \in Words
        BY <1>1, <3>3
      <4>2. k \in Int /\ Len(text) \in Int /\ k <= Len(text)
        BY <1>1, <3>3
      <4> QED  BY <4>1, <4>2, SubSeqProperties
    <3>9. /\ y \in Seq(Words) /\ Len(y) = m
          /\ \A i \in 1 .. m : y[i] = t[(k + 1) + i - 1]
      <4>1. \A i \in k + 1 .. Len(t) : t[i] \in Words
        BY <1>3, <3>3, ElementOfSeq
      <4>2. k + 1 \in Int /\ Len(t) \in Int /\ k + 1 <= Len(t)
        BY <1>1, <1>3, <3>3
      <4>3. Len(t) - (k + 1) + 1 = m
        BY <1>1, <1>3, <3>3
      <4>4. /\ y \in Seq(Words) /\ Len(y) = Len(t) - (k + 1) + 1
            /\ \A i \in 1 .. Len(t) - (k + 1) + 1 : y[i] = t[(k + 1) + i - 1]
        BY <4>1, <4>2, SubSeqProperties
      <4> HIDE DEF m, y
      <4> QED  BY <4>3, <4>4
    <3>10. ASSUME NEW i \in 1 .. m
           PROVE  t[(k + 1) + i - 1] = text[k + i - 1]
      <4> DEFINE j == k + i - 1
      <4>1. j \in 1 .. Len(text) /\ (k + 1) + i - 1 = j + 1
        BY <1>1, <3>3
      <4> HIDE DEF j
      <4>2. t[j + 1] = text[j]
        BY <1>4, <4>1
      <4> QED  BY <4>1, <4>2 DEF j
    <3> HIDE DEF x, y, m
    <3>11. x = y
      <4>1. \A i \in 1 .. Len(x) : x[i] = y[i]
        BY <3>8, <3>9, <3>10
      <4> QED  BY <3>8, <3>9, <4>1, SeqEqual
    <3> QED  BY <3>6, <3>11 DEF x, y
  <2> QED  BY <2>1, <2>2
<1> QED  BY <1>3, <1>6, <1>7 DEF t, Texts

LEMMA TrimmedSpace ==
  ASSUME NEW n \in Texts
  PROVE  Trimmed(<<Space>> \o n) = Trimmed(n)
<1>1. CASE Free(n, Comma)
  <2>1. /\ <<Space>> \o n \in Texts /\ Free(<<Space>> \o n, Comma)
        /\ SkipSpaces(<<Space>> \o n) = SkipSpaces(n)
    BY <1>1, SkipSpace
  <2> QED  BY <1>1, <2>1, TrimmedFree
<1>2. CASE ~Free(n, Comma)
  <2>1. PICK u, v \in Texts : Free(u, Comma) /\ n = u \o (<<Comma>> \o v)
    BY <1>2, FirstComma
  <2> DEFINE w == <<Space>> \o u
             c == <<Comma>> \o v
  <2>2. /\ w \in Texts /\ Free(w, Comma) /\ SkipSpaces(w) = SkipSpaces(u)
    BY <2>1, SkipSpace
  <2>3. Trimmed(w) = Trimmed(u)
    BY <2>1, <2>2, TrimmedFree
  <2>4. <<Space>> \o n = w \o (<<Comma>> \o v)
    <3>1. <<Space>> \in Seq(Words) /\ <<Comma>> \in Seq(Words)
      BY WordsDiffer DEF Special
    <3>2. c \in Seq(Words) /\ u \in Seq(Words)
      BY <3>1, ConcatProperties DEF Texts
    <3>3. n = u \o c
      BY <2>1
    <3> HIDE DEF c
    <3>4. <<Space>> \o (u \o c) = (<<Space>> \o u) \o c
      BY <3>1, <3>2, ConcatAssociative
    <3> QED  BY <3>3, <3>4 DEF c
  <2>5. /\ Trimmed(w \o (<<Comma>> \o v)) = Trimmed(w) \cup Trimmed(v)
        /\ Trimmed(u \o (<<Comma>> \o v)) = Trimmed(u) \cup Trimmed(v)
    BY <2>2, TrimmedBoth
  <2> QED  BY <2>1, <2>3, <2>4, <2>5
<1> QED  BY <1>1, <1>2

(* A header has the parts of its names.                                    *)
LEMMA TrimmedJoin ==
  ASSUME NEW names \in Seq(Texts), Len(names) # 0, names[1] # << >>
  PROVE  LET text == Join(names, <<Comma, Space>>) IN
         /\ text \in Texts /\ text # << >>
         /\ \A x : x \in Trimmed(text)
                     <=> \E i \in 1 .. Len(names) : x \in Trimmed(names[i])
<1> DEFINE text == Join(names, <<Comma, Space>>)
           pad == <<Space>>
           N == Len(names)
<1>1. /\ N \in Nat /\ N # 0 /\ \A i \in 1 .. N : names[i] \in Texts
  BY LenProperties, ElementOfSeq
<1>2. pad \in Texts /\ <<Comma, Space>> = <<Comma>> \o pad
  BY WordsDiffer DEF Special, Texts
<1>3. PICK g : /\ g[1] = names[1]
               /\ \A m \in Nat \ {0} : m + 1 <= N =>
                    g[m + 1] = g[m] \o (<<Comma>> \o (pad \o names[m + 1]))
               /\ \A m \in 1 .. N : g[m] \in Texts
               /\ text = g[N]
  BY <1>2, JoinBuilt
<1> HIDE DEF pad, text, N
<1> DEFINE G == {n \in Nat : n + 1 <= N =>
                   /\ g[n + 1] # << >>
                   /\ \A x : x \in Trimmed(g[n + 1])
                               <=> \E i \in 1 .. n + 1 : x \in Trimmed(names[i])}
<1>4. 0 \in G
  BY <1>3
<1>5. ASSUME NEW n \in Nat, n \in G
      PROVE  n + 1 \in G
  <2> DEFINE m == n + 1
  <2>1. SUFFICES ASSUME m + 1 <= N
                 PROVE  /\ g[m + 1] # << >>
                        /\ \A x : x \in Trimmed(g[m + 1])
                                    <=> \E i \in 1 .. m + 1 : x \in Trimmed(names[i])
    OBVIOUS
  <2>2. \A x : x \in Trimmed(g[m]) <=> \E i \in 1 .. m : x \in Trimmed(names[i])
    BY <1>1, <1>5, <2>1
  <2>3. m \in Nat \ {0} /\ m \in 1 .. N /\ m + 1 \in 1 .. N
    BY <1>1, <2>1
  <2> HIDE DEF m
  <2> DEFINE a == g[m]
             n1 == names[m + 1]
             b == pad \o n1
             c == <<Comma>> \o b
  <2>4. a \in Texts /\ n1 \in Texts
    BY <1>1, <1>3, <2>3
  <2>5. g[m + 1] = a \o c
    BY <1>3, <2>1, <2>3
  <2> HIDE DEF a, n1
  <2>6. b \in Texts /\ Trimmed(b) = Trimmed(n1)
    BY <2>4, SkipSpace, TrimmedSpace DEF pad
  <2> HIDE DEF b
  <2>7. a \o c \in Texts /\ Trimmed(a \o c) = Trimmed(a) \cup Trimmed(n1)
    BY <2>4, <2>6, TrimmedBoth
  <2>8. g[m + 1] # << >>
    <3>1. <<Comma>> \in Seq(Words) /\ a \in Seq(Words) /\ b \in Seq(Words)
      BY <2>4, <2>6, WordsDiffer DEF Special, Texts
    <3>2. c \in Seq(Words) /\ Len(c) = 1 + Len(b)
      BY <3>1, ConcatProperties
    <3> HIDE DEF c
    <3>3. Len(a \o c) = Len(a) + Len(c)
      BY <3>1, <3>2, ConcatProperties
    <3>4. Len(a) \in Nat /\ Len(b) \in Nat
      BY <3>1, LenProperties
    <3>5. Len(a \o c) # 0
      BY <3>2, <3>3, <3>4
    <3> QED  BY <2>5, <3>5, EmptySeq
  <2>9. \A i : i \in 1 .. m + 1 <=> i \in 1 .. m \/ i = m + 1
    BY <2>3
  <2>10. \A x : x \in Trimmed(g[m + 1])
                  <=> x \in Trimmed(g[m]) \/ x \in Trimmed(names[m + 1])
    BY <2>5, <2>7 DEF a, n1
  <2> QED  BY <2>2, <2>8, <2>9, <2>10
<1> HIDE DEF G
<1>6. N - 1 \in Nat
  BY <1>1
<1>7. N - 1 \in G
  BY <1>4, <1>5, <1>6, SetInduction
<1>8. /\ g[N] # << >>
      /\ \A x : x \in Trimmed(g[N]) <=> \E i \in 1 .. N : x \in Trimmed(names[i])
  <2>1. (N - 1) + 1 = N /\ N <= N
    BY <1>1
  <2> QED  BY <1>7, <2>1 DEF G
<1>9. g[N] \in Texts
  BY <1>1, <1>3
<1> QED  BY <1>3, <1>8, <1>9 DEF text, N

LEMMA SystemWords ==
  "size" \notin Range(EscapedWord) /\ "objname" \notin Range(EscapedWord)
<1>1. \A w \in Special : EscapedWord[w] # "size" /\ EscapedWord[w] # "objname"
  BY DEF EscapedWord, Special, Comma, Equals, Space, Umlaut
<1> QED  BY <1>1, EscapedWords DEF Range

LEMMA SystemNamesPlain ==
  ASSUME NEW s \in SystemNames
  PROVE  /\ s \in Texts /\ Free(s, Comma) /\ SkipSpaces(s) = s
         /\ \E w \in Words : /\ s = <<w>> /\ w \notin Special
                            /\ w \notin Range(EscapedWord)
<1>1. \E w \in {"size", "objname"} : s = <<w>>
  BY DEF SystemNames
<1>2. PICK w \in {"size", "objname"} : s = <<w>>
  BY <1>1
<1>3. w \in Words /\ w \notin Special /\ w \notin Range(EscapedWord)
  BY WordsAssumption, SystemWords DEF Special, Comma, Equals, Space, Umlaut
<1>4. s \in Texts /\ s # << >> /\ s[1] # Space /\ Free(s, Comma)
  BY <1>2, <1>3 DEF Texts, Free, Special
<1> QED  BY <1>2, <1>3, <1>4, SkipNothing

LEMMA WholeTrimmed ==
  ASSUME NEW n \in Texts, Whole(n), NEW s \in SystemNames
  PROVE  s \in Trimmed(n) <=> n = s
<1>1. CASE n \in SystemNames
  <2>1. Free(n, Comma) /\ SkipSpaces(n) = n
    BY <1>1, SystemNamesPlain
  <2> QED  BY <2>1, TrimmedFree
<1>2. CASE n \notin SystemNames
  <2> DEFINE P == Split(n)
  <2>1. \A i \in DOMAIN P : SkipSpaces(P[i]) \notin SystemNames
    BY <1>2 DEF Whole
  <2> HIDE DEF P
  <2>2. \A part \in ToSet(P) : SkipSpaces(part) \notin SystemNames
    BY <2>1 DEF ToSet
  <2>3. s \notin Trimmed(n)
    BY <2>2 DEF Trimmed, P
  <2> QED  BY <1>2, <2>3
<1> QED  BY <1>1, <1>2

(* Nothing but a system's name is decoded to it.                           *)
LEMMA SystemDecoded ==
  ASSUME NEW part \in Texts, NEW mode \in BOOLEAN, NEW s \in SystemNames
  PROVE  Decode(part, mode) = s <=> part = s
<1>1. PICK w \in Words : /\ s = <<w>> /\ w \notin Special
                        /\ w \notin Range(EscapedWord)
  BY SystemNamesPlain
<1>2. CASE ~mode
  BY <1>2 DEF Decode
<1>3. CASE mode
  <2> DEFINE e == Unescape(part)
  <2>1. /\ part \in Seq(Words) /\ Len(part) \in Nat
        /\ DOMAIN part = 1 .. Len(part)
    BY LenProperties DEF Texts
  <2>2. /\ DOMAIN e = 1 .. Len(part)
        /\ \A i \in 1 .. Len(part) :
             e[i] = IF part[i] \in Range(EscapedWord)
                      THEN AntiFunction(EscapedWord)[part[i]] ELSE part[i]
    BY <2>1, UnescapedWord DEF Unescape, Replace
  <2>3. \A i \in 1 .. Len(part) : part[i] \in Range(EscapedWord)
                                    => e[i] \in Special
    <3>1. \A x \in Range(EscapedWord) : \E v \in Special : x = EscapedWord[v]
      BY EscapedWords DEF Range
    <3> HIDE DEF e
    <3> QED  BY <2>2, <3>1, UnescapedWord
  <2>4. e = [i \in 1 .. Len(part) |-> e[i]]
    BY <2>1 DEF Unescape, Replace
  <2>5. Decode(part, mode) = e
    BY <1>3 DEF Decode
  <2> HIDE DEF e
  <2>6. ASSUME e = s
        PROVE  part = s
    <3>1. Len(part) = 1 /\ e[1] = w
      <4>1. DOMAIN s = 1 .. 1 /\ s[1] = w
        BY <1>1
      <4>2. 1 .. Len(part) = 1 .. 1
        BY <2>2, <2>6, <4>1
      <4>3. Len(part) = 1
        <5>1. 1 \in 1 .. Len(part) /\ (Len(part) # 1 => 2 \in 1 .. Len(part))
          BY <2>1, <4>2
        <5> QED  BY <4>2, <5>1
      <4> QED  BY <2>6, <4>1, <4>3
    <3>2. part[1] = w
      <4>1. 1 \in 1 .. Len(part)
        BY <3>1
      <4> QED  BY <1>1, <2>2, <2>3, <3>1, <4>1
    <3> QED  BY <1>1, <2>1, <3>1, <3>2
  <2>7. ASSUME part = s
        PROVE  e = s
    <3>1. Len(part) = 1 /\ part[1] = w
      BY <1>1, <2>7
    <3>2. w \notin Range(EscapedWord)
      BY <1>1
    <3>3. 1 \in 1 .. Len(part) /\ 1 .. Len(part) = 1 .. 1
      BY <3>1
    <3>4. e[1] = w
      BY <2>2, <3>1, <3>2, <3>3
    <3>5. e = [i \in 1 .. 1 |-> w]
      BY <2>4, <3>3, <3>4
    <3> QED  BY <1>1, <3>5
  <2> QED  BY <2>5, <2>6, <2>7
<1> QED  BY <1>2, <1>3

LEMMA SystemNamesSent ==
  ASSUME utf8 \in Utf8Modes, RequestInv, HeadersFor,
         request.op = "get_system_meta"
  PROVE  /\ \A s \in SystemNames : s \in SentNames <=> s \in ToSet(request.names)
         /\ SentNames = {} <=> request.names = << >>
<1> DEFINE names == request.names
           h == "x-emc-tags"
           text == Join(names, <<Comma, Space>>)
<1>1. /\ utf8 \in BOOLEAN /\ NameList(names, utf8)
      /\ headers = Utf8Header ++ TagsHeaders(FALSE)
  BY MetadataAssumption DEF RequestInv, HeadersFor
<1>2. /\ ServerUtf8 = utf8
      /\ Says(headers, h, names # << >>, TagsHeader(names, FALSE))
  BY <1>1, TagsHeadersAre
<1> HIDE DEF names
<1>3. /\ names \in Seq(Texts) /\ DOMAIN names = 1 .. Len(names) /\ Len(names) \in Nat
      /\ \A i \in 1 .. Len(names) : /\ names[i] \in Texts /\ Whole(names[i])
                                    /\ names[i] # << >>
  BY <1>1, LenProperties, ElementOfSeq DEF NameList, Usable
<1>4. TagsHeader(names, FALSE) = text
  <2>1. names = [i \in DOMAIN names |-> names[i]]
    <3>1. names \in [1 .. Len(names) -> Texts]
      BY <1>3, LenProperties
    <3> QED  BY <1>3, <3>1
  <2>2. [i \in DOMAIN names |-> Encode(names[i], FALSE)] = names
    BY <2>1 DEF Encode
  <2> QED  BY <2>2 DEF TagsHeader
<1>5. CASE names = << >>
  <2>1. HeaderParts(h) = << >>
    BY <1>2, <1>5 DEF Says, HeaderParts
  <2>2. ToSet(<< >>) = {}
    BY DEF ToSet
  <2>3. SentNames = {}
    BY <2>1, <2>2 DEF SentNames, NamesIn
  <2> QED  BY <1>5, <2>2, <2>3 DEF names
<1>6. CASE names # << >>
  <2>1. Len(names) # 0 /\ 1 \in 1 .. Len(names)
    BY <1>3, <1>6, EmptySeq
  <2>2. /\ text \in Texts /\ text # << >>
        /\ \A x : x \in Trimmed(text)
                    <=> \E i \in 1 .. Len(names) : x \in Trimmed(names[i])
    BY <1>3, <2>1, TrimmedJoin
  <2>3. h \in DOMAIN headers /\ headers[h] = text
    BY <1>2, <1>4, <1>6 DEF Says
  <2> HIDE DEF text
  <2>4. SentNames = {Decode(part, utf8) : part \in Trimmed(text)}
    <3> DEFINE P == Split(text)
               H == [i \in DOMAIN P |-> SkipSpaces(P[i])]
    <3>1. HeaderParts(h) = H
      BY <2>2, <2>3 DEF HeaderParts
    <3> HIDE DEF P
    <3>2. ToSet(H) = {SkipSpaces(part) : part \in ToSet(P)}
      BY DEF ToSet
    <3>3. ToSet(H) = Trimmed(text)
      BY <3>2 DEF Trimmed, P
    <3> QED  BY <1>2, <3>1, <3>3 DEF SentNames, NamesIn
  <2>5. SentNames # {}
    BY <2>2, <2>4, TrimmedSome
  <2>6. \A part \in Trimmed(text) : part \in Texts
    <3> DEFINE P == Split(text)
    <3>1. P \in Seq(Texts)
      BY <2>2, SplitTyped
    <3> HIDE DEF P
    <3>2. \A part \in ToSet(P) : part \in Texts
      <4>1. DOMAIN P = 1 .. Len(P) /\ \A i \in 1 .. Len(P) : P[i] \in Texts
        BY <3>1, LenProperties, ElementOfSeq
      <4> QED  BY <4>1 DEF ToSet
    <3> QED  BY <3>2, SkipTyped DEF Trimmed, P
  <2>7. ASSUME NEW s \in SystemNames
        PROVE  s \in SentNames <=> s \in ToSet(names)
    <3>1. s \in SentNames <=> s \in Trimmed(text)
      BY <1>1, <2>4, <2>6, SystemDecoded, SystemNamesPlain
    <3>2. s \in Trimmed(text) <=> \E i \in 1 .. Len(names) : names[i] = s
      BY <1>3, <2>2, WholeTrimmed
    <3>3. s \in ToSet(names) <=> \E i \in 1 .. Len(names) : names[i] = s
      BY <1>3 DEF ToSet
    <3> QED  BY <3>1, <3>2, <3>3
  <2> QED  BY <1>6, <2>5, <2>7 DEF names
<1> QED  BY <1>5, <1>6

(* The names a call asked the system's values for.                         *)
LEMMA SystemAskedFor ==
  ASSUME utf8 \in Utf8Modes, RequestInv, HeadersFor, NEW system,
         request.op \in {"get_system_meta", "read_object"},
         SystemIs(system, SystemAsked)
  PROVE  \E asked \in Readable(SystemNames, SystemTags) : SystemIs(system, asked)
<1> DEFINE names == request.names
<1>1. DOMAIN SystemMeta = SystemNames
  BY DEF SystemMeta
<1>2. CASE names = << >>
  <2>1. SentNames = {} \/ request.op = "read_object"
    BY <1>2, SystemNamesSent
  <2>2. SystemAsked = SystemNames
    BY <1>1, <2>1 DEF SystemAsked, NamesAsked
  <2>3. ToSet(names) = {}
    BY <1>2 DEF ToSet
  <2>4. SystemNames \in Readable(SystemNames, SystemTags)
    BY <1>2, <2>3 DEF Readable
  <2> QED  BY <2>2, <2>4
<1>3. CASE names # << >>
  <2>1. request.op = "get_system_meta"
    BY <1>3 DEF RequestInv
  <2>2. /\ \A s \in SystemNames : s \in SentNames <=> s \in ToSet(names)
        /\ SentNames # {}
    BY <1>3, <2>1, SystemNamesSent
  <2>3. SystemAsked = SentNames
    BY <2>1, <2>2 DEF SystemAsked, NamesAsked
  <2>4. SystemIs(system, ToSet(names))
    BY <2>2, <2>3 DEF SystemIs
  <2>5. ToSet(names) # {}
    <3>1. names \in Seq(Texts)
      BY DEF RequestInv, NameList
    <3> HIDE DEF names
    <3>2. DOMAIN names = 1 .. Len(names) /\ Len(names) \in Nat /\ Len(names) # 0
      BY <1>3, <3>1, LenProperties, EmptySeq
    <3>3. 1 \in DOMAIN names
      BY <3>2
    <3> QED  BY <3>3 DEF ToSet
  <2>6. ToSet(names) \in Readable(SystemNames, SystemTags)
    BY <2>1, <2>5 DEF Readable
  <2> QED  BY <2>4, <2>6
<1> QED  BY <1>2, <1>3

LEMMA SystemReturned ==
  ASSUME ReadInv, Returning, request.op \in SystemMetaReads
  PROVE  \E asked \in Readable(SystemNames, SystemTags) :
           SystemIs(response'.system, asked)
<1>1. /\ pc = "answered" /\ response = NoResponse
      /\ utf8 \in Utf8Modes /\ RequestInv /\ HeadersFor
  BY ReturningIs DEF ReadInv, WriteInv, HeadersInv
<1>2. CASE request.op \in {"get_system_meta", "read_object"}
  <2>1. SystemIs(SystemMetaOf, SystemAsked)
    BY <1>1, <1>2, SystemReadAs DEF SystemIs
  <2>2. response'.system = SystemMetaOf
    BY <1>1, <1>2, ReturnIs DEF Got
  <2> QED  BY <1>1, <1>2, <2>1, <2>2, SystemAskedFor
<1>3. CASE request.op = "list_directory"
  <2>1. PICK rest \in BOOLEAN : SystemIs(ParseSystemNodes, SystemListed(rest))
    BY <1>1, <1>3, ListingRead
  <2>2. NamesIn("x-emc-system-tags") = ToSet(SystemTags)
    BY <1>1, <1>3, TagsNamed
  <2>3. DOMAIN SystemMeta = SystemNames
    BY DEF SystemMeta
  <2>4. SystemListed(rest) \in Readable(SystemNames, SystemTags)
    BY <1>3, <2>2, <2>3, AskedInTags DEF SystemListed
  <2>5. response'.system = ParseSystemNodes
    BY <1>1, <1>3, ReturnIs DEF Got
  <2> QED  BY <2>1, <2>4, <2>5
<1> QED  BY <1>2, <1>3 DEF SystemMetaReads

LEMMA SystemApartNext ==
  ASSUME ReadInv, SystemApart, [Next]_vars
  PROVE  SystemApart'
<1>1. ASSUME UNCHANGED <<request, utf8>>
      PROVE  Readable(SystemNames, SystemTags)' = Readable(SystemNames, SystemTags)
  <2>1. SystemTags' = SystemTags
    BY <1>1 DEF SystemTags, SystemPlaces
  <2> QED  BY <1>1, <2>1 DEF Readable
<1>2. CASE Building \/ Sending \/ Store \/ Delivering
  <2>1. pc' # "idle"
    BY <1>2, SendingIs, DeliveringIs DEF Building, BuildRequest, Send, Store
  <2> QED  BY <2>1 DEF SystemApart, Read
<1>3. CASE Returning
  <2>1. UNCHANGED <<request, utf8>>
    BY <1>3, ReturningIs
  <2> SUFFICES ASSUME request.op \in SystemMetaReads
               PROVE  \E asked \in Readable(SystemNames, SystemTags) :
                        \A n \in SystemNames :
                          response'.system[n]
                            = IF n \in asked THEN SystemMeta[n] ELSE << >>
    BY <1>1, <2>1 DEF SystemApart, Read
  <2> QED  BY <1>3, SystemReturned DEF SystemIs
<1>4. CASE UNCHANGED vars
  <2>1. UNCHANGED <<pc, request, response, utf8>>
    BY <1>4 DEF vars
  <2> QED  BY <1>1, <2>1 DEF SystemApart, Read
<1> QED  BY <1>2, <1>3, <1>4, NextIs

(* The system metadata asked for come out of the header they share with    *)
(* the user's, or out of the document of a listing, each with its value,   *)
(* and the others stay empty.                                              *)
THEOREM SystemMetaApart ==
  Spec => []SystemApart
<1>1. Init => SystemApart
  BY DEF Init, SystemApart, Read, NoResponse
<1>2. ReadInv /\ SystemApart /\ [Next]_vars => SystemApart'
  BY SystemApartNext
<1> QED  BY <1>1, <1>2, ReadsInvariant, PTL DEF Spec
=============================================================================
