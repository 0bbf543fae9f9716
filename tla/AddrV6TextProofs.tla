-------------------------- MODULE AddrV6TextProofs --------------------------
(***************************************************************************)
(* What FromStr does with any text: it reads no part that is not there,    *)
(* hands out eight words, every step brings it nearer to its return, and   *)
(* it agrees with the grammar.                                             *)
(***************************************************************************)
EXTENDS AddrV6Text, TLAPS, WellFoundedInduction, SequenceTheorems

Errors == {"InvalidNumberOfParts", "FailedIntegralParsing", "MultipleColon"}

ScanPhases == {"head", "tail", "all"}

(* parseRange is always inside its range. *)
AtInRange == phase \in ScanPhases => 1 <= at /\ at <= last

(* A text without "::" is parsed in one range, and has no tail. *)
RangeInv ==
  /\ phase \in {"head", "tail"} => Doubles # {}
  /\ phase = "all" => Doubles = {}
  /\ phase \notin {"head", "tail"} /\ Doubles = {} => tail = << >>

IInv == TypeOK /\ AtInRange /\ RangeInv
-----------------------------------------------------------------------------
(* The first "::" is one, and has something on both sides in the sequence  *)
(* of parts.                                                               *)
LEMMA FirstDoubleIsDouble ==
  ASSUME TypeOK, Doubles # {}
  PROVE  FirstDouble \in Doubles /\ FirstDouble \in 2..(Len(text) - 1)
<1>1. Doubles \subseteq Nat
  BY DEF Doubles, TypeOK
<1>2. IsWellFoundedOn({p \in Nat \X Nat : p[1] < p[2]}, Nat)
  BY NatLessThanWellFounded, Zenon DEF OpToRel
<1>3. PICK m \in Doubles :
        \A j \in Doubles : ~ (<<j, m>> \in {p \in Nat \X Nat : p[1] < p[2]})
  BY <1>1, <1>2, WFMin
<1>4. \A j \in Doubles : m <= j
  <2>1. TAKE j \in Doubles
  <2>2. m \in Nat /\ j \in Nat /\ <<j, m>> \in Nat \X Nat
    BY <1>1
  <2> QED
    BY <1>3, <2>2
<1>5. FirstDouble \in Doubles
  BY <1>4 DEF FirstDouble
<1> QED
  BY <1>5 DEF Doubles, TypeOK

LEMMA PartTypes ==
  ASSUME TypeOK
  PROVE  /\ Len(text) \in Nat \ {0}
         /\ text[at] \in Seq(Pieces) /\ Len(text[at]) >= 1
<1>1. text \in Seq(Parts) /\ text # << >> /\ at \in 1..Len(text)
  BY DEF TypeOK
<1>2. text[at] \in Parts
  BY <1>1
<1> QED
  BY <1>1, <1>2 DEF Parts

(* Two octets make a word. *)
LEMMA OctetPairIsWord ==
  ASSUME NEW a \in Octet, NEW b \in Octet
  PROVE  a * 256 + b \in Words
<1>1. MaxOctet = 255 /\ MaxWord = 65535
  BY DEF MaxOctet, MaxWord
<1>2. a \in Nat /\ a <= 255 /\ b \in Nat /\ b <= 255
  BY <1>1 DEF Octet
<1>3. a * 256 + b \in Nat /\ a * 256 + b <= 65535
  BY <1>2
<1>4. PICK n \in Nat : n = a * 256 + b /\ n <= MaxWord
  BY <1>1, <1>3
<1>5. n \in Words
  <2>1. MaxWord \in Nat
    BY <1>1
  <2> QED
    BY <1>4, <2>1 DEF Words
<1> QED
  BY <1>4, <1>5

LEMMA QuadWordsAreWords ==
  ASSUME NEW part \in Seq(Pieces), QuadOutcome(part) = "ok"
  PROVE  QuadWords(part) \in Seq(Words)
<1>1. ~ \E k \in 1..4 : ~ (IsOctet(part[k]) /\ part[k] \in Whole)
  BY DEF QuadOutcome
<1>2. \A k \in 1..4 : Value[part[k]] \in Octet
  BY <1>1 DEF IsOctet
<1>3. /\ Value[part[1]] * 256 + Value[part[2]] \in Words
      /\ Value[part[3]] * 256 + Value[part[4]] \in Words
  <2>1. /\ Value[part[1]] \in Octet /\ Value[part[2]] \in Octet
        /\ Value[part[3]] \in Octet /\ Value[part[4]] \in Octet
    BY <1>2
  <2> QED
    BY <2>1, OctetPairIsWord
<1> QED
  BY <1>3 DEF QuadWords

LEMMA PushTypes ==
  ASSUME TypeOK, NEW words \in Seq(Words), Push(words)
  PROVE  head' \in Seq(Words) /\ tail' \in Seq(Words)
<1>1. head \in Seq(Words) /\ tail \in Seq(Words)
  BY DEF TypeOK
<1>2. head \o words \in Seq(Words) /\ tail \o words \in Seq(Words)
  BY <1>1
<1> QED
  BY <1>1, <1>2 DEF Push

(* What EnterTail leaves behind. *)
LEMMA EnterTailTypes ==
  ASSUME TypeOK, Doubles # {}, EnterTail
  PROVE  \/ phase' = "assemble" /\ at' = at /\ last' = last
         \/ /\ phase' = "tail" /\ last' = Len(text)
            /\ at' \in 1..Len(text)
BY FirstDoubleIsDouble, PartTypes DEF EnterTail, Scan

LEMMA EndRangeTypes ==
  ASSUME TypeOK, RangeInv, phase \in ScanPhases, EndRange
  PROVE  \/ phase' = "assemble" /\ at' = at /\ last' = last
         \/ /\ phase = "head" /\ phase' = "tail" /\ last' = Len(text)
            /\ at' \in 1..Len(text)
BY EnterTailTypes DEF EndRange, RangeInv

LEMMA FailPreserves ==
  ASSUME IInv, NEW kind \in Errors,
         Fail(kind)
  PROVE  IInv'
BY DEF Errors, Fail, IInv, TypeOK, AtInRange, RangeInv, Doubles
-----------------------------------------------------------------------------
LEMMA InitEstablishes == Init => IInv
<1> SUFFICES ASSUME Init PROVE IInv
  OBVIOUS
<1>1. text \in Seq(Parts) \ {<< >>}
  BY InputsAssumption DEF Init
<1>2. Len(text) \in Nat \ {0}
  BY <1>1
<1>3. /\ head \in Seq(Words) /\ tail \in Seq(Words)
      /\ address \in Seq(Words) /\ Len(address) = 0
  BY DEF Init
<1>4. at \in 1..Len(text) /\ last \in 0..Len(text)
  BY <1>2 DEF Init
<1>5. TypeOK
  BY <1>1, <1>3, <1>4 DEF Init, TypeOK
<1> QED
  BY <1>5 DEF Init, IInv, AtInRange, RangeInv, ScanPhases

(* A step either fails, or it is one of these.                             *)
Begins ==
  /\ phase = "start"
  /\ \/ phase' = "assemble" /\ at' = at /\ last' = last /\ Doubles # {}
     \/ /\ phase' \in ScanPhases /\ at' \in 1..last' /\ last' \in 1..Len(text)
        /\ phase' = "all" <=> Doubles = {}
  /\ UNCHANGED <<text, head, tail, seenIPv4, address, outcome>>

Reads ==
  /\ phase \in ScanPhases
  /\ head' \in Seq(Words) /\ tail' \in Seq(Words) /\ seenIPv4' \in BOOLEAN
  /\ phase # "tail" => tail' = tail
  /\ \/ phase' = phase /\ last' = last /\ at' = at + 1 /\ at' <= last
     \/ phase' = "assemble" /\ at' = at /\ last' = last
     \/ phase = "head" /\ phase' = "tail" /\ last' = Len(text) /\ at' \in 1..Len(text)
  /\ UNCHANGED <<text, address, outcome>>

Ends ==
  /\ phase = "assemble" /\ outcome = "parsing"
  /\ address' \in Seq(Words) /\ Len(address') = 8
  /\ outcome' = "ok"
  /\ UNCHANGED <<text, phase, at, last, head, tail, seenIPv4>>

Fails == outcome = "parsing" /\ \E kind \in Errors : Fail(kind)

LEMMA StartShape ==
  ASSUME IInv, Start
  PROVE  Fails \/ Begins
<1>1. TypeOK
  BY DEF IInv
<1>2. CASE text = <<Empty>> /\ Fail("InvalidNumberOfParts")
  BY <1>2 DEF Fails, Errors, Start
<1>3. CASE Fail("MultipleColon")
  BY <1>3 DEF Fails, Errors, Start
<1>4. CASE /\ Doubles # {}
           /\ IF FirstDouble = 2 /\ text[1] = Empty
              THEN EnterTail ELSE Scan("head", 1, FirstDouble - 1)
           /\ UNCHANGED <<text, head, tail, seenIPv4, address, outcome>>
  <2>1. FirstDouble \in 2..(Len(text) - 1) /\ Len(text) \in Nat
    BY <1>1, <1>4, FirstDoubleIsDouble, PartTypes
  <2>2. CASE EnterTail
    BY <1>1, <1>4, <2>1, <2>2, EnterTailTypes DEF Begins, Start, ScanPhases
  <2>3. CASE Scan("head", 1, FirstDouble - 1)
    BY <1>4, <2>1, <2>3 DEF Begins, Start, ScanPhases, Scan
  <2> QED
    BY <1>4, <2>2, <2>3
<1>5. CASE /\ Doubles = {}
           /\ Scan("all", 1, Len(text))
           /\ UNCHANGED <<text, head, tail, seenIPv4, address, outcome>>
  BY <1>1, <1>5, PartTypes DEF Begins, Start, ScanPhases, Scan
<1> QED
  BY <1>2, <1>3, <1>4, <1>5 DEF Start

(* Whatever a range ends with, its step has the shape of a part read. *)
LEMMA RangeStepShape ==
  ASSUME IInv, phase \in ScanPhases, NEW words \in Seq(Words), Push(words),
         seenIPv4' \in BOOLEAN, UNCHANGED <<text, address, outcome>>,
         EndRange \/ (at # last /\ Advance)
  PROVE  Reads
<1>1. TypeOK /\ AtInRange /\ RangeInv
  BY DEF IInv
<1>2. head' \in Seq(Words) /\ tail' \in Seq(Words) /\ (phase # "tail" => tail' = tail)
  BY <1>1, PushTypes DEF Push
<1>3. CASE EndRange
  BY <1>1, <1>2, <1>3, EndRangeTypes DEF Reads
<1>4. CASE at # last /\ Advance
  BY <1>1, <1>2, <1>4 DEF Reads, Advance, AtInRange, TypeOK
<1> QED
  BY <1>3, <1>4

LEMMA ParsePartShape ==
  ASSUME IInv, ParsePart
  PROVE  Fails \/ Reads
<1>1. TypeOK /\ phase \in ScanPhases /\ outcome = "parsing"
  BY DEF IInv, ParsePart, ScanPhases
<1>2. text[at] \in Seq(Pieces) /\ Len(text[at]) >= 1
  BY <1>1, PartTypes
<1>3. CASE Fail("InvalidNumberOfParts")
  BY <1>1, <1>3 DEF Fails, Errors
<1>4. CASE ParseQuad
  <2>1. PICK part \in Seq(Pieces) : part = text[at]
    BY <1>2
  <2>2. QuadOutcome(part) \in Errors \cup {"ok"}
    BY DEF QuadOutcome, Errors
  <2>3. CASE Fail("InvalidNumberOfParts") \/ (QuadOutcome(part) # "ok" /\ Fail(QuadOutcome(part)))
    BY <1>1, <2>2, <2>3 DEF Fails, Errors
  <2>4. CASE /\ QuadOutcome(part) = "ok"
             /\ seenIPv4' = TRUE /\ Push(QuadWords(part)) /\ EndRange
             /\ UNCHANGED <<text, address, outcome>>
    <3>1. QuadWords(part) \in Seq(Words)
      BY <2>4, QuadWordsAreWords
    <3> QED
      BY <1>1, <2>4, <3>1, RangeStepShape
  <2> QED
    BY <1>4, <2>1, <2>3, <2>4 DEF ParseQuad
<1>5. CASE ParseHextet
  <2>1. Hex[text[at][1]] \in Words \cup {NoNumber}
    BY <1>2, HexAssumption
  <2>2. PICK value \in Words \cup {NoNumber} : value = Hex[text[at][1]]
    BY <2>1
  <2>3. CASE Fail("FailedIntegralParsing")
    BY <1>1, <2>3 DEF Fails, Errors
  <2>4. CASE /\ value # NoNumber /\ Push(<<value>>)
             /\ IF at = last THEN EndRange ELSE Advance
             /\ UNCHANGED <<text, seenIPv4, address, outcome>>
    <3>1. <<value>> \in Seq(Words)
      BY <2>2, <2>4
    <3>2. seenIPv4' \in BOOLEAN
      BY <1>1, <2>4 DEF TypeOK
    <3> QED
      BY <1>1, <2>4, <3>1, <3>2, RangeStepShape
  <2> QED
    BY <1>5, <2>2, <2>3, <2>4 DEF ParseHextet
<1> QED
  BY <1>3, <1>4, <1>5 DEF ParsePart

(* Head, zeros and tail are eight words: there is room for the zeros.      *)
LEMMA AssembleShape ==
  ASSUME IInv, Assemble
  PROVE  Fails \/ Ends
<1>1. TypeOK /\ RangeInv /\ outcome = "parsing" /\ phase = "assemble"
  BY DEF IInv, Assemble
<1>2. CASE Fail("InvalidNumberOfParts")
  BY <1>1, <1>2 DEF Fails, Errors
<1>3. CASE /\ IF Doubles # {} THEN ~TooMany ELSE Len(head) = 8
           /\ address' = head \o Zeros(8 - (Len(head) + Len(tail))) \o tail
           /\ outcome' = "ok"
           /\ UNCHANGED <<text, phase, at, last, head, tail, seenIPv4>>
  <2> DEFINE n == 8 - (Len(head) + Len(tail))
  <2>1. head \in Seq(Words) /\ tail \in Seq(Words)
    BY <1>1 DEF TypeOK
  <2>2. n \in Nat
    <3>1. Len(head) \in Nat /\ Len(tail) \in Nat
      BY <2>1
    <3>2. CASE Doubles # {}
      BY <1>3, <3>1, <3>2 DEF TooMany
    <3>3. CASE Doubles = {}
      <4>1. Len(head) = 8 /\ Len(tail) = 0
        BY <1>1, <1>3, <3>3 DEF RangeInv
      <4> QED
        BY <4>1
    <3> QED
      BY <3>2, <3>3
  <2>3. n + Len(head) + Len(tail) = 8
    BY <2>1
  <2> HIDE DEF n
  <2>4. Zeros(n) \in Seq(Words) /\ Len(Zeros(n)) = n
    <3>1. 0 \in Words
      BY DEF Words, MaxWord
    <3> QED
      BY <2>2, <3>1 DEF Zeros
  <2>5. address' = head \o Zeros(n) \o tail
    BY <1>3 DEF n
  <2>6. address' \in Seq(Words) /\ Len(address') = 8
    BY <2>1, <2>2, <2>3, <2>4, <2>5
  <2> QED
    BY <1>1, <1>3, <2>6 DEF Ends
<1> QED
  BY <1>2, <1>3 DEF Assemble

LEMMA BeginsPreserves ==
  ASSUME IInv, Begins
  PROVE  IInv'
<1>1. TypeOK /\ RangeInv /\ Len(text) \in Nat \ {0}
  BY PartTypes DEF IInv
<1>2. TypeOK'
  BY <1>1 DEF Begins, TypeOK, ScanPhases
<1>3. AtInRange'
  BY <1>1 DEF Begins, AtInRange, ScanPhases
<1>4. RangeInv'
  BY <1>1 DEF Begins, RangeInv, Doubles, ScanPhases
<1> QED
  BY <1>2, <1>3, <1>4 DEF IInv

LEMMA ReadsPreserves ==
  ASSUME IInv, Reads
  PROVE  IInv'
<1>1. TypeOK /\ AtInRange /\ RangeInv /\ Len(text) \in Nat \ {0}
  BY PartTypes DEF IInv
<1>2. at' \in 1..Len(text) /\ last' \in 0..Len(text)
  BY <1>1 DEF Reads, TypeOK, AtInRange, ScanPhases
<1>3. TypeOK'
  BY <1>1, <1>2 DEF Reads, TypeOK, ScanPhases
<1>4. AtInRange'
  BY <1>1, <1>2 DEF Reads, AtInRange, ScanPhases, TypeOK
<1>5. RangeInv'
  BY <1>1 DEF Reads, RangeInv, Doubles, ScanPhases
<1> QED
  BY <1>3, <1>4, <1>5 DEF IInv

LEMMA EndsPreserves ==
  ASSUME IInv, Ends
  PROVE  IInv'
BY DEF Ends, IInv, TypeOK, AtInRange, RangeInv, Doubles, ScanPhases

LEMMA NextShape ==
  ASSUME IInv, Next
  PROVE  Fails \/ Begins \/ Reads \/ Ends
BY StartShape, ParsePartShape, AssembleShape DEF Next

LEMMA NextPreserves == IInv /\ [Next]_vars => IInv'
<1> SUFFICES ASSUME IInv, [Next]_vars PROVE IInv'
  OBVIOUS
<1>1. CASE Next
  <2>1. CASE Fails
    BY <2>1, FailPreserves DEF Fails
  <2> QED
    BY <1>1, <2>1, NextShape, BeginsPreserves, ReadsPreserves, EndsPreserves
<1>2. CASE UNCHANGED vars
  BY <1>2 DEF vars, IInv, TypeOK, AtInRange, RangeInv, Doubles
<1> QED
  BY <1>1, <1>2

LEMMA Invariance == Spec => []IInv
<1>1. Init => IInv
  BY InitEstablishes
<1>2. IInv /\ [Next]_vars => IInv'
  BY NextPreserves
<1> QED
  BY <1>1, <1>2, PTL DEF Spec

(* Whatever the text, FromStr looks at no part that is not there, and what *)
(* it assembles is eight words: hextets[] is never overrun.                *)
THEOREM NeverOverruns == Spec => []TypeOK
<1>1. IInv => TypeOK
  BY DEF IInv
<1> QED
  BY <1>1, Invariance, PTL

(* Whatever the text, every step of FromStr returns or goes on: neither    *)
(* the loop of parseRange nor what is around it can turn on the spot.      *)
THEOREM AlwaysMovesOn == Spec => MovesOn
<1> DEFINE Onward ==
      \/ outcome' # outcome
      \/ Rank[phase'] > Rank[phase]
      \/ phase' = phase /\ at < at' /\ at' <= last
<1>1. ASSUME IInv, Next PROVE Onward
  <2>1. CASE Fails
    BY <2>1 DEF Fails, Fail, Errors
  <2>2. CASE Begins
    BY <2>2 DEF Begins, Rank, ScanPhases
  <2>3. CASE Reads
    <3>1. at \in Int
      BY <1>1 DEF IInv, TypeOK
    <3>2. phase \in {"head", "tail", "all"}
      BY <2>3 DEF Reads, ScanPhases
    <3>3. Rank["head"] = 1 /\ Rank["tail"] = 2 /\ Rank["all"] = 2 /\ Rank["assemble"] = 3
      BY DEF Rank
    <3> QED
      BY <2>3, <3>1, <3>2, <3>3 DEF Reads
  <2>4. CASE Ends
    BY <2>4 DEF Ends
  <2> QED
    BY <1>1, <2>1, <2>2, <2>3, <2>4, NextShape
<1>2. IInv /\ [Next]_vars => [Onward]_vars
  BY <1>1
<1> QED
  BY <1>2, Invariance, PTL DEF Spec, MovesOn
-----------------------------------------------------------------------------
(* FromStr and the grammar agree on every text.  Above, the parser stays   *)
(* inside its text; from here on, what it has in its hands at each part:   *)
(* the words that the grammar assigns to the parts before it.              *)

(* The grammar of a range, by the places of its parts in the text. *)
Group(k) == ~Dotted(text[k]) /\ Hex[text[k][1]] # NoNumber

GoodRange(from, to) ==
  \A k \in from..to : Group(k) \/ (k = to /\ StrictQuad(text[k]))

Groups(from, n) == [k \in 1..n |-> Hex[text[from + k - 1][1]]]

WordsOf(from, to) ==
  IF Dotted(text[to])
  THEN Groups(from, to - from) \o QuadWords(text[to])
  ELSE Groups(from, to - from + 1)

(* Nothing stands before, or behind, the first "::". *)
NoHead == FirstDouble = 2 /\ text[1] = Empty
NoTail == FirstDouble + 1 = Len(text) /\ text[Len(text)] = Empty

HeadGood == NoHead \/ GoodRange(1, FirstDouble - 1)
TailGood == NoTail \/ GoodRange(FirstDouble + 1, Len(text))

HeadQuad == ~NoHead /\ Dotted(text[FirstDouble - 1])
TailQuad == ~NoTail /\ Dotted(text[Len(text)])

HeadWords == IF NoHead THEN << >> ELSE WordsOf(1, FirstDouble - 1)
TailWords == IF NoTail THEN << >> ELSE WordsOf(FirstDouble + 1, Len(text))

LEMMA TextParts ==
  ASSUME TypeOK
  PROVE  /\ text \in Seq(Parts) /\ Len(text) \in Nat \ {0}
         /\ \A k \in 1..Len(text) :
              /\ text[k] \in Seq(Pieces) /\ Len(text[k]) \in Nat \ {0}
              /\ text[k] = Empty => Len(text[k]) = 1 /\ text[k][1] = Nil
<1>1. text \in Seq(Parts) /\ text # << >>
  BY DEF TypeOK
<1>2. ASSUME NEW k \in 1..Len(text)
      PROVE  /\ text[k] \in Seq(Pieces) /\ Len(text[k]) \in Nat \ {0}
             /\ text[k] = Empty => Len(text[k]) = 1 /\ text[k][1] = Nil
  <2>1. text[k] \in Parts
    BY <1>1, <1>2
  <2>2. text[k] \in Seq(Pieces) /\ text[k] # << >>
    BY <2>1 DEF Parts
  <2>3. Len(text[k]) \in Nat \ {0}
    BY <2>2, EmptySeq
  <2>4. Len(Empty) = 1 /\ Empty[1] = Nil
    BY DEF Empty
  <2> QED
    BY <2>2, <2>3, <2>4
<1> QED
  BY <1>1, <1>2

(* An empty part is no part of a range. *)
LEMMA EmptyIsNoPart ==
  ASSUME NEW part, part = Empty
  PROVE  ~IsGroup(part) /\ ~StrictQuad(part) /\ ~Dotted(part)
<1>1. Len(Empty) = 1 /\ Empty[1] = Nil
  BY DEF Empty
<1> QED
  BY <1>1, HexAssumption DEF IsGroup, StrictQuad, LenientQuad, Dotted

(* A slice of the text is a range when its parts are those of one.         *)
LEMMA SliceGrammar ==
  ASSUME TypeOK, NEW from \in 1..Len(text), NEW to \in from..Len(text)
  PROVE  LET s == SubSeq(text, from, to) IN
         /\ s \in Seq(Parts) /\ s # << >> /\ Len(s) = to - from + 1
         /\ \A i \in 1..Len(s) : s[i] = text[from + i - 1]
         /\ IsRange(s) <=> GoodRange(from, to)
         /\ EndsInQuad(s) <=> Dotted(text[to])
         /\ RangeWords(s) = WordsOf(from, to)
<1> DEFINE s == SubSeq(text, from, to)
<1>1. /\ text \in Seq(Parts) /\ Len(text) \in Nat
      /\ from \in Nat /\ to \in Nat /\ from >= 1 /\ from <= to /\ to <= Len(text)
  BY TextParts
<1>2. \A i \in from..to : text[i] \in Parts
  BY <1>1
<1>3. /\ s \in Seq(Parts) /\ Len(s) = to - from + 1
      /\ \A i \in 1..(to - from + 1) : s[i] = text[from + i - 1]
  <2>1. /\ s \in Seq(Parts)
        /\ Len(s) = IF from <= to THEN to - from + 1 ELSE 0
        /\ \A i \in 1..(to - from + 1) : s[i] = text[from + i - 1]
    <3>1. from \in Int /\ to \in Int
      BY <1>1
    <3> QED
      BY <1>2, <3>1, SubSeqProperties
  <2> QED
    BY <1>1, <2>1
<1> HIDE DEF s
<1>4. s # << >> /\ Len(s) \in Nat /\ Len(s) >= 1
  BY <1>1, <1>3
<1>5. s[Len(s)] = text[to]
  BY <1>1, <1>3
<1>6. ASSUME GoodRange(from, to) PROVE IsRange(s)
  <2>1. ASSUME NEW i \in 1..Len(s)
        PROVE  IsGroup(s[i]) \/ (i = Len(s) /\ StrictQuad(s[i]))
    <3>1. PICK k \in from..to : k = from + i - 1
      BY <1>1, <1>3, <2>1
    <3>2. s[i] = text[k]
      BY <1>3, <2>1, <3>1
    <3>3. Group(k) \/ (k = to /\ StrictQuad(text[k]))
      BY <1>6, <3>1 DEF GoodRange
    <3>4. k = to => i = Len(s)
      BY <1>1, <1>3, <3>1
    <3> QED
      BY <3>2, <3>3, <3>4 DEF Group, IsGroup
  <2> QED
    BY <1>4, <2>1 DEF IsRange
<1>7. ASSUME IsRange(s) PROVE GoodRange(from, to)
  <2>1. ASSUME NEW k \in from..to
        PROVE  Group(k) \/ (k = to /\ StrictQuad(text[k]))
    <3>1. PICK i \in 1..Len(s) : i = k - from + 1
      BY <1>1, <1>3, <2>1
    <3>2. from + i - 1 = k
      BY <1>1, <2>1, <3>1
    <3>3. s[i] = text[k]
      BY <1>3, <3>1, <3>2
    <3>4. IsGroup(s[i]) \/ (i = Len(s) /\ StrictQuad(s[i]))
      BY <1>7, <3>1 DEF IsRange
    <3>5. i = Len(s) => k = to
      BY <1>1, <1>3, <3>1, <2>1
    <3> QED
      BY <3>3, <3>4, <3>5 DEF Group, IsGroup
  <2> QED
    BY <2>1 DEF GoodRange
<1>8. EndsInQuad(s) <=> Dotted(text[to])
  BY <1>4, <1>5 DEF EndsInQuad
<1>9. RangeWords(s) = WordsOf(from, to)
  <2>1. \A i \in 1..(to - from + 1) : Hex[s[i][1]] = Hex[text[from + i - 1][1]]
    BY <1>3
  <2>2. [i \in 1..Len(s) |-> Hex[s[i][1]]] = Groups(from, to - from + 1)
    BY <1>3, <2>1 DEF Groups
  <2>3. [i \in 1..(Len(s) - 1) |-> Hex[s[i][1]]] = Groups(from, to - from)
    <3>1. Len(s) - 1 = to - from
      BY <1>1, <1>3
    <3>2. \A i \in 1..(to - from) : i \in 1..(to - from + 1)
      BY <1>1
    <3> QED
      BY <3>1, <3>2, <2>1 DEF Groups
  <2> QED
    BY <1>5, <1>8, <2>2, <2>3 DEF RangeWords, WordsOf
<1> QED
  BY <1>3, <1>4, <1>6, <1>7, <1>8, <1>9 DEF s
-----------------------------------------------------------------------------
(* Which "::" a text is read at.                                           *)

LEMMA DoublesAreInside ==
  ASSUME TypeOK, NEW d \in Doubles
  PROVE  /\ d \in 2..(Len(text) - 1) /\ d \in 1..Len(text)
         /\ text[d] = Empty
         /\ d - 1 \in 1..Len(text) /\ d + 1 \in 1..Len(text)
  BY TextParts DEF Doubles

(* A second empty part is in the way of any reading. *)
LEMMA OneDoubleOnly ==
  ASSUME TypeOK, NEW d \in Doubles, NEW e \in Doubles, d # e
  PROVE  ReadingsAt(text, d) = {}
<1> DEFINE h == SubSeq(text, 1, d - 1)
           t == SubSeq(text, d + 1, Len(text))
<1>1. /\ Len(text) \in Nat /\ d \in 2..(Len(text) - 1) /\ e \in 2..(Len(text) - 1)
      /\ text[e] = Empty /\ 1 \in 1..Len(text) /\ Len(text) \in (d + 1)..Len(text)
      /\ d - 1 \in 1..Len(text) /\ d + 1 \in 1..Len(text)
  BY DoublesAreInside, TextParts
<1>2. ~IsGroup(text[e]) /\ ~StrictQuad(text[e]) /\ ~Dotted(text[e])
  BY <1>1, EmptyIsNoPart
<1>3. ~Group(e)
  BY <1>2 DEF Group, IsGroup
<1>4. Len(<<Empty>>) = 1
  OBVIOUS
<1>5. CASE e < d
  <2>1. d - 1 \in 1..Len(text) /\ e \in 1..(d - 1) /\ d - 1 # 1
    BY <1>1, <1>5
  <2>2. /\ h # << >> /\ Len(h) = d - 1
        /\ IsRange(h) <=> GoodRange(1, d - 1)
    <3>1. Len(h) = (d - 1) - 1 + 1
      BY <1>1, <2>1, SliceGrammar
    <3>2. h # << >> /\ (IsRange(h) <=> GoodRange(1, d - 1))
      BY <1>1, <2>1, SliceGrammar
    <3> QED
      BY <1>1, <3>1, <3>2
  <2>3. ~GoodRange(1, d - 1)
    BY <1>2, <1>3, <2>1 DEF GoodRange
  <2>4. Trimmed(h) = h
    BY <1>4, <2>1, <2>2 DEF Trimmed
  <2> QED
    BY <2>2, <2>3, <2>4 DEF ReadingsAt
<1>6. CASE d < e
  <2>1. e \in (d + 1)..Len(text) /\ d + 1 # Len(text)
    BY <1>1, <1>6
  <2>2. /\ t # << >> /\ Len(t) = Len(text) - d
        /\ IsRange(t) <=> GoodRange(d + 1, Len(text))
    <3>1. Len(t) = Len(text) - (d + 1) + 1
      BY <1>1, SliceGrammar
    <3>2. t # << >> /\ (IsRange(t) <=> GoodRange(d + 1, Len(text)))
      BY <1>1, SliceGrammar
    <3> QED
      BY <1>1, <3>1, <3>2
  <2>3. ~GoodRange(d + 1, Len(text))
    BY <1>2, <1>3, <2>1 DEF GoodRange
  <2>4. Trimmed(t) = t
    <3>1. Len(text) - d # 1
      BY <1>1, <2>1
    <3>2. t # <<Empty>>
      BY <1>4, <2>2, <3>1
    <3> QED
      BY <3>2 DEF Trimmed
  <2> QED
    BY <2>2, <2>3, <2>4 DEF ReadingsAt
<1> QED
  BY <1>1, <1>5, <1>6

LEMMA OnlyAtDoubles ==
  ASSUME NEW d \in 2..(Len(text) - 1), d \notin Doubles
  PROVE  ReadingsAt(text, d) = {}
  BY DEF Doubles, ReadingsAt

LEMMA WholeText ==
  ASSUME TypeOK
  PROVE  /\ IsRange(text) <=> GoodRange(1, Len(text))
         /\ RangeWords(text) = WordsOf(1, Len(text))
<1>1. text \in Seq(Parts) /\ 1 \in 1..Len(text) /\ Len(text) \in 1..Len(text)
  BY TextParts
<1>2. SubSeq(text, 1, Len(text)) = text
  BY <1>1, SubSeqFull
<1> QED
  BY <1>1, <1>2, SliceGrammar

(* Without "::" a text is one range. *)
LEMMA ReadAsRange ==
  ASSUME TypeOK, Doubles = {}
  PROVE  Readings(text) = IF GoodRange(1, Len(text)) /\ Len(WordsOf(1, Len(text))) = 8
                          THEN {WordsOf(1, Len(text))} ELSE {}
<1>1. \A d \in 2..(Len(text) - 1) : ReadingsAt(text, d) = {}
  BY OnlyAtDoubles
<1>2. UNION { ReadingsAt(text, d) : d \in 2..(Len(text) - 1) } = {}
  BY <1>1
<1> QED
  BY <1>2, WholeText DEF Readings

LEMMA NoRangeWithDouble ==
  ASSUME TypeOK, Doubles # {}
  PROVE  ~IsRange(text)
<1>1. PICK d \in Doubles : TRUE
  OBVIOUS
<1>2. d \in 1..Len(text) /\ text[d] = Empty
  BY DoublesAreInside
<1>3. ~Group(d) /\ ~StrictQuad(text[d])
  BY <1>2, EmptyIsNoPart DEF Group, IsGroup
<1> QED
  BY <1>2, <1>3, WholeText DEF GoodRange

(* With two that do not touch, a text has no reading. *)
LEMMA SeveralDoubles ==
  ASSUME TypeOK, Doubles # {}, SecondDoubles # {}
  PROVE  Readings(text) = {}
<1>1. PICK e \in Doubles : e >= FirstDouble + 2
  BY DEF SecondDoubles
<1>2. FirstDouble \in Doubles /\ FirstDouble # e
  <2>1. FirstDouble \in Doubles /\ FirstDouble \in 2..(Len(text) - 1)
    BY FirstDoubleIsDouble
  <2>2. e \in 2..(Len(text) - 1) /\ Len(text) \in Nat
    BY DoublesAreInside, TextParts
  <2> QED
    BY <1>1, <2>1, <2>2
<1>3. \A d \in 2..(Len(text) - 1) : ReadingsAt(text, d) = {}
  <2>1. TAKE d \in 2..(Len(text) - 1)
  <2>2. CASE d \notin Doubles
    BY <2>2, OnlyAtDoubles
  <2>3. CASE d \in Doubles /\ d # e
    BY <2>3, OneDoubleOnly
  <2>4. CASE d \in Doubles /\ d # FirstDouble
    BY <1>2, <2>4, OneDoubleOnly
  <2> QED
    BY <1>2, <2>2, <2>3, <2>4
<1> QED
  BY <1>3, NoRangeWithDouble DEF Readings

(* Otherwise it is read at the first one. *)
LEMMA ReadAtFirst ==
  ASSUME TypeOK, Doubles # {}
  PROVE  Readings(text) = ReadingsAt(text, FirstDouble)
<1>1. FirstDouble \in Doubles /\ FirstDouble \in 2..(Len(text) - 1)
  BY FirstDoubleIsDouble
<1>2. ASSUME NEW d \in 2..(Len(text) - 1), d # FirstDouble
      PROVE  ReadingsAt(text, d) = {}
  <2>1. CASE d \notin Doubles
    BY <2>1, OnlyAtDoubles
  <2>2. CASE d \in Doubles
    BY <1>1, <1>2, <2>2, OneDoubleOnly
  <2> QED
    BY <2>1, <2>2
<1>3. UNION { ReadingsAt(text, d) : d \in 2..(Len(text) - 1) }
        = ReadingsAt(text, FirstDouble)
  BY <1>1, <1>2
<1> QED
  BY <1>3, NoRangeWithDouble DEF Readings

(* The empty sequence of parts contributes no words. *)
LEMMA NothingToRead ==
  RangeWords(<< >>) = << >> /\ ~EndsInQuad(<< >>)
<1>1. ~EndsInQuad(<< >>) /\ Len(<< >>) = 0
  BY DEF EndsInQuad
<1> QED
  BY <1>1 DEF RangeWords

LEMMA HeadGrammar ==
  ASSUME TypeOK, Doubles # {}
  PROVE  LET h == Trimmed(SubSeq(text, 1, FirstDouble - 1)) IN
         /\ (h = << >> \/ IsRange(h)) <=> HeadGood
         /\ EndsInQuad(h) <=> HeadQuad
         /\ RangeWords(h) = HeadWords
<1> DEFINE s == SubSeq(text, 1, FirstDouble - 1)
<1>1. /\ FirstDouble \in 2..(Len(text) - 1) /\ Len(text) \in Nat
      /\ 1 \in 1..Len(text) /\ FirstDouble - 1 \in 1..Len(text)
  BY FirstDoubleIsDouble, TextParts
<1>2. /\ s \in Seq(Parts) /\ s # << >>
      /\ Len(s) = (FirstDouble - 1) - 1 + 1
      /\ \A i \in 1..Len(s) : s[i] = text[1 + i - 1]
  BY <1>1, SliceGrammar
<1>3. /\ IsRange(s) <=> GoodRange(1, FirstDouble - 1)
      /\ EndsInQuad(s) <=> Dotted(text[FirstDouble - 1])
      /\ RangeWords(s) = WordsOf(1, FirstDouble - 1)
  BY <1>1, SliceGrammar
<1> HIDE DEF s
<1>4. Len(s) = FirstDouble - 1 /\ s[1] = text[1]
  BY <1>1, <1>2
<1>5. s = <<Empty>> <=> NoHead
  <2>1. s = <<Empty>> <=> Len(s) = 1 /\ s[1] = Empty
    BY <1>2
  <2> QED
    BY <1>1, <1>4, <2>1 DEF NoHead
<1>6. CASE NoHead
  <2>1. Trimmed(s) = << >>
    BY <1>5, <1>6 DEF Trimmed
  <2> QED
    BY <1>6, <2>1, NothingToRead DEF HeadGood, HeadQuad, HeadWords, s
<1>7. CASE ~NoHead
  <2>1. Trimmed(s) = s
    BY <1>5, <1>7 DEF Trimmed
  <2> QED
    BY <1>2, <1>3, <1>7, <2>1 DEF HeadGood, HeadQuad, HeadWords, s
<1> QED
  BY <1>6, <1>7

LEMMA TailGrammar ==
  ASSUME TypeOK, Doubles # {}
  PROVE  LET t == Trimmed(SubSeq(text, FirstDouble + 1, Len(text))) IN
         /\ (t = << >> \/ IsRange(t)) <=> TailGood
         /\ EndsInQuad(t) <=> TailQuad
         /\ RangeWords(t) = TailWords
<1> DEFINE s == SubSeq(text, FirstDouble + 1, Len(text))
<1>1. /\ FirstDouble \in 2..(Len(text) - 1) /\ Len(text) \in Nat
      /\ FirstDouble + 1 \in 1..Len(text)
      /\ Len(text) \in (FirstDouble + 1)..Len(text)
  BY FirstDoubleIsDouble, TextParts
<1>2. /\ s \in Seq(Parts) /\ s # << >>
      /\ Len(s) = Len(text) - (FirstDouble + 1) + 1
      /\ \A i \in 1..Len(s) : s[i] = text[(FirstDouble + 1) + i - 1]
  BY <1>1, SliceGrammar
<1>3. /\ IsRange(s) <=> GoodRange(FirstDouble + 1, Len(text))
      /\ EndsInQuad(s) <=> Dotted(text[Len(text)])
      /\ RangeWords(s) = WordsOf(FirstDouble + 1, Len(text))
  BY <1>1, SliceGrammar
<1> HIDE DEF s
<1>4. Len(s) = Len(text) - FirstDouble /\ s[1] = text[FirstDouble + 1]
  BY <1>1, <1>2
<1>5. s = <<Empty>> <=> NoTail
  <2>1. s = <<Empty>> <=> Len(s) = 1 /\ s[1] = Empty
    BY <1>2
  <2>2. Len(s) = 1 <=> FirstDouble + 1 = Len(text)
    BY <1>1, <1>4
  <2> QED
    BY <1>4, <2>1, <2>2 DEF NoTail
<1>6. CASE NoTail
  <2>1. Trimmed(s) = << >>
    BY <1>5, <1>6 DEF Trimmed
  <2> QED
    BY <1>6, <2>1, NothingToRead DEF TailGood, TailQuad, TailWords, s
<1>7. CASE ~NoTail
  <2>1. Trimmed(s) = s
    BY <1>5, <1>7 DEF Trimmed
  <2> QED
    BY <1>2, <1>3, <1>7, <2>1 DEF TailGood, TailQuad, TailWords, s
<1> QED
  BY <1>6, <1>7

(* With a "::" a text is read in two halves. *)
LEMMA ReadInHalves ==
  ASSUME TypeOK, Doubles # {}
  PROVE  Readings(text) =
           IF /\ HeadGood /\ TailGood /\ ~(HeadQuad /\ TailQuad)
              /\ Len(HeadWords) + Len(TailWords) <= 8
           THEN { HeadWords \o Zeros(8 - (Len(HeadWords) + Len(TailWords))) \o TailWords }
           ELSE {}
<1>1. text[FirstDouble] = Empty
  BY FirstDoubleIsDouble DEF Doubles
<1> QED
  BY <1>1, ReadAtFirst, HeadGrammar, TailGrammar DEF ReadingsAt
-----------------------------------------------------------------------------
(* What parseRange has when it stands at the part upto. *)
ReadTo(from, upto, words) ==
  /\ from <= upto
  /\ \A k \in from..(upto - 1) : Group(k)
  /\ words = Groups(from, upto - from)

(* The variables of the parser, in a phase, hold what the grammar assigns  *)
(* to the parts that are behind it.                                        *)
Holds(p, a, l, h, t, s) ==
  /\ p = "start" => h = << >> /\ t = << >> /\ ~s
  /\ p = "head"  => /\ ~NoHead /\ l = FirstDouble - 1 /\ ReadTo(1, a, h)
                    /\ t = << >> /\ ~s
  /\ p = "tail"  => /\ HeadGood /\ h = HeadWords /\ (s <=> HeadQuad)
                    /\ ~NoTail /\ l = Len(text) /\ ReadTo(FirstDouble + 1, a, t)
  /\ p = "all"   => l = Len(text) /\ ReadTo(1, a, h) /\ ~s
  /\ p = "assemble" /\ Doubles = {} => GoodRange(1, Len(text)) /\ h = WordsOf(1, Len(text))
  /\ p = "assemble" /\ Doubles # {} =>
       /\ HeadGood /\ h = HeadWords /\ TailGood /\ t = TailWords
       /\ ~(HeadQuad /\ TailQuad)

ReadsGrammar == Holds(phase, at, last, head, tail, seenIPv4)

ParseInv == IInv /\ ReadsGrammar /\ AgreesWithGrammar

(* The text stays, and with it what the grammar says of it. *)
LEMMA TextKept ==
  ASSUME text' = text
  PROVE  /\ Doubles' = Doubles /\ FirstDouble' = FirstDouble
         /\ NoHead' = NoHead /\ NoTail' = NoTail
         /\ HeadGood' = HeadGood /\ TailGood' = TailGood
         /\ HeadQuad' = HeadQuad /\ TailQuad' = TailQuad
         /\ HeadWords' = HeadWords /\ TailWords' = TailWords
<1>1. Doubles' = Doubles
  BY DEF Doubles
<1>2. FirstDouble' = FirstDouble
  BY <1>1 DEF FirstDouble
<1>3. NoHead' = NoHead /\ NoTail' = NoTail
  BY <1>2 DEF NoHead, NoTail
<1>4. HeadGood' = HeadGood /\ TailGood' = TailGood
  BY <1>2, <1>3 DEF HeadGood, TailGood, GoodRange, Group
<1>5. HeadQuad' = HeadQuad /\ TailQuad' = TailQuad
  BY <1>2, <1>3 DEF HeadQuad, TailQuad
<1>6. HeadWords' = HeadWords /\ TailWords' = TailWords
  BY <1>2, <1>3 DEF HeadWords, TailWords, WordsOf, Groups
<1> QED
  BY <1>1, <1>2, <1>3, <1>4, <1>5, <1>6

LEMMA HoldsNext ==
  ASSUME text' = text, Holds(phase', at', last', head', tail', seenIPv4')
  PROVE  ReadsGrammar'
<1>1. Len(text)' = Len(text) /\ GoodRange(1, Len(text))' = GoodRange(1, Len(text))
  BY DEF GoodRange, Group
<1>2. WordsOf(1, Len(text))' = WordsOf(1, Len(text))
  BY DEF WordsOf, Groups
<1>3. ReadTo(1, at, head)' = ReadTo(1, at', head')
  BY DEF ReadTo, Group, Groups
<1>4. ReadTo(FirstDouble + 1, at, tail)' = ReadTo(FirstDouble + 1, at', tail')
  BY TextKept DEF ReadTo, Group, Groups
<1> QED
  BY <1>1, <1>2, <1>3, <1>4, TextKept DEF ReadsGrammar, Holds
-----------------------------------------------------------------------------
(* The quads that parseRange accepts are the strict ones. *)
LEMMA QuadIsStrict ==
  ASSUME NEW part \in Seq(Pieces)
  PROVE  QuadOutcome(part) = "ok" <=> StrictQuad(part)
<1>1. Len(part) \in Nat
  OBVIOUS
<1>2. StrictQuad(part) <=> /\ Len(part) = 4
                           /\ \A i \in 1..4 : IsOctet(part[i]) /\ part[i] \in Whole
  BY DEF StrictQuad, LenientQuad
<1> QED
  BY <1>1, <1>2 DEF QuadOutcome

LEMMA QuadIsDotted ==
  ASSUME NEW part \in Seq(Pieces), StrictQuad(part)
  PROVE  Dotted(part)
<1>1. PICK n \in Nat : n = Len(part)
  OBVIOUS
<1>2. n = 4
  BY <1>1 DEF StrictQuad, LenientQuad
<1>3. n > 1
  BY <1>2
<1> QED
  BY <1>1, <1>3 DEF Dotted

LEMMA NothingReadYet ==
  ASSUME NEW from \in Nat
  PROVE  ReadTo(from, from, << >>)
<1>1. Groups(from, 0) = << >>
  BY DEF Groups
<1> QED
  BY <1>1 DEF ReadTo

(* One more group. *)
LEMMA GroupRead ==
  ASSUME TypeOK, NEW from \in Nat, NEW upto \in 1..Len(text), NEW words,
         ReadTo(from, upto, words), Group(upto)
  PROVE  ReadTo(from, upto + 1, words \o <<Hex[text[upto][1]]>>)
<1>1. upto \in Nat /\ Len(text) \in Nat /\ from <= upto
  BY TextParts DEF ReadTo
<1>2. PICK n \in Nat : n = upto - from
  BY <1>1
<1>3. upto + 1 - from = n + 1 /\ from + n = upto /\ from + (n + 1) - 1 = upto
  BY <1>1, <1>2
<1>4. Groups(from, n) \o <<Hex[text[upto][1]]>> = Groups(from, n + 1)
  BY <1>2, <1>3 DEF Groups
<1>5. \A k \in from..(upto + 1 - 1) : Group(k)
  BY <1>1 DEF ReadTo
<1>6. words = Groups(from, n)
  BY <1>2 DEF ReadTo
<1> QED
  BY <1>1, <1>3, <1>4, <1>5, <1>6, SMTT(60) DEF ReadTo

(* The last part of a range, a group or a quad. *)
NewWords(part) == IF Dotted(part) THEN QuadWords(part) ELSE <<Hex[part[1]]>>

LEMMA RangeRead ==
  ASSUME TypeOK, NEW from \in Nat, NEW to \in 1..Len(text), NEW words,
         ReadTo(from, to, words), Group(to) \/ StrictQuad(text[to])
  PROVE  GoodRange(from, to) /\ words \o NewWords(text[to]) = WordsOf(from, to)
<1>1. to \in Nat /\ Len(text) \in Nat /\ from <= to
  BY TextParts DEF ReadTo
<1>2. GoodRange(from, to)
  <2>1. ASSUME NEW k \in from..to, k # to PROVE Group(k)
    <3>1. k \in from..(to - 1)
      BY <1>1, <2>1
    <3> QED
      BY <3>1 DEF ReadTo
  <2> QED
    BY <2>1 DEF GoodRange
<1>3. CASE Dotted(text[to])
  <2>1. NewWords(text[to]) = QuadWords(text[to]) /\ words = Groups(from, to - from)
    BY <1>3 DEF NewWords, ReadTo
  <2> QED
    BY <1>2, <1>3, <2>1 DEF WordsOf
<1>4. CASE ~Dotted(text[to])
  <2>1. Group(to)
    <3>1. text[to] \in Seq(Pieces)
      BY TextParts
    <3> QED
      BY <1>4, <3>1, QuadIsDotted
  <2>2. ReadTo(from, to + 1, words \o <<Hex[text[to][1]]>>)
    BY <2>1, GroupRead
  <2>3. words \o <<Hex[text[to][1]]>> = Groups(from, to - from + 1)
    <3>1. to + 1 - from = to - from + 1
      BY <1>1
    <3> QED
      BY <2>2, <3>1, SMTT(60) DEF ReadTo
  <2> QED
    BY <1>2, <1>4, <2>3 DEF NewWords, WordsOf
<1> QED
  BY <1>3, <1>4

(* A part that is neither leaves its range, and the text, without reading. *)
LEMMA Refused ==
  ASSUME ParseInv, phase \in ScanPhases,
         \/ ~Group(at) /\ ~(at = last /\ StrictQuad(text[at]))
         \/ seenIPv4 /\ Dotted(text[at]) /\ at = last
  PROVE  Readings(text) = {}
<1>1. /\ TypeOK /\ AtInRange /\ RangeInv
      /\ Holds(phase, at, last, head, tail, seenIPv4)
  BY DEF ParseInv, IInv, ReadsGrammar
<1>2. at \in Nat /\ last \in Nat /\ at <= last /\ Len(text) \in Nat
  BY <1>1, TextParts DEF AtInRange, TypeOK
<1>3. ASSUME NEW from \in Nat, from <= at,
             ~Group(at) /\ ~(at = last /\ StrictQuad(text[at]))
      PROVE  ~GoodRange(from, last)
  BY <1>2, <1>3 DEF GoodRange
<1>4. CASE phase = "head"
  <2>1. /\ ~NoHead /\ last = FirstDouble - 1 /\ ReadTo(1, at, head) /\ ~seenIPv4
        /\ Doubles # {}
    BY <1>1, <1>4 DEF Holds, RangeInv
  <2>2. 1 <= at
    BY <2>1 DEF ReadTo
  <2>3. ~GoodRange(1, last)
    BY <1>3, <2>1, <2>2
  <2> QED
    BY <1>1, <2>1, <2>3, ReadInHalves DEF HeadGood
<1>5. CASE phase = "tail"
  <2>1. /\ ~NoTail /\ last = Len(text) /\ ReadTo(FirstDouble + 1, at, tail)
        /\ (seenIPv4 <=> HeadQuad) /\ Doubles # {}
    BY <1>1, <1>5 DEF Holds, RangeInv
  <2>2. FirstDouble + 1 \in Nat /\ FirstDouble + 1 <= at
    BY <1>1, <2>1, FirstDoubleIsDouble DEF ReadTo
  <2>3. CASE ~Group(at) /\ ~(at = last /\ StrictQuad(text[at]))
    <3>1. ~GoodRange(FirstDouble + 1, last)
      BY <1>3, <2>2, <2>3
    <3> QED
      BY <1>1, <2>1, <3>1, ReadInHalves DEF TailGood
  <2>4. CASE seenIPv4 /\ Dotted(text[at]) /\ at = last
    BY <1>1, <2>1, <2>4, ReadInHalves DEF TailQuad
  <2> QED
    BY <2>3, <2>4
<1>6. CASE phase = "all"
  <2>1. last = Len(text) /\ ReadTo(1, at, head) /\ ~seenIPv4 /\ Doubles = {}
    BY <1>1, <1>6 DEF Holds, RangeInv
  <2>2. 1 <= at
    BY <2>1 DEF ReadTo
  <2>3. ~GoodRange(1, last)
    BY <1>3, <2>1, <2>2
  <2> QED
    BY <1>1, <2>1, <2>3, ReadAsRange
<1> QED
  BY <1>4, <1>5, <1>6 DEF ScanPhases
-----------------------------------------------------------------------------
(* The head is read: the tail comes next, when there is one. *)
LEMMA TailEntered ==
  ASSUME TypeOK, Doubles # {}, EnterTail, NEW h, NEW s \in BOOLEAN,
         HeadGood, h = HeadWords, s <=> HeadQuad
  PROVE  Holds(phase', at', last', h, << >>, s)
<1>1. CASE NoTail
  <2>1. phase' = "assemble"
    BY <1>1 DEF EnterTail, NoTail
  <2>2. TailGood /\ TailWords = << >> /\ ~TailQuad
    BY <1>1 DEF TailGood, TailWords, TailQuad
  <2> QED
    BY <2>1, <2>2 DEF Holds
<1>2. CASE ~NoTail
  <2>1. phase' = "tail" /\ at' = FirstDouble + 1 /\ last' = Len(text)
    BY <1>2 DEF EnterTail, NoTail, Scan
  <2>2. FirstDouble + 1 \in Nat
    BY FirstDoubleIsDouble
  <2>3. ReadTo(FirstDouble + 1, FirstDouble + 1, << >>)
    BY <2>2, NothingReadYet
  <2> QED
    BY <1>2, <2>1, <2>3 DEF Holds
<1> QED
  BY <1>1, <1>2

(* A group is read, and it is not the last of its range. *)
LEMMA AdvanceHolds ==
  ASSUME ParseInv, phase \in ScanPhases, Group(at), at # last,
         Push(<<Hex[text[at][1]]>>), Advance, seenIPv4' = seenIPv4
  PROVE  Holds(phase', at', last', head', tail', seenIPv4')
<1>1. /\ TypeOK /\ AtInRange /\ RangeInv
      /\ Holds(phase, at, last, head, tail, seenIPv4)
  BY DEF ParseInv, IInv, ReadsGrammar
<1>2. at \in 1..Len(text) /\ phase' = phase /\ at' = at + 1 /\ last' = last
  BY <1>1 DEF TypeOK, Advance
<1>3. ASSUME NEW from \in Nat, NEW words, ReadTo(from, at, words)
      PROVE  ReadTo(from, at', words \o <<Hex[text[at][1]]>>)
  BY <1>1, <1>2, <1>3, GroupRead
<1>4. CASE phase = "head"
  <2>1. head' = head \o <<Hex[text[at][1]]>> /\ tail' = tail
    BY <1>4 DEF Push
  <2>2. /\ ~NoHead /\ last = FirstDouble - 1 /\ ReadTo(1, at, head)
        /\ tail = << >> /\ ~seenIPv4
    BY <1>1, <1>4 DEF Holds
  <2>3. ReadTo(1, at', head')
    BY <1>3, <2>1, <2>2
  <2> QED
    BY <1>2, <1>4, <2>1, <2>2, <2>3 DEF Holds
<1>5. CASE phase = "tail"
  <2>1. tail' = tail \o <<Hex[text[at][1]]>> /\ head' = head
    BY <1>5 DEF Push
  <2>2. /\ HeadGood /\ head = HeadWords /\ (seenIPv4 <=> HeadQuad)
        /\ ~NoTail /\ last = Len(text) /\ ReadTo(FirstDouble + 1, at, tail)
    BY <1>1, <1>5 DEF Holds
  <2>3. FirstDouble + 1 \in Nat
    BY <1>1, <1>5, FirstDoubleIsDouble DEF RangeInv
  <2>4. ReadTo(FirstDouble + 1, at', tail')
    BY <1>3, <2>1, <2>2, <2>3
  <2> QED
    BY <1>2, <1>5, <2>1, <2>2, <2>4 DEF Holds
<1>6. CASE phase = "all"
  <2>1. head' = head \o <<Hex[text[at][1]]>>
    BY <1>6 DEF Push
  <2>2. last = Len(text) /\ ReadTo(1, at, head) /\ ~seenIPv4
    BY <1>1, <1>6 DEF Holds
  <2>3. ReadTo(1, at', head')
    BY <1>3, <2>1, <2>2
  <2> QED
    BY <1>2, <1>6, <2>2, <2>3 DEF Holds
<1> QED
  BY <1>4, <1>5, <1>6 DEF ScanPhases

(* The last part of a range is read, be it a group or the quad. *)
LEMMA EndRangeHolds ==
  ASSUME ParseInv, phase \in ScanPhases, at = last,
         Group(at) \/ (StrictQuad(text[at]) /\ ~seenIPv4),
         Push(NewWords(text[at])), EndRange,
         seenIPv4' = (seenIPv4 \/ Dotted(text[at]))
  PROVE  Holds(phase', at', last', head', tail', seenIPv4')
<1>1. /\ TypeOK /\ AtInRange /\ RangeInv
      /\ Holds(phase, at, last, head, tail, seenIPv4)
  BY DEF ParseInv, IInv, ReadsGrammar
<1>2. at \in 1..Len(text) /\ seenIPv4 \in BOOLEAN
  BY <1>1 DEF TypeOK
<1>3. ASSUME NEW from \in Nat, NEW words, ReadTo(from, at, words)
      PROVE  GoodRange(from, last) /\ words \o NewWords(text[at]) = WordsOf(from, last)
  BY <1>1, <1>2, <1>3, RangeRead
<1>4. CASE phase = "head"
  <2>1. head' = head \o NewWords(text[at]) /\ tail' = tail /\ EnterTail
    BY <1>4 DEF Push, EndRange
  <2>2. /\ ~NoHead /\ last = FirstDouble - 1 /\ ReadTo(1, at, head)
        /\ tail = << >> /\ ~seenIPv4 /\ Doubles # {}
    BY <1>1, <1>4 DEF Holds, RangeInv
  <2>3. HeadGood /\ head' = HeadWords
    BY <1>3, <2>1, <2>2 DEF HeadGood, HeadWords
  <2>4. seenIPv4' <=> HeadQuad
    BY <2>2 DEF HeadQuad
  <2> QED
    BY <1>1, <1>2, <2>1, <2>2, <2>3, <2>4, TailEntered
<1>5. CASE phase = "tail"
  <2>1. tail' = tail \o NewWords(text[at]) /\ head' = head /\ phase' = "assemble"
    BY <1>5 DEF Push, EndRange
  <2>2. /\ HeadGood /\ head = HeadWords /\ (seenIPv4 <=> HeadQuad)
        /\ ~NoTail /\ last = Len(text) /\ ReadTo(FirstDouble + 1, at, tail)
        /\ Doubles # {}
    BY <1>1, <1>5 DEF Holds, RangeInv
  <2>3. FirstDouble + 1 \in Nat
    BY <1>1, <2>2, FirstDoubleIsDouble
  <2>4. TailGood /\ tail' = TailWords
    BY <1>3, <2>1, <2>2, <2>3 DEF TailGood, TailWords
  <2>5. ~(HeadQuad /\ TailQuad)
    BY <2>2 DEF TailQuad, Group
  <2> QED
    BY <2>1, <2>2, <2>4, <2>5 DEF Holds
<1>6. CASE phase = "all"
  <2>1. head' = head \o NewWords(text[at]) /\ phase' = "assemble"
    BY <1>6 DEF Push, EndRange
  <2>2. last = Len(text) /\ ReadTo(1, at, head) /\ Doubles = {}
    BY <1>1, <1>6 DEF Holds, RangeInv
  <2>3. GoodRange(1, Len(text)) /\ head' = WordsOf(1, Len(text))
    BY <1>3, <2>1, <2>2
  <2> QED
    BY <2>1, <2>2, <2>3 DEF Holds
<1> QED
  BY <1>4, <1>5, <1>6 DEF ScanPhases
-----------------------------------------------------------------------------
(* A step that does not return keeps what has been read. *)
Goes ==
  /\ text' = text /\ outcome' = "parsing" /\ address' = address
  /\ Holds(phase', at', last', head', tail', seenIPv4')

(* A step that refuses the text is right to. *)
Refuses ==
  /\ \E kind \in Errors : Fail(kind)
  /\ Readings(text) = {}

(* One that accepts it returns the address it spells. *)
Accepts ==
  /\ Readings(text) = {address'} /\ outcome' = "ok"
  /\ UNCHANGED <<text, phase, at, last, head, tail, seenIPv4>>

LEMMA StartReads ==
  ASSUME ParseInv, Start
  PROVE  Goes \/ Refuses
<1>1. /\ TypeOK /\ Holds(phase, at, last, head, tail, seenIPv4)
      /\ phase = "start" /\ outcome = "parsing"
  BY DEF ParseInv, IInv, ReadsGrammar, Start
<1>2. head = << >> /\ tail = << >> /\ ~seenIPv4 /\ seenIPv4 \in BOOLEAN
  BY <1>1 DEF Holds, TypeOK
<1>3. CASE text = <<Empty>> /\ Fail("InvalidNumberOfParts")
  <2>1. Len(text) = 1 /\ text[1] = Empty
    BY <1>3
  <2>2. Doubles = {}
    BY <2>1 DEF Doubles
  <2>3. ~Group(1) /\ ~StrictQuad(text[1])
    BY <2>1, EmptyIsNoPart DEF Group, IsGroup
  <2>4. ~GoodRange(1, Len(text))
    BY <2>1, <2>3 DEF GoodRange
  <2> QED
    BY <1>1, <1>3, <2>2, <2>4, ReadAsRange DEF Refuses, Errors
<1>4. CASE Doubles # {} /\ SecondDoubles # {} /\ Fail("MultipleColon")
  BY <1>1, <1>4, SeveralDoubles DEF Refuses, Errors
<1>5. CASE /\ Doubles # {}
           /\ IF NoHead THEN EnterTail ELSE Scan("head", 1, FirstDouble - 1)
           /\ UNCHANGED <<text, head, tail, seenIPv4, address, outcome>>
  <2>1. CASE NoHead
    <3>1. HeadGood /\ head = HeadWords /\ (seenIPv4 <=> HeadQuad)
      BY <1>2, <2>1 DEF HeadGood, HeadWords, HeadQuad
    <3>2. Holds(phase', at', last', head, << >>, seenIPv4)
      BY <1>1, <1>2, <1>5, <2>1, <3>1, TailEntered
    <3> QED
      BY <1>1, <1>2, <1>5, <3>2 DEF Goes
  <2>2. CASE ~NoHead
    <3>1. phase' = "head" /\ at' = 1 /\ last' = FirstDouble - 1
      BY <1>5, <2>2 DEF Scan
    <3>2. Holds(phase', at', last', head', tail', seenIPv4')
      BY <1>2, <1>5, <2>2, <3>1, NothingReadYet DEF Holds
    <3> QED
      BY <1>1, <1>5, <3>2 DEF Goes
  <2> QED
    BY <2>1, <2>2
<1>6. CASE /\ Doubles = {} /\ Scan("all", 1, Len(text))
           /\ UNCHANGED <<text, head, tail, seenIPv4, address, outcome>>
  <2>1. phase' = "all" /\ at' = 1 /\ last' = Len(text)
    BY <1>6 DEF Scan
  <2>2. Holds(phase', at', last', head', tail', seenIPv4')
    BY <1>2, <1>6, <2>1, NothingReadYet DEF Holds
  <2> QED
    BY <1>1, <1>6, <2>2 DEF Goes
<1> QED
  BY <1>3, <1>4, <1>5, <1>6 DEF Start, NoHead

LEMMA QuadReads ==
  ASSUME ParseInv, phase \in ScanPhases, outcome = "parsing",
         Dotted(text[at]), ParseQuad
  PROVE  Goes \/ Refuses
<1>1. TypeOK /\ text[at] \in Seq(Pieces) /\ ~Group(at) /\ seenIPv4 \in BOOLEAN
  BY PartTypes DEF ParseInv, IInv, Group, TypeOK
<1>2. PICK part \in Seq(Pieces) : part = text[at]
  BY <1>1
<1>3. CASE (at # last \/ seenIPv4) /\ Fail("InvalidNumberOfParts")
  BY <1>1, <1>3, Refused DEF Refuses, Errors
<1>4. CASE QuadOutcome(part) # "ok" /\ Fail(QuadOutcome(part))
  <2>1. QuadOutcome(part) \in Errors
    BY <1>4 DEF QuadOutcome, Errors
  <2>2. ~StrictQuad(text[at])
    BY <1>2, <1>4, QuadIsStrict
  <2> QED
    BY <1>1, <1>4, <2>1, <2>2, Refused DEF Refuses
<1>5. CASE /\ at = last /\ ~seenIPv4 /\ QuadOutcome(part) = "ok"
           /\ seenIPv4' = TRUE /\ Push(QuadWords(part)) /\ EndRange
           /\ UNCHANGED <<text, address, outcome>>
  <2>1. StrictQuad(text[at])
    BY <1>2, <1>5, QuadIsStrict
  <2>2. NewWords(text[at]) = QuadWords(part) /\ seenIPv4' = (seenIPv4 \/ Dotted(text[at]))
    BY <1>2, <1>5 DEF NewWords
  <2>3. Holds(phase', at', last', head', tail', seenIPv4')
    BY <1>5, <2>1, <2>2, EndRangeHolds
  <2> QED
    BY <1>5, <2>3 DEF Goes
<1> QED
  BY <1>2, <1>3, <1>4, <1>5 DEF ParseQuad

LEMMA HextetReads ==
  ASSUME ParseInv, phase \in ScanPhases, outcome = "parsing",
         ~Dotted(text[at]), ParseHextet
  PROVE  Goes \/ Refuses
<1>1. TypeOK /\ seenIPv4 \in BOOLEAN
  BY DEF ParseInv, IInv, TypeOK
<1>2. ~StrictQuad(text[at])
  <2>1. text[at] \in Seq(Pieces)
    BY <1>1, TextParts DEF TypeOK
  <2> QED
    BY <2>1, QuadIsDotted
<1>3. CASE Hex[text[at][1]] = NoNumber /\ Fail("FailedIntegralParsing")
  BY <1>2, <1>3, Refused DEF Refuses, Errors, Group
<1>4. CASE /\ Hex[text[at][1]] # NoNumber /\ Push(<<Hex[text[at][1]]>>)
           /\ IF at = last THEN EndRange ELSE Advance
           /\ UNCHANGED <<text, seenIPv4, address, outcome>>
  <2>1. Group(at) /\ NewWords(text[at]) = <<Hex[text[at][1]]>>
    BY <1>4 DEF Group, NewWords
  <2>2. seenIPv4' = seenIPv4 /\ seenIPv4' = (seenIPv4 \/ Dotted(text[at]))
    BY <1>1, <1>4
  <2>3. Holds(phase', at', last', head', tail', seenIPv4')
    BY <1>4, <2>1, <2>2, AdvanceHolds, EndRangeHolds
  <2> QED
    BY <1>4, <2>3 DEF Goes
<1> QED
  BY <1>3, <1>4 DEF ParseHextet

LEMMA PartReads ==
  ASSUME ParseInv, ParsePart
  PROVE  Goes \/ Refuses
<1>1. phase \in ScanPhases /\ outcome = "parsing"
  BY DEF ParsePart, ScanPhases
<1>2. CASE text[at] = Empty /\ Fail("InvalidNumberOfParts")
  <2>1. ~Group(at) /\ ~StrictQuad(text[at])
    BY <1>2, EmptyIsNoPart DEF Group, IsGroup
  <2> QED
    BY <1>1, <1>2, <2>1, Refused DEF Refuses, Errors
<1> QED
  BY <1>1, <1>2, QuadReads, HextetReads DEF ParsePart

LEMMA AssembleReads ==
  ASSUME ParseInv, Assemble
  PROVE  Accepts \/ Refuses
<1>1. /\ TypeOK /\ RangeInv /\ Holds(phase, at, last, head, tail, seenIPv4)
      /\ phase = "assemble" /\ outcome = "parsing"
      /\ head \in Seq(Words) /\ tail \in Seq(Words)
  BY DEF ParseInv, IInv, ReadsGrammar, Assemble, TypeOK
<1>2. CASE Doubles = {}
  <2>1. GoodRange(1, Len(text)) /\ head = WordsOf(1, Len(text)) /\ tail = << >>
    BY <1>1, <1>2 DEF Holds, RangeInv
  <2>2. Readings(text) = IF Len(head) = 8 THEN {head} ELSE {}
    BY <1>1, <1>2, <2>1, ReadAsRange
  <2>3. CASE Len(head) # 8 /\ Fail("InvalidNumberOfParts")
    BY <2>2, <2>3 DEF Refuses, Errors
  <2>4. CASE /\ Len(head) = 8
             /\ address' = head \o Zeros(8 - (Len(head) + Len(tail))) \o tail
             /\ outcome' = "ok"
             /\ UNCHANGED <<text, phase, at, last, head, tail, seenIPv4>>
    <3>1. Len(tail) = 0 /\ 8 - (Len(head) + Len(tail)) = 0
      BY <2>1, <2>4
    <3>2. Zeros(0) = << >>
      BY DEF Zeros
    <3>3. address' = head
      BY <1>1, <2>1, <2>4, <3>1, <3>2
    <3> QED
      BY <2>2, <2>4, <3>3 DEF Accepts
  <2> QED
    BY <1>2, <2>3, <2>4 DEF Assemble
<1>3. CASE Doubles # {}
  <2>1. /\ HeadGood /\ head = HeadWords /\ TailGood /\ tail = TailWords
        /\ ~(HeadQuad /\ TailQuad)
    BY <1>1, <1>3 DEF Holds
  <2>2. Readings(text) = IF Len(head) + Len(tail) <= 8
          THEN { head \o Zeros(8 - (Len(head) + Len(tail))) \o tail } ELSE {}
    BY <1>1, <1>3, <2>1, ReadInHalves
  <2>3. TooMany <=> ~(Len(head) + Len(tail) <= 8)
    <3>1. Len(head) \in Nat /\ Len(tail) \in Nat
      BY <1>1
    <3> QED
      BY <3>1 DEF TooMany
  <2>4. CASE TooMany /\ Fail("InvalidNumberOfParts")
    BY <2>2, <2>3, <2>4 DEF Refuses, Errors
  <2>5. CASE /\ ~TooMany
             /\ address' = head \o Zeros(8 - (Len(head) + Len(tail))) \o tail
             /\ outcome' = "ok"
             /\ UNCHANGED <<text, phase, at, last, head, tail, seenIPv4>>
    BY <2>2, <2>3, <2>5 DEF Accepts
  <2> QED
    BY <1>3, <2>4, <2>5 DEF Assemble
<1> QED
  BY <1>2, <1>3

LEMMA ParseInvStarts == Init => ParseInv
<1> SUFFICES ASSUME Init PROVE ParseInv
  OBVIOUS
<1>1. ReadsGrammar /\ AgreesWithGrammar
  BY DEF Init, ReadsGrammar, Holds, AgreesWithGrammar
<1> QED
  BY <1>1, InitEstablishes DEF ParseInv

LEMMA ParseInvKept == ParseInv /\ [Next]_vars => ParseInv'
<1> SUFFICES ASSUME ParseInv, [Next]_vars PROVE ReadsGrammar' /\ AgreesWithGrammar'
  BY NextPreserves DEF ParseInv
<1>1. Holds(phase, at, last, head, tail, seenIPv4) /\ AgreesWithGrammar
  BY DEF ParseInv, ReadsGrammar
<1>2. CASE Goes
  <2>1. ReadsGrammar'
    BY <1>2, HoldsNext DEF Goes
  <2>2. AgreesWithGrammar'
    BY <1>2 DEF Goes, AgreesWithGrammar
  <2> QED
    BY <2>1, <2>2
<1>3. CASE Refuses
  <2>1. PICK kind \in Errors : Fail(kind)
    BY <1>3 DEF Refuses
  <2>2. /\ UNCHANGED <<text, phase, at, last, head, tail, seenIPv4>>
        /\ outcome' # "ok"
    BY <2>1 DEF Fail, Errors
  <2>3. ReadsGrammar'
    BY <1>1, <2>2, HoldsNext
  <2>4. Readings(text)' = {}
    BY <1>3, <2>2 DEF Refuses
  <2> QED
    BY <2>2, <2>3, <2>4 DEF AgreesWithGrammar
<1>4. CASE Accepts
  <2>1. ReadsGrammar'
    BY <1>1, <1>4, HoldsNext DEF Accepts
  <2>2. AgreesWithGrammar'
    BY <1>4 DEF Accepts, AgreesWithGrammar
  <2> QED
    BY <2>1, <2>2
<1>5. CASE UNCHANGED vars
  <2>1. ReadsGrammar'
    BY <1>1, <1>5, HoldsNext DEF vars
  <2>2. AgreesWithGrammar'
    BY <1>1, <1>5 DEF vars, AgreesWithGrammar
  <2> QED
    BY <2>1, <2>2
<1> QED
  BY <1>2, <1>3, <1>4, <1>5, StartReads, PartReads, AssembleReads DEF Next

(* FromStr and the grammar agree on every text, of any length and whatever *)
(* its parts: what FromStr returns is the one address that the text        *)
(* spells, and what it refuses spells none.                                *)
THEOREM FromStrIsTheGrammar == Spec => []AgreesWithGrammar
<1>1. ParseInv => AgreesWithGrammar
  BY DEF ParseInv
<1> QED
  BY <1>1, ParseInvStarts, ParseInvKept, PTL DEF Spec
=============================================================================
