------------------------- MODULE AddrV6FormatProofs -------------------------
(***************************************************************************)
(* What ToString does with any address: its counters stay in range, the    *)
(* run it shortens is the leftmost of the longest, and the text it returns *)
(* is the canonical one and is read back.                                  *)
(***************************************************************************)
EXTENDS AddrV6Format, TLAPS, SequenceTheorems

(* The first word of the run that is open at `i', or `i' itself. *)
Open == i - currLength

(* The open run is all the zeros before `i', back to a word that is none. *)
OpenRun ==
  /\ currLength \in 0..i
  /\ currStart = IF currLength = 0 THEN -1 ELSE Open
  /\ \A k \in 0..7 : Open <= k /\ k < i => hextets[k] = 0
  /\ Open > 0 => hextets[Open - 1] # 0

(* The best run is the leftmost longest of those closed before the open    *)
(* one began.                                                              *)
BestClosed ==
  /\ bestLength \in 0..Open
  /\ IF bestLength = 0 THEN bestStart = -1
                       ELSE ZeroRun(bestStart, bestLength, Open)
  /\ Longest(bestStart, bestLength, Open)

ScanInv == pc = "scan" => OpenRun /\ BestClosed

(* Before the scan the counters are as declared. *)
StartInv ==
  pc = "start" => /\ i = 0
                  /\ currStart = -1 /\ currLength = 0
                  /\ bestStart = -1 /\ bestLength = 0

(* There is a part for the digits to go to. *)
TextInv == os # << >>

IInv == TypeOK /\ TextInv /\ StartInv /\ ScanInv /\ RunIsLeftmostLongest
-----------------------------------------------------------------------------
(* A zero lengthens the open run, and closes none: every run that ends by  *)
(* `Open' did before.                                                      *)
LEMMA ZeroKeepsScan ==
  ASSUME TypeOK, ScanInv, ScanZero
  PROVE  ScanInv'
<1> USE DEF TypeOK, ScanZero
<1>1. OpenRun /\ BestClosed
  BY DEF ScanInv
<1>2. Open' = Open /\ Open \in 0..7
  BY <1>1 DEF Open, OpenRun
<1>3. OpenRun'
  <2>1. currLength' \in 0..i'
    BY <1>1 DEF OpenRun
  <2>2. currStart' = IF currLength' = 0 THEN -1 ELSE Open'
    BY <1>1, <1>2 DEF OpenRun, Open
  <2>3. \A k \in 0..7 : Open' <= k /\ k < i' => hextets'[k] = 0
    BY <1>1, <1>2 DEF OpenRun
  <2>4. Open' > 0 => hextets'[Open' - 1] # 0
    BY <1>1, <1>2 DEF OpenRun
  <2> QED
    BY <2>1, <2>2, <2>3, <2>4 DEF OpenRun
<1>4. BestClosed'
  BY <1>1, <1>2 DEF BestClosed, ZeroRun, Longest
<1> QED
  BY <1>3, <1>4 DEF ScanInv

(* A run that ends by a word ends by every later one. *)
LEMMA RunGrows ==
  ASSUME NEW s \in Int, NEW n \in Int, NEW end \in Int, NEW later \in Int,
         ZeroRun(s, n, end), end <= later
  PROVE  ZeroRun(s, n, later)
BY DEF ZeroRun

(* The longer of the best run and the open one is the leftmost longest of  *)
(* all that end by `i'.                                                    *)
LEMMA LongerIsLongest ==
  ASSUME TypeOK, OpenRun, BestClosed,
         NEW start, NEW length,
         \/ currLength > bestLength /\ start = currStart /\ length = currLength
         \/ currLength <= bestLength /\ start = bestStart /\ length = bestLength
  PROVE  /\ length \in 0..i
         /\ IF length = 0 THEN start = -1 ELSE ZeroRun(start, length, i)
         /\ Longest(start, length, i)
<1> USE DEF TypeOK
<1>1. Open \in 0..8 /\ Open <= i /\ i = Open + currLength
  BY SMTT(60) DEF Open, OpenRun
<1>2. length \in 0..i
  BY <1>1 DEF OpenRun, BestClosed
<1>3. IF length = 0 THEN start = -1 ELSE ZeroRun(start, length, i)
  <2>1. CASE currLength > bestLength
    BY <1>1, <2>1 DEF OpenRun, BestClosed, ZeroRun
  <2>2. CASE currLength <= bestLength
    <3>1. start = bestStart /\ length = bestLength
      BY <2>2
    <3>2. bestLength # 0 => ZeroRun(bestStart, bestLength, i)
      BY <1>1, RunGrows DEF BestClosed
    <3> QED
      BY <3>1, <3>2 DEF BestClosed
  <2> QED
    BY <2>1, <2>2
<1>4. ASSUME NEW s \in 0..7, NEW n \in 1..8, ZeroRun(s, n, i)
      PROVE  n <= length /\ (n = length => start <= s)
  <2>1. CASE s >= Open
    <3>1. n <= currLength
      BY <1>1, <1>4, <2>1 DEF ZeroRun
    <3>2. currLength > 0 /\ currStart = Open
      BY <3>1 DEF OpenRun
    <3>3. CASE currLength > bestLength
      BY <2>1, <3>1, <3>2, <3>3
    <3>4. CASE currLength <= bestLength
      <4>1. bestStart <= Open
        BY <1>1, <3>2, <3>4 DEF BestClosed, ZeroRun
      <4> QED
        BY <2>1, <3>1, <3>4, <4>1, <1>1
    <3> QED
      BY <3>3, <3>4
  <2>2. CASE s < Open
    <3>1. s + n <= Open
      <4>1. hextets[Open - 1] # 0 /\ Open - 1 \in 0..7
        BY <1>1, <2>2 DEF OpenRun
      <4> QED
        BY <1>1, <1>4, <2>2, <4>1 DEF ZeroRun
    <3>2. ZeroRun(s, n, Open)
      BY <1>4, <3>1 DEF ZeroRun
    <3>3. n <= bestLength /\ (n = bestLength => bestStart <= s)
      BY <3>2 DEF BestClosed, Longest
    <3> QED
      BY <3>3
  <2> QED
    BY <1>1, <2>1, <2>2
<1>5. Longest(start, length, i)
  BY <1>4 DEF Longest
<1> QED
  BY <1>2, <1>3, <1>5

(* A word closes the open run, which is compared with the best. *)
LEMMA WordKeepsScan ==
  ASSUME TypeOK, ScanInv, ScanWord
  PROVE  ScanInv'
<1>1. OpenRun /\ BestClosed
  BY DEF ScanInv, ScanWord
<1>2. i' = i + 1 /\ currLength' = 0 /\ Open' = i + 1 /\ i \in 0..7 /\ hextets' = hextets
  BY DEF ScanWord, Open, TypeOK
<1>3. \/ currLength > bestLength /\ bestStart' = currStart /\ bestLength' = currLength
      \/ currLength <= bestLength /\ bestStart' = bestStart /\ bestLength' = bestLength
  BY DEF ScanWord, KeepLonger, TypeOK
<1>4. /\ bestLength' \in 0..i
      /\ IF bestLength' = 0 THEN bestStart' = -1 ELSE ZeroRun(bestStart', bestLength', i)
      /\ Longest(bestStart', bestLength', i)
  BY <1>1, <1>3, LongerIsLongest
<1>5. OpenRun'
  BY <1>2 DEF OpenRun, ScanWord, Open
<1>6. BestClosed'
  <2>1. bestLength' \in 0..Open'
    BY <1>2, <1>4
  <2>2. IF bestLength' = 0 THEN bestStart' = -1
        ELSE ZeroRun(bestStart, bestLength, Open)'
    <3>1. bestStart' \in Int /\ bestLength' \in Int /\ hextets \in [0..7 -> Hextets]
      BY <1>3 DEF TypeOK
    <3>2. bestLength' # 0 => ZeroRun(bestStart', bestLength', Open')
      BY <1>2, <1>4, <3>1, RunGrows
    <3>3. ZeroRun(bestStart', bestLength', Open') => ZeroRun(bestStart, bestLength, Open)'
      BY <1>2 DEF ZeroRun
    <3> QED
      BY <1>4, <3>2, <3>3
  <2>3. Longest(bestStart, bestLength, Open)'
    <3> SUFFICES ASSUME NEW s \in 0..7, NEW n \in 1..8, ZeroRun(s, n, Open)'
                 PROVE  n <= bestLength' /\ (n = bestLength' => bestStart' <= s)
      BY DEF Longest
    <3>1. s + n <= i
      BY <1>2 DEF ZeroRun, ScanWord
    <3>2. ZeroRun(s, n, i)
      BY <1>2, <3>1 DEF ZeroRun
    <3> QED
      BY <1>4, <3>2 DEF Longest
  <2> QED
    BY <2>1, <2>2, <2>3 DEF BestClosed
<1> QED
  BY <1>5, <1>6 DEF ScanInv

(* The end of the scan: the same comparison once more, and a run of one    *)
(* word is dropped.                                                        *)
LEMMA EndScanPicksRun ==
  ASSUME TypeOK, ScanInv, EndScan
  PROVE  RunIsLeftmostLongest' /\ bestStart' \in -1..7 /\ bestLength' \in 0..8
<1> DEFINE start == IF currLength > bestLength THEN currStart ELSE bestStart
<1>1. OpenRun /\ BestClosed /\ i = 8
  BY DEF ScanInv, EndScan, TypeOK
<1>2. /\ hextets' = hextets
      /\ bestLength' = IF currLength > bestLength THEN currLength ELSE bestLength
      /\ bestStart' = IF bestLength' < 2 THEN -1 ELSE start
  BY DEF EndScan
<1>3. /\ bestLength' \in 0..8
      /\ IF bestLength' = 0 THEN start = -1 ELSE ZeroRun(start, bestLength', 8)
      /\ Longest(start, bestLength', 8)
  <2>1. \/ currLength > bestLength /\ start = currStart /\ bestLength' = currLength
        \/ currLength <= bestLength /\ start = bestStart /\ bestLength' = bestLength
    BY <1>2 DEF TypeOK
  <2> HIDE DEF start
  <2> QED
    BY <1>1, <2>1, LongerIsLongest
<1>4. start \in -1..7
  BY DEF TypeOK
<1> HIDE DEF start
<1>5. bestStart' \in -1..7
  BY <1>2, <1>4
<1>6. CASE bestLength' < 2
  <2>1. \A s \in 0..6 : ~ZeroRun(s, 2, 8)
    BY <1>3, <1>6 DEF Longest
  <2> QED
    BY <1>2, <1>3, <1>5, <1>6, <2>1 DEF RunIsLeftmostLongest, ZeroRun
<1>7. CASE bestLength' >= 2
  <2>1. bestStart' = start /\ start # -1
    BY <1>2, <1>3, <1>7 DEF ZeroRun
  <2>2. ZeroRun(bestStart, bestLength, 8)' /\ Longest(bestStart, bestLength, 8)'
    BY <1>2, <1>3, <1>7, <2>1 DEF ZeroRun, Longest
  <2> QED
    BY <1>3, <1>5, <1>7, <2>1, <2>2 DEF RunIsLeftmostLongest
<1> QED
  BY <1>3, <1>6, <1>7
-----------------------------------------------------------------------------
LEMMA PiecesWritten ==
  /\ Empty \in Seq(Pieces) /\ <<Garbled>> \in Seq(Pieces)
  /\ \A w \in Hextets : <<Hexadecimal[w]>> \in Seq(Pieces)
  /\ \A v, w \in Hextets :
       << Decimal[v \div 256], Decimal[v % 256],
          Decimal[w \div 256], Decimal[w % 256] >> \in Seq(Pieces)
<1>1. Empty \in Seq(Pieces) /\ <<Garbled>> \in Seq(Pieces)
  BY HexAssumption, FormatAssumption DEF Empty
<1>2. \A w \in Hextets : Hexadecimal[w] \in Pieces
  BY FormatAssumption
<1>3. \A w \in Hextets : Decimal[w \div 256] \in Pieces /\ Decimal[w % 256] \in Pieces
  <2>1. \A w \in Hextets : Decimal[w \div 256] \in Whole /\ Decimal[w % 256] \in Whole
    BY FormatAssumption
  <2> QED
    BY <2>1, PiecesAssumption
<1> QED
  BY <1>1, <1>2, <1>3

(* os << ':' and os << digits append to a text, or complete its last part. *)
LEMMA WritesAreTexts ==
  ASSUME NEW written \in Seq(Seq(Pieces)), written # << >>
  PROVE  /\ Colon(written) \in Seq(Seq(Pieces)) /\ Colon(written) # << >>
         /\ \A w \in Hextets :
              /\ Digits(written, Hexadecimal[w]) \in Seq(Seq(Pieces))
              /\ Digits(written, Hexadecimal[w]) # << >>
<1>1. Colon(written) \in Seq(Seq(Pieces)) /\ Colon(written) # << >>
  BY PiecesWritten DEF Colon
<1>2. ASSUME NEW w \in Hextets
      PROVE  Digits(written, Hexadecimal[w]) \in Seq(Seq(Pieces))
               /\ Digits(written, Hexadecimal[w]) # << >>
  <2>1. Len(written) \in 1..Len(written)
    OBVIOUS
  <2>2. PICK part \in Seq(Pieces) :
          Digits(written, Hexadecimal[w]) = [written EXCEPT ![Len(written)] = part]
    BY PiecesWritten DEF Digits
  <2> QED
    BY <2>1, <2>2
<1> QED
  BY <1>1, <1>2

LEMMA MappedTextIsText ==
  ASSUME TypeOK, IPv4Mapped
  PROVE  MappedText \in Seq(Seq(Pieces)) /\ MappedText # << >>
<1>1. hextets[6] \in Hextets /\ hextets[7] \in Hextets /\ 65535 \in Hextets
  BY DEF TypeOK, IPv4Mapped
<1> QED
  BY <1>1, PiecesWritten DEF MappedText

LEMMA InitEstablishes == Init => IInv
<1> SUFFICES ASSUME Init PROVE IInv
  OBVIOUS
<1>1. TypeOK /\ TextInv
  BY PiecesWritten DEF Init, TypeOK, TextInv
<1> QED
  BY <1>1 DEF Init, IInv, StartInv, ScanInv, RunIsLeftmostLongest

(* The run in the text that is being written lies within the address. *)
LEMMA RunFits ==
  ASSUME TypeOK, RunIsLeftmostLongest, pc = "write", i = bestStart, i < 8
  PROVE  i + bestLength \in 0..8
BY DEF TypeOK, RunIsLeftmostLongest, ZeroRun

LEMMA NextPreserves == IInv /\ [Next]_vars => IInv'
<1> SUFFICES ASSUME IInv, [Next]_vars PROVE IInv'
  OBVIOUS
<1> USE DEF IInv
<1>1. CASE Start
  <2>1. TypeOK' /\ TextInv'
    BY <1>1, MappedTextIsText DEF Start, TypeOK, TextInv
  <2>2. ScanInv'
    BY <1>1 DEF Start, StartInv, ScanInv, OpenRun, BestClosed, Open, ZeroRun, Longest
  <2> QED
    BY <1>1, <2>1, <2>2 DEF Start, StartInv, RunIsLeftmostLongest
<1>2. CASE ScanZero
  <2>1. currLength \in 0..i
    BY <1>2 DEF ScanZero, ScanInv, OpenRun
  <2>2. TypeOK' /\ TextInv'
    BY <1>2, <2>1 DEF ScanZero, TypeOK, TextInv
  <2>3. ScanInv'
    BY <1>2, ZeroKeepsScan
  <2> QED
    BY <1>2, <2>2, <2>3 DEF ScanZero, StartInv, RunIsLeftmostLongest
<1>3. CASE ScanWord
  <2>1. bestStart' \in -1..7 /\ bestLength' \in 0..8
    BY <1>3 DEF ScanWord, KeepLonger, TypeOK
  <2>2. TypeOK' /\ TextInv'
    BY <1>3, <2>1 DEF ScanWord, TypeOK, TextInv
  <2>3. ScanInv'
    BY <1>3, WordKeepsScan
  <2> QED
    BY <1>3, <2>2, <2>3 DEF ScanWord, StartInv, RunIsLeftmostLongest
<1>4. CASE EndScan
  <2>1. RunIsLeftmostLongest' /\ bestStart' \in -1..7 /\ bestLength' \in 0..8
    BY <1>4, EndScanPicksRun
  <2>2. TypeOK' /\ TextInv'
    BY <1>4, <2>1 DEF EndScan, TypeOK, TextInv
  <2> QED
    BY <1>4, <2>1, <2>2 DEF EndScan, StartInv, ScanInv
<1>5. CASE WriteRun
  <2>1. i' \in 0..8
    BY <1>5, RunFits DEF WriteRun
  <2>2. os' \in Seq(Seq(Pieces)) /\ os' # << >>
    BY <1>5, WritesAreTexts DEF WriteRun, TypeOK, TextInv
  <2>3. TypeOK' /\ TextInv'
    BY <1>5, <2>1, <2>2 DEF WriteRun, TypeOK, TextInv
  <2>4. RunIsLeftmostLongest'
    BY <1>5 DEF WriteRun, RunIsLeftmostLongest, ZeroRun, Longest
  <2> QED
    BY <1>5, <2>3, <2>4 DEF WriteRun, StartInv, ScanInv
<1>6. CASE WriteWord
  <2>1. i \in 0..7 /\ hextets[i] \in Hextets
    BY <1>6 DEF WriteWord, TypeOK
  <2>2. os' \in Seq(Seq(Pieces)) /\ os' # << >>
    <3>1. PICK written \in Seq(Seq(Pieces)) :
            written # << >> /\ os' = Digits(written, Hexadecimal[hextets[i]])
      BY <1>6, WritesAreTexts DEF WriteWord, TypeOK, TextInv
    <3> QED
      BY <2>1, <3>1, WritesAreTexts
  <2>3. TypeOK' /\ TextInv'
    BY <1>6, <2>1, <2>2 DEF WriteWord, TypeOK, TextInv
  <2>4. RunIsLeftmostLongest'
    BY <1>6 DEF WriteWord, RunIsLeftmostLongest, ZeroRun, Longest
  <2> QED
    BY <1>6, <2>3, <2>4 DEF WriteWord, StartInv, ScanInv
<1>7. CASE Return
  BY <1>7 DEF Return, TypeOK, TextInv, StartInv, ScanInv, RunIsLeftmostLongest
<1>8. CASE UNCHANGED vars
  BY <1>8 DEF vars, TypeOK, TextInv, StartInv, ScanInv, OpenRun, BestClosed, Open,
              RunIsLeftmostLongest, ZeroRun, Longest
<1> QED
  BY <1>1, <1>2, <1>3, <1>4, <1>5, <1>6, <1>7, <1>8 DEF Next

LEMMA Invariance == Spec => []IInv
<1>1. Init => IInv
  BY InitEstablishes
<1>2. IInv /\ [Next]_vars => IInv'
  BY NextPreserves
<1> QED
  BY <1>1, <1>2, PTL DEF Spec

(* The counters of ToString, of either loop, stay within the address,      *)
(* whatever words it is made of.                                           *)
THEOREM StaysInRange == Spec => []TypeOK
<1>1. IInv => TypeOK
  BY DEF IInv
<1> QED
  BY <1>1, Invariance, PTL

(* The run that ToString shortens is the leftmost of the longest, of every *)
(* address.                                                                *)
THEOREM ShortensLeftmostLongest == Spec => []RunIsLeftmostLongest
<1>1. IInv => RunIsLeftmostLongest
  BY DEF IInv
<1> QED
  BY <1>1, Invariance, PTL
-----------------------------------------------------------------------------
(* What the grammar reads in the canonical text of an address.             *)

Addresses == [1..8 -> Hextets]

LEMMA HexGroup ==
  ASSUME NEW w \in Hextets
  PROVE  /\ <<Hexadecimal[w]>> \in Seq(Pieces)
         /\ <<Hexadecimal[w]>> # Empty
         /\ IsGroup(<<Hexadecimal[w]>>) /\ ~Dotted(<<Hexadecimal[w]>>)
         /\ Hex[<<Hexadecimal[w]>>[1]] = w
<1>1. Hexadecimal[w] \in Pieces /\ Hex[Hexadecimal[w]] = w /\ w \in Words
  BY FormatAssumption
<1>2. w \in Nat
  BY <1>1 DEF Words
<1>3. w # NoNumber
  BY <1>2, PiecesAssumption
<1>4. Hexadecimal[w] # Nil
  BY <1>1, <1>3, HexAssumption
<1>5. Len(<<Hexadecimal[w]>>) = 1 /\ <<Hexadecimal[w]>>[1] = Hexadecimal[w]
  OBVIOUS
<1>6. Empty[1] = Nil
  BY DEF Empty
<1>7. ~Dotted(<<Hexadecimal[w]>>)
  BY <1>5 DEF Dotted
<1> QED
  BY <1>1, <1>3, <1>4, <1>5, <1>6, <1>7 DEF IsGroup

LEMMA EmptyPart ==
  Empty \in Seq(Pieces) /\ ~IsGroup(Empty) /\ ~StrictQuad(Empty)
<1>1. Len(Empty) = 1 /\ Empty[1] = Nil /\ Nil \in Pieces /\ Empty = <<Nil>>
  BY HexAssumption DEF Empty
<1>2. Empty \in Seq(Pieces)
  BY <1>1
<1> QED
  BY <1>1, <1>2, HexAssumption DEF IsGroup, StrictQuad, LenientQuad

(* The groups of the words from..to. *)
LEMMA GroupsAre ==
  ASSUME NEW words \in Addresses, NEW from \in 1..9, NEW to \in (from - 1)..8
  PROVE  LET s == Groups(words, from, to) IN
         /\ s \in Seq(Seq(Pieces)) /\ Len(s) = to - from + 1 /\ Len(s) \in Nat
         /\ \A k \in 1..Len(s) : /\ from + k - 1 \in 1..8
                                 /\ s[k] = <<Hexadecimal[words[from + k - 1]]>>
         /\ s = << >> <=> to = from - 1
<1>1. PICK n \in Nat : n = to - from + 1
  OBVIOUS
<1>2. \A k \in 1..n : from + k - 1 \in 1..8
  BY <1>1
<1>3. \A k \in 1..n : words[from + k - 1] \in Hextets
  BY <1>2 DEF Addresses
<1>4. \A k \in 1..n : <<Hexadecimal[words[from + k - 1]]>> \in Seq(Pieces)
  BY <1>3, HexGroup
<1>5. Groups(words, from, to) = [k \in 1..n |-> <<Hexadecimal[words[from + k - 1]]>>]
  BY <1>1 DEF Groups
<1> DEFINE s == [k \in 1..n |-> <<Hexadecimal[words[from + k - 1]]>>]
<1>6. s \in Seq(Seq(Pieces)) /\ Len(s) = n
  <2>1. s \in [1..n -> Seq(Pieces)]
    BY <1>4
  <2> HIDE DEF s
  <2> QED
    BY <2>1
<1>7. ASSUME NEW k \in 1..n PROVE s[k] = <<Hexadecimal[words[from + k - 1]]>>
  OBVIOUS
<1> HIDE DEF s
<1>8. s = << >> <=> n = 0
  BY <1>6, EmptySeq
<1>9. n = 0 <=> to = from - 1
  BY <1>1
<1>10. Groups(words, from, to) = s
  BY <1>5 DEF s
<1> QED
  BY <1>1, <1>2, <1>6, <1>7, <1>8, <1>9, <1>10

LEMMA GroupsRead ==
  ASSUME NEW words \in Addresses, NEW from \in 1..9, NEW to \in (from - 1)..8
  PROVE  LET s == Groups(words, from, to) IN
         /\ Trimmed(Side(s)) = s
         /\ s = << >> \/ IsRange(s)
         /\ ~EndsInQuad(s)
         /\ RangeWords(s) = [k \in 1..(to - from + 1) |-> words[from + k - 1]]
<1> DEFINE s == Groups(words, from, to)
<1>1. /\ s \in Seq(Seq(Pieces)) /\ Len(s) = to - from + 1 /\ Len(s) \in Nat
      /\ \A k \in 1..Len(s) : /\ from + k - 1 \in 1..8
                              /\ s[k] = <<Hexadecimal[words[from + k - 1]]>>
  BY GroupsAre
<1> HIDE DEF s
<1>2. ASSUME NEW k \in 1..Len(s)
      PROVE  /\ s[k] # Empty /\ IsGroup(s[k]) /\ ~Dotted(s[k])
             /\ Hex[s[k][1]] = words[from + k - 1]
  <2>1. words[from + k - 1] \in Hextets
    BY <1>1, <1>2 DEF Addresses
  <2>2. s[k] = <<Hexadecimal[words[from + k - 1]]>>
    BY <1>1, <1>2
  <2> QED
    BY <2>1, <2>2, HexGroup
<1>3. Trimmed(Side(s)) = s
  <2>1. CASE s = << >>
    BY <2>1 DEF Side, Trimmed
  <2>2. CASE s # << >>
    <3>1. Len(s) >= 1
      BY <1>1, <2>2, EmptySeq
    <3>2. s[1] # Empty
      BY <1>1, <1>2, <3>1
    <3>3. s # <<Empty>>
      BY <3>2
    <3> QED
      BY <2>2, <3>3 DEF Side, Trimmed
  <2> QED
    BY <2>1, <2>2
<1>4. s = << >> \/ IsRange(s)
  <2> SUFFICES ASSUME s # << >> PROVE IsRange(s)
    OBVIOUS
  <2>1. Len(s) >= 1
    BY <1>1, EmptySeq
  <2> QED
    BY <1>2, <2>1 DEF IsRange
<1>5. ~EndsInQuad(s)
  <2> SUFFICES ASSUME s # << >> PROVE ~Dotted(s[Len(s)])
    BY DEF EndsInQuad
  <2>1. Len(s) \in 1..Len(s)
    BY <1>1, EmptySeq
  <2> QED
    BY <1>2, <2>1
<1>6. RangeWords(s) = [k \in 1..(to - from + 1) |-> words[from + k - 1]]
  BY <1>1, <1>2, <1>5 DEF RangeWords
<1> QED
  BY <1>3, <1>4, <1>5, <1>6 DEF s

(* A function on the first n numbers is a sequence, and the other way.     *)
LEMMA SeqOfFunction ==
  ASSUME NEW S, NEW n \in Nat, NEW f \in [1..n -> S]
  PROVE  f \in Seq(S) /\ Len(f) = n
OBVIOUS

LEMMA FunctionOfSeq ==
  ASSUME NEW S, NEW s \in Seq(S), NEW n \in Nat, Len(s) = n
  PROVE  s \in [1..n -> S]
OBVIOUS

(* The places of a concatenation. *)
LEMMA Joined ==
  ASSUME NEW S, NEW p \in Seq(S), NEW q \in Seq(S)
  PROVE  /\ p \o q \in Seq(S)
         /\ Len(p) \in Nat /\ Len(q) \in Nat /\ Len(p \o q) = Len(p) + Len(q)
         /\ \A k \in 1..Len(p) : (p \o q)[k] = p[k]
         /\ \A k \in 1..Len(q) : (p \o q)[Len(p) + k] = q[k]
<1>1. /\ p \o q \in Seq(S) /\ Len(p) \in Nat /\ Len(q) \in Nat
      /\ Len(p \o q) = Len(p) + Len(q)
  OBVIOUS
<1>2. ASSUME NEW k \in 1..Len(p) PROVE (p \o q)[k] = p[k]
  BY <1>1
<1>3. ASSUME NEW k \in 1..Len(q) PROVE (p \o q)[Len(p) + k] = q[k]
  BY <1>1
<1> QED
  BY <1>1, <1>2, <1>3

(* Two sides around an empty part, and how they are found again. *)
LEMMA SidesApart ==
  ASSUME NEW A \in Seq(Seq(Pieces)), NEW C \in Seq(Seq(Pieces)), A # << >>, C # << >>
  PROVE  LET t == A \o <<Empty>> \o C IN
         /\ t \in Seq(Seq(Pieces))
         /\ Len(A) \in Nat \ {0} /\ Len(C) \in Nat \ {0}
         /\ Len(t) = Len(A) + 1 + Len(C)
         /\ \A k \in 1..Len(A) : t[k] = A[k]
         /\ t[Len(A) + 1] = Empty
         /\ \A k \in 1..Len(C) : t[Len(A) + 1 + k] = C[k]
         /\ SubSeq(t, 1, Len(A)) = A
         /\ SubSeq(t, Len(A) + 2, Len(t)) = C
<1> DEFINE b == A \o <<Empty>>
           t == b \o C
<1>1. Len(A) \in Nat \ {0} /\ Len(C) \in Nat \ {0}
  BY EmptySeq
<1>2. <<Empty>> \in Seq(Seq(Pieces)) /\ Len(<<Empty>>) = 1 /\ <<Empty>>[1] = Empty
  BY EmptyPart
<1>3. /\ b \in Seq(Seq(Pieces)) /\ Len(b) = Len(A) + Len(<<Empty>>)
      /\ \A k \in 1..Len(A) : b[k] = A[k]
      /\ \A k \in 1..Len(<<Empty>>) : b[Len(A) + k] = <<Empty>>[k]
  BY <1>2, Joined
<1>4. Len(b) = Len(A) + 1 /\ b[Len(A) + 1] = Empty
  BY <1>2, <1>3
<1>5. SubSeq(b, 1, Len(A)) = A
  <2>1. SubSeq(b, 1, Len(A)) = SubSeq(A, 1, Len(A))
    <3>1. 1 \in 1..Len(A) /\ Len(A) \in 1..Len(A)
      BY <1>1
    <3> QED
      BY <1>2, <3>1, SubSeqOfConcat1
  <2> QED
    BY <2>1, SubSeqFull
<1> HIDE DEF b
<1>6. /\ t \in Seq(Seq(Pieces)) /\ Len(t) = Len(b) + Len(C)
      /\ \A k \in 1..Len(b) : t[k] = b[k]
      /\ \A k \in 1..Len(C) : t[Len(b) + k] = C[k]
  <2>1. b \in Seq(Seq(Pieces))
    BY <1>3
  <2> QED
    BY <2>1, Joined
<1>7. SubSeq(t, 1, Len(A)) = A
  <2>1. 1 \in 1..Len(b) /\ Len(A) \in 1..Len(b)
    BY <1>1, <1>4
  <2>2. SubSeq(t, 1, Len(A)) = SubSeq(b, 1, Len(A))
    BY <1>3, <2>1, SubSeqOfConcat1
  <2> QED
    BY <1>5, <2>2
<1>8. SubSeq(t, Len(A) + 2, Len(t)) = C
  <2>1. /\ Len(A) + 2 \in (Len(b) + 1)..(Len(b) + Len(C))
        /\ Len(t) \in (Len(b) + 1)..(Len(b) + Len(C))
        /\ Len(A) + 2 - Len(b) = 1 /\ Len(t) - Len(b) = Len(C)
    <3> HIDE DEF t
    <3> QED
      BY <1>1, <1>4, <1>6
  <2>2. PICK m \in (Len(b) + 1)..(Len(b) + Len(C)), n \in (Len(b) + 1)..(Len(b) + Len(C)) :
          /\ m = Len(A) + 2 /\ n = Len(t)
          /\ m - Len(b) = 1 /\ n - Len(b) = Len(C)
    BY <2>1
  <2>3. SubSeq(b \o C, m, n) = SubSeq(C, m - Len(b), n - Len(b))
    BY <1>3, SubSeqOfConcat2
  <2>4. SubSeq(C, 1, Len(C)) = C
    BY SubSeqFull
  <2> QED
    BY <2>2, <2>3, <2>4
<1> HIDE DEF t
<1>9. Len(t) = Len(A) + 1 + Len(C)
  BY <1>1, <1>4, <1>6
<1>10. ASSUME NEW k \in 1..Len(b) PROVE t[k] = b[k]
  BY <1>6, <1>10
<1>11. t[Len(A) + 1] = Empty
  <2>1. Len(A) + 1 \in 1..Len(b)
    BY <1>1, <1>4
  <2> QED
    BY <1>4, <1>10, <2>1
<1>12. ASSUME NEW k \in 1..Len(A) PROVE t[k] = A[k]
  <2>1. k \in 1..Len(b)
    BY <1>1, <1>4, <1>12
  <2> QED
    BY <1>3, <1>10, <1>12, <2>1
<1>13. ASSUME NEW k \in 1..Len(C) PROVE t[Len(A) + 1 + k] = C[k]
  BY <1>4, <1>6, <1>13
<1>14. t = A \o <<Empty>> \o C
  BY DEF b, t
<1> QED
  BY <1>1, <1>6, <1>7, <1>8, <1>9, <1>11, <1>12, <1>13, <1>14

LEMMA NotTheDouble ==
  ASSUME NEW t, NEW d, t[d] # Empty
  PROVE  ReadingsAt(t, d) = {}
BY DEF ReadingsAt

(* Groups around a run of zeros spell the address, and nothing else. *)
LEMMA ShortenedIsRead ==
  ASSUME NEW words \in Addresses, NEW from \in 1..8, NEW to \in from..8,
         \A k \in from..to : words[k] = 0
  PROVE  Readings(Side(Groups(words, 1, from - 1)) \o <<Empty>>
                    \o Side(Groups(words, to + 1, 8))) = {words}
<1> DEFINE A == Groups(words, 1, from - 1)
           C == Groups(words, to + 1, 8)
           t == Side(A) \o <<Empty>> \o Side(C)
           before == [k \in 1..(from - 1) |-> words[k]]
           after  == [k \in 1..(8 - to) |-> words[to + k]]
<1>1. /\ 1 \in 1..9 /\ from - 1 \in (1 - 1)..8 /\ (from - 1) - 1 + 1 = from - 1
      /\ to + 1 \in 1..9 /\ 8 \in ((to + 1) - 1)..8 /\ 8 - (to + 1) + 1 = 8 - to
  OBVIOUS
<1>2. /\ A \in Seq(Seq(Pieces)) /\ Len(A) = from - 1
      /\ \A k \in 1..Len(A) : A[k] = <<Hexadecimal[words[k]]>> /\ k \in 1..8
  <2>1. /\ A \in Seq(Seq(Pieces)) /\ Len(A) = (from - 1) - 1 + 1
        /\ \A k \in 1..Len(A) : 1 + k - 1 \in 1..8 /\ A[k] = <<Hexadecimal[words[1 + k - 1]]>>
    BY <1>1, GroupsAre
  <2> HIDE DEF A
  <2> QED
    BY <1>1, <2>1
<1>3. /\ C \in Seq(Seq(Pieces)) /\ Len(C) = 8 - to
      /\ \A k \in 1..Len(C) : C[k] = <<Hexadecimal[words[to + k]]>> /\ to + k \in 1..8
  <2>1. /\ C \in Seq(Seq(Pieces)) /\ Len(C) = 8 - (to + 1) + 1
        /\ \A k \in 1..Len(C) : (to + 1) + k - 1 \in 1..8 /\ C[k] = <<Hexadecimal[words[(to + 1) + k - 1]]>>
    BY <1>1, GroupsAre
  <2> HIDE DEF C
  <2>2. \A k \in 1..Len(C) : (to + 1) + k - 1 = to + k
    BY <1>1, <2>1
  <2> QED
    BY <1>1, <2>1, <2>2
<1>4. /\ Trimmed(Side(A)) = A /\ (A = << >> \/ IsRange(A)) /\ ~EndsInQuad(A)
      /\ RangeWords(A) = before
  <2>1. /\ Trimmed(Side(A)) = A /\ (A = << >> \/ IsRange(A)) /\ ~EndsInQuad(A)
        /\ RangeWords(A) = [k \in 1..((from - 1) - 1 + 1) |-> words[1 + k - 1]]
    BY <1>1, GroupsRead
  <2>2. [k \in 1..((from - 1) - 1 + 1) |-> words[1 + k - 1]] = before
    BY <1>1
  <2> QED
    BY <2>1, <2>2
<1>5. /\ Trimmed(Side(C)) = C /\ (C = << >> \/ IsRange(C)) /\ ~EndsInQuad(C)
      /\ RangeWords(C) = after
  <2>1. /\ Trimmed(Side(C)) = C /\ (C = << >> \/ IsRange(C)) /\ ~EndsInQuad(C)
        /\ RangeWords(C) = [k \in 1..(8 - (to + 1) + 1) |-> words[(to + 1) + k - 1]]
    BY <1>1, GroupsRead
  <2>2. [k \in 1..(8 - (to + 1) + 1) |-> words[(to + 1) + k - 1]] = after
    BY <1>1
  <2> QED
    BY <2>1, <2>2
<1>6. /\ before \in Seq(Hextets) /\ Len(before) = from - 1
      /\ after \in Seq(Hextets) /\ Len(after) = 8 - to
  <2>1. /\ before \in [1..(from - 1) -> Hextets] /\ from - 1 \in Nat
        /\ after \in [1..(8 - to) -> Hextets] /\ 8 - to \in Nat
    BY DEF Addresses
  <2> HIDE DEF before, after
  <2> QED
    BY <2>1
<1>7. \A k \in 1..(from - 1) : before[k] = words[k]
  OBVIOUS
<1>8. \A k \in 1..(8 - to) : after[k] = words[to + k]
  OBVIOUS
<1>9. /\ Side(A) \in Seq(Seq(Pieces)) /\ Side(A) # << >>
      /\ Side(C) \in Seq(Seq(Pieces)) /\ Side(C) # << >>
  <2>1. <<Empty>> \in Seq(Seq(Pieces)) /\ <<Empty>> # << >>
    BY EmptyPart
  <2> HIDE DEF A, C
  <2> QED
    BY <1>2, <1>3, <2>1 DEF Side
<1> HIDE DEF A, C, before, after
<1>10. /\ t \in Seq(Seq(Pieces))
       /\ Len(Side(A)) \in Nat \ {0} /\ Len(Side(C)) \in Nat \ {0}
       /\ Len(t) = Len(Side(A)) + 1 + Len(Side(C))
       /\ \A k \in 1..Len(Side(A)) : t[k] = Side(A)[k]
       /\ t[Len(Side(A)) + 1] = Empty
       /\ \A k \in 1..Len(Side(C)) : t[Len(Side(A)) + 1 + k] = Side(C)[k]
       /\ SubSeq(t, 1, Len(Side(A))) = Side(A)
       /\ SubSeq(t, Len(Side(A)) + 2, Len(t)) = Side(C)
  BY <1>9, SidesApart
<1> HIDE DEF t
<1>11. PICK e \in 2..(Len(t) - 1) : e = Len(Side(A)) + 1
  BY <1>10
<1>12. before \o Zeros(8 - (Len(before) + Len(after))) \o after = words
  <2>1. PICK n \in Nat : n = to - from + 1
    OBVIOUS
  <2>2. 8 - (Len(before) + Len(after)) = n
    BY <1>6, <2>1
  <2>3. 0 \in Hextets
    <3>1. from \in 1..8 /\ words[from] = 0
      OBVIOUS
    <3> QED
      BY <3>1 DEF Addresses
  <2>4. /\ Zeros(n) \in Seq(Hextets) /\ Len(Zeros(n)) = n
        /\ \A k \in 1..n : Zeros(n)[k] = 0
    <3>1. Zeros(n) \in [1..n -> Hextets]
      BY <2>3 DEF Zeros
    <3>2. \A k \in 1..n : Zeros(n)[k] = 0
      BY DEF Zeros
    <3> QED
      BY <3>1, <3>2
  <2>5. PICK bz : bz = before \o Zeros(n)
    OBVIOUS
  <2>6. /\ bz \in Seq(Hextets) /\ Len(bz) = to
        /\ \A k \in 1..to : bz[k] = words[k]
    <3>1. /\ bz \in Seq(Hextets) /\ Len(bz) = Len(before) + Len(Zeros(n))
          /\ \A k \in 1..Len(before) : bz[k] = before[k]
          /\ \A k \in 1..Len(Zeros(n)) : bz[Len(before) + k] = Zeros(n)[k]
      <4>1. before \in Seq(Hextets) /\ Zeros(n) \in Seq(Hextets)
        BY <1>6, <2>4
      <4> QED
        BY <2>5, <4>1, Joined
    <3>2. Len(bz) = to
      BY <1>6, <2>1, <2>4, <3>1
    <3>3. ASSUME NEW k \in 1..to PROVE bz[k] = words[k]
      <4>1. CASE k \in 1..(from - 1)
        BY <1>6, <1>7, <3>1, <4>1
      <4>2. CASE k \notin 1..(from - 1)
        <5>1. PICK m \in 1..n : k = (from - 1) + m /\ k \in from..to
          BY <2>1, <3>3, <4>2
        <5>2. bz[(from - 1) + m] = 0
          BY <1>6, <2>4, <3>1
        <5> QED
          BY <5>1, <5>2
      <4> QED
        BY <4>1, <4>2
    <3> QED
      BY <3>1, <3>2, <3>3
  <2>7. PICK all : all = bz \o after
    OBVIOUS
  <2>8. /\ all \in Seq(Hextets) /\ Len(all) = 8
        /\ \A k \in 1..8 : all[k] = words[k]
    <3>1. /\ all \in Seq(Hextets) /\ Len(all) = Len(bz) + Len(after)
          /\ \A k \in 1..Len(bz) : all[k] = bz[k]
          /\ \A k \in 1..Len(after) : all[Len(bz) + k] = after[k]
      <4>1. bz \in Seq(Hextets) /\ after \in Seq(Hextets)
        BY <1>6, <2>6
      <4> QED
        BY <2>7, <4>1, Joined
    <3>2. Len(all) = 8
      BY <1>6, <2>6, <3>1
    <3>3. ASSUME NEW k \in 1..8 PROVE all[k] = words[k]
      <4>1. CASE k \in 1..to
        BY <2>6, <3>1, <4>1
      <4>2. CASE k \notin 1..to
        <5>1. PICK m \in 1..(8 - to) : k = to + m
          BY <3>3, <4>2
        <5>2. all[to + m] = words[to + m]
          BY <1>6, <1>8, <2>6, <3>1
        <5> QED
          BY <5>1, <5>2
      <4> QED
        BY <4>1, <4>2
    <3> QED
      BY <3>1, <3>2, <3>3
  <2>9. all = words
    <3>1. all \in [1..8 -> Hextets]
      BY <2>8, LenProperties
    <3> QED
      BY <2>8, <3>1 DEF Addresses
  <2> QED
    BY <2>2, <2>5, <2>7, <2>9
<1>13. ReadingsAt(t, e) = {words}
  <2>1. SubSeq(t, 1, e - 1) = Side(A) /\ SubSeq(t, e + 1, Len(t)) = Side(C) /\ t[e] = Empty
    <3>1. e - 1 = Len(Side(A)) /\ e + 1 = Len(Side(A)) + 2
      BY <1>10, <1>11
    <3> QED
      BY <1>10, <1>11, <3>1
  <2>2. Len(RangeWords(A)) + Len(RangeWords(C)) <= 8
    BY <1>4, <1>5, <1>6
  <2> QED
    BY <1>4, <1>5, <1>12, <2>1, <2>2 DEF ReadingsAt
<1>14. ASSUME NEW d \in 2..(Len(t) - 1), d # e
       PROVE  ReadingsAt(t, d) = {}
  <2>1. Len(<<Empty>>) = 1
    OBVIOUS
  <2>2. PICK a \in Nat \ {0}, c \in Nat \ {0} :
          a = Len(Side(A)) /\ c = Len(Side(C)) /\ Len(t) = a + 1 + c
    BY <1>10
  <2>3. d \in 2..(a + c) /\ e = a + 1
    BY <1>11, <2>2
  <2>4. CASE d < e
    <3>1. d \in 1..a /\ a # 1
      BY <2>3, <2>4
    <3>2. Side(A) = A
      BY <2>1, <2>2, <3>1 DEF Side
    <3>3. d \in 1..Len(A) /\ t[d] = A[d]
      BY <1>10, <2>2, <3>1, <3>2
    <3>4. words[d] \in Hextets
      BY <1>2, <3>3 DEF Addresses
    <3>5. A[d] = <<Hexadecimal[words[d]]>>
      BY <1>2, <3>3
    <3>6. t[d] # Empty
      BY <3>3, <3>4, <3>5, HexGroup
    <3> QED
      BY <3>6, NotTheDouble
  <2>5. CASE d > e
    <3>1. PICK k \in 1..c : d = a + 1 + k /\ c # 1
      BY <2>3, <2>5
    <3>2. Side(C) = C
      BY <2>1, <2>2, <3>1 DEF Side
    <3>3. k \in 1..Len(C) /\ t[d] = C[k]
      BY <1>10, <2>2, <3>1, <3>2
    <3>4. words[to + k] \in Hextets
      BY <1>3, <3>3 DEF Addresses
    <3>5. C[k] = <<Hexadecimal[words[to + k]]>>
      BY <1>3, <3>3
    <3>6. t[d] # Empty
      BY <3>3, <3>4, <3>5, HexGroup
    <3> QED
      BY <3>6, NotTheDouble
  <2>6. d < e \/ d > e
    BY <1>14, <2>3
  <2> QED
    BY <2>4, <2>5, <2>6
<1>15. ~IsRange(t)
  <2>1. e \in 1..Len(t) /\ t[e] = Empty
    BY <1>10, <1>11
  <2> QED
    BY <2>1, EmptyPart DEF IsRange
<1>16. UNION { ReadingsAt(t, d) : d \in 2..(Len(t) - 1) } = {words}
  BY <1>11, <1>13, <1>14
<1> QED
  BY <1>15, <1>16 DEF Readings, A, C, t

(* Without a run to shorten, eight groups spell the address. *)
LEMMA WholeIsRead ==
  ASSUME NEW words \in Addresses
  PROVE  Readings(Groups(words, 1, 8)) = {words}
<1> DEFINE t == Groups(words, 1, 8)
<1>1. /\ 1 \in 1..9 /\ 8 \in (1 - 1)..8 /\ 8 - 1 + 1 = 8
      /\ \A k \in 1..8 : 1 + k - 1 = k
  OBVIOUS
<1>2. /\ t \in Seq(Seq(Pieces)) /\ Len(t) = 8 - 1 + 1
      /\ \A k \in 1..Len(t) : 1 + k - 1 \in 1..8 /\ t[k] = <<Hexadecimal[words[1 + k - 1]]>>
  BY <1>1, GroupsAre, ZenonT(60)
<1>3. /\ t = << >> \/ IsRange(t)
      /\ RangeWords(t) = [k \in 1..(8 - 1 + 1) |-> words[1 + k - 1]]
  BY <1>1, GroupsRead
<1>4. [k \in 1..(8 - 1 + 1) |-> words[1 + k - 1]] = words
  BY <1>1 DEF Addresses
<1> HIDE DEF t
<1>5. IsRange(t) /\ RangeWords(t) = words /\ Len(words) = 8
  <2>1. Len(words) = 8
    BY DEF Addresses
  <2>2. t # << >>
    BY <1>1, <1>2, EmptySeq
  <2> QED
    BY <1>3, <1>4, <2>1, <2>2
<1>6. ASSUME NEW d \in 2..(Len(t) - 1) PROVE ReadingsAt(t, d) = {}
  <2>1. d \in 1..8 /\ d \in 1..Len(t) /\ words[d] \in Hextets
    BY <1>2, <1>6 DEF Addresses
  <2>2. t[d] = <<Hexadecimal[words[d]]>>
    BY <1>1, <1>2, <2>1
  <2>3. t[d] # Empty
    BY <2>1, <2>2, HexGroup
  <2> QED
    BY <2>3, NotTheDouble
<1>7. UNION { ReadingsAt(t, d) : d \in 2..(Len(t) - 1) } = {}
  BY <1>6
<1> QED
  BY <1>5, <1>7 DEF Readings, t

(* The octets of a word give the word back. *)
LEMMA WordOfOctets ==
  ASSUME NEW w \in Hextets
  PROVE  /\ Decimal[w \div 256] \in Whole /\ IsOctet(Decimal[w \div 256])
         /\ Decimal[w % 256] \in Whole /\ IsOctet(Decimal[w % 256])
         /\ Value[Decimal[w \div 256]] * 256 + Value[Decimal[w % 256]] = w
<1>1. w \in Nat /\ w <= 65535
  <2>1. w \in Words
    BY FormatAssumption
  <2>2. MaxWord = 65535
    BY SMT DEF MaxWord
  <2>3. w \in 0..MaxWord
    BY <2>1 DEF Words
  <2>4. PICK m \in Nat : m = MaxWord
    BY <2>2, SMT
  <2>5. w \in Nat /\ w <= m
    BY <2>3, <2>4, SMT
  <2> QED
    BY <2>2, <2>4, <2>5, SMT
<1>2. PICK h \in Nat, l \in Nat : h = w \div 256 /\ l = w % 256
  BY <1>1
<1>4. l <= 255 /\ h * 256 + l = w
  BY <1>1, <1>2
<1>5. h <= 255
  BY <1>1, <1>4
<1>3. /\ Decimal[w \div 256] \in Whole /\ Value[Decimal[w \div 256]] = w \div 256
      /\ Decimal[w % 256] \in Whole /\ Value[Decimal[w % 256]] = w % 256
  BY FormatAssumption
<1>7. /\ Value[Decimal[w \div 256]] \in Nat /\ Value[Decimal[w \div 256]] <= 255
      /\ Value[Decimal[w % 256]] \in Nat /\ Value[Decimal[w % 256]] <= 255
  BY <1>2, <1>3, <1>4, <1>5
<1>8. IsOctet(Decimal[w \div 256]) /\ IsOctet(Decimal[w % 256])
  BY <1>7 DEF IsOctet, Octet, MaxOctet
<1> QED
  BY <1>2, <1>3, <1>4, <1>8

LEMMA DottedIsQuad ==
  ASSUME NEW high \in Hextets, NEW low \in Hextets
  PROVE  LET q == DottedWords(high, low) IN
         /\ StrictQuad(q) /\ Dotted(q) /\ QuadWords(q) = <<high, low>>
<1> DEFINE q == DottedWords(high, low)
<1>1. /\ Len(q) = 4
      /\ q[1] = Decimal[high \div 256] /\ q[2] = Decimal[high % 256]
      /\ q[3] = Decimal[low \div 256] /\ q[4] = Decimal[low % 256]
  BY DEF DottedWords
<1> HIDE DEF q
<1>2. \A k \in 1..4 : IsOctet(q[k]) /\ q[k] \in Whole
  <2>1. /\ IsOctet(q[1]) /\ q[1] \in Whole /\ IsOctet(q[2]) /\ q[2] \in Whole
        /\ IsOctet(q[3]) /\ q[3] \in Whole /\ IsOctet(q[4]) /\ q[4] \in Whole
    BY <1>1, WordOfOctets
  <2>2. \A k \in 1..4 : k = 1 \/ k = 2 \/ k = 3 \/ k = 4
    OBVIOUS
  <2> QED
    BY <2>1, <2>2
<1>3. StrictQuad(q)
  BY <1>1, <1>2 DEF StrictQuad, LenientQuad
<1>4. Dotted(q)
  BY <1>1 DEF Dotted
<1>5. QuadWords(q) = <<high, low>>
  BY <1>1, WordOfOctets DEF QuadWords
<1> QED
  BY <1>3, <1>4, <1>5 DEF q

(* The dotted text of an IPv4-mapped address. *)
LEMMA MappedIsRead ==
  ASSUME NEW words \in Addresses, words[6] = MaxWord, \A k \in 1..5 : words[k] = 0
  PROVE  Readings(<< Empty, Empty, <<Hexadecimal[MaxWord]>>,
                     DottedWords(words[7], words[8]) >>) = {words}
<1>1. PICK g, q : g = <<Hexadecimal[MaxWord]>> /\ q = DottedWords(words[7], words[8])
  OBVIOUS
<1>2. MaxWord \in Hextets /\ words[7] \in Hextets /\ words[8] \in Hextets
  BY DEF Addresses
<1>3. g # Empty /\ IsGroup(g) /\ ~Dotted(g) /\ Hex[g[1]] = MaxWord
  BY <1>1, <1>2, HexGroup
<1>4. StrictQuad(q) /\ Dotted(q) /\ QuadWords(q) = <<words[7], words[8]>>
  BY <1>1, <1>2, DottedIsQuad
<1> DEFINE t == <<Empty, Empty, g, q>>
<1>5. Len(t) = 4 /\ t[1] = Empty /\ t[2] = Empty /\ t[3] = g /\ t[4] = q
  OBVIOUS
<1>6. SubSeq(t, 1, 2 - 1) = <<Empty>> /\ SubSeq(t, 2 + 1, 4) = <<g, q>>
  <2>1. g \in Seq(Pieces) /\ q \in Seq(Pieces) /\ Empty \in Seq(Pieces)
    BY <1>1, <1>2, HexGroup, PiecesWritten, EmptyPart DEF DottedWords
  <2>2. t = <<Empty>> \o <<Empty>> \o <<g, q>>
    OBVIOUS
  <2> DEFINE A == <<Empty>>
             C == <<g, q>>
  <2>3. A \in Seq(Seq(Pieces)) /\ C \in Seq(Seq(Pieces)) /\ A # << >> /\ C # << >>
    BY <2>1
  <2>4. Len(A) = 1 /\ t = A \o <<Empty>> \o C
    BY <2>2
  <2> HIDE DEF A, C, t
  <2>5. SubSeq(t, 1, Len(A)) = A /\ SubSeq(t, Len(A) + 2, Len(t)) = C
    BY <2>3, <2>4, SidesApart
  <2> QED
    BY <1>5, <2>4, <2>5 DEF A, C
<1> HIDE DEF t
<1>7. /\ Trimmed(<<Empty>>) = << >> /\ ~EndsInQuad(<< >>) /\ RangeWords(<< >>) = << >>
  BY DEF Trimmed, EndsInQuad, RangeWords
<1> DEFINE r == <<g, q>>
<1>8. Len(r) = 2 /\ r[1] = g /\ r[2] = q /\ r # << >> /\ r # <<Empty>>
  <2>1. Len(<<Empty>>) = 1
    OBVIOUS
  <2> QED
    BY <2>1
<1> HIDE DEF r
<1>9. Trimmed(r) = r /\ EndsInQuad(r)
  BY <1>4, <1>8 DEF Trimmed, EndsInQuad
<1>10. IsRange(r)
  <2>1. \A k \in 1..2 : k = 1 \/ k = 2
    OBVIOUS
  <2> QED
    BY <1>3, <1>4, <1>8, <2>1 DEF IsRange
<1> DEFINE one == [k \in 1..1 |-> Hex[r[k][1]]]
<1>11. /\ RangeWords(r) = one \o <<words[7], words[8]>>
       /\ one \in Seq(Hextets) /\ Len(one) = 1 /\ one[1] = words[6]
  <2>1. Len(r) - 1 = 1
    BY <1>8
  <2>2. one \in [1..1 -> Hextets] /\ one[1] = MaxWord
    BY <1>2, <1>3, <1>8
  <2>3. RangeWords(r) = one \o <<words[7], words[8]>>
    BY <1>4, <1>8, <1>9, <2>1 DEF RangeWords
  <2> HIDE DEF one
  <2>4. one \in Seq(Hextets) /\ Len(one) = 1
    BY <2>2, SeqOfFunction
  <2> QED
    BY <2>2, <2>3, <2>4
<1> HIDE DEF one
<1> DEFINE pair  == <<words[7], words[8]>>
           five  == Zeros(5)
           three == one \o pair
           front == << >> \o five
           all   == front \o three
<1>12. Len(three) = 3 /\ all = words
  <2>1. pair \in Seq(Hextets) /\ Len(pair) = 2 /\ pair[1] = words[7] /\ pair[2] = words[8]
    BY <1>2
  <2>2. five \in Seq(Hextets) /\ Len(five) = 5 /\ \A k \in 1..5 : five[k] = 0
    <3>1. 0 \in Hextets
      BY DEF Addresses
    <3>2. five \in [1..5 -> Hextets] /\ 5 \in Nat
      BY <3>1 DEF Zeros
    <3>3. \A k \in 1..5 : five[k] = 0
      BY DEF Zeros
    <3> HIDE DEF five
    <3>4. five \in Seq(Hextets) /\ Len(five) = 5
      BY <3>2, SeqOfFunction, ZenonT(60)
    <3> QED
      BY <3>3, <3>4
  <2> HIDE DEF pair, five
  <2>3. /\ three \in Seq(Hextets) /\ Len(three) = Len(one) + Len(pair)
        /\ \A k \in 1..Len(one) : three[k] = one[k]
        /\ \A k \in 1..Len(pair) : three[Len(one) + k] = pair[k]
    <3>1. one \in Seq(Hextets) /\ pair \in Seq(Hextets)
      BY <1>11, <2>1
    <3> QED
      BY <3>1, Joined
  <2>4. front = five
    BY <2>2
  <2>9. all = five \o three
    BY <2>4, Zenon
  <2> HIDE DEF three, front, all
  <2>5. Len(three) = 3 /\ three[1] = words[6] /\ three[2] = words[7] /\ three[3] = words[8]
    <3>1. 1 \in 1..Len(one) /\ 1 \in 1..Len(pair) /\ 2 \in 1..Len(pair)
      BY <1>11, <2>1
    <3>2. three[1] = one[1] /\ three[1 + 1] = pair[1] /\ three[1 + 2] = pair[2]
      BY <1>11, <2>3, <3>1
    <3> QED
      BY <1>11, <2>1, <2>3, <3>2
  <2>6. /\ all \in Seq(Hextets) /\ Len(all) = Len(five) + Len(three)
        /\ \A k \in 1..Len(five) : all[k] = five[k]
        /\ \A k \in 1..Len(three) : all[Len(five) + k] = three[k]
    <3>1. five \in Seq(Hextets) /\ three \in Seq(Hextets)
      BY <2>2, <2>3
    <3> QED
      BY <2>9, <3>1, Joined
  <2>7. ASSUME NEW k \in 1..8 PROVE all[k] = words[k]
    <3>1. CASE k \in 1..5
      BY <2>2, <2>6, <3>1
    <3>2. CASE k \notin 1..5
      <4>1. PICK m \in 1..3 : k = 5 + m
        BY <2>7, <3>2
      <4>2. all[5 + m] = three[m]
        BY <2>2, <2>5, <2>6
      <4>3. m = 1 \/ m = 2 \/ m = 3
        BY <4>1
      <4> QED
        BY <2>5, <4>1, <4>2, <4>3
    <3> QED
      BY <3>1, <3>2
  <2>8. all \in [1..8 -> Hextets]
    <3>1. all \in Seq(Hextets) /\ Len(all) = 8
      BY <2>2, <2>5, <2>6
    <3> QED
      BY <3>1, FunctionOfSeq
  <2> QED
    BY <2>5, <2>7, <2>8 DEF Addresses
<1>13. ReadingsAt(t, 2) = {words}
  <2>1. /\ SubSeq(t, 1, 2 - 1) = <<Empty>> /\ SubSeq(t, 2 + 1, Len(t)) = r /\ t[2] = Empty
    BY <1>5, <1>6 DEF r
  <2>2. Len(<< >>) = 0 /\ Len(RangeWords(r)) = 3
    BY <1>11, <1>12
  <2>3. /\ RangeWords(Trimmed(<<Empty>>)) = << >> /\ Trimmed(r) = r
    BY <1>7, <1>9
  <2>4. << >> \o Zeros(8 - (0 + 3)) \o RangeWords(r) = words
    <3>1. RangeWords(r) = three
      BY <1>11
    <3>2. 8 - (0 + 3) = 5
      OBVIOUS
    <3> QED
      BY <1>12, <3>1, <3>2
  <2> HIDE DEF pair, five, three, front, all
  <2>5. /\ Trimmed(<<Empty>>) = << >> /\ ~EndsInQuad(<< >>)
        /\ RangeWords(<< >>) = << >> /\ 0 + 3 <= 8
    BY <1>7
  <2>6. ReadingsAt(t, 2) = {<< >> \o Zeros(8 - (0 + 3)) \o RangeWords(r)}
    BY <1>10, <2>1, <2>2, <2>3, <2>5, Zenon DEF ReadingsAt
  <2> QED
    BY <2>4, <2>6
<1>14. ReadingsAt(t, 3) = {}
  BY <1>3, <1>5, NotTheDouble
<1>15. ~IsRange(t)
  BY <1>5, EmptyPart DEF IsRange
<1>16. UNION { ReadingsAt(t, d) : d \in 2..(Len(t) - 1) } = {words}
  <2>1. 2..(Len(t) - 1) = {2, 3}
    BY <1>5
  <2> QED
    BY <1>13, <1>14, <2>1
<1> QED
  BY <1>1, <1>15, <1>16 DEF Readings, t
-----------------------------------------------------------------------------
(* The loop that writes has written the words before `i', the run of zeros *)
(* left out once it is passed.                                             *)

Given == [k \in 1..8 |-> hextets[k - 1]]

Written(from, to) == Side(Groups(Given, from, to))

(* The words before the run, and the "::", but not the side after it. *)
Shortened == Written(1, bestStart) \o <<Empty>>

WriteInv ==
  /\ pc \in {"start", "scan"} => os = <<Empty>>
  /\ pc \in {"scan", "write"} => ~IPv4Mapped
  /\ pc = "write" =>
       \/ bestStart = -1 /\ bestLength < 2 /\ os = Written(1, i)
       \/ bestStart >= 0 /\ i <= bestStart /\ os = Written(1, i)
       \/ /\ bestStart >= 0 /\ i >= bestStart + bestLength
          /\ os = Shortened \o Written(bestStart + bestLength + 1, i)

LEMMA GivenIsAddress ==
  ASSUME TypeOK
  PROVE  /\ Given \in Addresses
         /\ \A k \in 0..7 : Given[k + 1] = hextets[k]
         /\ \A k \in 1..8 : Given[k] = hextets[k - 1]
<1>1. Given \in Addresses
  BY DEF TypeOK, Given, Addresses
<1>2. ASSUME NEW k \in 0..7 PROVE Given[k + 1] = hextets[k]
  <2>1. k + 1 \in 1..8 /\ (k + 1) - 1 = k
    OBVIOUS
  <2> QED
    BY <2>1 DEF Given
<1> QED
  BY <1>1, <1>2 DEF Given

(* os << digits after a colon, or at the very start. *)
LEMMA WordWritten ==
  ASSUME NEW before \in Seq(Seq(Pieces)), NEW w \in Hextets
  PROVE  Digits(before \o <<Empty>>, Hexadecimal[w]) = before \o << <<Hexadecimal[w]>> >>
<1> DEFINE open == before \o <<Empty>>
           full == before \o << <<Hexadecimal[w]>> >>
           got  == Digits(open, Hexadecimal[w])
<1>1. PICK n \in Nat : n = Len(before)
  OBVIOUS
<1>2. /\ open \in Seq(Seq(Pieces)) /\ Len(open) = n + 1
      /\ \A k \in 1..n : open[k] = before[k]
      /\ open[n + 1] = Empty
  <2>1. <<Empty>> \in Seq(Seq(Pieces)) /\ Len(<<Empty>>) = 1 /\ <<Empty>>[1] = Empty
    BY EmptyPart
  <2> QED
    BY <1>1, <2>1
<1>3. /\ full \in Seq(Seq(Pieces)) /\ Len(full) = n + 1
      /\ \A k \in 1..n : full[k] = before[k]
      /\ full[n + 1] = <<Hexadecimal[w]>>
  <2>1. <<Hexadecimal[w]>> \in Seq(Pieces)
    BY HexGroup
  <2>2. PICK part \in Seq(Pieces) : part = <<Hexadecimal[w]>>
    BY <2>1
  <2> QED
    BY <1>1, <2>2
<1> HIDE DEF open
<1>4. got = [open EXCEPT ![n + 1] = <<Hexadecimal[w]>>]
  BY <1>2 DEF Digits
<1>5. <<Hexadecimal[w]>> \in Seq(Pieces)
  BY HexGroup
<1> HIDE DEF full, got
<1>6. got \in Seq(Seq(Pieces)) /\ Len(got) = n + 1
  <2>1. n + 1 \in 1..Len(open)
    BY <1>2
  <2> QED
    BY <1>2, <1>4, <1>5, <2>1
<1>7. ASSUME NEW k \in 1..(n + 1) PROVE got[k] = full[k]
  <2>1. k \in 1..Len(open)
    BY <1>2
  <2>2. got[k] = IF k = n + 1 THEN <<Hexadecimal[w]>> ELSE open[k]
    BY <1>2, <1>4, <2>1
  <2> QED
    BY <1>2, <1>3, <2>2
<1>8. got = full
  BY <1>3, <1>6, <1>7, SeqEqual
<1> QED
  BY <1>8 DEF got, full, open

LEMMA GroupsGrow ==
  ASSUME NEW words \in Addresses, NEW from \in 1..8, NEW to \in (from - 1)..7
  PROVE  Groups(words, from, to + 1)
           = Groups(words, from, to) \o << <<Hexadecimal[words[to + 1]]>> >>
<1> DEFINE now  == Groups(words, from, to)
           next == Groups(words, from, to + 1)
<1>1. PICK n \in Nat : n = to - from + 1 /\ from + n = to + 1
  OBVIOUS
<1>2. from \in 1..9 /\ to \in (from - 1)..8 /\ to + 1 \in (from - 1)..8
  OBVIOUS
<1>3. /\ now \in Seq(Seq(Pieces)) /\ Len(now) = to - from + 1
      /\ \A k \in 1..Len(now) : now[k] = <<Hexadecimal[words[from + k - 1]]>>
  BY <1>2, GroupsAre
<1>4. /\ next \in Seq(Seq(Pieces)) /\ Len(next) = (to + 1) - from + 1
      /\ \A k \in 1..Len(next) : next[k] = <<Hexadecimal[words[from + k - 1]]>>
  BY <1>2, GroupsAre
<1> HIDE DEF now, next
<1>5. PICK part \in Seq(Pieces) : part = <<Hexadecimal[words[to + 1]]>>
  <2>1. words[to + 1] \in Hextets
    BY DEF Addresses
  <2> QED
    BY <2>1, HexGroup
<1> DEFINE grown == now \o <<part>>
<1>6. /\ grown \in Seq(Seq(Pieces)) /\ Len(grown) = n + 1
      /\ \A k \in 1..n : grown[k] = now[k]
      /\ grown[n + 1] = part
  BY <1>1, <1>3
<1> HIDE DEF grown
<1>7. ASSUME NEW k \in 1..(n + 1) PROVE next[k] = grown[k]
  <2>1. k \in 1..Len(next)
    BY <1>1, <1>4
  <2>2. CASE k \in 1..n
    BY <1>1, <1>3, <1>4, <1>6, <2>1, <2>2
  <2>3. CASE k \notin 1..n
    <3>1. k = n + 1 /\ from + k - 1 = to + 1
      BY <1>1, <1>7, <2>3
    <3> QED
      BY <1>4, <1>5, <1>6, <2>1, <3>1
  <2> QED
    BY <2>2, <2>3
<1>8. Len(next) = n + 1
  BY <1>1, <1>4
<1>9. next = grown
  BY <1>4, <1>6, <1>7, <1>8, SeqEqual
<1> QED
  BY <1>5, <1>9 DEF now, next, grown

(* A word more on the last side of the text. *)
LEMMA SideGrows ==
  ASSUME NEW before \in Seq(Seq(Pieces)), NEW words \in Addresses,
         NEW from \in 1..8, NEW to \in (from - 1)..7
  PROVE  LET side == before \o Side(Groups(words, from, to)) IN
         Digits(IF to = from - 1 THEN side ELSE Colon(side), Hexadecimal[words[to + 1]])
           = before \o Side(Groups(words, from, to + 1))
<1> DEFINE now  == Groups(words, from, to)
           next == Groups(words, from, to + 1)
<1>1. PICK w \in Hextets, part \in Seq(Pieces) :
        w = words[to + 1] /\ part = <<Hexadecimal[w]>>
  <2>1. words[to + 1] \in Hextets
    BY DEF Addresses
  <2> QED
    BY <2>1, HexGroup
<1>2. now \in Seq(Seq(Pieces)) /\ (now = << >> <=> to = from - 1)
  <2>1. from \in 1..9 /\ to \in (from - 1)..8
    OBVIOUS
  <2> QED
    BY <2>1, GroupsAre
<1>3. next = now \o <<part>>
  BY <1>1, GroupsGrow
<1> HIDE DEF now, next
<1>4. Side(next) = next
  <2>1. next # << >>
    BY <1>2, <1>3
  <2> QED
    BY <2>1 DEF Side
<1>5. CASE to = from - 1
  <2>1. now = << >> /\ Side(now) = <<Empty>>
    BY <1>2, <1>5 DEF Side
  <2>2. next = <<part>>
    BY <1>2, <1>3, <2>1
  <2>3. Digits(before \o Side(now), Hexadecimal[w]) = before \o <<part>>
    BY <1>1, <2>1, WordWritten
  <2> QED
    BY <1>1, <1>4, <1>5, <2>2, <2>3 DEF now, next
<1>6. CASE to # from - 1
  <2>1. Side(now) = now
    BY <1>2, <1>6 DEF Side
  <2>2. before \o now \in Seq(Seq(Pieces)) /\ Empty \in Seq(Pieces)
    BY <1>2, EmptyPart
  <2>3. Colon(before \o now) = (before \o now) \o <<Empty>>
    BY <2>2, AppendIsConcat DEF Colon
  <2>4. Digits(Colon(before \o now), Hexadecimal[w]) = (before \o now) \o <<part>>
    BY <1>1, <2>2, <2>3, WordWritten
  <2>5. (before \o now) \o <<part>> = before \o next
    BY <1>2, <1>3
  <2> QED
    BY <1>1, <1>4, <1>6, <2>1, <2>4, <2>5 DEF now, next
<1> QED
  BY <1>5, <1>6

(* The run that the scan has found is the one of the canonical text. *)
LEMMA RunFound ==
  ASSUME TypeOK, RunIsLeftmostLongest, pc = "write"
  PROVE  IF bestStart = -1
         THEN ZeroRuns(Given) = {}
         ELSE /\ ZeroRuns(Given) # {}
              /\ ShortenedRun(Given) = <<bestStart + 1, bestStart + bestLength>>
<1>1. ASSUME NEW r \in ZeroRuns(Given)
      PROVE  /\ r[1] \in 1..7 /\ r[2] \in 2..8 /\ r[1] < r[2] /\ r = <<r[1], r[2]>>
             /\ r[1] - 1 \in 0..6 /\ r[2] - r[1] + 1 \in 2..8
             /\ ZeroRun(r[1] - 1, r[2] - r[1] + 1, 8)
  <2>1. /\ r[1] \in 1..8 /\ r[2] \in 1..8 /\ r[1] < r[2] /\ r = <<r[1], r[2]>>
        /\ \A k \in r[1]..r[2] : Given[k] = 0
    BY DEF ZeroRuns
  <2>2. r[1] \in 1..7 /\ r[2] \in 2..8 /\ r[1] - 1 \in 0..6 /\ r[2] - r[1] + 1 \in 2..8
    BY <2>1
  <2>3. ASSUME NEW k \in 0..7, r[1] - 1 <= k, k < r[1] - 1 + (r[2] - r[1] + 1)
        PROVE  hextets[k] = 0
    <3>1. k + 1 \in r[1]..r[2]
      BY <2>1, <2>3
    <3> QED
      BY <2>1, <3>1, GivenIsAddress
  <2>4. ZeroRun(r[1] - 1, r[2] - r[1] + 1, 8)
    BY <2>2, <2>3 DEF ZeroRun
  <2> QED
    BY <2>1, <2>2, <2>4
<1>2. CASE bestStart = -1
  <2>1. \A s \in 0..6 : ~ZeroRun(s, 2, 8)
    BY <1>2 DEF RunIsLeftmostLongest
  <2>2. ASSUME NEW r \in ZeroRuns(Given) PROVE FALSE
    <3>1. r[1] - 1 \in 0..6 /\ ZeroRun(r[1] - 1, 2, 8)
      BY <1>1 DEF ZeroRun
    <3> QED
      BY <2>1, <3>1
  <2> QED
    BY <1>2, <2>2
<1>3. CASE bestStart # -1
  <2>1. PICK s \in 0..6, n \in 2..8 :
          /\ s = bestStart /\ n = bestLength /\ s + n <= 8
          /\ ZeroRun(s, n, 8) /\ Longest(s, n, 8)
    <3>1. /\ bestLength >= 2 /\ ZeroRun(bestStart, bestLength, 8)
          /\ Longest(bestStart, bestLength, 8)
      BY <1>3 DEF RunIsLeftmostLongest
    <3>2. bestStart \in 0..6 /\ bestLength \in 2..8 /\ bestStart + bestLength <= 8
      BY <3>1 DEF TypeOK, ZeroRun
    <3> QED
      BY <3>1, <3>2
  <2> DEFINE run == <<s + 1, s + n>>
  <2>2. run \in ZeroRuns(Given)
    <3>1. s + 1 \in 1..8 /\ s + n \in 1..8 /\ s + 1 < s + n
      BY <2>1
    <3>2. ASSUME NEW k \in (s + 1)..(s + n) PROVE Given[k] = 0
      <4>1. k - 1 \in 0..7 /\ k \in 1..8 /\ s <= k - 1 /\ k - 1 < s + n
        BY <2>1, <3>2
      <4>2. hextets[k - 1] = 0
        BY <2>1, <4>1 DEF ZeroRun
      <4> QED
        BY <4>1, <4>2, GivenIsAddress
    <3> QED
      BY <3>1, <3>2 DEF ZeroRuns
  <2>3. run[1] = s + 1 /\ run[2] = s + n /\ run[2] - run[1] = n - 1
    OBVIOUS
  <2>4. ASSUME NEW r \in ZeroRuns(Given)
        PROVE  /\ r[2] - r[1] <= n - 1
               /\ r[2] - r[1] = n - 1 => s + 1 <= r[1]
    <3>1. PICK a \in 0..6, m \in 2..8 : a = r[1] - 1 /\ m = r[2] - r[1] + 1 /\ ZeroRun(a, m, 8)
      BY <1>1
    <3>2. m <= n /\ (m = n => s <= a)
      BY <2>1, <3>1 DEF Longest
    <3>3. r[1] \in 1..7 /\ r[2] \in 2..8
      BY <1>1
    <3> QED
      BY <3>1, <3>2, <3>3
  <2> DEFINE Wins(r) == \A q \in ZeroRuns(Given) :
                          \/ q[2] - q[1] < r[2] - r[1]
                          \/ q[2] - q[1] = r[2] - r[1] /\ r[1] <= q[1]
  <2>5. Wins(run)
    <3> HIDE DEF run
    <3>1. ASSUME NEW q \in ZeroRuns(Given)
          PROVE  \/ q[2] - q[1] < run[2] - run[1]
                 \/ q[2] - q[1] = run[2] - run[1] /\ run[1] <= q[1]
      <4>1. q[1] \in 1..7 /\ q[2] \in 2..8
        BY <1>1
      <4> QED
        BY <2>3, <2>4, <4>1
    <3> QED
      BY <3>1
  <2>6. ASSUME NEW r \in ZeroRuns(Given), Wins(r) PROVE r = run
    <3>1. r[1] \in 1..7 /\ r[2] \in 2..8 /\ r = <<r[1], r[2]>>
      BY <1>1
    <3>2. \/ n - 1 < r[2] - r[1]
          \/ n - 1 = r[2] - r[1] /\ r[1] <= s + 1
      <4> HIDE DEF run
      <4> QED
        BY <2>2, <2>3, <2>6
    <3>3. r[1] = s + 1 /\ r[2] = s + n
      BY <2>4, <3>1, <3>2
    <3> QED
      BY <3>1, <3>3
  <2>7. ShortenedRun(Given) = CHOOSE r \in ZeroRuns(Given) : Wins(r)
    BY DEF ShortenedRun
  <2> HIDE DEF Wins
  <2>8. ShortenedRun(Given) = run
    BY <2>2, <2>5, <2>6, <2>7
  <2> QED
    BY <1>3, <2>1, <2>2, <2>8
<1> QED
  BY <1>2, <1>3

LEMMA MappedAsCanonical ==
  ASSUME TypeOK, IPv4Mapped
  PROVE  MappedText = Canonical(Given) /\ Readings(MappedText) = {Given}
<1>1. Given[6] = hextets[5] /\ Given[7] = hextets[6] /\ Given[8] = hextets[7]
  BY GivenIsAddress
<1>2. Given[6] = MaxWord
  BY <1>1 DEF IPv4Mapped, MaxWord
<1>3. ASSUME NEW k \in 1..5 PROVE Given[k] = 0
  <2>1. k \in 1..8 /\ k - 1 \in 0..4
    OBVIOUS
  <2>2. Given[k] = hextets[k - 1]
    BY <2>1, GivenIsAddress
  <2> QED
    BY <2>1, <2>2 DEF IPv4Mapped
<1>4. MappedText = << Empty, Empty, <<Hexadecimal[MaxWord]>>, DottedWords(Given[7], Given[8]) >>
  BY <1>1 DEF MappedText, DottedWords, MaxWord
<1>5. MappedText = Canonical(Given)
  BY <1>2, <1>3, <1>4 DEF Canonical
<1>6. Readings(MappedText) = {Given}
  BY <1>2, <1>3, <1>4, GivenIsAddress, MappedIsRead
<1> QED
  BY <1>5, <1>6

LEMMA WrittenIsCanonical ==
  ASSUME TypeOK, RunIsLeftmostLongest, WriteInv, pc = "write", i = 8
  PROVE  os = Canonical(Given) /\ Readings(os) = {Given}
<1>1. ~(Given[6] = MaxWord /\ \A k \in 1..5 : Given[k] = 0)
  <2> SUFFICES ASSUME Given[6] = MaxWord, \A k \in 1..5 : Given[k] = 0
               PROVE  IPv4Mapped
    BY DEF WriteInv
  <2>1. Given[6] = hextets[5]
    BY GivenIsAddress
  <2>2. ASSUME NEW k \in 0..4 PROVE hextets[k] = 0
    <3>1. k \in 0..7 /\ k + 1 \in 1..5
      OBVIOUS
    <3>2. Given[k + 1] = hextets[k]
      BY <3>1, GivenIsAddress
    <3> QED
      BY <3>1, <3>2
  <2> QED
    BY <2>1, <2>2 DEF IPv4Mapped, MaxWord
<1>2. CASE bestStart = -1
  <2>1. ZeroRuns(Given) = {}
    BY <1>2, RunFound
  <2>2. os = Side(Groups(Given, 1, 8))
    BY <1>2 DEF WriteInv, Written
  <2>3. Groups(Given, 1, 8) # << >>
    <3>1. 1 \in 1..9 /\ 8 \in (1 - 1)..8 /\ 8 # 1 - 1
      OBVIOUS
    <3> QED
      BY <3>1, GivenIsAddress, GroupsAre
  <2>4. os = Groups(Given, 1, 8)
    BY <2>2, <2>3 DEF Side
  <2> QED
    BY <1>1, <2>1, <2>4, GivenIsAddress, WholeIsRead DEF Canonical
<1>3. CASE bestStart # -1
  <2>1. ZeroRuns(Given) # {} /\ ShortenedRun(Given) = <<bestStart + 1, bestStart + bestLength>>
    BY <1>3, RunFound
  <2>2. /\ bestStart \in 0..6 /\ bestLength \in 2..8 /\ bestStart + bestLength <= 8
        /\ ZeroRun(bestStart, bestLength, 8)
    <3>1. bestLength >= 2 /\ ZeroRun(bestStart, bestLength, 8)
      BY <1>3 DEF RunIsLeftmostLongest
    <3> QED
      BY <3>1 DEF TypeOK, ZeroRun
  <2>3. PICK from \in 1..8, to \in 1..8 :
          /\ from = bestStart + 1 /\ to = bestStart + bestLength
          /\ from - 1 = bestStart /\ to \in from..8
    BY <2>2
  <2>4. os = Side(Groups(Given, 1, from - 1)) \o <<Empty>> \o Side(Groups(Given, to + 1, 8))
    <3>1. os = Shortened \o Written(bestStart + bestLength + 1, 8)
      BY <1>3, <2>2 DEF WriteInv
    <3> QED
      BY <2>3, <3>1 DEF Shortened, Written
  <2>5. ASSUME NEW k \in from..to PROVE Given[k] = 0
    <3>1. k \in 1..8 /\ k - 1 \in 0..7 /\ bestStart <= k - 1 /\ k - 1 < bestStart + bestLength
      BY <2>2, <2>3
    <3>2. Given[k] = hextets[k - 1]
      BY <3>1, GivenIsAddress
    <3> QED
      BY <2>2, <3>1, <3>2 DEF ZeroRun
  <2>6. Readings(os) = {Given}
    BY <2>3, <2>4, <2>5, GivenIsAddress, ShortenedIsRead
  <2>7. ShortenedRun(Given)[1] = from /\ ShortenedRun(Given)[2] = to
    BY <2>1, <2>3
  <2>8. os = Canonical(Given)
    BY <1>1, <2>1, <2>4, <2>7 DEF Canonical
  <2> QED
    BY <2>6, <2>8
<1> QED
  BY <1>2, <1>3

(* What is written stays written while the words do. *)
LEMMA SameWords ==
  ASSUME hextets' = hextets
  PROVE  /\ Given' = Given
         /\ IPv4Mapped' = IPv4Mapped
BY DEF Given, IPv4Mapped

LEMMA NothingWritten ==
  ASSUME TypeOK
  PROVE  \A from \in 1..9 : Written(from, from - 1) = <<Empty>>
<1> SUFFICES ASSUME NEW from \in 1..9 PROVE Groups(Given, from, from - 1) = << >>
  BY DEF Written, Side
<1>1. from - 1 \in (from - 1)..8
  OBVIOUS
<1> QED
  BY <1>1, GivenIsAddress, GroupsAre

LEMMA WrittenIsText ==
  ASSUME TypeOK, NEW from \in 1..9, NEW to \in (from - 1)..8
  PROVE  Written(from, to) \in Seq(Seq(Pieces))
<1>1. Groups(Given, from, to) \in Seq(Seq(Pieces))
  BY GivenIsAddress, GroupsAre
<1>2. <<Empty>> \in Seq(Seq(Pieces))
  BY EmptyPart
<1> QED
  BY <1>1, <1>2 DEF Written, Side

(* A step of the loop: the "::" of the run, or one word more. *)
LEMMA RunKeepsWriteInv ==
  ASSUME TypeOK, RunIsLeftmostLongest, WriteInv, WriteRun
  PROVE  WriteInv'
<1>1. /\ pc = "write" /\ pc' = "write" /\ i = bestStart /\ i < 8
      /\ i' = i + bestLength /\ os' = Colon(Colon(os))
      /\ bestStart' = bestStart /\ bestLength' = bestLength /\ hextets' = hextets
  BY DEF WriteRun
<1>2. i \in 0..7 /\ bestStart \in 0..7 /\ bestLength \in 2..8 /\ i + bestLength <= 8
  BY <1>1, RunFits DEF TypeOK, RunIsLeftmostLongest
<1>3. os = Written(1, i)
  BY <1>1, <1>2 DEF WriteInv
<1>4. os \in Seq(Seq(Pieces)) /\ Empty \in Seq(Pieces)
  BY EmptyPart DEF TypeOK
<1>5. Colon(os) = os \o <<Empty>> /\ Colon(os) \in Seq(Seq(Pieces))
  BY <1>4, AppendIsConcat, AppendProperties DEF Colon
<1>6. Colon(Colon(os)) = Colon(os) \o <<Empty>>
  BY <1>4, <1>5, AppendIsConcat DEF Colon
<1>7. Written(bestStart + bestLength + 1, i') = <<Empty>>
  <2>1. bestStart + bestLength + 1 \in 1..9 /\ i' = (bestStart + bestLength + 1) - 1
    BY <1>1, <1>2
  <2> QED
    BY <2>1, NothingWritten
<1>8. os' = Shortened \o Written(bestStart + bestLength + 1, i')
  BY <1>1, <1>3, <1>5, <1>6, <1>7 DEF Shortened
<1>9. (Shortened \o Written(bestStart + bestLength + 1, i))'
        = Shortened \o Written(bestStart + bestLength + 1, i')
  BY <1>1, SameWords DEF Shortened, Written
<1>10. ~IPv4Mapped'
  BY <1>1, SameWords DEF WriteInv
<1>11. pc' = "write" /\ bestStart' >= 0 /\ i' >= bestStart' + bestLength'
  BY <1>1, <1>2
<1>12. os' = (Shortened \o Written(bestStart + bestLength + 1, i))'
  BY <1>8, <1>9, Zenon
<1> QED
  BY <1>10, <1>11, <1>12 DEF WriteInv

LEMMA WordKeepsWriteInv ==
  ASSUME TypeOK, RunIsLeftmostLongest, WriteInv, WriteWord
  PROVE  WriteInv'
<1>1. /\ pc = "write" /\ pc' = "write" /\ i # bestStart /\ i < 8 /\ i' = i + 1
      /\ os' = Digits(IF NeedsColon THEN Colon(os) ELSE os, Hexadecimal[hextets[i]])
      /\ bestStart' = bestStart /\ bestLength' = bestLength /\ hextets' = hextets
  BY DEF WriteWord
<1>2. i \in 0..7 /\ bestStart \in -1..7 /\ bestLength \in 0..8
  BY <1>1 DEF TypeOK
<1>3. Given[i + 1] = hextets[i] /\ Given \in Addresses
  BY <1>2, GivenIsAddress
<1>4. ~IPv4Mapped'
  BY <1>1, SameWords DEF WriteInv
<1>5. \A from, to \in Int : Written(from, to)' = Written(from, to)
  BY <1>1, SameWords DEF Written
<1>6. CASE bestStart = -1 \/ i < bestStart
  <2>1. os = Written(1, i)
    BY <1>1, <1>2, <1>6 DEF WriteInv, RunIsLeftmostLongest
  <2>2. NeedsColon <=> i # 0
    BY <1>1, <1>2, <1>6 DEF NeedsColon, WriteInv, RunIsLeftmostLongest
  <2>3. 1 \in 1..8 /\ i \in (1 - 1)..7 /\ 1 \in 1..9 /\ i \in (1 - 1)..8 /\ i + 1 \in (1 - 1)..8
    BY <1>2
  <2>4. /\ << >> \in Seq(Seq(Pieces))
        /\ << >> \o Written(1, i) = Written(1, i)
        /\ << >> \o Written(1, i + 1) = Written(1, i + 1)
    BY <2>3, WrittenIsText
  <2>5. Digits(IF i = 1 - 1 THEN << >> \o Written(1, i) ELSE Colon(<< >> \o Written(1, i)),
               Hexadecimal[Given[i + 1]])
          = << >> \o Written(1, i + 1)
    BY <1>3, <2>3, <2>4, SideGrows DEF Written
  <2>6. os' = Written(1, i + 1)
    BY <1>1, <1>2, <1>3, <2>1, <2>2, <2>4, <2>5
  <2>7. os' = Written(1, i)'
    BY <1>1, <2>6, SameWords DEF Written
  <2> QED
    BY <1>1, <1>2, <1>4, <1>6, <2>7 DEF WriteInv
<1>7. CASE ~(bestStart = -1 \/ i < bestStart)
  <2> DEFINE from == bestStart + bestLength + 1
  <2>1. bestStart \in 0..6 /\ bestLength \in 2..8 /\ i > bestStart
    BY <1>1, <1>2, <1>7 DEF RunIsLeftmostLongest, ZeroRun
  <2>2. i >= bestStart + bestLength /\ os = Shortened \o Written(from, i)
    BY <1>1, <1>2, <2>1, SMTT(60) DEF WriteInv
  <2>3. NeedsColon <=> i # from - 1
    BY <1>2, <2>1, <2>2 DEF NeedsColon
  <2>4. /\ from \in 1..8 /\ i \in (from - 1)..7 /\ from \in 1..9
        /\ i \in (from - 1)..8 /\ i + 1 \in (from - 1)..8
    BY <1>2, <2>1, <2>2
  <2>5. Shortened \in Seq(Seq(Pieces))
    <3>1. 1 \in 1..9 /\ bestStart \in (1 - 1)..8
      BY <2>1
    <3>2. Written(1, bestStart) \in Seq(Seq(Pieces))
      BY <3>1, WrittenIsText
    <3>3. <<Empty>> \in Seq(Seq(Pieces))
      BY EmptyPart
    <3> QED
      BY <3>2, <3>3 DEF Shortened
  <2> HIDE DEF from
  <2>6. Digits(IF i = from - 1 THEN Shortened \o Written(from, i)
                               ELSE Colon(Shortened \o Written(from, i)),
               Hexadecimal[Given[i + 1]])
          = Shortened \o Written(from, i + 1)
    BY <1>3, <2>4, <2>5, SideGrows DEF Written
  <2>7. os' = Shortened \o Written(from, i + 1)
    BY <1>1, <1>3, <2>2, <2>3, <2>6
  <2>8. (Shortened \o Written(bestStart + bestLength + 1, i))'
          = Shortened \o Written(from, i + 1)
    BY <1>1, SameWords DEF Shortened, Written, from
  <2>9. i' >= bestStart' + bestLength' /\ bestStart' >= 0
    BY <1>1, <1>2, <2>1, <2>2
  <2> QED
    BY <1>1, <1>4, <2>7, <2>8, <2>9 DEF WriteInv
<1> QED
  BY <1>6, <1>7

RoundTripInv == IInv /\ WriteInv /\ RoundTrip

LEMMA RoundTripStep == RoundTripInv /\ [Next]_vars => RoundTripInv'
<1> SUFFICES ASSUME IInv, WriteInv, RoundTrip, [Next]_vars
             PROVE  WriteInv' /\ RoundTrip'
  BY NextPreserves DEF RoundTripInv
<1> USE DEF IInv
<1>1. CASE Start
  <2>1. CASE IPv4Mapped
    <3>1. os' = MappedText /\ pc' = "done" /\ hextets' = hextets
      BY <1>1, <2>1 DEF Start
    <3>2. os' = Canonical(Given') /\ Readings(os') = {Given'}
      BY <2>1, <3>1, MappedAsCanonical, SameWords
    <3> QED
      BY <3>1, <3>2 DEF WriteInv, RoundTrip, Given
  <2>2. CASE ~IPv4Mapped
    BY <1>1, <2>2, SameWords DEF Start, WriteInv, RoundTrip
  <2> QED
    BY <2>1, <2>2
<1>2. CASE ScanZero \/ ScanWord
  <2>1. /\ pc = "scan" /\ pc' = "scan" /\ os' = os /\ hextets' = hextets
    BY <1>2 DEF ScanZero, ScanWord
  <2> QED
    BY <2>1, SameWords DEF WriteInv, RoundTrip
<1>3. CASE EndScan
  <2>1. /\ pc = "scan" /\ pc' = "write" /\ i' = 0 /\ os' = os /\ hextets' = hextets
        /\ bestStart' = -1 => bestLength' < 2
        /\ bestStart' \in -1..7
    <3>1. /\ pc = "scan" /\ pc' = "write" /\ i' = 0 /\ os' = os /\ hextets' = hextets
      BY <1>3 DEF EndScan
    <3>2. RunIsLeftmostLongest' /\ bestStart' \in -1..7
      BY <1>3, EndScanPicksRun
    <3>3. bestStart' = -1 => bestLength' < 2
      <4>1. OpenRun /\ BestClosed
        BY <3>1 DEF ScanInv
      <4> QED
        BY <1>3, <4>1 DEF EndScan, OpenRun, BestClosed, ZeroRun, Open, TypeOK
    <3> QED
      BY <3>1, <3>2, <3>3
  <2>2. os' = Written(1, 0) /\ ~IPv4Mapped'
    <3>1. 1 \in 1..9 /\ 1 - 1 = 0
      OBVIOUS
    <3>2. Written(1, 0) = <<Empty>>
      BY <3>1, NothingWritten
    <3> QED
      BY <2>1, <3>2, SameWords DEF WriteInv
  <2>3. os' = Written(1, i)'
    BY <2>1, <2>2, SameWords DEF Written
  <2>4. bestStart' = -1 \/ (bestStart' >= 0 /\ i' <= bestStart')
    BY <2>1
  <2> QED
    BY <2>1, <2>2, <2>3, <2>4 DEF WriteInv, RoundTrip
<1>4. CASE WriteRun
  BY <1>4, RunKeepsWriteInv DEF WriteRun, RoundTrip
<1>5. CASE WriteWord
  BY <1>5, WordKeepsWriteInv DEF WriteWord, RoundTrip
<1>6. CASE Return
  <2>1. pc = "write" /\ i = 8 /\ pc' = "done" /\ os' = os /\ hextets' = hextets
    BY <1>6 DEF Return, TypeOK
  <2>2. os' = Canonical(Given') /\ Readings(os') = {Given'}
    BY <2>1, WrittenIsCanonical, SameWords
  <2> QED
    BY <2>1, <2>2 DEF WriteInv, RoundTrip, Given
<1>7. CASE UNCHANGED vars
  BY <1>7 DEF vars, WriteInv, RoundTrip, IPv4Mapped, Shortened, Written, Given
<1> QED
  BY <1>1, <1>2, <1>3, <1>4, <1>5, <1>6, <1>7 DEF Next

(* FromStr(ToString(a)) = a, for every address: the text is the one that   *)
(* RFC 5952 gives it, and the grammar, which is what FromStr implements,   *)
(* reads nothing else in it.                                               *)
THEOREM ReadsBack == Spec => []RoundTrip
<1>1. Init => RoundTripInv
  BY InitEstablishes DEF Init, RoundTripInv, WriteInv, RoundTrip
<1>2. RoundTripInv /\ [Next]_vars => RoundTripInv'
  BY RoundTripStep
<1>3. RoundTripInv => RoundTrip
  BY DEF RoundTripInv
<1> QED
  BY <1>1, <1>2, <1>3, PTL DEF Spec
=============================================================================
