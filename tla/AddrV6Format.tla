---------------------------- MODULE AddrV6Format ----------------------------
(***************************************************************************)
(* ip::AddrV6::ToString: the fast path of the IPv4-mapped addresses, the   *)
(* loop that looks for the longest run of zeros, one step for each word,   *)
(* and the loop that writes the words, one step for each word or "::".     *)
(***************************************************************************)
EXTENDS AddrV6Canonical

CONSTANTS
  Hextets,      \* the words that addresses are made of
  Garbled       \* a piece made of the digits of two words

ASSUME FormatAssumption ==
  /\ Hextets \subseteq Words
  /\ Garbled \in Pieces /\ Hex[Garbled] = NoNumber /\ Garbled \notin Whole
  /\ DOMAIN Hexadecimal = Hextets
  /\ \A w \in Hextets :
       /\ Hexadecimal[w] \in Pieces /\ Hex[Hexadecimal[w]] = w
       /\ \A o \in {w \div 256, w % 256} :
            /\ o \in DOMAIN Decimal
            /\ Decimal[o] \in Whole /\ Value[Decimal[o]] = o

VARIABLES
  hextets,     \* the eight words of n_bytes
  pc,          \* "start", "scan", "write" or "done"
  i,
  currStart, currLength,
  bestStart, bestLength,
  os           \* the text so far, cut at its colons

vars == <<hextets, pc, i, currStart, currLength, bestStart, bestLength, os>>

Init ==
  /\ hextets \in [0..7 -> Hextets]
  /\ pc = "start"
  /\ i = 0
  /\ currStart = -1 /\ currLength = 0
  /\ bestStart = -1 /\ bestLength = 0
  /\ os = <<Empty>>

IPv4Mapped == hextets[5] = 65535 /\ \A k \in 0..4 : hextets[k] = 0

MappedText ==
  << Empty, Empty, <<Hexadecimal[65535]>>,
     << Decimal[hextets[6] \div 256], Decimal[hextets[6] % 256],
        Decimal[hextets[7] \div 256], Decimal[hextets[7] % 256] >> >>

Start ==
  /\ pc = "start"
  /\ IF IPv4Mapped THEN os' = MappedText /\ pc' = "done"
                   ELSE os' = os /\ pc' = "scan"
  /\ UNCHANGED <<hextets, i, currStart, currLength, bestStart, bestLength>>

(* Mutated KeepLonger: of two runs as long, the later one wins. *)
KeepLast ==
  IF currLength >= bestLength
  THEN bestStart' = currStart /\ bestLength' = currLength
  ELSE UNCHANGED <<bestStart, bestLength>>

KeepLonger ==
  IF currLength > bestLength
  THEN bestStart' = currStart /\ bestLength' = currLength
  ELSE UNCHANGED <<bestStart, bestLength>>

ScanZero ==
  /\ pc = "scan" /\ i < 8 /\ hextets[i] = 0
  /\ currStart' = IF currStart = -1 THEN i ELSE currStart
  /\ currLength' = currLength + 1
  /\ i' = i + 1
  /\ UNCHANGED <<hextets, pc, bestStart, bestLength, os>>

(* Mutated ScanWord: the step of the loop is left out. *)
ScanWordStuck ==
  /\ pc = "scan" /\ i < 8 /\ hextets[i] # 0
  /\ KeepLonger
  /\ currStart' = -1 /\ currLength' = 0
  /\ UNCHANGED <<hextets, pc, i, os>>

ScanWord ==
  /\ pc = "scan" /\ i < 8 /\ hextets[i] # 0
  /\ KeepLonger
  /\ currStart' = -1 /\ currLength' = 0
  /\ i' = i + 1
  /\ UNCHANGED <<hextets, pc, os>>

(* The run still open at the end, and the reset of bestStart alone when no *)
(* run is worth a "::".                                                    *)
EndScan ==
  /\ pc = "scan" /\ i >= 8
  /\ bestLength' = IF currLength > bestLength THEN currLength ELSE bestLength
  /\ bestStart' = IF bestLength' < 2 THEN -1
                  ELSE IF currLength > bestLength THEN currStart ELSE bestStart
  /\ pc' = "write" /\ i' = 0
  /\ UNCHANGED <<hextets, currStart, currLength, os>>

(* os << ':' and os << digits *)
Colon(text) == Append(text, Empty)

Digits(text, piece) ==
  [text EXCEPT ![Len(text)] = IF @ = Empty THEN <<piece>> ELSE <<Garbled>>]

(* Mutated WriteRun: i += bestLength, and then the ++ of the loop. *)
WriteRunPast ==
  /\ pc = "write" /\ i < 8 /\ i = bestStart
  /\ os' = Colon(Colon(os))
  /\ i' = i + bestLength + 1
  /\ UNCHANGED <<hextets, pc, currStart, currLength, bestStart, bestLength>>

WriteRun ==
  /\ pc = "write" /\ i < 8 /\ i = bestStart
  /\ os' = Colon(Colon(os))
  /\ i' = i + bestLength
  /\ UNCHANGED <<hextets, pc, currStart, currLength, bestStart, bestLength>>

(* Mutated NeedsColon: the run just written is not considered. *)
NeedsColonAlways == i # 0

NeedsColon == i # 0 /\ i # bestStart + bestLength

WriteWord ==
  /\ pc = "write" /\ i < 8 /\ i # bestStart
  /\ os' = Digits(IF NeedsColon THEN Colon(os) ELSE os, Hexadecimal[hextets[i]])
  /\ i' = i + 1
  /\ UNCHANGED <<hextets, pc, currStart, currLength, bestStart, bestLength>>

Return ==
  /\ pc = "write" /\ i >= 8
  /\ pc' = "done"
  /\ UNCHANGED <<hextets, i, currStart, currLength, bestStart, bestLength, os>>

Next ==
  \/ Start \/ ScanZero \/ ScanWord \/ EndScan \/ WriteRun \/ WriteWord \/ Return

Spec == Init /\ [][Next]_vars

(* A call that is running goes on running. *)
FairSpec == Spec /\ WF_vars(Next)
-----------------------------------------------------------------------------
(* Properties *)

(* Every variable keeps its type; `i' never passes the last word. *)
TypeOK ==
  /\ hextets \in [0..7 -> Hextets]
  /\ pc \in {"start", "scan", "write", "done"}
  /\ i \in 0..8
  /\ currStart \in -1..7 /\ currLength \in 0..8
  /\ bestStart \in -1..7 /\ bestLength \in 0..8
  /\ os \in Seq(Seq(Pieces))

(* The `length' words from `start' on are zeros, and lie before `end'. *)
ZeroRun(start, length, end) ==
  /\ start >= 0 /\ start + length <= end
  /\ \A k \in 0..7 : start <= k /\ k < start + length => hextets[k] = 0

(* Before word `end', no run is longer than `length', and none as long     *)
(* starts before `start'.                                                  *)
Longest(start, length, end) ==
  \A s \in 0..7, n \in 1..8 :
    ZeroRun(s, n, end) => n <= length /\ (n = length => start <= s)

(* RFC 5952, section 4.2, which the tests name: "::" is for the leftmost   *)
(* of the longest runs of zeros, and for two zeros at least.               *)
RunIsLeftmostLongest ==
  pc = "write" =>
    IF bestStart = -1
    THEN \A s \in 0..6 : ~ZeroRun(s, 2, 8)
    ELSE /\ bestLength >= 2
         /\ ZeroRun(bestStart, bestLength, 8)
         /\ Longest(bestStart, bestLength, 8)

(* The text that ToString returns is the one RFC 5952 gives this address,  *)
(* and it spells this address and no other, so that FromStr reads it back. *)
RoundTrip ==
  pc = "done" =>
    LET words == [k \in 1..8 |-> hextets[k - 1]] IN
    os = Canonical(words) /\ Readings(os) = {words}

(* ToString returns, although the loop that writes moves its own counter:  *)
(* a run that is written is a run that is passed.                          *)
Returns == <>(pc = "done")
=============================================================================
