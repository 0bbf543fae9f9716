-------------------------- MODULE AddrV6Canonical --------------------------
(***************************************************************************)
(* The text of an address, after RFC 5952, section 4: what                 *)
(* AddrV6::ToString promises, without its loops.                           *)
(***************************************************************************)
EXTENDS AddrV6Grammar

CONSTANTS
  Hexadecimal,  \* what os << std::hex writes for a word
  Decimal       \* what std::format("{}") writes for an octet

(* The first and the last word of every run of two zeros or more. *)
ZeroRuns(words) ==
  { r \in (1..8) \X (1..8) : r[1] < r[2] /\ \A k \in r[1]..r[2] : words[k] = 0 }

(* The leftmost of the longest ones. *)
ShortenedRun(words) ==
  CHOOSE r \in ZeroRuns(words) :
    \A s \in ZeroRuns(words) :
      \/ s[2] - s[1] < r[2] - r[1]
      \/ s[2] - s[1] = r[2] - r[1] /\ r[1] <= s[1]

Groups(words, from, to) ==
  [k \in 1..(to - from + 1) |-> <<Hexadecimal[words[from + k - 1]]>>]

(* What stands on one side of a "::", be it nothing. *)
Side(parts) == IF parts = << >> THEN <<Empty>> ELSE parts

DottedWords(high, low) ==
  << Decimal[high \div 256], Decimal[high % 256],
     Decimal[low \div 256], Decimal[low % 256] >>

Canonical(words) ==
  IF words[6] = MaxWord /\ \A k \in 1..5 : words[k] = 0
  THEN << Empty, Empty, <<Hexadecimal[MaxWord]>>, DottedWords(words[7], words[8]) >>
  ELSE IF ZeroRuns(words) = {}
  THEN Groups(words, 1, 8)
  ELSE LET run == ShortenedRun(words) IN
       Side(Groups(words, 1, run[1] - 1)) \o <<Empty>>
         \o Side(Groups(words, run[2] + 1, 8))
=============================================================================
