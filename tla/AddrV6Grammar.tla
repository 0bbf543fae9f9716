--------------------------- MODULE AddrV6Grammar ---------------------------
(***************************************************************************)
(* IPv6 texts as AddrV6::FromStr and AddrV6::ToString see them.  A text is *)
(* what lies between its colons, a sequence of parts; a part is what lies  *)
(* between its dots, a sequence of pieces.  "::" is an empty part that is  *)
(* neither the first nor the last.                                         *)
(***************************************************************************)
EXTENDS DottedText, Integers

CONSTANTS
  Nil,  \* the empty piece
  Hex   \* the number written by one to four hex digits, or NoNumber

MaxWord == 65535

Words == 0..MaxWord

ASSUME HexAssumption ==
  /\ Nil \in Pieces
  /\ Hex \in [Pieces -> Words \cup {NoNumber}]
  /\ Hex[Nil] = NoNumber /\ Value[Nil] = NoNumber

Empty == <<Nil>>

Dotted(part) == Len(part) > 1

(* The octets of a quad, two to a word. *)
QuadWords(part) ==
  << Value[part[1]] * 256 + Value[part[2]], Value[part[3]] * 256 + Value[part[4]] >>
-----------------------------------------------------------------------------
(* The reference: which addresses a text spells.                           *)

IsGroup(part) == ~Dotted(part) /\ Hex[part[1]] # NoNumber

(* One side of a "::", or a text without one: groups, and perhaps a quad   *)
(* in the last place.                                                      *)
IsRange(parts) ==
  /\ Len(parts) >= 1
  /\ \A i \in 1..Len(parts) :
       IsGroup(parts[i]) \/ (i = Len(parts) /\ StrictQuad(parts[i]))

EndsInQuad(parts) == parts # << >> /\ Dotted(parts[Len(parts)])

RangeWords(parts) ==
  IF EndsInQuad(parts)
  THEN [i \in 1..(Len(parts) - 1) |-> Hex[parts[i][1]]] \o QuadWords(parts[Len(parts)])
  ELSE [i \in 1..Len(parts) |-> Hex[parts[i][1]]]

(* The parts before and after a "::", with nothing there left out. *)
Trimmed(parts) == IF parts = <<Empty>> THEN << >> ELSE parts

Zeros(n) == [i \in 1..n |-> 0]

(* The addresses that a text spells when its part d is taken for the "::". *)
ReadingsAt(text, d) ==
  LET head  == Trimmed(SubSeq(text, 1, d - 1))
      tail  == Trimmed(SubSeq(text, d + 1, Len(text)))
      width == Len(RangeWords(head)) + Len(RangeWords(tail))
  IN  IF /\ text[d] = Empty
         /\ head = << >> \/ IsRange(head)
         /\ tail = << >> \/ IsRange(tail)
         /\ ~(EndsInQuad(head) /\ EndsInQuad(tail))
         /\ width <= 8
      THEN { RangeWords(head) \o Zeros(8 - width) \o RangeWords(tail) }
      ELSE {}

Readings(text) ==
  (IF IsRange(text) /\ Len(RangeWords(text)) = 8 THEN {RangeWords(text)} ELSE {})
    \cup UNION { ReadingsAt(text, d) : d \in 2..(Len(text) - 1) }
=============================================================================
