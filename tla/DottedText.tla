----------------------------- MODULE DottedText -----------------------------
(***************************************************************************)
(* Dotted quads as the two address parsers see them: what lies between     *)
(* dots is a piece, and all that is known of a piece is what               *)
(* std::from_chars(first, last, UInt32) makes of it.                       *)
(***************************************************************************)
EXTENDS Naturals, Sequences

CONSTANTS
  Pieces,   \* texts without a dot, the empty one included
  Value,    \* the number from_chars reads, or NoNumber when ec is set
  Whole,    \* the Pieces from_chars reads to their end (ptr = last)
  NoNumber  \* ec: no digit to start with, or more than 32 bits of them

MaxOctet == 255

Octet == 0..MaxOctet

ASSUME PiecesAssumption ==
  /\ NoNumber \notin Nat
  /\ Value \in [Pieces -> Nat \cup {NoNumber}]
  /\ Whole \subseteq { p \in Pieces : Value[p] # NoNumber }

IsOctet(p) == Value[p] \in Octet
-----------------------------------------------------------------------------
(* References: which text is which address.                                *)

(* Four pieces that each begin with an octet; what follows the digits of a *)
(* piece is nobody's business.                                             *)
LenientQuad(text) ==
  Len(text) = 4 /\ \A i \in 1..4 : IsOctet(text[i])

(* Four octets and nothing else. *)
StrictQuad(text) ==
  LenientQuad(text) /\ \A i \in 1..4 : text[i] \in Whole

OctetsOf(text) == [i \in 1..Len(text) |-> Value[text[i]]]
=============================================================================
