----------------------------- MODULE TokenText -----------------------------
(***************************************************************************)
(* Texts as sequences of tokens: the four separators the address parsers   *)
(* look for, and atoms, the longest stretches of other characters.  The    *)
(* parsers of ip::AddrV4 and ip::AddrV6 are here by what they return,      *)
(* which AddrV4Text and AddrV6Text show; ToString of ip::AddrV6 likewise,  *)
(* which AddrV6Format shows.  A result is a set: empty for an error.       *)
(***************************************************************************)
EXTENDS Integers, SequencesExt

CONSTANTS
  Atoms,     \* characters that are neither a separator nor next to an atom
  Leading,   \* the number that begins an atom, or NoNumber
  Plain,     \* the atoms that are such a number and nothing else
  HexOf,     \* the number written by one to four hex digits, or NoNumber
  HexText,   \* the atom that std::hex writes for a word
  DecText,   \* the atom that std::format writes for a number
  NoNumber

Separators == {".", ":", "[", "]"}

(* What one to four hex digits can write. *)
MaxHextet == 65535

Hextets == 0..MaxHextet

ASSUME AtomsAssumption ==
  /\ Atoms \cap Separators = {}
  /\ NoNumber \notin Nat
  /\ Leading \in [Atoms -> Nat \cup {NoNumber}]
  /\ Plain \subseteq { a \in Atoms : Leading[a] # NoNumber }
  /\ HexOf \in [Atoms -> Hextets \cup {NoNumber}]

(* A word that has a text has one with its octets in decimals, too. *)
ASSUME WritingAssumption ==
  /\ \A n \in DOMAIN DecText : DecText[n] \in Plain /\ Leading[DecText[n]] = n
  /\ \A w \in DOMAIN HexText :
       /\ w \in Hextets /\ HexText[w] \in Atoms /\ HexOf[HexText[w]] = w
       /\ {w \div 256, w % 256} \subseteq DOMAIN DecText

Chunks == Seq(Atoms \cup Separators)

(* find: the first place of a separator, or one past the end. *)
Find(text, sep) ==
  CHOOSE i \in 1..(Len(text) + 1) :
    /\ i <= Len(text) => text[i] = sep
    /\ \A j \in 1..(i - 1) : text[j] # sep

Before(text, i) == SubSeq(text, 1, i - 1)
After(text, i)  == SubSeq(text, i + 1, Len(text))

(* The chunks between separators: one more than there are separators. *)
Grow(chunks, token, sep) ==
  IF token = sep THEN Append(chunks, << >>)
  ELSE [chunks EXCEPT ![Len(chunks)] = Append(@, token)]

Cut(text, sep) ==
  LET cut[i \in 0..Len(text)] ==
        IF i = 0 THEN << << >> >> ELSE Grow(cut[i - 1], text[i], sep)
  IN  cut[Len(text)]

Join(chunks, sep) ==
  LET joined[k \in 0..Len(chunks)] ==
        IF k = 0 THEN << >>
        ELSE IF k = 1 THEN chunks[1]
        ELSE joined[k - 1] \o <<sep>> \o chunks[k]
  IN  joined[Len(chunks)]

(* std::from_chars with base 10 reads the digits that begin a chunk.  A    *)
(* number too wide for its type is none: it is out of every bound here.    *)
LeadingNumber(chunk) ==
  IF chunk # << >> /\ chunk[1] \in Atoms THEN Leading[chunk[1]] ELSE NoNumber

HexNumber(chunk) ==
  IF Len(chunk) = 1 /\ chunk[1] \in Atoms THEN HexOf[chunk[1]] ELSE NoNumber

PieceValue  == [chunk \in Chunks |-> LeadingNumber(chunk)]
PieceHex    == [chunk \in Chunks |-> HexNumber(chunk)]
WholePieces == { chunk \in Chunks : Len(chunk) = 1 /\ chunk[1] \in Plain }
HexPiece    == [w \in DOMAIN HexText |-> <<HexText[w]>>]
DecPiece    == [n \in DOMAIN DecText |-> <<DecText[n]>>]

IP == INSTANCE AddrV6Canonical WITH
        Pieces <- Chunks,
        Value <- PieceValue,
        Whole <- WholePieces,
        Nil <- << >>,
        Hex <- PieceHex,
        Hexadecimal <- HexPiece,
        Decimal <- DecPiece

V4FromStr(text) ==
  LET pieces == Cut(text, ".")
  IN  IF IP!LenientQuad(pieces) THEN {IP!OctetsOf(pieces)} ELSE {}

V6FromStr(text) ==
  LET parts == Cut(text, ":")
  IN  IP!Readings([k \in DOMAIN parts |-> Cut(parts[k], ".")])

V4ToString(octets) == Join([k \in 1..4 |-> <<DecText[octets[k]]>>], ".")

V6ToString(words) ==
  LET parts == IP!Canonical(words)
  IN  Join([k \in DOMAIN parts |-> Join(parts[k], ".")], ":")
=============================================================================
