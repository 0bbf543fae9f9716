----------------------------- MODULE AddrV4Text -----------------------------
(***************************************************************************)
(* ip::AddrV4::FromStr: the loop that scans a text for dots, one step for  *)
(* each piece it cuts out, and the check that follows the loop.            *)
(***************************************************************************)
EXTENDS DottedText

CONSTANT Inputs  \* the texts given to FromStr

ASSUME InputsAssumption == Inputs \subseteq Seq(Pieces) \ {<< >>}

VARIABLES
  text,    \* the input, cut at its dots: at least one piece
  next,    \* the piece that begins at `start'
  octets,  \* octets[0 .. octetIndex - 1]; the rest is uninitialized
  outcome  \* "scanning", "ok" or the kind of the InvalidV4AddressError

vars == <<text, next, octets, outcome>>

Init ==
  /\ text \in Inputs
  /\ next = 1
  /\ octets = << >>
  /\ outcome = "scanning"

Return(result) ==
  /\ outcome' = result
  /\ UNCHANGED <<text, next, octets>>

(* octets[octetIndex++] = value *)
Store(value) ==
  /\ octets' = Append(octets, value)
  /\ next' = next + 1
  /\ UNCHANGED <<text, outcome>>

(* Mutated Full and More: off by one. *)
FullLate  == Len(octets) > 4
MoreShort == next < Len(text)

Full == Len(octets) >= 4
More == next <= Len(text)

(* The body of the loop, at a dot or at the end of the text. *)
ScanPiece ==
  /\ outcome = "scanning" /\ More
  /\ LET value == Value[text[next]] IN
       \/ Full /\ Return("ExceededOctetLimit")
       \/ /\ ~Full
          /\ \/ value = NoNumber /\ Return("FailedIntegralParsing")
             \/ value # NoNumber /\ value > MaxOctet /\ Return("MaxOctetNumber")
             \/ value \in Octet /\ Store(value)

Finish ==
  /\ outcome = "scanning" /\ ~More
  /\ Return(IF Len(octets) # 4 THEN "NotAtleast4Octets" ELSE "ok")

Next == ScanPiece \/ Finish

Spec == Init /\ [][Next]_vars
-----------------------------------------------------------------------------
(* Properties *)

Outcomes == { "scanning", "ok", "ExceededOctetLimit", "FailedIntegralParsing",
              "MaxOctetNumber", "NotAtleast4Octets" }

(* Every variable keeps its type; the array of octets is never overrun. *)
TypeOK ==
  /\ text \in Seq(Pieces) \ {<< >>}
  /\ next \in 1..(Len(text) + 1)
  /\ octets \in Seq(Octet) /\ Len(octets) <= 4
  /\ outcome \in Outcomes

(* The address returned: four octets, all of them assigned, one for each   *)
(* piece of the text; any other text is refused.                           *)
AcceptsLenientQuads ==
  /\ outcome = "ok" => LenientQuad(text) /\ octets = OctetsOf(text)
  /\ LenientQuad(text) => outcome \in {"scanning", "ok"}

(* The error reported is the one of the first piece that is wrong, and     *)
(* there being more than four pieces counts before what the fifth says.    *)
BlamesFirstMistake ==
  LET Fine(n) == \A i \in 1..n : IsOctet(text[i]) IN
  /\ outcome = "ExceededOctetLimit" => Len(text) > 4 /\ Fine(4)
  /\ outcome = "NotAtleast4Octets" => Len(text) < 4 /\ Fine(Len(text))
  /\ outcome \in {"FailedIntegralParsing", "MaxOctetNumber"}
       => \E n \in 1..4 :
            /\ n <= Len(text) /\ Fine(n - 1) /\ ~IsOctet(text[n])
            /\ outcome = "FailedIntegralParsing" <=> Value[text[n]] = NoNumber
=============================================================================
