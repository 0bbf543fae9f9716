----------------------------- MODULE AddrV6Text -----------------------------
(***************************************************************************)
(* ip::AddrV6::FromStr: the search for "::", parseRange over the head and  *)
(* the tail (or over the whole text), one step for each part, and the      *)
(* assembly of the eight words.                                            *)
(***************************************************************************)
EXTENDS AddrV6Grammar

CONSTANT Inputs  \* the texts given to FromStr

(* Text between two colons: at least one piece, be it empty. *)
Parts == Seq(Pieces) \ {<< >>}

ASSUME InputsAssumption == Inputs \subseteq Seq(Parts) \ {<< >>}

VARIABLES
  text,      \* the input, cut at its colons
  phase,     \* "start", the range being parsed, or "assemble"
  at,        \* the part at `start' of parseRange
  last,      \* the last part of the range
  head,      \* headHextets, or `all' when there is no "::"
  tail,      \* tailHextets
  seenIPv4,
  address,   \* what the AddrV6 is built from, << >> until then
  outcome    \* "parsing", "ok" or the kind of the InvalidV6AddressError

vars == <<text, phase, at, last, head, tail, seenIPv4, address, outcome>>

Init ==
  /\ text \in Inputs
  /\ phase = "start"
  /\ at = 1 /\ last = 0
  /\ head = << >> /\ tail = << >>
  /\ seenIPv4 = FALSE
  /\ address = << >>
  /\ outcome = "parsing"

Fail(kind) ==
  /\ outcome' = kind
  /\ UNCHANGED <<text, phase, at, last, head, tail, seenIPv4, address>>

(* input.find("::") and the search for another that starts after it. *)
Doubles       == { i \in 2..(Len(text) - 1) : text[i] = Empty }
FirstDouble   == CHOOSE i \in Doubles : \A j \in Doubles : i <= j
SecondDoubles == { i \in Doubles : i >= FirstDouble + 2 }

(* A call parseRange over the parts from..to. *)
Scan(name, from, to) ==
  /\ phase' = name /\ at' = from /\ last' = to

EnterTail ==
  IF FirstDouble + 1 = Len(text) /\ text[Len(text)] = Empty
  THEN phase' = "assemble" /\ UNCHANGED <<at, last>>
  ELSE Scan("tail", FirstDouble + 1, Len(text))

(* Up to the first parseRange. *)
Start ==
  /\ outcome = "parsing" /\ phase = "start"
  /\ \/ /\ text = <<Empty>>
        /\ Fail("InvalidNumberOfParts")
     \/ /\ Doubles # {} /\ SecondDoubles # {}
        /\ Fail("MultipleColon")
     \/ /\ Doubles # {} /\ SecondDoubles = {}
        /\ IF FirstDouble = 2 /\ text[1] = Empty
           THEN EnterTail
           ELSE Scan("head", 1, FirstDouble - 1)
        /\ UNCHANGED <<text, head, tail, seenIPv4, address, outcome>>
     \/ /\ text # <<Empty>> /\ Doubles = {}
        /\ Scan("all", 1, Len(text))
        /\ UNCHANGED <<text, head, tail, seenIPv4, address, outcome>>

(* parseIPv4 once seenIPv4 is set: four whole octets, and no more pieces. *)
QuadOutcome(part) ==
  IF \/ Len(part) < 4
     \/ \E i \in 1..4 : ~(IsOctet(part[i]) /\ part[i] \in Whole)
  THEN "FailedIntegralParsing"
  ELSE IF Len(part) # 4 THEN "InvalidNumberOfParts" ELSE "ok"

Push(words) ==
  IF phase = "tail" THEN tail' = tail \o words /\ head' = head
                    ELSE head' = head \o words /\ tail' = tail

(* parseRange returns: the head is followed by the tail. *)
EndRange ==
  IF phase = "head" THEN EnterTail
                    ELSE phase' = "assemble" /\ UNCHANGED <<at, last>>

(* A part with a dot: only the last of its range, only once in a text. *)
ParseQuad ==
  LET part == text[at] IN
  IF at # last \/ seenIPv4
  THEN Fail("InvalidNumberOfParts")
  ELSE IF QuadOutcome(part) # "ok"
  THEN Fail(QuadOutcome(part))
  ELSE /\ seenIPv4' = TRUE
       /\ Push(QuadWords(part))
       /\ EndRange
       /\ UNCHANGED <<text, address, outcome>>

(* Mutated Advance: `start' stays on the colon it found. *)
AdvanceStuck == UNCHANGED <<phase, at, last>>

(* start = end + 1 *)
Advance == at' = at + 1 /\ UNCHANGED <<phase, last>>

(* The check of value > 0xFFFF can not fail after at most four digits. *)
ParseHextet ==
  LET value == Hex[text[at][1]] IN
  \/ value = NoNumber /\ Fail("FailedIntegralParsing")
  \/ /\ value # NoNumber
     /\ Push(<<value>>)
     /\ IF at = last THEN EndRange ELSE Advance
     /\ UNCHANGED <<text, seenIPv4, address, outcome>>

(* Mutated ParsePart: the loop goes round on an empty part. *)
ParsePartSkipping ==
  /\ outcome = "parsing" /\ phase \in {"head", "tail", "all"}
  /\ \/ text[at] = Empty /\ UNCHANGED vars
     \/ text[at] # Empty /\ Dotted(text[at]) /\ ParseQuad
     \/ text[at] # Empty /\ ~Dotted(text[at]) /\ ParseHextet

ParsePart ==
  /\ outcome = "parsing" /\ phase \in {"head", "tail", "all"}
  /\ \/ text[at] = Empty /\ Fail("InvalidNumberOfParts")
     \/ text[at] # Empty /\ Dotted(text[at]) /\ ParseQuad
     \/ text[at] # Empty /\ ~Dotted(text[at]) /\ ParseHextet

(* Mutated TooMany: only the head is counted. *)
TooManyHead == Len(head) > 8

TooMany == Len(head) + Len(tail) > 8

Assemble ==
  /\ outcome = "parsing" /\ phase = "assemble"
  /\ \/ /\ IF Doubles # {} THEN TooMany ELSE Len(head) # 8
        /\ Fail("InvalidNumberOfParts")
     \/ /\ IF Doubles # {} THEN ~TooMany ELSE Len(head) = 8
        /\ address' = head \o Zeros(8 - (Len(head) + Len(tail))) \o tail
        /\ outcome' = "ok"
        /\ UNCHANGED <<text, phase, at, last, head, tail, seenIPv4>>

Next == Start \/ ParsePart \/ Assemble

Spec == Init /\ [][Next]_vars

(* A call that is running goes on running. *)
FairSpec == Spec /\ WF_vars(Next)
-----------------------------------------------------------------------------
(* Properties *)

(* Every variable keeps its type; an address has eight words. *)
TypeOK ==
  /\ text \in Seq(Parts) \ {<< >>}
  /\ phase \in {"start", "head", "tail", "all", "assemble"}
  /\ at \in 1..Len(text) /\ last \in 0..Len(text)
  /\ head \in Seq(Words) /\ tail \in Seq(Words)
  /\ seenIPv4 \in BOOLEAN
  /\ address \in Seq(Words) /\ Len(address) \in {0, 8}
  /\ outcome \in {"parsing", "ok", "InvalidNumberOfParts",
                  "FailedIntegralParsing", "MultipleColon"}

(* FromStr and the grammar agree on every text: it returns the one address *)
(* the text spells, and refuses the texts that spell none.                 *)
AgreesWithGrammar ==
  /\ outcome = "ok" => Readings(text) = {address}
  /\ outcome \notin {"parsing", "ok"} => Readings(text) = {}

(* Every step of FromStr returns, or goes on to a later part or to a later *)
(* phase: its two loops end, whatever the text.                            *)
Rank == [start |-> 0, head |-> 1, tail |-> 2, all |-> 2, assemble |-> 3]

MovesOn ==
  [][ \/ outcome' # outcome
      \/ Rank[phase'] > Rank[phase]
      \/ phase' = phase /\ at < at' /\ at' <= last ]_vars

(* FromStr returns, whatever the text: no colon at its end and no empty    *)
(* range keeps parseRange from reaching one of its breaks.                 *)
Returns == <>(outcome # "parsing")
=============================================================================
