-------------------------- MODULE AddrV4TextProofs --------------------------
(***************************************************************************)
(* Theorems about AddrV4Text for inputs of any length and any pieces.      *)
(***************************************************************************)
EXTENDS AddrV4Text, TLAPS

(* The octets stored so far are the values of the pieces scanned so far.   *)
Progress ==
  /\ next = Len(octets) + 1
  /\ \A i \in 1..Len(octets) : octets[i] = Value[text[i]]

(* The loop invariant, and what each outcome says of the pieces scanned.   *)
IInv ==
  /\ TypeOK
  /\ Progress
  /\ outcome = "ok" => Len(octets) = 4 /\ next = Len(text) + 1
  /\ outcome = "NotAtleast4Octets" => Len(octets) < 4 /\ next = Len(text) + 1
  /\ outcome = "ExceededOctetLimit" => Len(octets) = 4 /\ next <= Len(text)
  /\ outcome \in {"FailedIntegralParsing", "MaxOctetNumber"} =>
       /\ Len(octets) < 4 /\ next <= Len(text)
       /\ ~IsOctet(text[next])
       /\ outcome = "FailedIntegralParsing" <=> Value[text[next]] = NoNumber

LEMMA UpToFour ==
  \A n \in Nat : n <= 4 => n \in 0..4 /\ (n >= 4 <=> n = 4) /\ (n < 4 <=> n # 4)
  OBVIOUS

LEMMA Lengths ==
  ASSUME TypeOK
  PROVE  /\ Len(text) \in Nat
         /\ Len(octets) \in 0..4
         /\ Full <=> Len(octets) = 4
         /\ Len(octets) < 4 <=> Len(octets) # 4
<1>1. octets \in Seq(Octet) /\ Len(octets) <= 4 /\ text \in Seq(Pieces)
  BY DEF TypeOK
<1>2. Len(octets) \in Nat /\ Len(text) \in Nat
  BY <1>1
<1> QED
  BY <1>1, <1>2, UpToFour DEF Full

(* An early return only changes the outcome. *)
LEMMA ReturnKeeps ==
  ASSUME TypeOK, Progress, NEW result \in Outcomes, Return(result)
  PROVE  /\ TypeOK' /\ Progress'
         /\ outcome' = result
         /\ UNCHANGED <<text, next, octets>>
  BY DEF Return, TypeOK, Progress

(* The octets stored are octets of the text. *)
LEMMA StoredAreOctets ==
  ASSUME TypeOK, Progress
  PROVE  \A i \in 1..Len(octets) : IsOctet(text[i])
<1> TAKE i \in 1..Len(octets)
<1>1. octets[i] \in Octet
  BY DEF TypeOK
<1> QED
  BY <1>1 DEF Progress, IsOctet

LEMMA InitIInv == Init => IInv
  BY InputsAssumption DEF Init, IInv, TypeOK, Progress, Outcomes

LEMMA ScanPieceKeeps == IInv /\ ScanPiece => IInv'
<1> SUFFICES ASSUME IInv, ScanPiece PROVE IInv'
  OBVIOUS
<1> DEFINE value == Value[text[next]]
<1>1. next \in 1..Len(text) /\ text \in Seq(Pieces) /\ octets \in Seq(Octet)
  BY DEF IInv, TypeOK, ScanPiece, More
<1>2. value \in Nat \cup {NoNumber} /\ NoNumber \notin Nat
  BY <1>1, PiecesAssumption
<1>3. CASE Full /\ Return("ExceededOctetLimit")
  <2>1. TypeOK' /\ Progress' /\ outcome' = "ExceededOctetLimit"
        /\ UNCHANGED <<text, next, octets>>
    BY <1>3, ReturnKeeps DEF IInv, Outcomes
  <2>2. Len(octets) = 4
    BY <1>3, Lengths DEF IInv
  <2> QED
    BY <1>1, <2>1, <2>2 DEF IInv
<1>4. CASE /\ ~Full
           /\ \/ value = NoNumber /\ Return("FailedIntegralParsing")
              \/ value # NoNumber /\ value > MaxOctet /\ Return("MaxOctetNumber")
  <2>1. ~IsOctet(text[next])
    BY <1>2, <1>4 DEF IsOctet, Octet, MaxOctet
  <2> QED
    <3>1. TypeOK' /\ Progress' /\ outcome' \in {"FailedIntegralParsing", "MaxOctetNumber"}
          /\ (outcome' = "FailedIntegralParsing" <=> value = NoNumber)
          /\ UNCHANGED <<text, next, octets>>
      BY <1>4, ReturnKeeps DEF IInv, Outcomes
    <3>2. Len(octets) < 4
      BY <1>4, Lengths DEF IInv
    <3> QED
      BY <1>1, <2>1, <3>1, <3>2 DEF IInv
<1>5. CASE ~Full /\ value \in Octet /\ Store(value)
  <2>1. /\ octets' = Append(octets, value) /\ next' = next + 1
        /\ text' = text /\ outcome' = outcome /\ outcome = "scanning"
    BY <1>5 DEF Store, ScanPiece
  <2>2. /\ octets' \in Seq(Octet)
        /\ Len(octets') = Len(octets) + 1 /\ Len(octets) \in Nat
        /\ \A i \in 1..Len(octets) : octets'[i] = octets[i]
        /\ octets'[Len(octets) + 1] = value
    BY <1>1, <1>5, <2>1
  <2>3. TypeOK'
    BY <1>1, <1>5, <2>1, <2>2 DEF IInv, TypeOK, Full
  <2>4. Progress'
    BY <1>1, <2>1, <2>2 DEF IInv, Progress
  <2> QED
    BY <2>1, <2>3, <2>4 DEF IInv
<1> QED
  BY <1>3, <1>4, <1>5 DEF ScanPiece

LEMMA FinishKeeps == IInv /\ Finish => IInv'
<1> SUFFICES ASSUME IInv, Finish PROVE IInv'
  OBVIOUS
<1> DEFINE result == IF Len(octets) # 4 THEN "NotAtleast4Octets" ELSE "ok"
<1>1. next = Len(text) + 1 /\ Len(octets) <= 4
  BY DEF Finish, More, IInv, TypeOK
<1>2. Return(result) /\ result \in Outcomes
  BY DEF Finish, Outcomes
<1>3. TypeOK' /\ Progress' /\ outcome' = result /\ UNCHANGED <<text, next, octets>>
  BY <1>2, ReturnKeeps DEF IInv
<1> QED
  BY <1>1, <1>3, Lengths DEF IInv

LEMMA Inductive == Spec => []IInv
<1>1. IInv /\ [Next]_vars => IInv'
  <2>1. IInv /\ UNCHANGED vars => IInv'
    BY DEF vars, IInv, TypeOK, Progress
  <2> QED
    BY <2>1, ScanPieceKeeps, FinishKeeps DEF Next
<1> QED
  BY <1>1, InitIInv, PTL DEF Spec

(* FromStr never writes past octets[3], whatever the input. *)
THEOREM NeverOverruns == Spec => []TypeOK
  BY Inductive, PTL DEF IInv

(* FromStr accepts exactly the texts of four pieces that begin with an     *)
(* octet, for every length of input, and returns their values in order.    *)
THEOREM AcceptsExactly == Spec => []AcceptsLenientQuads
<1>1. IInv => AcceptsLenientQuads
  <2> SUFFICES ASSUME IInv PROVE AcceptsLenientQuads
    OBVIOUS
  <2>1. text \in Seq(Pieces) /\ octets \in Seq(Octet) /\ outcome \in Outcomes
    BY DEF IInv, TypeOK
  <2>2. ASSUME outcome = "ok"
        PROVE  LenientQuad(text) /\ octets = OctetsOf(text)
    <3>1. Len(octets) = 4 /\ Len(text) = 4
      BY <2>1, <2>2 DEF IInv, Progress
    <3>2. \A i \in 1..4 : octets[i] = Value[text[i]] /\ IsOctet(text[i])
      BY <3>1, StoredAreOctets DEF IInv, Progress
    <3>3. octets = [i \in 1..4 |-> octets[i]]
      BY <2>1, <3>1
    <3> QED
      BY <3>1, <3>2, <3>3 DEF LenientQuad, OctetsOf
  <2>3. ASSUME LenientQuad(text)
        PROVE  outcome \in {"scanning", "ok"}
    <3>1. next = Len(octets) + 1 /\ Len(octets) \in 0..4 /\ Len(text) = 4
      BY <2>3, Lengths DEF LenientQuad, IInv, Progress
    <3>2. PICK n \in 0..4 : n = Len(octets) /\ next = n + 1
      BY <3>1
    <3>3. next <= 4 => IsOctet(text[next])
      BY <2>3, <3>2 DEF LenientQuad
    <3>4. /\ outcome # "NotAtleast4Octets"
          /\ outcome # "ExceededOctetLimit"
          /\ outcome \notin {"FailedIntegralParsing", "MaxOctetNumber"}
      BY <3>1, <3>2, <3>3 DEF IInv
    <3> QED
      BY <2>1, <3>4 DEF Outcomes
  <2> QED
    BY <2>2, <2>3 DEF AcceptsLenientQuads
<1> QED
  BY <1>1, Inductive, PTL

(* The reported error is the first mistake of the text. *)
THEOREM BlamesFirst == Spec => []BlamesFirstMistake
<1>1. IInv => BlamesFirstMistake
  <2> SUFFICES ASSUME IInv PROVE BlamesFirstMistake
    OBVIOUS
  <2>1. /\ next = Len(octets) + 1
        /\ Len(octets) \in 0..4 /\ Len(text) \in Nat
    BY Lengths DEF IInv, Progress
  <2>2. \A i \in 1..Len(octets) : IsOctet(text[i])
    BY StoredAreOctets DEF IInv
  <2>3. ASSUME outcome \in {"FailedIntegralParsing", "MaxOctetNumber"}
        PROVE  \E n \in 1..4 :
                 /\ n <= Len(text) /\ ~IsOctet(text[n])
                 /\ \A i \in 1..(n - 1) : IsOctet(text[i])
                 /\ outcome = "FailedIntegralParsing" <=> Value[text[n]] = NoNumber
    <3>1. next \in 1..4 /\ next <= Len(text) /\ next - 1 = Len(octets)
      BY <2>1, <2>3 DEF IInv
    <3>2. \A i \in 1..(next - 1) : IsOctet(text[i])
      BY <2>2, <3>1
    <3> QED
      BY <2>3, <3>1, <3>2 DEF IInv
  <2>4. outcome = "ExceededOctetLimit"
          => Len(text) > 4 /\ \A i \in 1..4 : IsOctet(text[i])
    <3>1. SUFFICES ASSUME outcome = "ExceededOctetLimit"
                   PROVE  Len(text) > 4 /\ \A i \in 1..4 : IsOctet(text[i])
      OBVIOUS
    <3>2. Len(octets) = 4 /\ next <= Len(text)
      BY <3>1 DEF IInv
    <3>3. Len(text) > 4
      BY <2>1, <3>2
    <3> QED
      BY <2>2, <3>2, <3>3
  <2>5. outcome = "NotAtleast4Octets"
          => Len(text) < 4 /\ \A i \in 1..Len(text) : IsOctet(text[i])
    <3>1. SUFFICES ASSUME outcome = "NotAtleast4Octets"
                   PROVE  Len(text) < 4 /\ \A i \in 1..Len(text) : IsOctet(text[i])
      OBVIOUS
    <3>2. Len(octets) < 4 /\ next = Len(text) + 1
      BY <3>1 DEF IInv
    <3>3. Len(text) = Len(octets)
      BY <2>1, <3>2
    <3> QED
      BY <2>2, <3>2, <3>3
  <2> QED
    BY <2>3, <2>4, <2>5 DEF BlamesFirstMistake
<1> QED
  BY <1>1, Inductive, PTL
=============================================================================
