---------------------------- MODULE MCAddrV4Text ----------------------------
(***************************************************************************)
(* All texts of up to six pieces over octets at both ends of their range,  *)
(* the first number out of it, a piece that is no number (the empty one,   *)
(* letters, or more than 32 bits) and an octet with text after it.         *)
(***************************************************************************)
EXTENDS AddrV4Text, TLC

CONSTANT MaxPieces  \* length of the longest input

MCPieces == {"0", "255", "256", "", "7x"}

MCValue == "0" :> 0 @@ "255" :> 255 @@ "256" :> 256 @@ "" :> NoNumber @@ "7x" :> 7

MCWhole == {"0", "255", "256"}

MCInputs == UNION { [1..n -> MCPieces] : n \in 1..MaxPieces }
=============================================================================
