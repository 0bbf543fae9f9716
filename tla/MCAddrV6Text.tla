---------------------------- MODULE MCAddrV6Text ----------------------------
(***************************************************************************)
(* Texts for AddrV6::FromStr: short ones over every kind of part, and ones *)
(* that reach past eight words over three kinds of them.                   *)
(***************************************************************************)
EXTENDS AddrV6Text, TLC

CONSTANTS
  MaxShort,  \* length, in parts, of a text of any parts
  MaxLong    \* length of a text of the parts that a long address is made of

MCPieces == {"", "0", "1", "255", "256", "ffff", "1x", "11111"}

MCValue == "" :> NoNumber @@ "0" :> 0 @@ "1" :> 1 @@ "255" :> 255 @@ "256" :> 256
             @@ "ffff" :> NoNumber @@ "1x" :> 1 @@ "11111" :> 11111

MCWhole == {"0", "1", "255", "256", "11111"}

MCHex == "" :> NoNumber @@ "0" :> 0 @@ "1" :> 1 @@ "255" :> 597 @@ "256" :> 598
           @@ "ffff" :> 65535 @@ "1x" :> NoNumber @@ "11111" :> NoNumber

Quad == <<"1", "0", "255", "1">>

LongParts == {Empty, <<"1">>, Quad}

(* A number too many, one too few, one too large and one with a tail. *)
BadQuads == { <<"1", "1", "1", "1", "1">>, <<"1", "1", "1", "">>,
              <<"1", "256", "1", "1">>, <<"1", "1", "1", "1x">> }

ShortParts == LongParts \cup BadQuads \cup {<<"ffff">>, <<"11111">>}

MCInputs == UNION { [1..n -> ShortParts] : n \in 1..MaxShort }
              \cup UNION { [1..n -> LongParts] : n \in 1..MaxLong }
=============================================================================
