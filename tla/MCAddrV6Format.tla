--------------------------- MODULE MCAddrV6Format ---------------------------
(***************************************************************************)
(* Every address over three words, zero among them: all the shapes that    *)
(* runs of zeros can have, and the IPv4-mapped addresses.                  *)
(***************************************************************************)
EXTENDS AddrV6Format, TLC

MCHextets == {0, 1, 65535}

MCPieces == {"", "0", "1", "255", "ffff", "garbled"}

MCValue == "" :> NoNumber @@ "0" :> 0 @@ "1" :> 1 @@ "255" :> 255
             @@ "ffff" :> NoNumber @@ "garbled" :> NoNumber

MCWhole == {"0", "1", "255"}

MCHex == "" :> NoNumber @@ "0" :> 0 @@ "1" :> 1 @@ "255" :> 597
           @@ "ffff" :> 65535 @@ "garbled" :> NoNumber

MCHexadecimal == 0 :> "0" @@ 1 :> "1" @@ 65535 :> "ffff"

MCDecimal == 0 :> "0" @@ 1 :> "1" @@ 255 :> "255"
=============================================================================
