-------------------------- MODULE MCGenericAddress --------------------------
(***************************************************************************)
(* Texts for IPAddress::FromStr and SocketAddress::FromStr: hosts of both  *)
(* families, bare and in brackets, with everything that may follow them,   *)
(* and short texts of any tokens.                                          *)
(***************************************************************************)
EXTENDS GenericAddress, TLC

CONSTANTS
  MaxParts,  \* length of the longest IPv6 host made of any parts
  MaxJunk    \* length of the longest text of any tokens

MCAtoms == {"0", "1", "1x", "100", "255", "256", "ffff", "65535", "65536"}

MCLeading == "0" :> 0 @@ "1" :> 1 @@ "1x" :> 1 @@ "100" :> 100 @@ "255" :> 255
               @@ "256" :> 256 @@ "ffff" :> NoNumber @@ "65535" :> 65535
               @@ "65536" :> 65536

MCPlain == MCAtoms \ {"1x", "ffff"}

MCHexOf == "0" :> 0 @@ "1" :> 1 @@ "1x" :> NoNumber @@ "100" :> 256
             @@ "255" :> 597 @@ "256" :> 598 @@ "ffff" :> 65535
             @@ "65535" :> NoNumber @@ "65536" :> NoNumber

MCHexText == 0 :> "0" @@ 1 :> "1" @@ 256 :> "100" @@ 65535 :> "ffff"

MCDecText == 0 :> "0" @@ 1 :> "1" @@ 255 :> "255" @@ 65535 :> "65535"

Quad == <<"1", ".", "0", ".", "0", ".", "1">>

(* Octets, one with letters behind it, and one too large. *)
V4Hosts ==
  { Join(pieces, ".") :
      pieces \in UNION { [1..n -> {<<"0">>, <<"1x">>, <<"256">>}] : n \in 3..5 } }

(* Short ones of every kind of part, and full ones with and without a quad. *)
V6Hosts ==
  { Join(parts, ":") :
      parts \in UNION { [1..n -> {<< >>, <<"1">>, Quad}] : n \in 1..MaxParts }
           \cup [1..8 -> {<<"0">>, <<"ffff">>}]
           \cup { groups \o <<Quad>> : groups \in [1..6 -> {<<"0">>, <<"ffff">>}] } }

Tails ==
  { << >>, <<":">>, <<":", "0">>, <<":", "65535">>, <<":", "65536">>,
    <<":", "1x", ".", "1">>, <<"1">>, <<"]">>, <<":", ":">> }

Junk == UNION { [1..n -> {".", ":", "[", "]", "1"}] : n \in 0..MaxJunk }

MCInputs ==
  { t \in Junk \cup { host \o tail : host \in V4Hosts \cup V6Hosts, tail \in Tails }
            \cup { <<"[">> \o host \o <<"]">> \o tail :
                     host \in V4Hosts \cup V6Hosts, tail \in Tails } :
      \A i \in 1..(Len(t) - 1) : ~({t[i], t[i + 1]} \subseteq MCAtoms) }

(* One address of each family, and one that is printed with a quad. *)
MCHosts ==
  { [family |-> "V4", address |-> <<0, 1, 255, 0>>],
    [family |-> "V6", address |-> <<1, 0, 0, 0, 0, 0, 0, 1>>],
    [family |-> "V6", address |-> <<0, 0, 0, 0, 0, 65535, 256, 1>>] }

(* The forms of the texts that tests/ip/AddrV6.test.cc expects to parse.   *)
TestedTexts ==
  { <<":", ":">>, <<":", ":", "1">>, <<"1", ":", "1", ":", ":", "1">>,
    <<":", ":", "ffff", ":">> \o Quad,
    Join([k \in 1..7 |-> IF k = 7 THEN Quad
                         ELSE IF k = 6 THEN <<"ffff">> ELSE <<"0">>], ":") }
=============================================================================
