--------------------------- MODULE GenericAddress ---------------------------
(***************************************************************************)
(* The types that stand for an address of either family, IPAddress and     *)
(* SocketAddress, with socket::AddrV4 and socket::AddrV6: how FromStr      *)
(* takes a text apart and asks one family after the other, how a program   *)
(* edits the socket it got, and what ToString writes, which a program may  *)
(* read again.                                                             *)
(***************************************************************************)
EXTENDS TokenText

CONSTANTS
  Inputs,  \* the texts given to FromStr at first
  Hosts,   \* addresses of either family given to SetAddress
  NULL     \* there is no value

MaxPort == 65535

Addresses ==
  [family : {"V4"}, address : [1..4 -> IP!Octet]]
    \cup [family : {"V6"}, address : [1..8 -> IP!Words]]

Sockets ==
  [family : {"V4"}, address : [1..4 -> IP!Octet], port : 0..MaxPort]
    \cup [family : {"V6"}, address : [1..8 -> IP!Words], port : 0..MaxPort]

ASSUME ProgramAssumption ==
  /\ Inputs \subseteq Chunks
  /\ Hosts \subseteq Addresses
  /\ NULL \notin Addresses \cup Sockets

VARIABLES
  type,   \* the one of Types that the program uses
  text,   \* the argument of FromStr
  stage,  \* the parser to be asked next, "v4" or "v6", or "done"
  value,  \* the address returned, NULL when there is none
  error,  \* the kind of error returned, or that FromStr read past the text
  source, \* history: the value that ToString wrote `text' for
  edited  \* history: `value' is no longer what FromStr returned

vars == <<type, text, stage, value, error, source, edited>>

(* SocketV4 and SocketV6 are socket::AddrV4 and socket::AddrV6. *)
Types == {"IPAddress", "SocketAddress", "SocketV4", "SocketV6"}

FirstAsked == IF type = "SocketV6" THEN "v6" ELSE "v4"

Init ==
  /\ type \in Types
  /\ text \in Inputs
  /\ stage = FirstAsked
  /\ value = NULL /\ error = "none" /\ source = NULL /\ edited = FALSE
-----------------------------------------------------------------------------
(* socket::AddrV4 and socket::AddrV6                                       *)

Socket(family, address, port) ==
  [family |-> family, address |-> address, port |-> port]

(* Mutated PortOf: the bound is that of 16 bits plus one. *)
PortOfPast(chunk) == { n \in {LeadingNumber(chunk)} : n # NoNumber /\ n <= MaxPort + 1 }

(* The digits that begin the port; what follows them is ignored. *)
PortOf(chunk) == { n \in {LeadingNumber(chunk)} : n # NoNumber /\ n <= MaxPort }

(* SplitOnce at the first colon; without one the port is 0. *)
SocketV4FromStr(input) ==
  LET colon == Find(input, ":") IN
  { Socket("V4", address, port) :
      address \in V4FromStr(Before(input, colon)),
      port \in IF colon > Len(input) THEN {0} ELSE PortOf(After(input, colon)) }

(* Mutated PortBehind: only the text that ends at the bracket may omit it. *)
PortBehindStrict(rest) ==
  IF rest = << >> THEN {0} ELSE IF rest[1] # ":" THEN {} ELSE PortOf(Tail(rest))

(* What follows the bracket: nothing, a colon, or a colon and a port. *)
PortBehind(rest) ==
  IF rest = << >> THEN {0}
  ELSE IF rest[1] # ":" THEN {}
  ELSE IF Tail(rest) = << >> THEN {0} ELSE PortOf(Tail(rest))

(* Mutated SocketV4Error: the port is looked at first. *)
SocketV4ErrorPort(input) ==
  LET colon == Find(input, ":") IN
  IF colon <= Len(input) /\ PortOf(After(input, colon)) = {}
  THEN "invalidIntegral" ELSE "invalidAddress"

SocketV4Error(input) ==
  IF V4FromStr(Before(input, Find(input, ":"))) = {}
  THEN "invalidAddress" ELSE "invalidIntegral"

SocketV6FromStr(input) ==
  LET close == Find(input, "]") IN
  IF input = << >> \/ Head(input) # "[" \/ close > Len(input) THEN {}
  ELSE { Socket("V6", address, port) :
           address \in V6FromStr(SubSeq(input, 2, close - 1)),
           port \in PortBehind(After(input, close)) }

SocketV6Error(input) ==
  LET close == Find(input, "]") IN
  IF input = << >> \/ Head(input) # "[" \/ close > Len(input)
  THEN "invalidBracketPlacement"
  ELSE IF V6FromStr(SubSeq(input, 2, close - 1)) = {} THEN "invalidAddress"
  ELSE IF input[close + 1] # ":" THEN "invalidBracketPlacement"
  ELSE "invalidIntegral"

SetAddress(socket, address) == [socket EXCEPT !.address = address]
SetPort(socket, port)       == [socket EXCEPT !.port = port]
-----------------------------------------------------------------------------
(* IPAddress and SocketAddress                                             *)

FromV4(input) ==
  IF type # "IPAddress" THEN SocketV4FromStr(input)
  ELSE { [family |-> "V4", address |-> a] : a \in V4FromStr(input) }

FromV6(input) ==
  IF type # "IPAddress" THEN SocketV6FromStr(input)
  ELSE { [family |-> "V6", address |-> a] : a \in V6FromStr(input) }

TypeOf(v) == v.family

Accept(result) ==
  /\ value' = result /\ stage' = "done"
  /\ UNCHANGED <<type, text, error, source, edited>>

Refuse(kind) ==
  /\ error' = kind /\ stage' = "done"
  /\ UNCHANGED <<type, text, value, source, edited>>

TryV4 ==
  /\ stage = "v4"
  /\ \/ \E result \in FromV4(text) : Accept(result)
     \/ /\ FromV4(text) = {} /\ type = "SocketV4"
        /\ Refuse(SocketV4Error(text))
     \/ /\ FromV4(text) = {} /\ type # "SocketV4"
        /\ stage' = "v6"
        /\ UNCHANGED <<type, text, value, error, source, edited>>

(* The front() of an empty text is undefined: whatever it reads, no        *)
(* bracket closes; or the program stops there.                             *)
TryV6 ==
  /\ stage = "v6"
  /\ \/ \E result \in FromV6(text) : Accept(result)
     \/ /\ FromV6(text) = {}
        /\ Refuse(IF type = "SocketV6" THEN SocketV6Error(text) ELSE "invalid")
     \/ /\ type # "IPAddress" /\ text = << >>
        /\ Refuse("out_of_range")

(* A copy of the socket is edited, and wrapped again by V4 or V6 when it   *)
(* comes from a SocketAddress, whose type says which conversion to use.    *)
Edit ==
  /\ stage = "done" /\ value # NULL /\ source = NULL /\ type # "IPAddress"
  /\ \/ \E port \in DOMAIN DecText \cap 0..MaxPort : value' = SetPort(value, port)
     \/ \E host \in Hosts :
          TypeOf(host) = TypeOf(value) /\ value' = SetAddress(value, host.address)
  /\ edited' = TRUE
  /\ UNCHANGED <<type, text, stage, error, source>>

AddressText(v) ==
  IF TypeOf(v) = "V4" THEN V4ToString(v.address) ELSE V6ToString(v.address)

(* Mutated Printed: an IPv6 socket without its brackets. *)
PrintedBare(v) ==
  IF type = "IPAddress" THEN AddressText(v)
  ELSE AddressText(v) \o <<":", DecText[v.port]>>

Printed(v) ==
  IF type = "IPAddress" THEN AddressText(v)
  ELSE IF TypeOf(v) = "V4" THEN AddressText(v) \o <<":", DecText[v.port]>>
  ELSE <<"[">> \o AddressText(v) \o <<"]", ":", DecText[v.port]>>

(* Bound of the model: the numbers of `v' are among those with a text. *)
HasText(v) ==
  /\ \A k \in DOMAIN v.address :
       v.address[k] \in IF TypeOf(v) = "V4" THEN DOMAIN DecText ELSE DOMAIN HexText
  /\ type # "IPAddress" => v.port \in DOMAIN DecText

(* ToString, and its text is given to FromStr. *)
ReadBack ==
  /\ stage = "done" /\ value # NULL /\ source = NULL
  /\ HasText(value)
  /\ text' = Printed(value)
  /\ source' = value
  /\ value' = NULL /\ stage' = FirstAsked
  /\ edited' = FALSE
  /\ UNCHANGED <<type, error>>

Next == TryV4 \/ TryV6 \/ Edit \/ ReadBack

Spec == Init /\ [][Next]_vars
-----------------------------------------------------------------------------
(* Properties *)

(* The families that the type stands for. *)
Families == IF type \in {"IPAddress", "SocketAddress"} THEN {"V4", "V6"}
            ELSE IF type = "SocketV4" THEN {"V4"} ELSE {"V6"}

Values ==
  { v \in IF type = "IPAddress" THEN Addresses ELSE Sockets : v.family \in Families }

(* Every variable keeps its type: an address has the words of its family,  *)
(* which is one that the type stands for, and a port fits into 16 bits.    *)
TypeOK ==
  /\ type \in Types
  /\ text \in Chunks
  /\ stage \in {"v4", "v6", "done"}
  /\ error \in {"none", "invalid", "out_of_range", "invalidAddress",
                "invalidIntegral", "invalidBracketPlacement"}
  /\ edited \in BOOLEAN
  /\ {value, source} \subseteq Values \cup {NULL}

(* What a text says of a socket when its host is the first i tokens.       *)
PortsWritten(family, rest) ==
  IF rest = << >> \/ (family = "V6" /\ rest = <<":">>) THEN {0}
  ELSE { p \in {LeadingNumber(Tail(rest))} :
           rest[1] = ":" /\ p # NoNumber /\ p \in 0..MaxPort }

HostsWritten(family, host) ==
  LET inside == SubSeq(host, 2, Len(host) - 1) IN
  IF family = "V4" THEN IF Contains(host, ":") THEN {} ELSE V4FromStr(host)
  ELSE IF host = <<"[">> \o inside \o <<"]">> THEN V6FromStr(inside) ELSE {}

(* The ways of dividing a text into a host of a family and a rest. *)
Divisions ==
  { <<family, SubSeq(text, 1, i), SubSeq(text, i + 1, Len(text))>> :
      family \in Families, i \in 0..Len(text) }

SocketsWritten(d) ==
  { Socket(d[1], a, p) : a \in HostsWritten(d[1], d[2]), p \in PortsWritten(d[1], d[3]) }

(* The value of a socket text is the only one that any way of dividing the *)
(* text into host and port gives, in the families asked; a text that no    *)
(* way gives a value to is refused.                                        *)
SocketsAsWritten ==
  type # "IPAddress" /\ stage = "done" /\ ~edited =>
    UNION { SocketsWritten(d) : d \in Divisions } = {value} \ {NULL}

(* The error of a socket parser names the part at fault: the port when a   *)
(* host can be read that ends where the text or its port begins, and else  *)
(* the host, or the brackets when they are not around one.                 *)
BlamesPartAtFault ==
  stage = "done" /\ type \in {"SocketV4", "SocketV6"} =>
    LET readable == { d \in Divisions : HostsWritten(d[1], d[2]) # {} }
        ended    == { d \in readable : d[3] = << >> \/ d[3][1] = ":" }
    IN  /\ error = "invalidIntegral" => ended # {}
        /\ error \in {"invalidAddress", "invalidBracketPlacement"} => ended = {}
        /\ type = "SocketV6" /\ error = "invalidAddress" =>
             readable = {} /\ Head(text) = "[" /\ Contains(text, "]")

(* What ToString writes is read back as the same value, edited or not, of  *)
(* the same family although IPv4 is asked first, and with the same port.   *)
RoundTrip ==
  source # NULL /\ stage = "done" => value = source

(* tests/ip/AddrV6.test.cc gives texts of IPv6 addresses, and              *)
(* tests/IPAddress.test.cc expects such a text to be of type V6.           *)
FamilyAsWritten ==
  type = "IPAddress" /\ stage = "done" /\ V6FromStr(text) # {} =>
    value # NULL /\ value.family = "V6"
=============================================================================
