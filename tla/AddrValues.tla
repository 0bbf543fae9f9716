----------------------------- MODULE AddrValues -----------------------------
(***************************************************************************)
(* ip::AddrV4 and ip::AddrV6 as values: the integers they convert to, the  *)
(* bit operators and the order on them, and the ranges of addresses that   *)
(* have a name.  A program keeps one address of each family and applies    *)
(* the operators of the headers to it.                                     *)
(*                                                                         *)
(* An unsigned integer of 32 or 128 bits is the sequence of its 16-bit     *)
(* halves, the most significant first: 2 or 8 of them.                     *)
(***************************************************************************)
EXTENDS Integers, Sequences

MaxHalf == 65535

Byte == 0..255
Half == 0..MaxHalf

V4Address == [0..3 -> Byte]
V6Address == [0..15 -> Byte]

CONSTANTS
  Starts,                  \* the two addresses that a program begins with
  V4Operands, V6Operands,  \* right-hand sides
  MaxSteps                 \* operators applied to an address

ASSUME AddressAssumption ==
  /\ Starts \subseteq V4Address \X V6Address
  /\ V4Operands \subseteq V4Address /\ V6Operands \subseteq V6Address
  /\ MaxSteps \in Nat

VARIABLES
  v4, v6,  \* n_bytes of an AddrV4 and of an AddrV6
  steps    \* operators applied so far

vars == <<v4, v6, steps>>
-----------------------------------------------------------------------------
(* Conversions                                                             *)

AsUInt32(a) == << a[0] * 256 + a[1], a[2] * 256 + a[3] >>

(* Mutated FromUInt32: a shift by 8 where 16 was meant. *)
FromUInt32Shifted(n) ==
  [k \in 0..3 |-> IF k = 0 THEN n[1] \div 256
                  ELSE IF k = 3 THEN n[2] % 256 ELSE n[2] \div 256]

FromUInt32(n) ==
  [k \in 0..3 |-> IF k % 2 = 0 THEN n[k \div 2 + 1] \div 256
                               ELSE n[k \div 2 + 1] % 256]

AsUInt128(a) == [k \in 1..8 |-> a[2 * k - 2] * 256 + a[2 * k - 1]]

(* Mutated FromUInt128: a shift that stays 8 for the low bytes. *)
FromUInt128Shifted(n) ==
  [k \in 0..15 |-> n[k \div 2 + 1] \div 256]

FromUInt128(n) ==
  [k \in 0..15 |-> IF k % 2 = 0 THEN n[k \div 2 + 1] \div 256
                                ELSE n[k \div 2 + 1] % 256]

(* The constructor from eight words of 16 bits. *)
FromWords(w) ==
  [k \in 0..15 |-> IF k % 2 = 0 THEN w[k \div 2 + 1] \div 256
                                ELSE w[k \div 2 + 1] % 256]

V4Localhost == [k \in 0..3 |-> <<127, 0, 0, 1>>[k + 1]]
Broadcast   == [k \in 0..3 |-> 255]
V6Localhost == FromWords(<<0, 0, 0, 0, 0, 0, 0, 1>>)
-----------------------------------------------------------------------------
(* Bit operators                                                           *)

Bit(x, weight) == (x \div weight) % 2

(* The byte whose bits are those of x and y combined by Gate. *)
ByteWise(Gate(_, _), x, y) ==
  LET at(weight) == weight * Gate(Bit(x, weight), Bit(y, weight)) IN
  at(128) + at(64) + at(32) + at(16) + at(8) + at(4) + at(2) + at(1)

BitWise(Gate(_, _), m, n) ==
  [k \in 1..Len(m) |-> 256 * ByteWise(Gate, m[k] \div 256, n[k] \div 256)
                         + ByteWise(Gate, m[k] % 256, n[k] % 256)]

And(b, c) == IF b = 1 /\ c = 1 THEN 1 ELSE 0
Or(b, c)  == IF b = 1 \/ c = 1 THEN 1 ELSE 0
Xor(b, c) == IF b # c THEN 1 ELSE 0
Not(b, c) == 1 - b

V4And(a, b) == FromUInt32(BitWise(And, AsUInt32(a), AsUInt32(b)))
V4Or(a, b)  == FromUInt32(BitWise(Or, AsUInt32(a), AsUInt32(b)))
V4Xor(a, b) == FromUInt32(BitWise(Xor, AsUInt32(a), AsUInt32(b)))
V4Not(a)    == FromUInt32(BitWise(Not, AsUInt32(a), AsUInt32(a)))

V6And(a, b) == FromUInt128(BitWise(And, AsUInt128(a), AsUInt128(b)))
V6Or(a, b)  == FromUInt128(BitWise(Or, AsUInt128(a), AsUInt128(b)))
V6Xor(a, b) == FromUInt128(BitWise(Xor, AsUInt128(a), AsUInt128(b)))
V6Not(a)    == FromUInt128(BitWise(Not, AsUInt128(a), AsUInt128(a)))
-----------------------------------------------------------------------------
(* Order                                                                   *)

(* Mutated Less: halves compared from the least significant one. *)
LessSwapped(m, n) ==
  \E k \in 1..Len(m) : m[k] < n[k] /\ \A j \in (k + 1)..Len(m) : m[j] = n[j]

Less(m, n) ==
  \E k \in 1..Len(m) : m[k] < n[k] /\ \A j \in 1..(k - 1) : m[j] = n[j]

V4Less(a, b) == Less(AsUInt32(a), AsUInt32(b))
V6Less(a, b) == Less(AsUInt128(a), AsUInt128(b))

V4Equal(a, b) == AsUInt32(a) = AsUInt32(b)
V6Equal(a, b) == AsUInt128(a) = AsUInt128(b)

(* The alternatives of the OneOf in an IPAddress or a SocketAddress, in    *)
(* the order of Index().                                                   *)
Index(x) == IF x.type = "V4" THEN 0 ELSE 1

BothV4(x, y) == x.type = "V4" /\ y.type = "V4"
BothV6(x, y) == x.type = "V6" /\ y.type = "V6"

IPEqual(x, y) ==
  \/ BothV4(x, y) /\ V4Equal(x.address, y.address)
  \/ BothV6(x, y) /\ V6Equal(x.address, y.address)

IPLess(x, y) ==
  \/ Index(x) < Index(y)
  \/ BothV4(x, y) /\ V4Less(x.address, y.address)
  \/ BothV6(x, y) /\ V6Less(x.address, y.address)

SocketV4Equal(x, y) == V4Equal(x.address, y.address) /\ x.port = y.port
SocketV6Equal(x, y) == V6Equal(x.address, y.address) /\ x.port = y.port

(* Mutated SocketV4Less: the ports decide although the addresses differ. *)
SocketV4LessByPort(x, y) == V4Less(x.address, y.address) \/ x.port < y.port

(* The addresses decide unless they are the same. *)
SocketV4Less(x, y) ==
  \/ V4Less(x.address, y.address)
  \/ ~V4Less(y.address, x.address) /\ x.port < y.port

SocketV6Less(x, y) ==
  \/ V6Less(x.address, y.address)
  \/ ~V6Less(y.address, x.address) /\ x.port < y.port

SocketEqual(x, y) ==
  \/ BothV4(x, y) /\ SocketV4Equal(x, y)
  \/ BothV6(x, y) /\ SocketV6Equal(x, y)

SocketLess(x, y) ==
  \/ Index(x) < Index(y)
  \/ BothV4(x, y) /\ SocketV4Less(x, y)
  \/ BothV6(x, y) /\ SocketV6Less(x, y)
-----------------------------------------------------------------------------
(* Ranges with a name.  A shift to the right by 24, 20, 16 or 28 leaves    *)
(* part of the first half.                                                 *)

Shift24(a) == AsUInt32(a)[1] \div 256
Shift20(a) == AsUInt32(a)[1] \div 16
Shift16(a) == AsUInt32(a)[1]
Shift28(a) == AsUInt32(a)[1] \div 4096

IsBroadcast(a)   == AsUInt32(a) = <<65535, 65535>>
V4Unspecified(a) == AsUInt32(a) = <<0, 0>>
V4Loopback(a)    == Shift24(a) = 127

(* Mutated Private: a nibble of 172.16.0.0/12 too few. *)
PrivateWide(a) ==
  Shift24(a) = 10 \/ Shift24(a) = 172 \/ Shift16(a) = 49320

(* 0xAC1 and 0xC0A8 *)
Private(a) ==
  Shift24(a) = 10 \/ Shift20(a) = 2753 \/ Shift16(a) = 49320

V4LinkLocal(a)     == Shift16(a) = 43518    \* 0xA9FE
V4Multicast(a)     == Shift28(a) = 14
Reserved(a)        == Shift24(a) >= 240 /\ Shift24(a) <= 255
Shared(a)          == Shift24(a) = 100 /\ Shift16(a) % 16 \in 64..127
V4Benchmarking(a)  == Shift24(a) = 198 /\ Shift16(a) % 256 = 18
V4Documentation(a) == Shift24(a) = 192 /\ Shift16(a) % 256 = 13

Global(a) ==
  ~( /\ V4Unspecified(a) /\ V4Loopback(a) /\ Private(a) /\ V4LinkLocal(a)
     /\ V4Multicast(a) /\ IsBroadcast(a) /\ Shared(a) /\ V4Benchmarking(a)
     /\ Reserved(a) )

V6Unspecified(a) == \A k \in 0..15 : a[k] = 0
V6Loopback(a)    == (\A k \in 0..14 : a[k] = 0) /\ a[15] = 1
V6Multicast(a)   == a[0] = 255
Unicast(a)       == ~V6Multicast(a) /\ ~V6Unspecified(a)
V6LinkLocal(a)   == a[0] = 254 /\ a[1] \div 64 = 2
UniqueLocal(a)   == a[0] \div 2 = 126

(* Mutated UnicastGlobal: multicast addresses are not left out. *)
UnicastGlobalAll(a) == ~V6Unspecified(a) /\ ~V6LinkLocal(a) /\ ~UniqueLocal(a)

UnicastGlobal(a) == Unicast(a) /\ ~V6LinkLocal(a) /\ ~UniqueLocal(a)
IPv4Mapped(a)    == (\A k \in 0..9 : a[k] = 0) /\ a[10] = 255 /\ a[11] = 255

V6Documentation(a) == a[0] = 32 /\ a[1] = 1 /\ a[2] = 13 /\ a[3] = 184
V6Benchmarking(a)  == a[0] = 32 /\ a[1] = 1 /\ a[2] = 0 /\ a[3] = 2
-----------------------------------------------------------------------------
(* AddrV4's default constructor leaves n_bytes as it finds them: a program *)
(* may begin with any address.                                             *)
Init ==
  /\ \E start \in Starts : v4 = start[1] /\ v6 = start[2]
  /\ steps = 0

V4Assign(result) == v4' = result /\ v6' = v6 /\ steps' = steps + 1
V6Assign(result) == v6' = result /\ v4' = v4 /\ steps' = steps + 1

(* &=, |=, ^= and the assignment of ~ *)
V4Step ==
  /\ steps < MaxSteps
  /\ \/ \E b \in V4Operands :
          V4Assign(V4And(v4, b)) \/ V4Assign(V4Or(v4, b)) \/ V4Assign(V4Xor(v4, b))
     \/ V4Assign(V4Not(v4))

V6Step ==
  /\ steps < MaxSteps
  /\ \/ \E b \in V6Operands :
          V6Assign(V6And(v6, b)) \/ V6Assign(V6Or(v6, b)) \/ V6Assign(V6Xor(v6, b))
     \/ V6Assign(V6Not(v6))

Next == V4Step \/ V6Step

Spec == Init /\ [][Next]_vars
-----------------------------------------------------------------------------
(* Properties *)

(* Every variable keeps its type: what the proofs begin with. *)
TypeOK ==
  /\ v4 \in V4Address /\ v6 \in V6Address
  /\ steps \in 0..MaxSteps

(* The network of a comment "a.b.c.d/length": the addresses whose bits     *)
(* under the mask are those of a.b.c.d.                                    *)
Mask(length) ==
  [k \in 0..3 |-> IF length >= 8 * k + 8 THEN 255
                  ELSE IF length <= 8 * k THEN 0
                  ELSE 256 - <<128, 64, 32, 16, 8, 4, 2>>[length - 8 * k]]

Quad(p, q, r, s) == [k \in 0..3 |-> <<p, q, r, s>>[k + 1]]

In(a, network, length) == V4And(a, Mask(length)) = network

(* AddrV4.h:115-125 and :165: the networks that the comments name are the  *)
(* private and the multicast addresses.                                    *)
NetworksAsCommented ==
  /\ Private(v4) <=> \/ In(v4, Quad(10, 0, 0, 0), 8)
                     \/ In(v4, Quad(172, 16, 0, 0), 12)
                     \/ In(v4, Quad(192, 168, 0, 0), 16)
  /\ V4Multicast(v4) <=> In(v4, Quad(224, 0, 0, 0), 4)

(* AddrV4.h:147, :153 and :171: likewise for the shared address space, the *)
(* benchmarking and the documentation addresses.                           *)
SpecialNetworksAsCommented ==
  /\ Shared(v4) <=> In(v4, Quad(100, 64, 0, 0), 10)
  /\ V4Benchmarking(v4) <=> In(v4, Quad(198, 18, 0, 0), 15)
  /\ V4Documentation(v4) <=> In(v4, Quad(192, 0, 2, 0), 24)

(* Each IPv6 address has one of the kinds that AddrV6.h tells apart, and   *)
(* no address has two of them.                                             *)
OneKind ==
  LET kinds == << V6Unspecified(v6), V6Multicast(v6), V6LinkLocal(v6),
                  UniqueLocal(v6), UnicastGlobal(v6) >>
  IN  /\ \E k \in 1..5 : kinds[k]
      /\ \A j, k \in 1..5 : kinds[j] /\ kinds[k] => j = k

(* Addresses compare as their octets do, from the first to the last, and   *)
(* as values that are equal only if their octets are.                      *)
OctetsLess(a, b, n) ==
  \E k \in 0..n : a[k] < b[k] /\ \A j \in 0..(k - 1) : a[j] = b[j]

OrderIsOfOctets ==
  /\ \A b \in V4Operands :
       /\ V4Less(v4, b) <=> OctetsLess(v4, b, 3)
       /\ V4Equal(v4, b) <=> v4 = b
  /\ \A b \in V6Operands :
       /\ V6Less(v6, b) <=> OctetsLess(v6, b, 15)
       /\ V6Equal(v6, b) <=> v6 = b

(* Of two sockets, or two addresses, of any families exactly one of <, >  *)
(* and == holds, whichever of them is asked, and == holds of a socket and  *)
(* itself alone; sockets sort by their addresses in the first place.       *)
Sockets(type, addresses, ports) ==
  [type : {type}, address : addresses, port : ports]

Trichotomy(less, equal, greater) ==
  /\ equal \/ less \/ greater
  /\ ~(equal /\ less) /\ ~(equal /\ greater) /\ ~(less /\ greater)

SocketsOrdered ==
  \A x \in Sockets("V4", {v4}, {1}) \cup Sockets("V6", {v6}, {1}),
     y \in Sockets("V4", V4Operands \cup {v4}, {0, 1})
            \cup Sockets("V6", V6Operands \cup {v6}, {0, 1}) :
    /\ SocketEqual(x, y) <=> x = y
    /\ Trichotomy(SocketLess(x, y), SocketEqual(x, y), SocketLess(y, x))
    /\ Trichotomy(IPLess(x, y), IPEqual(x, y), IPLess(y, x))
    /\ IPLess(x, y) => SocketLess(x, y)

(* A mask and its complement take an address apart into a network and a    *)
(* host that | and ^ both put together again: no bit is lost or moved on   *)
(* the way through the integers, in either family.                         *)
NetworkAndHost ==
  /\ \A m \in V4Operands :
       LET network == V4And(v4, m)
           host    == V4And(v4, V4Not(m))
       IN  V4Or(network, host) = v4 /\ V4Xor(network, host) = v4
  /\ \A m \in V6Operands :
       LET network == V6And(v6, m)
           host    == V6And(v6, V6Not(m))
       IN  V6Or(network, host) = v6 /\ V6Xor(network, host) = v6

(* No address grows under a mask: what a step takes with & is not above    *)
(* the address or the mask, and what it adds with | is not below them.     *)
MasksAreBounds ==
  [][ \A b \in V4Operands :
        /\ v4' = V4And(v4, b) => ~V4Less(v4, v4') /\ ~V4Less(b, v4')
        /\ v4' = V4Or(v4, b) => ~V4Less(v4', v4) /\ ~V4Less(v4', b) ]_vars
=============================================================================
