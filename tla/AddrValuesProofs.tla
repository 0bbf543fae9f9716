-------------------------- MODULE AddrValuesProofs --------------------------
(***************************************************************************)
(* Proofs about AddrValues, for all addresses.                             *)
(***************************************************************************)
EXTENDS AddrValues, TLAPS
-----------------------------------------------------------------------------
(* Two bytes make a half, and back.                                        *)

LEMMA InHalf ==
  ASSUME NEW h
  PROVE  h \in Half <=> h \in Int /\ 0 <= h /\ h <= 65535
<1>1. MaxHalf = 65535
  BY DEF MaxHalf
<1>2. MaxHalf \in Nat
  BY <1>1
<1>3. h \in Half <=> h \in Int /\ 0 <= h /\ h <= MaxHalf
  BY <1>2 DEF Half
<1> QED BY <1>1, <1>3

LEMMA InByte ==
  ASSUME NEW x
  PROVE  x \in Byte <=> x \in Int /\ 0 <= x /\ x <= 255
  BY DEF Byte

LEMMA HalfBytes ==
  ASSUME NEW h \in Half
  PROVE  h \div 256 \in Byte /\ h % 256 \in Byte /\ h = 256 * (h \div 256) + (h % 256)
<1>1. h \in Int /\ 0 <= h /\ h <= 65535
  BY InHalf
<1>2. h \div 256 \in Int /\ 0 <= h \div 256 /\ h \div 256 <= 255
  BY <1>1
<1>3. h % 256 \in Int /\ 0 <= h % 256 /\ h % 256 <= 255
  BY <1>1
<1>4. h % 256 = h - 256 * (h \div 256)
  BY <1>1, SMTT(20)
<1>5. h \div 256 \in Byte
  BY <1>2, InByte
<1>6. h % 256 \in Byte
  BY <1>3, InByte
<1>7. h = 256 * (h \div 256) + (h % 256)
  BY <1>1, <1>2, <1>3, <1>4
<1> QED BY <1>5, <1>6, <1>7

LEMMA BytesHalf ==
  ASSUME NEW x \in Byte, NEW y \in Byte
  PROVE  x * 256 + y \in Half
<1>1. x \in Int /\ 0 <= x /\ x <= 255 /\ y \in Int /\ 0 <= y /\ y <= 255
  BY InByte
<1>2. x * 256 + y \in Int /\ 0 <= x * 256 + y /\ x * 256 + y <= 65535
  BY <1>1
<1> QED BY <1>2, InHalf
-----------------------------------------------------------------------------
(* Types                                                                   *)

LEMMA AsHalves32 ==
  ASSUME NEW a \in V4Address
  PROVE  /\ AsUInt32(a) = << a[0] * 256 + a[1], a[2] * 256 + a[3] >>
         /\ AsUInt32(a) \in [1..2 -> Half]
<1>1. a[0] \in Byte /\ a[1] \in Byte /\ a[2] \in Byte /\ a[3] \in Byte
  BY DEF V4Address
<1>2. a[0] * 256 + a[1] \in Half /\ a[2] * 256 + a[3] \in Half
  BY <1>1, BytesHalf
<1> HIDE DEF Half
<1> QED BY <1>2 DEF AsUInt32

LEMMA AsHalves128 ==
  ASSUME NEW a \in V6Address
  PROVE  AsUInt128(a) \in [1..8 -> Half]
<1>1. ASSUME NEW k \in 1..8
      PROVE  a[2 * k - 2] * 256 + a[2 * k - 1] \in Half
  <2>1. 2 * k - 2 \in 0..15 /\ 2 * k - 1 \in 0..15
    OBVIOUS
  <2>2. a[2 * k - 2] \in Byte /\ a[2 * k - 1] \in Byte
    BY <2>1 DEF V6Address
  <2> QED BY <2>2, BytesHalf
<1> QED BY <1>1 DEF AsUInt128

LEMMA AsAddress32 ==
  ASSUME NEW n \in [1..2 -> Half]
  PROVE  FromUInt32(n) \in V4Address
<1>1. ASSUME NEW k \in 0..3
      PROVE  (IF k % 2 = 0 THEN n[k \div 2 + 1] \div 256
                           ELSE n[k \div 2 + 1] % 256) \in Byte
  <2>1. k \div 2 + 1 \in 1..2
    OBVIOUS
  <2>2. n[k \div 2 + 1] \in Half
    BY <2>1
  <2> QED BY <2>2, HalfBytes
<1> QED BY <1>1 DEF FromUInt32, V4Address

LEMMA AsAddress128 ==
  ASSUME NEW n \in [1..8 -> Half]
  PROVE  FromUInt128(n) \in V6Address
<1>1. ASSUME NEW k \in 0..15
      PROVE  (IF k % 2 = 0 THEN n[k \div 2 + 1] \div 256
                           ELSE n[k \div 2 + 1] % 256) \in Byte
  <2>1. k \div 2 + 1 \in 1..8
    OBVIOUS
  <2>2. n[k \div 2 + 1] \in Half
    BY <2>1
  <2> QED BY <2>2, HalfBytes
<1> QED BY <1>1 DEF FromUInt128, V6Address

LEMMA HalfLength ==
  /\ \A a \in V4Address : Len(AsUInt32(a)) = 2
  /\ \A a \in V6Address : Len(AsUInt128(a)) = 8
<1>1. ASSUME NEW a \in V4Address PROVE Len(AsUInt32(a)) = 2
  BY DEF AsUInt32
<1>2. ASSUME NEW a \in V6Address PROVE Len(AsUInt128(a)) = 8
  BY DEF AsUInt128
<1> QED BY <1>1, <1>2

(* A bit is 0 or 1, and eight of them make a byte. *)
LEMMA Bits ==
  ASSUME NEW x \in Byte, NEW w \in {1, 2, 4, 8, 16, 32, 64, 128}
  PROVE  Bit(x, w) \in {0, 1}
<1>1. x \in Int
  BY InByte
<1>2. x \div w \in Int
  BY <1>1
<1>3. (x \div w) % 2 \in {0, 1}
  BY <1>2
<1> QED BY <1>3 DEF Bit

LEMMA EightBits ==
  ASSUME NEW b1 \in {0, 1}, NEW b2 \in {0, 1}, NEW b3 \in {0, 1}, NEW b4 \in {0, 1},
         NEW b5 \in {0, 1}, NEW b6 \in {0, 1}, NEW b7 \in {0, 1}, NEW b8 \in {0, 1}
  PROVE  128 * b1 + 64 * b2 + 32 * b3 + 16 * b4 + 8 * b5 + 4 * b6 + 2 * b7 + 1 * b8 \in Byte
  BY SMT DEF Byte

LEMMA GateBytes ==
  ASSUME NEW x \in Byte, NEW y \in Byte
  PROVE  /\ ByteWise(And, x, y) \in Byte
         /\ ByteWise(Or, x, y) \in Byte
         /\ ByteWise(Xor, x, y) \in Byte
         /\ ByteWise(Not, x, y) \in Byte
<1>1. \A w \in {1, 2, 4, 8, 16, 32, 64, 128} :
        /\ And(Bit(x, w), Bit(y, w)) \in {0, 1}
        /\ Or(Bit(x, w), Bit(y, w)) \in {0, 1}
        /\ Xor(Bit(x, w), Bit(y, w)) \in {0, 1}
        /\ Not(Bit(x, w), Bit(y, w)) \in {0, 1}
  BY Bits DEF And, Or, Xor, Not
<1>2. ByteWise(And, x, y) \in Byte
  BY <1>1, EightBits DEF ByteWise
<1>3. ByteWise(Or, x, y) \in Byte
  BY <1>1, EightBits DEF ByteWise
<1>4. ByteWise(Xor, x, y) \in Byte
  BY <1>1, EightBits DEF ByteWise
<1>5. ByteWise(Not, x, y) \in Byte
  BY <1>1, EightBits DEF ByteWise
<1> QED BY <1>2, <1>3, <1>4, <1>5

LEMMA GateHalves ==
  ASSUME NEW N \in Nat, NEW m \in [1..N -> Half], NEW n \in [1..N -> Half], Len(m) = N
  PROVE  /\ BitWise(And, m, n) \in [1..N -> Half]
         /\ BitWise(Or, m, n) \in [1..N -> Half]
         /\ BitWise(Xor, m, n) \in [1..N -> Half]
         /\ BitWise(Not, m, n) \in [1..N -> Half]
<1>1. \A k \in 1..N :
        /\ m[k] \div 256 \in Byte /\ m[k] % 256 \in Byte
        /\ n[k] \div 256 \in Byte /\ n[k] % 256 \in Byte
  <2> HIDE DEF Half
  <2>1. \A k \in 1..N : m[k] \in Half /\ n[k] \in Half
    OBVIOUS
  <2> QED BY <2>1, HalfBytes
<1>2. \A x, y \in Byte : 256 * x + y \in Half
  <2> SUFFICES ASSUME NEW x \in Byte, NEW y \in Byte
               PROVE  256 * x + y \in Half
    OBVIOUS
  <2>1. x \in Int /\ y \in Int
    BY InByte
  <2>2. 256 * x + y = x * 256 + y
    BY <2>1
  <2>3. x * 256 + y \in Half
    BY BytesHalf
  <2> QED BY <2>2, <2>3, Zenon
<1>3. \A k \in 1..N :
        /\ 256 * ByteWise(And, m[k] \div 256, n[k] \div 256)
             + ByteWise(And, m[k] % 256, n[k] % 256) \in Half
        /\ 256 * ByteWise(Or, m[k] \div 256, n[k] \div 256)
             + ByteWise(Or, m[k] % 256, n[k] % 256) \in Half
        /\ 256 * ByteWise(Xor, m[k] \div 256, n[k] \div 256)
             + ByteWise(Xor, m[k] % 256, n[k] % 256) \in Half
        /\ 256 * ByteWise(Not, m[k] \div 256, n[k] \div 256)
             + ByteWise(Not, m[k] % 256, n[k] % 256) \in Half
  BY <1>1, <1>2, GateBytes
<1> QED BY <1>3 DEF BitWise

LEMMA OperatorsClosed ==
  /\ \A a, b \in V4Address :
       /\ V4And(a, b) \in V4Address /\ V4Or(a, b) \in V4Address
       /\ V4Xor(a, b) \in V4Address /\ V4Not(a) \in V4Address
  /\ \A a, b \in V6Address :
       /\ V6And(a, b) \in V6Address /\ V6Or(a, b) \in V6Address
       /\ V6Xor(a, b) \in V6Address /\ V6Not(a) \in V6Address
<1>1. ASSUME NEW a \in V4Address, NEW b \in V4Address
      PROVE  /\ V4And(a, b) \in V4Address /\ V4Or(a, b) \in V4Address
             /\ V4Xor(a, b) \in V4Address /\ V4Not(a) \in V4Address
  <2>1. AsUInt32(a) \in [1..2 -> Half] /\ AsUInt32(b) \in [1..2 -> Half]
    BY AsHalves32
  <2>2. Len(AsUInt32(a)) = 2
    BY HalfLength
  <2> QED BY <2>1, <2>2, GateHalves, AsAddress32 DEF V4And, V4Or, V4Xor, V4Not
<1>2. ASSUME NEW a \in V6Address, NEW b \in V6Address
      PROVE  /\ V6And(a, b) \in V6Address /\ V6Or(a, b) \in V6Address
             /\ V6Xor(a, b) \in V6Address /\ V6Not(a) \in V6Address
  <2>1. AsUInt128(a) \in [1..8 -> Half] /\ AsUInt128(b) \in [1..8 -> Half]
    BY AsHalves128
  <2>2. Len(AsUInt128(a)) = 8
    BY HalfLength
  <2> QED BY <2>1, <2>2, GateHalves, AsAddress128 DEF V6And, V6Or, V6Xor, V6Not
<1> QED BY <1>1, <1>2

(* Whatever operators a program applies, both addresses stay addresses.    *)
LEMMA TypeCorrect == Spec => []TypeOK
<1>1. Init => TypeOK
  BY AddressAssumption DEF Init, TypeOK
<1>2. TypeOK /\ [Next]_vars => TypeOK'
  <2> SUFFICES ASSUME TypeOK, [Next]_vars PROVE TypeOK'
    OBVIOUS
  <2>1. v4 \in V4Address /\ v6 \in V6Address /\ steps \in 0..MaxSteps
    BY DEF TypeOK
  <2>2. CASE V4Step
    <3>1. v4' \in V4Address
      BY <2>1, <2>2, OperatorsClosed, AddressAssumption DEF V4Step, V4Assign
    <3>2. v6' = v6 /\ steps' = steps + 1 /\ steps < MaxSteps
      BY <2>2 DEF V4Step, V4Assign
    <3> QED BY <2>1, <3>1, <3>2, AddressAssumption DEF TypeOK
  <2>3. CASE V6Step
    <3>1. v6' \in V6Address
      BY <2>1, <2>3, OperatorsClosed, AddressAssumption DEF V6Step, V6Assign
    <3>2. v4' = v4 /\ steps' = steps + 1 /\ steps < MaxSteps
      BY <2>3 DEF V6Step, V6Assign
    <3> QED BY <2>1, <3>1, <3>2, AddressAssumption DEF TypeOK
  <2>4. CASE UNCHANGED vars
    BY <2>1, <2>4 DEF vars, TypeOK
  <2> QED BY <2>2, <2>3, <2>4 DEF Next
<1> QED BY <1>1, <1>2, PTL DEF Spec
-----------------------------------------------------------------------------
(* Kinds                                                                   *)

(* Every IPv6 address, and not only those that TLC tried, is unspecified,  *)
(* multicast, link-local, unique local or global unicast, and one of them. *)
THEOREM KindsPartition == Spec => []OneKind
<1>1. TypeOK => OneKind
  <2> SUFFICES ASSUME TypeOK PROVE OneKind
    OBVIOUS
  <2>1. v6[0] \in Byte /\ v6[1] \in Byte
    BY DEF TypeOK, V6Address
  <2>2. V6Unspecified(v6) => v6[0] = 0
    BY DEF V6Unspecified
  <2>3. /\ V6LinkLocal(v6) => v6[0] = 254
        /\ V6Multicast(v6) => v6[0] = 255
        /\ UniqueLocal(v6) => v6[0] \in {252, 253}
    BY <2>1, InByte DEF V6LinkLocal, V6Multicast, UniqueLocal
  <2>4. UnicastGlobal(v6) <=> /\ ~V6Multicast(v6) /\ ~V6Unspecified(v6)
                              /\ ~V6LinkLocal(v6) /\ ~UniqueLocal(v6)
    BY DEF UnicastGlobal, Unicast
  <2>5. /\ V6Unspecified(v6) => ~V6Multicast(v6) /\ ~V6LinkLocal(v6) /\ ~UniqueLocal(v6)
        /\ V6Multicast(v6) => ~V6LinkLocal(v6) /\ ~UniqueLocal(v6)
        /\ V6LinkLocal(v6) => ~UniqueLocal(v6)
    BY <2>2, <2>3
  <2> QED BY <2>4, <2>5 DEF OneKind
<1> QED BY <1>1, TypeCorrect, PTL
-----------------------------------------------------------------------------
(* Order                                                                   *)

(* Two halves compare as their first bytes do, and then as their second.   *)
LEMMA ByteByByte ==
  ASSUME NEW x \in Byte, NEW y \in Byte, NEW u \in Byte, NEW v \in Byte
  PROVE  /\ x * 256 + y < u * 256 + v <=> x < u \/ (x = u /\ y < v)
         /\ x * 256 + y = u * 256 + v <=> x = u /\ y = v
<1>1. /\ x \in Int /\ 0 <= x /\ x <= 255 /\ y \in Int /\ 0 <= y /\ y <= 255
      /\ u \in Int /\ 0 <= u /\ u <= 255 /\ v \in Int /\ 0 <= v /\ v <= 255
  BY InByte
<1> QED BY <1>1

(* The N halves m of an integer are made of the octets a. *)
MadeOf(m, a, N) == \A k \in 1..N : m[k] = a[2 * k - 2] * 256 + a[2 * k - 1]

(* The order on the halves of an integer is the order on the octets that   *)
(* the halves are made of.                                                 *)
LEMMA HalvesLikeOctets ==
  ASSUME NEW N \in Nat,
         NEW a \in [0..(2 * N - 1) -> Byte], NEW b \in [0..(2 * N - 1) -> Byte],
         NEW m, NEW n, Len(m) = N, MadeOf(m, a, N), MadeOf(n, b, N)
  PROVE  Less(m, n) <=> OctetsLess(a, b, 2 * N - 1)
<1>0. \A k \in 1..N : /\ m[k] = a[2 * k - 2] * 256 + a[2 * k - 1]
                      /\ n[k] = b[2 * k - 2] * 256 + b[2 * k - 1]
  BY DEF MadeOf
<1>1. \A k \in 1..N : /\ 2 * k - 2 \in 0..(2 * N - 1) /\ 2 * k - 1 \in 0..(2 * N - 1)
                      /\ a[2 * k - 2] \in Byte /\ a[2 * k - 1] \in Byte
                      /\ b[2 * k - 2] \in Byte /\ b[2 * k - 1] \in Byte
  OBVIOUS
<1>2. \A k \in 1..N :
        /\ m[k] < n[k] <=> \/ a[2 * k - 2] < b[2 * k - 2]
                           \/ a[2 * k - 2] = b[2 * k - 2] /\ a[2 * k - 1] < b[2 * k - 1]
        /\ m[k] = n[k] <=> a[2 * k - 2] = b[2 * k - 2] /\ a[2 * k - 1] = b[2 * k - 1]
  BY <1>0, <1>1, ByteByByte
<1>3. ASSUME NEW i \in 0..(2 * N - 1)
      PROVE  /\ i \div 2 + 1 \in 1..N
             /\ i = 2 * (i \div 2 + 1) - 2 \/ i = 2 * (i \div 2 + 1) - 1
  BY SMT
<1>4. ASSUME Less(m, n)
      PROVE  OctetsLess(a, b, 2 * N - 1)
  <2>1. PICK k \in 1..N : m[k] < n[k] /\ \A j \in 1..(k - 1) : m[j] = n[j]
    BY <1>4 DEF Less
  <2>2. ASSUME NEW i \in 0..(2 * k - 3)
        PROVE  a[i] = b[i]
    <3>1. i \in 0..(2 * N - 1)
      OBVIOUS
    <3>2. i \div 2 + 1 \in 1..(k - 1)
      BY <3>1, <1>3
    <3>3. m[i \div 2 + 1] = n[i \div 2 + 1]
      BY <3>2, <2>1
    <3> QED BY <3>1, <3>2, <3>3, <1>2, <1>3
  <2>3. CASE a[2 * k - 2] < b[2 * k - 2]
    <3>1. 2 * k - 2 \in 0..(2 * N - 1)
      OBVIOUS
    <3>2. \A j \in 0..((2 * k - 2) - 1) : a[j] = b[j]
      BY <2>2
    <3> QED BY <2>3, <3>1, <3>2 DEF OctetsLess
  <2>4. CASE a[2 * k - 2] = b[2 * k - 2] /\ a[2 * k - 1] < b[2 * k - 1]
    <3>1. 2 * k - 1 \in 0..(2 * N - 1)
      OBVIOUS
    <3>2. \A j \in 0..((2 * k - 1) - 1) : j \in 0..(2 * k - 3) \/ j = 2 * k - 2
      OBVIOUS
    <3>3. \A j \in 0..((2 * k - 1) - 1) : a[j] = b[j]
      BY <2>2, <2>4, <3>2
    <3> QED BY <2>4, <3>1, <3>3 DEF OctetsLess
  <2> QED BY <2>1, <1>2, <2>3, <2>4
<1>5. ASSUME OctetsLess(a, b, 2 * N - 1)
      PROVE  Less(m, n)
  <2>1. PICK i \in 0..(2 * N - 1) : a[i] < b[i] /\ \A j \in 0..(i - 1) : a[j] = b[j]
    BY <1>5 DEF OctetsLess
  <2> DEFINE k == i \div 2 + 1
  <2>2. k \in 1..N /\ (i = 2 * k - 2 \/ i = 2 * k - 1)
    BY <1>3
  <2> HIDE DEF k
  <2>3. m[k] < n[k]
    <3>1. CASE i = 2 * k - 2
      BY <3>1, <2>1, <2>2, <1>2
    <3>2. CASE i = 2 * k - 1
      <4>1. 2 * k - 2 \in 0..(i - 1)
        BY <3>2, <2>2
      <4> QED BY <4>1, <3>2, <2>1, <2>2, <1>2
    <3> QED BY <2>2, <3>1, <3>2
  <2>4. ASSUME NEW j \in 1..(k - 1)
        PROVE  m[j] = n[j]
    <3>1. j \in 1..N /\ 2 * j - 2 \in 0..(i - 1) /\ 2 * j - 1 \in 0..(i - 1)
      BY <2>2
    <3> QED BY <3>1, <2>1, <1>2
  <2> QED BY <2>2, <2>3, <2>4 DEF Less
<1> QED BY <1>4, <1>5

LEMMA V4Order ==
  ASSUME NEW a \in V4Address, NEW b \in V4Address
  PROVE  /\ V4Less(a, b) <=> OctetsLess(a, b, 3)
         /\ V4Equal(a, b) <=> a = b
<1>1. /\ a \in [0..(2 * 2 - 1) -> Byte] /\ b \in [0..(2 * 2 - 1) -> Byte]
      /\ Len(AsUInt32(a)) = 2
  BY HalfLength DEF V4Address
<1>2. \A k \in 1..2 :
        /\ AsUInt32(a)[k] = a[2 * k - 2] * 256 + a[2 * k - 1]
        /\ AsUInt32(b)[k] = b[2 * k - 2] * 256 + b[2 * k - 1]
  BY DEF AsUInt32
<1>3. Less(AsUInt32(a), AsUInt32(b)) <=> OctetsLess(a, b, 2 * 2 - 1)
  <2>1. 2 \in Nat
    OBVIOUS
  <2>2. MadeOf(AsUInt32(a), a, 2) /\ MadeOf(AsUInt32(b), b, 2)
    BY <1>2 DEF MadeOf
  <2> QED BY <1>1, <2>1, <2>2, HalvesLikeOctets, Zenon
<1>4. ASSUME AsUInt32(a) = AsUInt32(b) PROVE a = b
  <2>1. /\ a[0] \in Byte /\ a[1] \in Byte /\ a[2] \in Byte /\ a[3] \in Byte
        /\ b[0] \in Byte /\ b[1] \in Byte /\ b[2] \in Byte /\ b[3] \in Byte
    BY DEF V4Address
  <2>2. a[0] * 256 + a[1] = b[0] * 256 + b[1] /\ a[2] * 256 + a[3] = b[2] * 256 + b[3]
    BY <1>4 DEF AsUInt32
  <2>3. a[0] = b[0] /\ a[1] = b[1]
    BY <2>1, <2>2, ByteByByte
  <2>4. a[2] = b[2] /\ a[3] = b[3]
    BY <2>1, <2>2, ByteByByte
  <2> QED BY <2>3, <2>4 DEF V4Address
<1> QED BY <1>3, <1>4 DEF V4Less, V4Equal

LEMMA V6Order ==
  ASSUME NEW a \in V6Address, NEW b \in V6Address
  PROVE  /\ V6Less(a, b) <=> OctetsLess(a, b, 15)
         /\ V6Equal(a, b) <=> a = b
<1>1. /\ a \in [0..(2 * 8 - 1) -> Byte] /\ b \in [0..(2 * 8 - 1) -> Byte]
      /\ Len(AsUInt128(a)) = 8
  BY HalfLength DEF V6Address
<1>2. \A k \in 1..8 :
        /\ AsUInt128(a)[k] = a[2 * k - 2] * 256 + a[2 * k - 1]
        /\ AsUInt128(b)[k] = b[2 * k - 2] * 256 + b[2 * k - 1]
  BY DEF AsUInt128
<1>3. Less(AsUInt128(a), AsUInt128(b)) <=> OctetsLess(a, b, 2 * 8 - 1)
  <2>1. 8 \in Nat
    OBVIOUS
  <2>2. MadeOf(AsUInt128(a), a, 8) /\ MadeOf(AsUInt128(b), b, 8)
    BY <1>2 DEF MadeOf
  <2> QED BY <1>1, <2>1, <2>2, HalvesLikeOctets, Zenon
<1>4. ASSUME AsUInt128(a) = AsUInt128(b) PROVE a = b
  <2>1. ASSUME NEW k \in 1..8
        PROVE  a[2 * k - 2] = b[2 * k - 2] /\ a[2 * k - 1] = b[2 * k - 1]
    <3>1. 2 * k - 2 \in 0..15 /\ 2 * k - 1 \in 0..15
      OBVIOUS
    <3>2. /\ a[2 * k - 2] \in Byte /\ b[2 * k - 2] \in Byte
          /\ a[2 * k - 1] \in Byte /\ b[2 * k - 1] \in Byte
      BY <3>1 DEF V6Address
    <3>3. a[2 * k - 2] * 256 + a[2 * k - 1] = b[2 * k - 2] * 256 + b[2 * k - 1]
      BY <1>2, <1>4
    <3> QED BY <3>2, <3>3, ByteByByte
  <2>2. ASSUME NEW i \in 0..15 PROVE a[i] = b[i]
    <3>1. i \div 2 + 1 \in 1..8
      BY SMT
    <3>2. i = 2 * (i \div 2 + 1) - 2 \/ i = 2 * (i \div 2 + 1) - 1
      BY SMT
    <3> QED BY <3>1, <3>2, <2>1
  <2> QED BY <2>2 DEF V6Address
<1> QED BY <1>3, <1>4 DEF V6Less, V6Equal

(* The operators <=> and == compare two addresses, of either family, octet *)
(* by octet: the integers they go through keep every octet in its place.   *)
THEOREM OrderOfOctets == Spec => []OrderIsOfOctets
<1>1. TypeOK => OrderIsOfOctets
  BY AddressAssumption, V4Order, V6Order DEF TypeOK, OrderIsOfOctets
<1> QED BY <1>1, TypeCorrect, PTL

(* What AsUInt32 returns, as one number. *)
Number32(a) == ((a[0] * 256 + a[1]) * 256 + a[2]) * 256 + a[3]

(* The order on IPv4 addresses is that of the 32-bit integers they stand   *)
(* for, although the model compares these by halves.                       *)
THEOREM OrderIsNumeric ==
  ASSUME NEW a \in V4Address, NEW b \in V4Address
  PROVE  V4Less(a, b) <=> Number32(a) < Number32(b)
<1>1. /\ a[0] \in Byte /\ a[1] \in Byte /\ a[2] \in Byte /\ a[3] \in Byte
      /\ b[0] \in Byte /\ b[1] \in Byte /\ b[2] \in Byte /\ b[3] \in Byte
  BY DEF V4Address
<1>2. V4Less(a, b) <=> \/ a[0] * 256 + a[1] < b[0] * 256 + b[1]
                       \/ /\ a[0] * 256 + a[1] = b[0] * 256 + b[1]
                          /\ a[2] * 256 + a[3] < b[2] * 256 + b[3]
  <2> DEFINE m == AsUInt32(a)
             n == AsUInt32(b)
  <2>1. /\ m[1] = a[0] * 256 + a[1] /\ m[2] = a[2] * 256 + a[3]
        /\ n[1] = b[0] * 256 + b[1] /\ n[2] = b[2] * 256 + b[3]
    BY DEF AsUInt32
  <2>2. Len(m) = 2
    BY HalfLength
  <2> HIDE DEF m, n
  <2>3. Less(m, n) <=> m[1] < n[1] \/ (m[1] = n[1] /\ m[2] < n[2])
    BY <2>2 DEF Less
  <2> QED BY <2>1, <2>3 DEF V4Less, m, n
<1> DEFINE x == a[0] * 256 + a[1]
           y == a[2] * 256 + a[3]
           u == b[0] * 256 + b[1]
           v == b[2] * 256 + b[3]
<1>3. x \in Half /\ y \in Half /\ u \in Half /\ v \in Half
  BY <1>1, BytesHalf
<1>4. Number32(a) = x * 65536 + y /\ Number32(b) = u * 65536 + v
  BY <1>1, InByte DEF Number32
<1>5. V4Less(a, b) <=> x < u \/ (x = u /\ y < v)
  BY <1>2
<1> HIDE DEF x, y, u, v
<1>6. /\ x \in Int /\ 0 <= x /\ x <= 65535 /\ y \in Int /\ 0 <= y /\ y <= 65535
      /\ u \in Int /\ 0 <= u /\ u <= 65535 /\ v \in Int /\ 0 <= v /\ v <= 65535
  BY <1>3, InHalf
<1>7. x * 65536 + y < u * 65536 + v <=> x < u \/ (x = u /\ y < v)
  BY <1>6
<1> QED BY <1>4, <1>5, <1>7
-----------------------------------------------------------------------------
(* Sockets                                                                 *)

(* Of two integers of as many halves exactly one of <, = and > holds: the  *)
(* first place where they differ decides.                                  *)
LEMMA LessExclusive ==
  ASSUME NEW N \in Nat, NEW m \in [1..N -> Half], NEW n \in [1..N -> Half],
         Len(m) = N, Len(n) = N
  PROVE  ~(Less(m, n) /\ Less(n, m)) /\ ~Less(m, m)
<1>1. \A k \in 1..N : m[k] \in Int /\ n[k] \in Int
  BY InHalf
<1>2. ASSUME Less(m, n), Less(n, m) PROVE FALSE
  <2>1. PICK k \in 1..N : m[k] < n[k] /\ \A j \in 1..(k - 1) : m[j] = n[j]
    BY <1>2 DEF Less
  <2>2. PICK i \in 1..N : n[i] < m[i] /\ \A j \in 1..(i - 1) : n[j] = m[j]
    BY <1>2 DEF Less
  <2>3. CASE k < i
    <3>1. k \in 1..(i - 1)
      BY <2>3
    <3>2. n[k] = m[k]
      BY <3>1, <2>2
    <3> QED BY <1>1, <2>1, <3>2
  <2>4. CASE i < k
    <3>1. i \in 1..(k - 1)
      BY <2>4
    <3>2. m[i] = n[i]
      BY <3>1, <2>1
    <3> QED BY <1>1, <2>2, <3>2
  <2>5. CASE i = k
    BY <2>5, <2>1, <2>2, <1>1
  <2> QED BY <2>3, <2>4, <2>5
<1>3. ~Less(m, m)
  BY <1>1 DEF Less
<1> QED BY <1>2, <1>3

LEMMA LessTotal ==
  ASSUME NEW N \in {2, 8}, NEW m \in [1..N -> Half], NEW n \in [1..N -> Half],
         Len(m) = N, Len(n) = N, m # n
  PROVE  Less(m, n) \/ Less(n, m)
<1>1. \A k \in 1..N : m[k] \in Int /\ n[k] \in Int
  BY InHalf
<1> SUFFICES ASSUME ~Less(m, n), ~Less(n, m) PROVE FALSE
  OBVIOUS
<1>2. ASSUME NEW k \in 1..N, \A j \in 1..(k - 1) : m[j] = n[j]
      PROVE  m[k] = n[k]
  <2>1. ~(m[k] < n[k]) /\ ~(n[k] < m[k])
    BY <1>2 DEF Less
  <2> QED BY <2>1, <1>1
<1> DEFINE Same(k) == \A j \in 1..k : m[j] = n[j]
<1>3. Same(0) /\ \A k \in 1..N : Same(k - 1) => Same(k)
  <2>1. ASSUME NEW k \in 1..N, Same(k - 1) PROVE Same(k)
    <3>1. m[k] = n[k]
      BY <2>1, <1>2
    <3>2. \A j \in 1..k : j = k \/ j \in 1..(k - 1)
      OBVIOUS
    <3> QED BY <2>1, <3>1, <3>2
  <2> QED BY <2>1
<1> HIDE DEF Same
<1>4. Same(1) /\ Same(2)
  BY <1>3
<1>5. N = 8 => Same(3) /\ Same(4) /\ Same(5) /\ Same(6) /\ Same(7) /\ Same(8)
  BY <1>3, <1>4
<1>6. \A j \in 1..N : m[j] = n[j]
  BY <1>4, <1>5 DEF Same
<1> QED BY <1>6

(* What the operators of the two families make of two addresses. *)
LEMMA V4Trichotomy ==
  ASSUME NEW a \in V4Address, NEW b \in V4Address
  PROVE  /\ V4Equal(a, b) <=> a = b
         /\ Trichotomy(V4Less(a, b), V4Equal(a, b), V4Less(b, a))
<1>1. /\ AsUInt32(a) \in [1..2 -> Half] /\ AsUInt32(b) \in [1..2 -> Half]
      /\ Len(AsUInt32(a)) = 2 /\ Len(AsUInt32(b)) = 2
  BY AsHalves32, HalfLength
<1>2. ~(V4Less(a, b) /\ V4Less(b, a)) /\ ~V4Less(a, a) /\ ~V4Less(b, b)
  BY <1>1, LessExclusive DEF V4Less
<1>3. V4Equal(a, b) \/ V4Less(a, b) \/ V4Less(b, a)
  BY <1>1, LessTotal DEF V4Less, V4Equal
<1> QED BY <1>2, <1>3, V4Order DEF Trichotomy

LEMMA V6Trichotomy ==
  ASSUME NEW a \in V6Address, NEW b \in V6Address
  PROVE  /\ V6Equal(a, b) <=> a = b
         /\ Trichotomy(V6Less(a, b), V6Equal(a, b), V6Less(b, a))
<1>1. /\ AsUInt128(a) \in [1..8 -> Half] /\ AsUInt128(b) \in [1..8 -> Half]
      /\ Len(AsUInt128(a)) = 8 /\ Len(AsUInt128(b)) = 8
  BY AsHalves128, HalfLength
<1>2. ~(V6Less(a, b) /\ V6Less(b, a)) /\ ~V6Less(a, a) /\ ~V6Less(b, b)
  BY <1>1, LessExclusive DEF V6Less
<1>3. V6Equal(a, b) \/ V6Less(a, b) \/ V6Less(b, a)
  BY <1>1, LessTotal DEF V6Less, V6Equal
<1> QED BY <1>2, <1>3, V6Order DEF Trichotomy

(* Two sockets whose addresses are of the family that their type says. *)
LEMMA SocketOrder ==
  ASSUME NEW x \in Sockets("V4", V4Address, Nat) \cup Sockets("V6", V6Address, Nat),
         NEW y \in Sockets("V4", V4Address, Nat) \cup Sockets("V6", V6Address, Nat)
  PROVE  /\ SocketEqual(x, y) <=> x = y
         /\ Trichotomy(SocketLess(x, y), SocketEqual(x, y), SocketLess(y, x))
         /\ Trichotomy(IPLess(x, y), IPEqual(x, y), IPLess(y, x))
         /\ IPLess(x, y) => SocketLess(x, y)
<1>1. /\ x = [type |-> x.type, address |-> x.address, port |-> x.port]
      /\ y = [type |-> y.type, address |-> y.address, port |-> y.port]
      /\ x.port \in Nat /\ y.port \in Nat
      /\ (x.type = "V4" /\ x.address \in V4Address) \/ (x.type = "V6" /\ x.address \in V6Address)
      /\ (y.type = "V4" /\ y.address \in V4Address) \/ (y.type = "V6" /\ y.address \in V6Address)
  BY DEF Sockets
<1>2. CASE x.type # y.type
  BY <1>1, <1>2 DEF SocketEqual, SocketLess, IPLess, IPEqual, Index, BothV4, BothV6, Trichotomy
<1>3. CASE BothV4(x, y)
  <2> DEFINE less == V4Less(x.address, y.address)
             greater == V4Less(y.address, x.address)
             equal == V4Equal(x.address, y.address)
  <2>1. x.address \in V4Address /\ y.address \in V4Address
    BY <1>1, <1>3 DEF BothV4
  <2>2. (equal <=> x.address = y.address) /\ Trichotomy(less, equal, greater)
    BY <2>1, V4Trichotomy
  <2>4. /\ SocketLess(x, y) <=> less \/ (~greater /\ x.port < y.port)
        /\ SocketLess(y, x) <=> greater \/ (~less /\ y.port < x.port)
        /\ SocketEqual(x, y) <=> equal /\ x.port = y.port
        /\ IPLess(x, y) <=> less
        /\ IPLess(y, x) <=> greater
        /\ IPEqual(x, y) <=> equal
    BY <1>3 DEF SocketLess, SocketEqual, SocketV4Less, SocketV4Equal, IPLess, IPEqual,
                Index, BothV4, BothV6
  <2>5. x = y <=> x.address = y.address /\ x.port = y.port
    BY <1>1, <1>3 DEF BothV4
  <2> HIDE DEF less, greater, equal
  <2> QED BY <1>1, <2>2, <2>4, <2>5 DEF Trichotomy
<1>4. CASE BothV6(x, y)
  <2> DEFINE less == V6Less(x.address, y.address)
             greater == V6Less(y.address, x.address)
             equal == V6Equal(x.address, y.address)
  <2>1. x.address \in V6Address /\ y.address \in V6Address
    BY <1>1, <1>4 DEF BothV6
  <2>2. (equal <=> x.address = y.address) /\ Trichotomy(less, equal, greater)
    BY <2>1, V6Trichotomy
  <2>4. /\ SocketLess(x, y) <=> less \/ (~greater /\ x.port < y.port)
        /\ SocketLess(y, x) <=> greater \/ (~less /\ y.port < x.port)
        /\ SocketEqual(x, y) <=> equal /\ x.port = y.port
        /\ IPLess(x, y) <=> less
        /\ IPLess(y, x) <=> greater
        /\ IPEqual(x, y) <=> equal
    BY <1>4 DEF SocketLess, SocketEqual, SocketV6Less, SocketV6Equal, IPLess, IPEqual,
                Index, BothV4, BothV6
  <2>5. x = y <=> x.address = y.address /\ x.port = y.port
    BY <1>1, <1>4 DEF BothV6
  <2> HIDE DEF less, greater, equal
  <2> QED BY <1>1, <2>2, <2>4, <2>5 DEF Trichotomy
<1> QED BY <1>1, <1>2, <1>3, <1>4 DEF BothV4, BothV6

(* The three orders agree with one another and with ==, for all addresses  *)
(* and ports: sockets of both families can be sorted and searched.         *)
THEOREM OrderOfSockets == Spec => []SocketsOrdered
<1>1. TypeOK => SocketsOrdered
  <2> SUFFICES ASSUME TypeOK,
                      NEW x \in Sockets("V4", {v4}, {1}) \cup Sockets("V6", {v6}, {1}),
                      NEW y \in Sockets("V4", V4Operands \cup {v4}, {0, 1})
                                 \cup Sockets("V6", V6Operands \cup {v6}, {0, 1})
               PROVE  /\ SocketEqual(x, y) <=> x = y
                      /\ Trichotomy(SocketLess(x, y), SocketEqual(x, y), SocketLess(y, x))
                      /\ Trichotomy(IPLess(x, y), IPEqual(x, y), IPLess(y, x))
                      /\ IPLess(x, y) => SocketLess(x, y)
    BY DEF SocketsOrdered
  <2>1. v4 \in V4Address /\ v6 \in V6Address
    BY DEF TypeOK
  <2>2. x \in Sockets("V4", V4Address, Nat) \cup Sockets("V6", V6Address, Nat)
    BY <2>1 DEF Sockets
  <2>3. y \in Sockets("V4", V4Address, Nat) \cup Sockets("V6", V6Address, Nat)
    BY <2>1, AddressAssumption DEF Sockets
  <2> QED BY <2>2, <2>3, SocketOrder
<1> QED BY <1>1, TypeCorrect, PTL
-----------------------------------------------------------------------------
(* Masks                                                                   *)

LEMMA HalfOfBytes ==
  ASSUME NEW x \in Byte, NEW y \in Byte
  PROVE  (x * 256 + y) \div 256 = x /\ (x * 256 + y) % 256 = y
<1>1. x \in Int /\ 0 <= x /\ x <= 255 /\ y \in Int /\ 0 <= y /\ y <= 255
  BY InByte
<1>2. (x * 256 + y) \div 256 = x
  BY <1>1
<1>3. (x * 256 + y) % 256 = y
  BY <1>1
<1> QED BY <1>2, <1>3

LEMMA OctetsOfHalves ==
  ASSUME NEW c \in [0..3 -> Byte], NEW r,
         r[1] = 256 * c[0] + c[1], r[2] = 256 * c[2] + c[3]
  PROVE  FromUInt32(r) = c
<1>1. c[0] \in Byte /\ c[1] \in Byte /\ c[2] \in Byte /\ c[3] \in Byte
  OBVIOUS
<1>2. /\ r[1] \div 256 = c[0] /\ r[1] % 256 = c[1]
      /\ r[2] \div 256 = c[2] /\ r[2] % 256 = c[3]
  <2>1. r[1] = c[0] * 256 + c[1] /\ r[2] = c[2] * 256 + c[3]
    BY <1>1, InByte
  <2> QED BY <2>1, <1>1, HalfOfBytes
<1>3. FromUInt32(r) = [k \in 0..3 |-> IF k % 2 = 0 THEN r[k \div 2 + 1] \div 256
                                                   ELSE r[k \div 2 + 1] % 256]
  BY DEF FromUInt32
<1>4. ASSUME NEW k \in 0..3 PROVE FromUInt32(r)[k] = c[k]
  <2>1. k = 0 \/ k = 1 \/ k = 2 \/ k = 3
    OBVIOUS
  <2> QED BY <2>1, <1>2, <1>3
<1> QED BY <1>3, <1>4

(* The operator & works on each octet by itself.                           *)
LEMMA AndOfOctets ==
  ASSUME NEW a \in V4Address, NEW b \in V4Address
  PROVE  V4And(a, b) = [k \in 0..3 |-> ByteWise(And, a[k], b[k])]
<1>1. /\ a[0] \in Byte /\ a[1] \in Byte /\ a[2] \in Byte /\ a[3] \in Byte
      /\ b[0] \in Byte /\ b[1] \in Byte /\ b[2] \in Byte /\ b[3] \in Byte
  BY DEF V4Address
<1> DEFINE m == AsUInt32(a)
           n == AsUInt32(b)
           r == BitWise(And, m, n)
           c == [k \in 0..3 |-> ByteWise(And, a[k], b[k])]
<1>2. /\ m[1] \div 256 = a[0] /\ m[1] % 256 = a[1]
      /\ m[2] \div 256 = a[2] /\ m[2] % 256 = a[3]
  BY <1>1, HalfOfBytes DEF AsUInt32
<1>3. /\ n[1] \div 256 = b[0] /\ n[1] % 256 = b[1]
      /\ n[2] \div 256 = b[2] /\ n[2] % 256 = b[3]
  BY <1>1, HalfOfBytes DEF AsUInt32
<1>4. r = [k \in 1..2 |-> 256 * ByteWise(And, m[k] \div 256, n[k] \div 256)
                            + ByteWise(And, m[k] % 256, n[k] % 256)]
  BY HalfLength DEF BitWise
<1>5. r[1] = 256 * c[0] + c[1] /\ r[2] = 256 * c[2] + c[3]
  BY <1>2, <1>3, <1>4
<1>6. c \in [0..3 -> Byte]
  BY GateBytes DEF V4Address
<1>7. V4And(a, b) = FromUInt32(r)
  BY DEF V4And
<1> HIDE DEF m, n, r, c
<1>8. FromUInt32(r) = c
  BY <1>5, <1>6, OctetsOfHalves
<1> QED BY <1>7, <1>8 DEF c

(* The operator | works on each octet by itself.                           *)
LEMMA OrOfOctets ==
  ASSUME NEW a \in V4Address, NEW b \in V4Address
  PROVE  V4Or(a, b) = [k \in 0..3 |-> ByteWise(Or, a[k], b[k])]
<1>1. /\ a[0] \in Byte /\ a[1] \in Byte /\ a[2] \in Byte /\ a[3] \in Byte
      /\ b[0] \in Byte /\ b[1] \in Byte /\ b[2] \in Byte /\ b[3] \in Byte
  BY DEF V4Address
<1> DEFINE m == AsUInt32(a)
           n == AsUInt32(b)
           r == BitWise(Or, m, n)
           c == [k \in 0..3 |-> ByteWise(Or, a[k], b[k])]
<1>2. /\ m[1] \div 256 = a[0] /\ m[1] % 256 = a[1]
      /\ m[2] \div 256 = a[2] /\ m[2] % 256 = a[3]
  BY <1>1, HalfOfBytes DEF AsUInt32
<1>3. /\ n[1] \div 256 = b[0] /\ n[1] % 256 = b[1]
      /\ n[2] \div 256 = b[2] /\ n[2] % 256 = b[3]
  BY <1>1, HalfOfBytes DEF AsUInt32
<1>4. r = [k \in 1..2 |-> 256 * ByteWise(Or, m[k] \div 256, n[k] \div 256)
                            + ByteWise(Or, m[k] % 256, n[k] % 256)]
  BY HalfLength DEF BitWise
<1>5. r[1] = 256 * c[0] + c[1] /\ r[2] = 256 * c[2] + c[3]
  BY <1>2, <1>3, <1>4
<1>6. c \in [0..3 -> Byte]
  BY GateBytes DEF V4Address
<1>7. V4Or(a, b) = FromUInt32(r)
  BY DEF V4Or
<1> HIDE DEF m, n, r, c
<1>8. FromUInt32(r) = c
  BY <1>5, <1>6, OctetsOfHalves
<1> QED BY <1>7, <1>8 DEF c

(* The octets of the masks: all, none, and the upper half of one.          *)
LEMMA MaskedByte ==
  ASSUME NEW x \in Byte
  PROVE  /\ ByteWise(And, x, 255) = x
         /\ ByteWise(And, x, 0) = 0
         /\ ByteWise(And, x, 240) = 16 * (x \div 16)
<1>1. x \in Int /\ 0 <= x /\ x <= 255
  BY InByte
<1>2. ByteWise(And, x, 255) = x
  BY <1>1 DEF ByteWise, And, Bit
<1>3. ByteWise(And, x, 0) = 0
  BY <1>1 DEF ByteWise, And, Bit
<1>4. ByteWise(And, x, 240) = 16 * (x \div 16)
  BY <1>1 DEF ByteWise, And, Bit
<1> QED BY <1>2, <1>3, <1>4

LEMMA Masks ==
  /\ Mask(8) = Quad(255, 0, 0, 0) /\ Mask(12) = Quad(255, 240, 0, 0)
  /\ Mask(16) = Quad(255, 255, 0, 0) /\ Mask(4) = Quad(240, 0, 0, 0)
<1>1. ASSUME NEW length \in {4, 8, 12, 16}
      PROVE  /\ Mask(length)[0] = IF length = 4 THEN 240 ELSE 255
             /\ Mask(length)[1] = IF length <= 8 THEN 0 ELSE IF length = 12 THEN 240 ELSE 255
             /\ Mask(length)[2] = 0 /\ Mask(length)[3] = 0
  BY DEF Mask
<1>2. \A p, q, r, s : /\ Quad(p, q, r, s)[0] = p /\ Quad(p, q, r, s)[1] = q
                      /\ Quad(p, q, r, s)[2] = r /\ Quad(p, q, r, s)[3] = s
  BY DEF Quad
<1>3. ASSUME NEW length, NEW p, NEW q, NEW r, NEW s,
             \A k \in 0..3 : Mask(length)[k] = Quad(p, q, r, s)[k]
      PROVE  Mask(length) = Quad(p, q, r, s)
  BY <1>3 DEF Mask, Quad
<1>4. \A k \in 0..3 : k = 0 \/ k = 1 \/ k = 2 \/ k = 3
  OBVIOUS
<1>5. Mask(8) = Quad(255, 0, 0, 0)
  BY <1>1, <1>2, <1>3, <1>4
<1>6. Mask(12) = Quad(255, 240, 0, 0)
  BY <1>1, <1>2, <1>3, <1>4
<1>7. Mask(16) = Quad(255, 255, 0, 0)
  BY <1>1, <1>2, <1>3, <1>4
<1>8. Mask(4) = Quad(240, 0, 0, 0)
  BY <1>1, <1>2, <1>3, <1>4
<1> QED BY <1>5, <1>6, <1>7, <1>8

(* Which addresses lie in a network, octet by octet. *)
LEMMA InNetwork ==
  ASSUME NEW a \in V4Address,
         NEW p \in Byte, NEW q \in Byte, NEW r \in Byte, NEW s \in Byte
  PROVE  /\ In(a, Quad(p, q, r, s), 8) <=> <<a[0], 0, 0, 0>> = <<p, q, r, s>>
         /\ In(a, Quad(p, q, r, s), 12)
              <=> <<a[0], 16 * (a[1] \div 16), 0, 0>> = <<p, q, r, s>>
         /\ In(a, Quad(p, q, r, s), 16) <=> <<a[0], a[1], 0, 0>> = <<p, q, r, s>>
         /\ In(a, Quad(p, q, r, s), 4)
              <=> <<16 * (a[0] \div 16), 0, 0, 0>> = <<p, q, r, s>>
<1>1. a[0] \in Byte /\ a[1] \in Byte /\ a[2] \in Byte /\ a[3] \in Byte
  BY DEF V4Address
<1>2. ASSUME NEW c0 \in {0, 240, 255}, NEW c1 \in {0, 240, 255}
      PROVE  /\ Quad(c0, c1, 0, 0) \in V4Address
             /\ V4And(a, Quad(c0, c1, 0, 0))
                  = Quad(ByteWise(And, a[0], c0), ByteWise(And, a[1], c1), 0, 0)
  <2> DEFINE b == Quad(c0, c1, 0, 0)
  <2>1. b[0] = c0 /\ b[1] = c1 /\ b[2] = 0 /\ b[3] = 0 /\ b \in V4Address
    BY DEF Quad, V4Address, Byte
  <2> HIDE DEF b
  <2>2. V4And(a, b) = [k \in 0..3 |-> ByteWise(And, a[k], b[k])]
    BY <2>1, AndOfOctets
  <2>3. ByteWise(And, a[2], b[2]) = 0 /\ ByteWise(And, a[3], b[3]) = 0
    BY <1>1, <2>1, MaskedByte
  <2>4. \A k \in 0..3 : k = 0 \/ k = 1 \/ k = 2 \/ k = 3
    OBVIOUS
  <2>5. V4And(a, b) = Quad(ByteWise(And, a[0], c0), ByteWise(And, a[1], c1), 0, 0)
    BY <2>1, <2>2, <2>3, <2>4 DEF Quad
  <2> QED BY <2>1, <2>5 DEF b
<1>3. \A p1, q1, r1, s1, p2, q2, r2, s2 :
        Quad(p1, q1, r1, s1) = Quad(p2, q2, r2, s2)
          <=> <<p1, q1, r1, s1>> = <<p2, q2, r2, s2>>
  BY DEF Quad
<1>4. In(a, Quad(p, q, r, s), 8) <=> <<a[0], 0, 0, 0>> = <<p, q, r, s>>
  BY <1>1, <1>2, <1>3, Masks, MaskedByte DEF In
<1>5. In(a, Quad(p, q, r, s), 12)
        <=> <<a[0], 16 * (a[1] \div 16), 0, 0>> = <<p, q, r, s>>
  BY <1>1, <1>2, <1>3, Masks, MaskedByte DEF In
<1>6. In(a, Quad(p, q, r, s), 16) <=> <<a[0], a[1], 0, 0>> = <<p, q, r, s>>
  BY <1>1, <1>2, <1>3, Masks, MaskedByte DEF In
<1>7. In(a, Quad(p, q, r, s), 4) <=> <<16 * (a[0] \div 16), 0, 0, 0>> = <<p, q, r, s>>
  BY <1>1, <1>2, <1>3, Masks, MaskedByte DEF In
<1> QED BY <1>4, <1>5, <1>6, <1>7

(* The shifts and literals of Private() and Multicast() are the networks   *)
(* that the comments beside them name, for every address.                  *)
THEOREM NetworksCommented == Spec => []NetworksAsCommented
<1>1. TypeOK => NetworksAsCommented
  <2> SUFFICES ASSUME TypeOK PROVE NetworksAsCommented
    OBVIOUS
  <2>1. v4 \in V4Address /\ v4[0] \in Byte /\ v4[1] \in Byte
    BY DEF TypeOK, V4Address
  <2> DEFINE x == v4[0]
             y == v4[1]
             h == AsUInt32(v4)[1]
  <2>2. h = x * 256 + y
    BY DEF AsUInt32
  <2>3. /\ In(v4, Quad(10, 0, 0, 0), 8) <=> x = 10
        /\ In(v4, Quad(172, 16, 0, 0), 12) <=> x = 172 /\ 16 * (y \div 16) = 16
        /\ In(v4, Quad(192, 168, 0, 0), 16) <=> x = 192 /\ y = 168
        /\ In(v4, Quad(224, 0, 0, 0), 4) <=> 16 * (x \div 16) = 224
    <3>1. /\ 0 \in Byte /\ 10 \in Byte /\ 172 \in Byte /\ 16 \in Byte
          /\ 192 \in Byte /\ 168 \in Byte /\ 224 \in Byte
      BY DEF Byte
    <3>2. In(v4, Quad(10, 0, 0, 0), 8) <=> x = 10
      BY <2>1, <3>1, InNetwork
    <3>3. In(v4, Quad(172, 16, 0, 0), 12) <=> x = 172 /\ 16 * (y \div 16) = 16
      BY <2>1, <3>1, InNetwork
    <3>4. In(v4, Quad(192, 168, 0, 0), 16) <=> x = 192 /\ y = 168
      BY <2>1, <3>1, InNetwork
    <3>5. In(v4, Quad(224, 0, 0, 0), 4) <=> 16 * (x \div 16) = 224
      BY <2>1, <3>1, InNetwork
    <3> QED BY <3>2, <3>3, <3>4, <3>5
  <2>4. /\ Private(v4) <=> h \div 256 = 10 \/ h \div 16 = 2753 \/ h = 49320
        /\ V4Multicast(v4) <=> h \div 4096 = 14
    BY DEF Private, V4Multicast, Shift24, Shift20, Shift16, Shift28
  <2> HIDE DEF x, y, h
  <2>5. x \in Int /\ 0 <= x /\ x <= 255 /\ y \in Int /\ 0 <= y /\ y <= 255
    BY <2>1, InByte DEF x, y
  <2>6. h \div 256 = 10 <=> x = 10
    BY <2>2, <2>5
  <2>7. h \div 16 = 2753 <=> x = 172 /\ 16 * (y \div 16) = 16
    BY <2>2, <2>5
  <2>8. h = 49320 <=> x = 192 /\ y = 168
    BY <2>2, <2>5
  <2>9. h \div 4096 = 14 <=> 16 * (x \div 16) = 224
    BY <2>2, <2>5
  <2> QED BY <2>3, <2>4, <2>6, <2>7, <2>8, <2>9 DEF NetworksAsCommented
<1> QED BY <1>1, TypeCorrect, PTL
-----------------------------------------------------------------------------
(* Bounds                                                                  *)

LEMMA SumOfBits ==
  ASSUME NEW x \in Byte
  PROVE  x = 128 * Bit(x, 128) + 64 * Bit(x, 64) + 32 * Bit(x, 32) + 16 * Bit(x, 16)
               + 8 * Bit(x, 8) + 4 * Bit(x, 4) + 2 * Bit(x, 2) + 1 * Bit(x, 1)
<1>1. x \in Int /\ 0 <= x /\ x <= 255
  BY InByte
<1> QED BY <1>1 DEF Bit

(* & takes bits away, | adds some. *)
LEMMA ByteBounds ==
  ASSUME NEW x \in Byte, NEW y \in Byte
  PROVE  /\ ByteWise(And, x, y) <= x /\ ByteWise(And, x, y) <= y
         /\ x <= ByteWise(Or, x, y) /\ y <= ByteWise(Or, x, y)
<1> DEFINE W == {1, 2, 4, 8, 16, 32, 64, 128}
<1>1. \A w \in W : Bit(x, w) \in {0, 1} /\ Bit(y, w) \in {0, 1}
  BY Bits
<1>2. \A w \in W : /\ And(Bit(x, w), Bit(y, w)) \in {0, 1}
                   /\ And(Bit(x, w), Bit(y, w)) <= Bit(x, w)
                   /\ And(Bit(x, w), Bit(y, w)) <= Bit(y, w)
  BY <1>1 DEF And
<1>3. \A w \in W : /\ Or(Bit(x, w), Bit(y, w)) \in {0, 1}
                   /\ Bit(x, w) <= Or(Bit(x, w), Bit(y, w))
                   /\ Bit(y, w) <= Or(Bit(x, w), Bit(y, w))
  BY <1>1 DEF Or
<1>4. ByteWise(And, x, y) <= x
  BY <1>1, <1>2, SumOfBits DEF ByteWise
<1>5. ByteWise(And, x, y) <= y
  BY <1>1, <1>2, SumOfBits DEF ByteWise
<1>6. x <= ByteWise(Or, x, y)
  BY <1>1, <1>3, SumOfBits DEF ByteWise
<1>7. y <= ByteWise(Or, x, y)
  BY <1>1, <1>3, SumOfBits DEF ByteWise
<1> QED BY <1>4, <1>5, <1>6, <1>7

(* An address none of whose octets is above another's does not come after. *)
LEMMA OctetsNotLess ==
  ASSUME NEW a \in V4Address, NEW b \in V4Address, \A k \in 0..3 : a[k] <= b[k]
  PROVE  ~V4Less(b, a)
<1>1. \A k \in 0..3 : a[k] \in Int /\ b[k] \in Int
  BY InByte DEF V4Address
<1>2. ~OctetsLess(b, a, 3)
  BY <1>1 DEF OctetsLess
<1> QED BY <1>2, V4Order

(* Masking an address never moves it up, adding a host part never moves it *)
(* down, in any step of any program.                                       *)
THEOREM MasksBound == Spec => MasksAreBounds
<1>1. TypeOK /\ [Next]_vars =>
        [ \A b \in V4Operands :
            /\ v4' = V4And(v4, b) => ~V4Less(v4, v4') /\ ~V4Less(b, v4')
            /\ v4' = V4Or(v4, b) => ~V4Less(v4', v4) /\ ~V4Less(v4', b) ]_vars
  <2> SUFFICES ASSUME TypeOK, NEW b \in V4Operands
               PROVE  /\ v4' = V4And(v4, b) => ~V4Less(v4, v4') /\ ~V4Less(b, v4')
                      /\ v4' = V4Or(v4, b) => ~V4Less(v4', v4) /\ ~V4Less(v4', b)
    OBVIOUS
  <2>1. v4 \in V4Address /\ b \in V4Address
    BY AddressAssumption DEF TypeOK
  <2>2. \A k \in 0..3 : v4[k] \in Byte /\ b[k] \in Byte
    BY <2>1 DEF V4Address
  <2>3. ASSUME v4' = V4And(v4, b) PROVE ~V4Less(v4, v4') /\ ~V4Less(b, v4')
    <3>1. v4' \in V4Address /\ \A k \in 0..3 : v4'[k] = ByteWise(And, v4[k], b[k])
      BY <2>1, <2>3, OperatorsClosed, AndOfOctets, ZenonT(60)
    <3>2. \A k \in 0..3 : v4'[k] <= v4[k] /\ v4'[k] <= b[k]
      BY <2>2, <3>1, ByteBounds
    <3> QED BY <2>1, <3>1, <3>2, OctetsNotLess
  <2>4. ASSUME v4' = V4Or(v4, b) PROVE ~V4Less(v4', v4) /\ ~V4Less(v4', b)
    <3>1. v4' \in V4Address /\ \A k \in 0..3 : v4'[k] = ByteWise(Or, v4[k], b[k])
      BY <2>1, <2>4, OperatorsClosed, OrOfOctets, ZenonT(60)
    <3>2. \A k \in 0..3 : v4[k] <= v4'[k] /\ b[k] <= v4'[k]
      BY <2>2, <3>1, ByteBounds
    <3> QED BY <2>1, <3>1, <3>2, OctetsNotLess
  <2> QED BY <2>3, <2>4
<1> QED BY <1>1, TypeCorrect, PTL DEF Spec, MasksAreBounds
-----------------------------------------------------------------------------
(* Network and host                                                        *)

(* The bits of a byte that was made of eight bits are these.               *)
LEMMA BitsOfSum ==
  ASSUME NEW b1 \in {0, 1}, NEW b2 \in {0, 1}, NEW b3 \in {0, 1}, NEW b4 \in {0, 1},
         NEW b5 \in {0, 1}, NEW b6 \in {0, 1}, NEW b7 \in {0, 1}, NEW b8 \in {0, 1},
         NEW s, s = 128 * b1 + 64 * b2 + 32 * b3 + 16 * b4 + 8 * b5 + 4 * b6 + 2 * b7 + 1 * b8
  PROVE  /\ Bit(s, 128) = b1 /\ Bit(s, 64) = b2 /\ Bit(s, 32) = b3 /\ Bit(s, 16) = b4
         /\ Bit(s, 8) = b5 /\ Bit(s, 4) = b6 /\ Bit(s, 2) = b7 /\ Bit(s, 1) = b8
<1>1. Bit(s, 128) = b1
  <2>1. s \div 128 = b1
    OBVIOUS
  <2>2. (b1) % 2 = b1
    OBVIOUS
  <2> QED BY <2>1, <2>2 DEF Bit
<1>2. Bit(s, 64) = b2
  <2>1. s \div 64 = 2 * b1 + b2
    OBVIOUS
  <2>2. (2 * b1 + b2) % 2 = b2
    OBVIOUS
  <2> QED BY <2>1, <2>2 DEF Bit
<1>3. Bit(s, 32) = b3
  <2>1. s \div 32 = 4 * b1 + 2 * b2 + b3
    OBVIOUS
  <2>2. (4 * b1 + 2 * b2 + b3) % 2 = b3
    OBVIOUS
  <2> QED BY <2>1, <2>2 DEF Bit
<1>4. Bit(s, 16) = b4
  <2>1. s \div 16 = 8 * b1 + 4 * b2 + 2 * b3 + b4
    OBVIOUS
  <2>2. (8 * b1 + 4 * b2 + 2 * b3 + b4) % 2 = b4
    OBVIOUS
  <2> QED BY <2>1, <2>2 DEF Bit
<1>5. Bit(s, 8) = b5
  <2>1. s \div 8 = 16 * b1 + 8 * b2 + 4 * b3 + 2 * b4 + b5
    OBVIOUS
  <2>2. (16 * b1 + 8 * b2 + 4 * b3 + 2 * b4 + b5) % 2 = b5
    OBVIOUS
  <2> QED BY <2>1, <2>2 DEF Bit
<1>6. Bit(s, 4) = b6
  <2>1. s \div 4 = 32 * b1 + 16 * b2 + 8 * b3 + 4 * b4 + 2 * b5 + b6
    OBVIOUS
  <2>2. (32 * b1 + 16 * b2 + 8 * b3 + 4 * b4 + 2 * b5 + b6) % 2 = b6
    OBVIOUS
  <2> QED BY <2>1, <2>2 DEF Bit
<1>7. Bit(s, 2) = b7
  <2>1. s \div 2 = 64 * b1 + 32 * b2 + 16 * b3 + 8 * b4 + 4 * b5 + 2 * b6 + b7
    OBVIOUS
  <2>2. (64 * b1 + 32 * b2 + 16 * b3 + 8 * b4 + 4 * b5 + 2 * b6 + b7) % 2 = b7
    OBVIOUS
  <2> QED BY <2>1, <2>2 DEF Bit
<1>8. Bit(s, 1) = b8
  <2>1. s \div 1 = 128 * b1 + 64 * b2 + 32 * b3 + 16 * b4 + 8 * b5 + 4 * b6 + 2 * b7 + b8
    OBVIOUS
  <2>2. (128 * b1 + 64 * b2 + 32 * b3 + 16 * b4 + 8 * b5 + 4 * b6 + 2 * b7 + b8) % 2 = b8
    OBVIOUS
  <2> QED BY <2>1, <2>2 DEF Bit
<1> QED BY <1>1, <1>2, <1>3, <1>4, <1>5, <1>6, <1>7, <1>8

LEMMA BitsOfGates ==
  ASSUME NEW x \in Byte, NEW y \in Byte, NEW w \in {1, 2, 4, 8, 16, 32, 64, 128}
  PROVE  /\ Bit(ByteWise(And, x, y), w) = IF Bit(x, w) = 1 /\ Bit(y, w) = 1 THEN 1 ELSE 0
         /\ Bit(ByteWise(Not, x, y), w) = 1 - Bit(x, w)
<1> DEFINE W == {1, 2, 4, 8, 16, 32, 64, 128}
<1>1. \A v \in W :
        /\ And(Bit(x, v), Bit(y, v)) \in {0, 1}
        /\ Not(Bit(x, v), Bit(y, v)) \in {0, 1}
  BY Bits DEF And, Not
<1>2. Bit(ByteWise(And, x, y), w) = And(Bit(x, w), Bit(y, w))
  BY <1>1, BitsOfSum DEF ByteWise
<1>3. Bit(ByteWise(Not, x, y), w) = Not(Bit(x, w), Bit(y, w))
  BY <1>1, BitsOfSum DEF ByteWise
<1>4. Bit(ByteWise(And, x, y), w) = IF Bit(x, w) = 1 /\ Bit(y, w) = 1 THEN 1 ELSE 0
  BY <1>2 DEF And
<1>5. Bit(ByteWise(Not, x, y), w) = 1 - Bit(x, w)
  BY <1>3 DEF Not
<1> QED BY <1>4, <1>5

(* A byte is put together from its bits under a mask and outside of it.    *)
LEMMA SplitByte ==
  ASSUME NEW x \in Byte, NEW m \in Byte
  PROVE  LET network == ByteWise(And, x, m)
             host    == ByteWise(And, x, ByteWise(Not, m, m))
         IN  ByteWise(Or, network, host) = x /\ ByteWise(Xor, network, host) = x
<1> DEFINE W == {1, 2, 4, 8, 16, 32, 64, 128}
           rest == ByteWise(Not, m, m)
           network == ByteWise(And, x, m)
           host == ByteWise(And, x, rest)
<1>1. rest \in Byte
  BY GateBytes
<1>2. network \in Byte
  BY GateBytes
<1>3. host \in Byte
  <2> HIDE DEF rest
  <2> QED BY <1>1, GateBytes
<1>4. \A w \in W : Bit(x, w) \in {0, 1} /\ Bit(m, w) \in {0, 1}
  BY Bits
<1>5. \A w \in W : Bit(network, w) = IF Bit(x, w) = 1 /\ Bit(m, w) = 1 THEN 1 ELSE 0
  BY BitsOfGates
<1>6. \A w \in W : Bit(rest, w) = 1 - Bit(m, w)
  BY BitsOfGates
<1> HIDE DEF rest
<1>7. \A w \in W : Bit(host, w) = IF Bit(x, w) = 1 /\ Bit(rest, w) = 1 THEN 1 ELSE 0
  BY <1>1, BitsOfGates
<1> HIDE DEF network, host
<1>8. \A w \in W : /\ Or(Bit(network, w), Bit(host, w)) = Bit(x, w)
                   /\ Xor(Bit(network, w), Bit(host, w)) = Bit(x, w)
  BY <1>4, <1>5, <1>6, <1>7 DEF Or, Xor
<1>9. ByteWise(Or, network, host) = x
  BY <1>8, SumOfBits DEF ByteWise
<1>10. ByteWise(Xor, network, host) = x
  BY <1>8, SumOfBits DEF ByteWise
<1> QED BY <1>9, <1>10 DEF network, host, rest

LEMMA BytesBack ==
  ASSUME NEW x \in Byte, NEW y \in Byte
  PROVE  (256 * x + y) \div 256 = x /\ (256 * x + y) % 256 = y
<1>1. 256 * x + y = x * 256 + y
  BY InByte
<1> QED BY <1>1, HalfOfBytes

LEMMA SplitHalf ==
  ASSUME NEW h \in Half, NEW g \in Half
  PROVE  LET complement == 256 * ByteWise(Not, g \div 256, g \div 256)
                             + ByteWise(Not, g % 256, g % 256)
             network == 256 * ByteWise(And, h \div 256, g \div 256)
                          + ByteWise(And, h % 256, g % 256)
             host == 256 * ByteWise(And, h \div 256, complement \div 256)
                       + ByteWise(And, h % 256, complement % 256)
         IN  /\ 256 * ByteWise(Or, network \div 256, host \div 256)
                  + ByteWise(Or, network % 256, host % 256) = h
             /\ 256 * ByteWise(Xor, network \div 256, host \div 256)
                  + ByteWise(Xor, network % 256, host % 256) = h
<1> DEFINE x == h \div 256
           y == h % 256
           u == g \div 256
           v == g % 256
           nu == ByteWise(Not, u, u)
           nv == ByteWise(Not, v, v)
           complement == 256 * nu + nv
           network == 256 * ByteWise(And, x, u) + ByteWise(And, y, v)
           host == 256 * ByteWise(And, x, nu) + ByteWise(And, y, nv)
<1>1. x \in Byte /\ y \in Byte /\ u \in Byte /\ v \in Byte /\ h = 256 * x + y
  BY HalfBytes
<1> HIDE DEF x, y, u, v
<1>2. nu \in Byte /\ nv \in Byte
  BY <1>1, GateBytes
<1>3. complement \div 256 = nu /\ complement % 256 = nv
  <2> HIDE DEF nu, nv
  <2> QED BY <1>2, BytesBack
<1>4. network \div 256 = ByteWise(And, x, u) /\ network % 256 = ByteWise(And, y, v)
  BY <1>1, GateBytes, BytesBack
<1>5. host \div 256 = ByteWise(And, x, nu) /\ host % 256 = ByteWise(And, y, nv)
  <2> HIDE DEF nu, nv
  <2> QED BY <1>1, <1>2, GateBytes, BytesBack
<1>6. /\ ByteWise(Or, ByteWise(And, x, u), ByteWise(And, x, nu)) = x
      /\ ByteWise(Xor, ByteWise(And, x, u), ByteWise(And, x, nu)) = x
  BY <1>1, SplitByte
<1>7. /\ ByteWise(Or, ByteWise(And, y, v), ByteWise(And, y, nv)) = y
      /\ ByteWise(Xor, ByteWise(And, y, v), ByteWise(And, y, nv)) = y
  BY <1>1, SplitByte
<1>8. /\ 256 * ByteWise(Or, network \div 256, host \div 256)
           + ByteWise(Or, network % 256, host % 256) = h
      /\ 256 * ByteWise(Xor, network \div 256, host \div 256)
           + ByteWise(Xor, network % 256, host % 256) = h
  <2> HIDE DEF network, host, nu, nv
  <2> QED BY <1>1, <1>4, <1>5, <1>6, <1>7
<1> QED BY <1>3, <1>8 DEF x, y, u, v

LEMMA SplitHalves ==
  ASSUME NEW N \in {2, 8}, NEW m \in [1..N -> Half], NEW n \in [1..N -> Half],
         Len(m) = N, Len(n) = N
  PROVE  LET network == BitWise(And, m, n)
             host    == BitWise(And, m, BitWise(Not, n, n))
         IN  /\ network \in [1..N -> Half] /\ host \in [1..N -> Half]
             /\ BitWise(Or, network, host) = m /\ BitWise(Xor, network, host) = m
<1> DEFINE complement == BitWise(Not, n, n)
           network == BitWise(And, m, n)
           host == BitWise(And, m, complement)
<1>1. N \in Nat
  OBVIOUS
<1>2. complement \in [1..N -> Half] /\ network \in [1..N -> Half]
  BY <1>1, GateHalves
<1>3. Len(complement) = N /\ Len(network) = N
  BY DEF BitWise
<1>4. \A k \in 1..N :
        /\ complement[k] = 256 * ByteWise(Not, n[k] \div 256, n[k] \div 256)
                             + ByteWise(Not, n[k] % 256, n[k] % 256)
        /\ network[k] = 256 * ByteWise(And, m[k] \div 256, n[k] \div 256)
                          + ByteWise(And, m[k] % 256, n[k] % 256)
  BY DEF BitWise
<1> HIDE DEF complement
<1>5. host \in [1..N -> Half]
  BY <1>1, <1>2, <1>3, GateHalves
<1>6. \A k \in 1..N :
        host[k] = 256 * ByteWise(And, m[k] \div 256, complement[k] \div 256)
                    + ByteWise(And, m[k] % 256, complement[k] % 256)
  BY DEF BitWise
<1> HIDE DEF network, host
<1>7. ASSUME NEW k \in 1..N
      PROVE  /\ 256 * ByteWise(Or, network[k] \div 256, host[k] \div 256)
                  + ByteWise(Or, network[k] % 256, host[k] % 256) = m[k]
             /\ 256 * ByteWise(Xor, network[k] \div 256, host[k] \div 256)
                  + ByteWise(Xor, network[k] % 256, host[k] % 256) = m[k]
  <2> HIDE DEF Half
  <2>1. m[k] \in Half /\ n[k] \in Half
    OBVIOUS
  <2> QED BY <2>1, <1>4, <1>6, SplitHalf
<1>8. BitWise(Or, network, host) = m
  BY <1>3, <1>7 DEF BitWise
<1>9. BitWise(Xor, network, host) = m
  BY <1>3, <1>7 DEF BitWise
<1> QED BY <1>2, <1>5, <1>8, <1>9 DEF complement, network, host

(* The conversions to and from an integer undo one another. *)
LEMMA Undo32 ==
  /\ \A a \in V4Address : FromUInt32(AsUInt32(a)) = a
  /\ \A n \in [1..2 -> Half] : Len(n) = 2 => AsUInt32(FromUInt32(n)) = n
<1>1. ASSUME NEW a \in V4Address PROVE FromUInt32(AsUInt32(a)) = a
  <2>1. /\ a[0] \in Byte /\ a[1] \in Byte /\ a[2] \in Byte /\ a[3] \in Byte
        /\ a \in [0..3 -> Byte]
    BY DEF V4Address
  <2>2. AsUInt32(a)[1] = 256 * a[0] + a[1] /\ AsUInt32(a)[2] = 256 * a[2] + a[3]
    BY <2>1, InByte DEF AsUInt32
  <2> QED BY <2>1, <2>2, OctetsOfHalves
<1>2. ASSUME NEW n \in [1..2 -> Half], Len(n) = 2 PROVE AsUInt32(FromUInt32(n)) = n
  <2> HIDE DEF Half
  <2>1. n[1] \in Half /\ n[2] \in Half
    OBVIOUS
  <2> DEFINE a == FromUInt32(n)
  <2>2. /\ a[0] = n[1] \div 256 /\ a[1] = n[1] % 256
        /\ a[2] = n[2] \div 256 /\ a[3] = n[2] % 256
    BY DEF FromUInt32
  <2> HIDE DEF a
  <2>3. a[0] * 256 + a[1] = n[1] /\ a[2] * 256 + a[3] = n[2]
    BY <2>1, <2>2, HalfBytes, InByte
  <2>4. AsUInt32(a) = <<n[1], n[2]>>
    BY <2>3 DEF AsUInt32
  <2>5. n = <<n[1], n[2]>>
    BY <1>2
  <2> QED BY <2>4, <2>5 DEF a
<1> QED BY <1>1, <1>2

LEMMA Undo128 ==
  /\ \A a \in V6Address : FromUInt128(AsUInt128(a)) = a
  /\ \A n \in [1..8 -> Half] : AsUInt128(FromUInt128(n)) = n
<1>1. ASSUME NEW a \in V6Address PROVE FromUInt128(AsUInt128(a)) = a
  <2> DEFINE n == AsUInt128(a)
  <2>1. ASSUME NEW k \in 0..15
        PROVE  FromUInt128(n)[k] = a[k]
    <3> DEFINE i == k \div 2 + 1
    <3>1. i \in 1..8 /\ 2 * i - 2 \in 0..15 /\ 2 * i - 1 \in 0..15
      OBVIOUS
    <3>2. (k % 2 = 0 /\ k = 2 * i - 2) \/ (k % 2 # 0 /\ k = 2 * i - 1)
      OBVIOUS
    <3>3. FromUInt128(n)[k] = IF k % 2 = 0 THEN n[i] \div 256 ELSE n[i] % 256
      BY DEF FromUInt128
    <3> HIDE DEF i
    <3>4. n[i] = a[2 * i - 2] * 256 + a[2 * i - 1]
      BY <3>1 DEF AsUInt128
    <3>5. a[2 * i - 2] \in Byte /\ a[2 * i - 1] \in Byte
      BY <3>1 DEF V6Address
    <3>6. n[i] \div 256 = a[2 * i - 2] /\ n[i] % 256 = a[2 * i - 1]
      BY <3>4, <3>5, HalfOfBytes
    <3> QED BY <3>2, <3>3, <3>6
  <2> QED BY <2>1 DEF FromUInt128, V6Address
<1>2. ASSUME NEW n \in [1..8 -> Half] PROVE AsUInt128(FromUInt128(n)) = n
  <2> DEFINE a == FromUInt128(n)
  <2>1. ASSUME NEW k \in 1..8 PROVE AsUInt128(a)[k] = n[k]
    <3>1. /\ 2 * k - 2 \in 0..15 /\ (2 * k - 2) % 2 = 0 /\ (2 * k - 2) \div 2 + 1 = k
          /\ 2 * k - 1 \in 0..15 /\ (2 * k - 1) % 2 # 0 /\ (2 * k - 1) \div 2 + 1 = k
      OBVIOUS
    <3>2. a[2 * k - 2] = n[k] \div 256 /\ a[2 * k - 1] = n[k] % 256
      BY <3>1 DEF FromUInt128
    <3>3. n[k] \in Half
      <4> HIDE DEF Half
      <4> QED OBVIOUS
    <3> HIDE DEF a
    <3>4. AsUInt128(a)[k] = a[2 * k - 2] * 256 + a[2 * k - 1]
      BY DEF AsUInt128
    <3> QED BY <3>2, <3>3, <3>4, HalfBytes, InByte
  <2> QED BY <2>1 DEF AsUInt128
<1> QED BY <1>1, <1>2

LEMMA SplitV4 ==
  ASSUME NEW a \in V4Address, NEW m \in V4Address
  PROVE  LET network == V4And(a, m)
             host    == V4And(a, V4Not(m))
         IN  V4Or(network, host) = a /\ V4Xor(network, host) = a
<1> DEFINE A == AsUInt32(a)
           M == AsUInt32(m)
           C == BitWise(Not, M, M)
           R == BitWise(And, A, M)
           H == BitWise(And, A, C)
<1>1. A \in [1..2 -> Half] /\ M \in [1..2 -> Half] /\ Len(A) = 2 /\ Len(M) = 2
  BY AsHalves32, HalfLength
<1>2. FromUInt32(A) = a
  BY Undo32
<1> HIDE DEF A, M
<1>3. C \in [1..2 -> Half]
  BY <1>1, GateHalves
<1>4. Len(C) = 2 /\ Len(R) = 2 /\ Len(H) = 2
  BY <1>1 DEF BitWise
<1>5. /\ R \in [1..2 -> Half] /\ H \in [1..2 -> Half]
      /\ BitWise(Or, R, H) = A /\ BitWise(Xor, R, H) = A
  BY <1>1, SplitHalves
<1>6. V4And(a, m) = FromUInt32(R) /\ V4Not(m) = FromUInt32(C)
  BY DEF V4And, V4Not, A, M
<1>7. AsUInt32(FromUInt32(C)) = C
  <2> HIDE DEF C
  <2> QED BY <1>3, <1>4, Undo32
<1>8. V4And(a, V4Not(m)) = FromUInt32(H)
  <2> HIDE DEF C
  <2> QED BY <1>6, <1>7 DEF V4And, A
<1> HIDE DEF C, R, H
<1>9. AsUInt32(FromUInt32(R)) = R /\ AsUInt32(FromUInt32(H)) = H
  BY <1>4, <1>5, Undo32
<1> QED BY <1>2, <1>5, <1>6, <1>8, <1>9 DEF V4Or, V4Xor

LEMMA SplitV6 ==
  ASSUME NEW a \in V6Address, NEW m \in V6Address
  PROVE  LET network == V6And(a, m)
             host    == V6And(a, V6Not(m))
         IN  V6Or(network, host) = a /\ V6Xor(network, host) = a
<1> DEFINE A == AsUInt128(a)
           M == AsUInt128(m)
           C == BitWise(Not, M, M)
           R == BitWise(And, A, M)
           H == BitWise(And, A, C)
<1>1. A \in [1..8 -> Half] /\ M \in [1..8 -> Half] /\ Len(A) = 8 /\ Len(M) = 8
  BY AsHalves128, HalfLength
<1>2. FromUInt128(A) = a
  BY Undo128
<1> HIDE DEF A, M
<1>3. C \in [1..8 -> Half]
  BY <1>1, GateHalves
<1>5. /\ R \in [1..8 -> Half] /\ H \in [1..8 -> Half]
      /\ BitWise(Or, R, H) = A /\ BitWise(Xor, R, H) = A
  BY <1>1, SplitHalves
<1>6. V6And(a, m) = FromUInt128(R) /\ V6Not(m) = FromUInt128(C)
  BY DEF V6And, V6Not, A, M
<1>7. AsUInt128(FromUInt128(C)) = C
  <2> HIDE DEF C
  <2> QED BY <1>3, Undo128
<1>8. V6And(a, V6Not(m)) = FromUInt128(H)
  <2> HIDE DEF C
  <2> QED BY <1>6, <1>7 DEF V6And, A
<1> HIDE DEF C, R, H
<1>9. AsUInt128(FromUInt128(R)) = R /\ AsUInt128(FromUInt128(H)) = H
  BY <1>5, Undo128
<1> QED BY <1>2, <1>5, <1>6, <1>8, <1>9 DEF V6Or, V6Xor

(* Any mask and its complement take any address apart, and the operators   *)
(* of both families put it together again.                                 *)
THEOREM NetworkAndHostMakeAddress == Spec => []NetworkAndHost
<1>1. TypeOK => NetworkAndHost
  <2> SUFFICES ASSUME TypeOK PROVE NetworkAndHost
    OBVIOUS
  <2>1. v4 \in V4Address /\ v6 \in V6Address
    BY DEF TypeOK
  <2>2. V4Operands \subseteq V4Address /\ V6Operands \subseteq V6Address
    BY AddressAssumption
  <2> QED BY <2>1, <2>2, SplitV4, SplitV6 DEF NetworkAndHost
<1> QED BY <1>1, TypeCorrect, PTL
=============================================================================
