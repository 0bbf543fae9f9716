---------------------------- MODULE MCAddrValues ----------------------------
(***************************************************************************)
(* IPv4 addresses at both sides of every range's border, IPv6 addresses by *)
(* the bytes that decide on their kind; masks, their complements and       *)
(* addresses as operands.                                                  *)
(***************************************************************************)
EXTENDS AddrValues

(* Both sides of each border of 10/8, 100.64/10, 127/8, 169.254/16,        *)
(* 172.16/12, 192.0.2/24, 192.168/16, 198.18/15, 224/4, 240/4, with the    *)
(* first and the last address of all and 192.13, which stands for the      *)
(* documentation addresses in the code.                                    *)
MCV4Starts ==
  { Quad(n[1], n[2], n[3], 1) : n \in {
      <<0, 0, 0>>,     <<9, 255, 255>>, <<10, 0, 0>>,      <<10, 255, 255>>,
      <<11, 0, 0>>,    <<100, 63, 255>>, <<100, 64, 0>>,   <<100, 127, 255>>,
      <<100, 128, 0>>, <<126, 255, 255>>, <<127, 0, 0>>,   <<127, 255, 255>>,
      <<128, 0, 0>>,   <<169, 253, 255>>, <<169, 254, 0>>, <<169, 254, 255>>,
      <<169, 255, 0>>, <<172, 15, 255>>, <<172, 16, 0>>,   <<172, 31, 255>>,
      <<172, 32, 0>>,  <<192, 0, 1>>,    <<192, 0, 2>>,    <<192, 0, 3>>,
      <<192, 13, 0>>,  <<192, 167, 255>>, <<192, 168, 0>>, <<192, 168, 255>>,
      <<192, 169, 0>>, <<198, 17, 255>>, <<198, 18, 0>>,   <<198, 19, 255>>,
      <<198, 20, 0>>,  <<223, 255, 255>>, <<224, 0, 0>>,   <<239, 255, 255>>,
      <<240, 0, 0>>,   <<255, 255, 255>> } }

MCV4Operands ==
  { Mask(12), V4Localhost, Broadcast }

Bytes(first, second, last) ==
  [k \in 0..15 |-> IF k = 0 THEN first ELSE IF k = 1 THEN second
                   ELSE IF k = 15 THEN last ELSE 0]

MCV6Starts ==
  { Bytes(p, q, s) : p \in {0, 251, 252, 253, 254, 255},
                     q \in {0, 127, 128, 191, 192}, s \in {0, 1} }

MCV6Operands ==
  { FromWords(<<65472, 0, 0, 0, 0, 0, 0, 0>>),
    FromWords(<<0, 0, 0, 0, 0, 65535, 65535, 65535>>), V6Localhost }

(* The families do not meet: each starts from everything, the other from   *)
(* one address.                                                            *)
MCStarts ==
  (MCV4Starts \X {Bytes(254, 128, 1)}) \cup ({Quad(10, 0, 0, 1)} \X MCV6Starts)
=============================================================================
