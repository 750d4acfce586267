------------------------------ MODULE MCCodec ------------------------------
(* An instance of Codec for TLC: the edges of the ranges that the code names, *)
(* and of the widths.                                                         *)
EXTENDS Codec

MCEdges ==
  [w \in {1, 2, 4, 8} |->
     CASE w = 1 -> {0, 1, 2, 5, 6, 7, 8, 18, 255}
       [] w = 2 -> {0, 1, 256, 1000, 1001, 65535}
       [] w = 4 -> {0, -1, 2147483647, -2147483647 - 1, 900000000, 900000001,
                    -900000000, -900000001, 1800000000, -1800000001,
                    2139095039, 2139095040}
       [] w = 8 -> {<<0, 0>>, <<0, 1>>, <<-1, -1>>, <<0, -2147483647 - 1>>}]
=============================================================================
