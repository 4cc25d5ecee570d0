---------------------------- MODULE MCDecodeBatch ---------------------------
(* Two sequences.  Batches of two tokens with any positions, of three with   *)
(* any outputs, and of four with all outputs but one, or the last one only.  *)
EXTENDS DecodeBatch, TLC

Sets == {<<0>>, <<1>>, <<0, 1>>}

Ids(n)  == [1 .. n -> Sets]
Most(n) == {o \in [1 .. n -> BOOLEAN] : Cardinality({i \in 1 .. n : ~o[i]}) <= 1}

InputValues == [ids : Ids(2), pos : [1 .. 2 -> 0 .. MaxPos], out : {<<>>}]
          \cup [ids : Ids(3), pos : {<<>>}, out : [1 .. 3 -> BOOLEAN]]
          \cup [ids : Ids(4), pos : {<<>>}, out : Most(4) \cup {<<>>}]
=============================================================================
