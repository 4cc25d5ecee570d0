------------------------------ MODULE MCKVCache -----------------------------
(* Two sequences, sharing a stream or with one each. *)
EXTENDS KVCache, TLC

RangeValues == {<<1, -1>>, <<-1, 1>>}
DeltaValues == {-1}
Truncations == {<<p, -1>> : p \in 0 .. MaxPos}
OneToken    == 0 :> {"x"} @@ 1 :> {"x"}
OwnTokens   == 0 :> {"x"} @@ 1 :> {"y"}

(* The data of a free cell is never read: states that differ in it only are   *)
(* one.                                                                       *)
Live(st, i) == \E u \in Stream : origin[u] = st /\ kv[u][i].pos # Free
View == <<unified, kv, head, origin, run, snap, whole,
          [st \in Stream |-> [i \in Idx |-> IF Live(st, i) THEN data[st][i] ELSE Blank]]>>

=============================================================================
