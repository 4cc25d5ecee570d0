-------------------------- MODULE MCRecurrentMemory -------------------------
(* Three sequences without snapshots; two with one snapshot, one is saved. *)
EXTENDS RecurrentMemory, TLC

UserValues  == 0 :> {0, 1, 2} @@ 1 :> {0, 1}
SaverValues == 0 :> {} @@ 1 :> {0}
Lengths     == 0 :> 2 @@ 1 :> 3
Batches     == 0 :> 2 @@ 1 :> 2

(* A row is read when its plane may be selected; the others make no difference. *)
Live(p, i) == \/ p = 0 /\ mem.cells[i].src = i
              \/ \E s \in mem.cells[i].seq : p <= mem.rs[s] \/ p <= fresh[s]
View ==
  IF Ready
  THEN <<nrs, mem, saved, hist, fresh, intact,
         [p \in 0 .. nrs |-> [i \in Idx |-> IF Live(p, i) THEN rows[p][i] ELSE Junk]]>>
  ELSE <<nrs, mem, saved>>  \* only clear() may follow

=============================================================================
