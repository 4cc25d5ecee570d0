---------------------------- MODULE MCServerLoop ----------------------------
(***************************************************************************)
(* Small instances of ServerLoop: one to three slots and requests that     *)
(* compete for them.  Tasks are numbers; a child has the number of its     *)
(* parent plus 1.                                                          *)
(***************************************************************************)
EXTENDS ServerLoop, TLC

CONSTANTS r1, r2, r3

MCNoTask == 0

(* Mixed load: a completion with one child (1, 2), a streaming completion that
   asks for slot 1 and whose client may leave (3), a slot action on slot 0 (4). *)
MixTaskIds == 1 .. 4
MixTasksOf == r1 :> <<1>> @@ r2 :> <<3>> @@ r3 :> <<4>>
MixChildren == <<<<2>>, <<>>, <<>>, <<>>>>
MixKind == <<"completion", "completion", "completion", "slot_action">>
MixIdSlot == <<-1, -1, 1, 0>>
MixClass == <<"a", "a", "b", "none">>
MixNPrompt == <<2, 2, 1, 0>>
MixNPredict == <<1, 1, 2, 0>>
MixStream == {3}

(* Fair load without failures: a completion with one child (1, 2), an embedding
   that asks for slot 4, which wraps to slot 1 (3), an embedding of an empty
   prompt (4) and a metrics request (5). *)
LiveTaskIds == 1 .. 5
LiveTasksOf == r1 :> <<1>> @@ r2 :> <<3, 4>> @@ r3 :> <<5>>
LiveChildren == <<<<2>>, <<>>, <<>>, <<>>, <<>>>>
LiveKind == <<"completion", "completion", "embedding", "embedding", "immediate">>
LiveIdSlot == <<-1, -1, 4, -1, -1>>
LiveClass == <<"a", "a", "b", "b", "none">>
LiveNPrompt == <<2, 2, 1, 0, 0>>
LiveNPredict == <<2, 2, 0, 0, 0>>

(* One slot: a completion (1), then a SLOT_SAVE (2) and another completion (3). *)
DeferTaskIds == 1 .. 3
DeferTasksOf == r1 :> <<1>> @@ r2 :> <<2>> @@ r3 :> <<3>>
DeferChildren == <<<<>>, <<>>, <<>>>>
DeferKind == <<"completion", "slot_action", "completion">>
DeferIdSlot == <<-1, 0, -1>>
DeferClass == <<"a", "none", "a">>
DeferNPrompt == <<1, 0, 1>>
DeferNPredict == <<1, 0, 1>>

(* Two completions for one slot; the second client leaves. *)
RaceTaskIds == 1 .. 2
RaceTasksOf == r1 :> <<1>> @@ r2 :> <<2>>
RaceChildren == <<<<>>, <<>>>>
RaceKind == <<"completion", "completion">>
RaceIdSlot == <<-1, -1>>
RaceClass == <<"a", "a">>
RaceNPrompt == <<1, 1>>
RaceNPredict == <<1, 1>>

(* An empty prompt with n_cmpl = 2: a parent (1) and its child (2). *)
EmptyTaskIds == 1 .. 2
EmptyTasksOf == r1 :> <<1>>
EmptyChildren == <<<<2>>, <<>>>>
EmptyKind == <<"completion", "completion">>
EmptyIdSlot == <<-1, -1>>
EmptyClass == <<"a", "a">>
EmptyNPrompt == <<0, 0>>
EmptyNPredict == <<1, 1>>

(* The same state to whoever reads it: i_batch is set before a slot has an output
   to consume, the batch is cleared when a pass begins. *)
View == <<queues, results, pc, current, cursor,
          [s \in Slots |-> [slot[s] EXCEPT !.i_batch = Sampled(s)]],
          IF pc \in {"generate", "prompt", "decode"} THEN batch ELSE <<>>,
          readers>>
=============================================================================
