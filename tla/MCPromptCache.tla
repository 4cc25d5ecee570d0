---------------------------- MODULE MCPromptCache ---------------------------
(* Two prompts that have nothing in common; a generated token continues the second. *)
EXTENDS PromptCache

PromptValues == {<<"a", "b">>, <<"b">>}
FiledValues  == {<<"a", "b">>}
=============================================================================
