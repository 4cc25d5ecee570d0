---------------------------- MODULE MCSlotDecode ----------------------------
(***************************************************************************)
(* Small instances of SlotDecode.                                          *)
(***************************************************************************)
EXTENDS SlotDecode

CONSTANTS a, b

\* Two prompts: a single token, which is also the prefix of the longer one.
MCPrompts == {<<a>>, <<a, b, a>>}
=============================================================================
