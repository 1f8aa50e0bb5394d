------------------------ MODULE MCMambaRadixCache ------------------------
(***************************************************************************)
(* Prompts for model checking: one extends another, so that nodes are      *)
(* split, shared and left as tombstones, and one has nothing in common     *)
(* with the first.                                                         *)
(***************************************************************************)
EXTENDS MambaRadixCache

CONSTANTS a, b

MCPrompt == {<<a>>, <<b>>, <<a, b>>}

=============================================================================
