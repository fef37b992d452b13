------------------------------ MODULE MCHotReload ------------------------------
(***************************************************************************)
(* An instance of HotReload: two concurrent run mutations, one editor, two *)
(* rows that can each be updated once, and two crashes.                    *)
(***************************************************************************)
EXTENDS HotReload

CONSTANTS runner1, runner2, editor1, row1, row2

MCRunner == {runner1, runner2}
MCEditor == {editor1}
MCId     == {row1, row2}

=============================================================================
