---------------------------- MODULE MCLineEditor ----------------------------
(***************************************************************************)
(* Lines of up to three characters, and a ring of three.                   *)
(***************************************************************************)
EXTENDS LineEditor

\* nothing depends on what was returned
LineView == <<reading, item, hist_index, entry_hist_index, tmp_cmd>>
=============================================================================
