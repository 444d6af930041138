------------------------------ MODULE MCConsole ------------------------------
(***************************************************************************)
(* A 3 x 2 screen for TLC.  A three-character text wraps and, from the     *)
(* last row, scrolls; a text ending in '\b' erases what it wrote; the PCI  *)
(* scan lists at most one device, so with one device present it prints   *)
(* the header and one line, and with none the "none" line.  Two scrolls   *)
(* between clears are enough for a row to be scrolled twice.               *)
(***************************************************************************)
EXTENDS ConsoleProofs

MCChars == {" ", "a"}
MCTexts == {<<"a", " ", "a">>, <<"a", "BS">>, <<"NL", "a">>, <<>>}
MCHeader == <<"a">>
MCDeviceLine == <<"a", "a">>
MCNoneLine == <<" ">>

=============================================================================
