------------------------------ MODULE MCBridge ------------------------------
(* Small instances of Bridge for TLC.                                      *)
EXTENDS Bridge

CONSTANTS u1, j1, t1, start, title0, noArg, inputJs

MCUrls == {u1}
MCScripts == {j1}
MCTitles == {t1}
\* A paint the same size as the view and one that shrinks it, so /frame
\* can see a stored size that differs from the buffer it is about to read.
MCFrameSizes == {<<2, 1>>, <<1, 1>>}
=============================================================================
