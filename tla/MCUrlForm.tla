------------------------------ MODULE MCUrlForm ------------------------------
(***************************************************************************)
(* Texts of up to five bytes over '%', '+', '-', ' ', '4', 'F', 'a', '&'  *)
(* and '=': enough for a valid escape ("%4F"), an escape cut short at the *)
(* end ("a%4"), the escapes strtol takes and a strict parser refuses       *)
(* ("%-4", "%+F", "% 4"), a pair without '=', an empty pair and a key      *)
(* given twice ("a&a=").                                                   *)
(***************************************************************************)
EXTENDS UrlForm

MCAlphabet == {37, 43, 45, 32, 52, 70, 97, 38, 61}

=============================================================================
