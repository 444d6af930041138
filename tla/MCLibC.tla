------------------------------- MODULE MCLibC -------------------------------
(***************************************************************************)
(* A four-byte memory for TLC.  Byte 255 is there because memcmp must      *)
(* order it above 1 (it is -1 as a signed char); memset is passed -1 and   *)
(* 256, which (unsigned char) turns into 255 and 0.  Four bytes let a      *)
(* memmove overlap its source by one, two or three bytes either way.       *)
(***************************************************************************)
EXTENDS LibC

MCBytes == {0, 1, 255}
MCFills == {1, -1, 256}

=============================================================================
