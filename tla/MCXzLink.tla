----------------------------- MODULE MCXzLink -----------------------------
(* XzLink for TLC.                                                          *)
EXTENDS XzLink

MCIds == {"a", "b", "c"}
MCKeys == {"k1"}
===========================================================================
