-------------------------- MODULE MCModelMeasures ---------------------------
(* Two features; windows that agree, tie or separate in either of them.     *)
EXTENDS ModelMeasures

MCWindows == << <<0, 0>>, <<0, 1>>, <<1, 0>>, <<2, 2>>, <<3, 0>> >>
=============================================================================
