--------------------------- MODULE MCLoaderSystem ---------------------------
(***************************************************************************)
(* LoaderSystem with a bitstream of two packets and a DataFlash of one or  *)
(* two pages of two parts; every part of the file differs from every       *)
(* other.                                                                  *)
(***************************************************************************)
EXTENDS LoaderSystem

MCData     == {"blank", "junk", "old", "a", "b", "c", "d"}
Old        == <<"old", "old">>
OneService == <<Old>>
OneFile    == <<<<"a", "b">>>>
TwoService == <<Old, Old>>
TwoFile    == <<<<"a", "b">>, <<"c", "d">>>>
Mcu        == {"mcu"}
Either     == {"mcu", "fpga"}
=============================================================================
