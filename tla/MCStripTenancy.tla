--------------------------- MODULE MCStripTenancy ---------------------------
(***************************************************************************)
(* Two rows per table.                                                     *)
(***************************************************************************)
EXTENDS StripTenancy

CONSTANTS r1, r2

TwoRows == {r1, r2}
=============================================================================
