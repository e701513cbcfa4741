----------------------------- MODULE MCRowRules -----------------------------
(***************************************************************************)
(* Two rows of one required and one optional column.                       *)
(***************************************************************************)
EXTENDS RowRules

CONSTANTS i1, i2

RequiredColumns == {"payload"}
OptionalColumns == {"error_detail"}
TwoIds == {i1, i2}
=============================================================================
