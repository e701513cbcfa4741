----------------------------- MODULE MCCreateJob -----------------------------
(***************************************************************************)
(* One call, given every batch of up to three items over two keys, a blank *)
(* one, two payloads and an oversized one.  (Calls share nothing: a second *)
(* one would only square the states.)                                      *)
(***************************************************************************)
EXTENDS CreateJob

CONSTANTS c1, a, b, p, q

OneCall == {c1}
TwoKeys == {a, b}
TwoPayloads == {p, q}
=============================================================================
