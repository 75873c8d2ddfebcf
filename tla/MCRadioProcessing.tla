------------------------- MODULE MCRadioProcessing -------------------------
(* Small instances of RadioProcessing for TLC. *)
EXTENDS RadioProcessing

CONSTANTS b1, t1, t2, u1, u2

OneBurst == {b1}
TwoTargets == {t1, t2}
OneTarget == {t1}
OneUpload == {u1}
TwoUploads == {u1, u2}
ShortAndLong == {1, 2}
=============================================================================
