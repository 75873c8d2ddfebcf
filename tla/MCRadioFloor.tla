---------------------------- MODULE MCRadioFloor ----------------------------
(* Small instances of RadioFloor for TLC. *)
EXTENDS RadioFloor, TLC

CONSTANTS m1, m2, t1, t2, r1, r2

TwoMembers == {m1, m2}
TwoTokens == {t1, t2}
OneRequest == {r1}
TwoRequests == {r1, r2}

(* Tokens and handlers are interchangeable; the owner and the creator are  *)
(* named, so the members are not.                                          *)
Symmetric == Permutations(TwoTokens) \cup Permutations(TwoRequests)
=============================================================================
