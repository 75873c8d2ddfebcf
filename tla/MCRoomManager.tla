--------------------------- MODULE MCRoomManager ---------------------------
(* Small instances of RoomManager for TLC. *)
EXTENDS RoomManager, TLC

CONSTANTS p1, p2, p3, c1, c2, c3

ThreeParticipants == {p1, p2, p3}
TwoParticipants == {p1, p2}
ThreeConns == {c1, c2, c3}
TwoConns == {c1, c2}

(* Participants are interchangeable, and so are connections; used in the   *)
(* runs without liveness properties only.                                  *)
Symmetric == Permutations(ThreeParticipants) \cup Permutations(ThreeConns)
=============================================================================
