---------------------------- MODULE MCCallClient ----------------------------
(* One call the page creates, two it receives, two sessions. *)
EXTENDS CallClient
CONSTANTS o1, i1
MCOutgoing == {o1}
MCIncoming == {i1}
=============================================================================
