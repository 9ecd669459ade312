------------------------------- MODULE MCLiveDesk -------------------------------
(* Instance of LiveDesk for TLC. *)
EXTENDS LiveDesk

=============================================================================
