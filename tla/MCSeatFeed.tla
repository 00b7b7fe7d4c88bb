----------------------------- MODULE MCSeatFeed -----------------------------
(* Small instances of SeatFeed for TLC; the .cfg files give the constants. *)
EXTENDS SeatFeed
=============================================================================
