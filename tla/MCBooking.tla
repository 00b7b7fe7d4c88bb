------------------------------ MODULE MCBooking ------------------------------
(* Small instances of Booking for TLC; the .cfg files give the constants. *)
EXTENDS BookingLedger, TLC

Symmetry ==
    Permutations(Users) \cup Permutations(Seats) \cup Permutations(IdemKeys)
      \cup Permutations(HoldCalls) \cup Permutations(ConfirmCalls)
      \cup Permutations(ReleaseCalls) \cup Permutations(Workers)
=============================================================================
