------------------------------ MODULE MCUplink ------------------------------
(* Instances of Uplink for TLC. *)
EXTENDS Uplink

TwoFds == {3, 4}
AllOutcomes == {"some", "again", "error"}
BlockingOutcomes == {"some", "error"}

=============================================================================
