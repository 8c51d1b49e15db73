------------------------- MODULE MCReminderDelivery -------------------------
(* An instance of ReminderDelivery for TLC: two reminders of a hotel, one *)
(* to a colleague and one to a channel, and two ticks that may overlap.     *)
EXTENDS ReminderDelivery, TLC

CONSTANTS r1, r2, h1, t1, t2

MCHotelOf == r1 :> h1 @@ r2 :> h1
MCFireAt == r1 :> 1 @@ r2 :> 2
=============================================================================
