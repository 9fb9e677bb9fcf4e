----------------------------- MODULE MCCooldown -----------------------------
(***************************************************************************)
(* Instance of Cooldown for TLC: a Wait and two Extends, or three of       *)
(* either, whose calls ask for a longer and for a shorter deadline.        *)
(***************************************************************************)
EXTENDS Cooldown

MCDelays == {0, 2}
=============================================================================
