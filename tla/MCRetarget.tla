----------------------------- MODULE MCRetarget -----------------------------
(* Windows of three blocks (the first holds two block times, the later ones *)
(* three: an even and an odd median), three of them and a bit.             *)
EXTENDS Retarget

MCVdfOutput(prev, builder) == 0

=============================================================================
