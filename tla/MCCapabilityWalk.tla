-------------------------- MODULE MCCapabilityWalk --------------------------
(* Four slots per chain.  As in the code the standard limit (48) is the      *)
(* number of slots of the standard space and the extended one (256) is less  *)
(* than the number of slots of the extended space.                           *)
EXTENDS CapabilityWalk

MCIds == {"id"}
=============================================================================
