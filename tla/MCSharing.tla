---- MODULE MCSharing ----
(* Dictionaries alone: objects, mutable ones and a builder. *)
EXTENDS VariantStorage

CONSTANTS a1, a2, b1, m1, k1, empty, moved

SharingInit == VoInit /\ VsInit /\ IpInit

SharingNext == VoNext /\ UNCHANGED <<vsVars, ipVars>>

SharingSpec == SharingInit /\ [][SharingNext]_<<voVars, vsVars, ipVars>>
====
