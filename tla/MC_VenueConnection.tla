------------------------ MODULE MC_VenueConnection -------------------------
(* Model of one venue session for TLC: two subscription pairs, two retry   *)
(* attempts, a two-message inbound queue, and a budget of three network    *)
(* faults, enough for a break, a failed attempt and a second break.        *)
EXTENDS VenueConnection, TLC

CONSTANTS s1, s2

MC_Subs == {s1, s2}
MC_Symmetry == Permutations(MC_Subs)
==============================================================================
