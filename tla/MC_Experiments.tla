---------------------------- MODULE MC_Experiments ----------------------------
(***************************************************************************)
(* Two sizes, and teams of one, two and four threads, in this order so     *)
(* that a team has threads that have never had a modulus.                  *)
(***************************************************************************)
EXTENDS Experiments

MCSizes == <<10, 12>>
MCThreadNums == <<1, 2, 4>>
MCNumRuns == <<1, 2, 2>>

=============================================================================
