------------------------------ MODULE ShipLife ------------------------------
(***************************************************************************)
(* What a ship promises the rest of the game, whatever its timers and its  *)
(* position are: it is protected, then vulnerable, then explodes, and each *)
(* explosion takes one life until the last one leaves a wreck.             *)
(***************************************************************************)
EXTENDS Naturals

CONSTANT NumLives    \* NUM_LIVES, a positive number

VARIABLES stage, lives

vars == <<stage, lives>>

Stages == {"protected", "vulnerable", "exploding", "dead"}

Init == stage = "protected" /\ lives = NumLives

WearOff == stage = "protected" /\ stage' = "vulnerable" /\ UNCHANGED lives

Hit == stage = "vulnerable" /\ stage' = "exploding" /\ UNCHANGED lives

\* The last explosion takes no life: there is none left.
BurnOut ==
    /\ stage = "exploding"
    /\ \/ lives > 0 /\ stage' = "protected" /\ lives' = lives - 1
       \/ lives = 0 /\ stage' = "dead" /\ UNCHANGED lives

Resurrect == stage = "dead" /\ stage' = "protected" /\ lives' = NumLives

Next == WearOff \/ Hit \/ BurnOut \/ Resurrect

Spec == Init /\ [][Next]_vars /\ WF_vars(WearOff) /\ WF_vars(BurnOut)
=============================================================================
