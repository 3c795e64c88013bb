-------------------------- MODULE MCStepperMotion --------------------------
(* Small instances of StepperMotion.  Speeds are squares: 4 is 2 Hz.       *)
EXTENDS StepperMotion

MCIntMin == -8

\* Below the minimum, inside the range, and above the maximum.
SomeSpeeds == {-1, 6, 40}
\* -1 restores the default; 1 is below both defaults.
SomeAccels == {-1, 1}
SomeMoves  == {-3, 0, 4}

TwoMoves   == {-2, 3}
NoSettings == {}
=============================================================================
