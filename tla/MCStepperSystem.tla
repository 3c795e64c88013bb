-------------------------- MODULE MCStepperSystem --------------------------
(* Small instances of StepperSystem.                                       *)
EXTENDS StepperSystem

CONSTANTS usb, telnet
OneShell  == {usb}
TwoShells == {usb, telnet}

MCIntMin  == -8
NoInput   == {}
OneSpeed  == {9}
OneAccel  == {1}
OneMove   == {1}
TwoMoves  == {-1, 2}
AllFields == <<0, 1, 2, 3, 4, 5>>
OneField  == <<0>>
FieldFour == <<4>>
=============================================================================
