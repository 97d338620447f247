--------------------------- MODULE MCCaptainSwitch ---------------------------
(* CaptainSwitch on a small instance.                                      *)
EXTENDS CaptainSwitch

CONSTANT c1

OneCaptain == {c1}
=============================================================================
