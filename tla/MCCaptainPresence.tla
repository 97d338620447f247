-------------------------- MODULE MCCaptainPresence --------------------------
(* CaptainPresence on a small instance.                                    *)
EXTENDS CaptainPresence

CONSTANT c1

OneCaptain == {c1}
=============================================================================
