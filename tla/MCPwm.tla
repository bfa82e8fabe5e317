------------------------------- MODULE MCPwm -------------------------------
(* Pwm for TLC: a period for each resolution but one, and one too long.    *)
EXTENDS Pwm
SomePeriods == {0, 5000, 5000000, 20000000, 500000000}
SomeValues == {0, 300, 5000}
=============================================================================
