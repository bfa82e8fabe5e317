----------------------------- MODULE MCRuntime -----------------------------
(* Runtime for TLC: the timer's channel and two others.                    *)
EXTENDS Runtime
CONSTANTS timer, a, b
Three == {timer, a, b}
Short == {1, 2}
=============================================================================
