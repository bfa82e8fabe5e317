------------------------------ MODULE MCDemoTcp ------------------------------
(* DemoTcp for TLC: two clients that contend for the one connection, one   *)
(* of which dials again, and one that dials a port nobody listens on.      *)
EXTENDS DemoTcp

CONSTANTS c1, c2, c3

AllClients   == {c1, c2, c3}
StrayClients == {c3}
Numbers      == [c \in Clients |-> CASE c = c1 -> 3 [] c = c2 -> 2 [] c = c3 -> 1]
=============================================================================
