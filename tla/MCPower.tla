------------------------------ MODULE MCPower ------------------------------
(* PowerControl for TLC: the inputs that exercise each branch of the       *)
(* handler, and the durations scaled to 1 : 4 : 3 clock ticks.             *)
EXTENDS PowerControl

Post(type) == [method |-> "POST", token |-> "good", type |-> type]

(* An input for each way handlePowerReset answers from the body on, and    *)
(* one that is refused before.                                             *)
AllInputs == {Post("On"), Post("ForceOff"), Post("Bogus"),
              [method |-> "POST", token |-> "bad", type |-> "ForceOff"]}
=============================================================================
