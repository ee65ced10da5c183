--------------------------- MODULE MCHostCommands ---------------------------
(* Instances of HostCommands for TLC: two mutations of one session, of     *)
(* which one is a TurnSubmit, and a MemSwitch.                             *)
EXTENDS HostCommands, TLC

CONSTANTS edit, submit, switch

MCScopeOf ==
    [m \in Commands |-> CASE m \in Switches -> "global"
                          [] m \in Sensitive -> NoScope
                          [] OTHER -> "session"]

(* Every command may be sent once, edit twice.                             *)
MCSendTwiceEdit == [m \in Commands |-> IF m = edit THEN 2 ELSE 1]

ConnSymmetry == Permutations(Conns)
=============================================================================
