------------------------------ MODULE PortHold ------------------------------
(***************************************************************************)
(* What the hold of policy.py is for, seen from a port: it is free, or one *)
(* request is at work on it, or it is held.  Only a port somebody is at    *)
(* work on is switched; a port gets to work from being free, and a held    *)
(* one is left as it is until it is free again.                            *)
(***************************************************************************)
CONSTANTS
  Key,    \* what is held: a port's power, a port's link
  State   \* what it can be switched to

VARIABLES
  phase,  \* [Key -> Phases]
  admin   \* [Key -> State]

Phases == {"free", "busy", "held"}

Init == phase = [k \in Key |-> "free"] /\ admin \in [Key -> State]

(* What one step may do to one port.                                       *)
PortStep(k) ==
  \/ phase'[k] = phase[k] /\ (phase[k] = "busy" \/ admin'[k] = admin[k])
  \/ phase'[k] # phase[k] /\ admin'[k] = admin[k]
     /\ (phase[k] = "held" => phase'[k] = "free")

Next == /\ phase' \in [Key -> Phases]
        /\ admin' \in [Key -> State]
        /\ \A k \in Key : PortStep(k)

Spec == Init /\ [][Next]_<<phase, admin>>
=============================================================================
