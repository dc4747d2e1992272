---------------------------- MODULE MCSwitchSetup ----------------------------
(* SwitchSetup on a switch of five ports with the house on port 5, and     *)
(* switches files that differ from one another in one thing.               *)
EXTENDS SwitchSetup, TLC

One(access, trunk, down) == [access |-> access, trunk |-> trunk, down |-> down]

(* Two boards, the gateway on 3, on 4 a switch of one board.               *)
Plain   == 1 :> One(2, 3, {4}) @@ 2 :> One(1, 3, {})
Swapped == 1 :> One(2, 4, {3}) @@ 2 :> One(1, 3, {})   \* the two trunks exchanged
Alone   == 1 :> One(2, 3, {})                          \* the second switch taken away
Fewer   == 1 :> One(1, 3, {4}) @@ 2 :> One(1, 3, {})   \* one board

Rebuilds == {Plain, Swapped, Alone}
Shrinks  == {Plain, Fewer}
=============================================================================
