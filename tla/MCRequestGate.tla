---------------------------- MODULE MCRequestGate ----------------------------
(* Switches files for RequestGate.                                         *)
EXTENDS RequestGate

A(index, host) == [index |-> index, host |-> host, access_ports |-> 2, gateway_trunk_port |-> 3,
                   downstream_trunk_ports |-> {}, house_uplink_port |-> 4]
(* A trunk to another switch inside the access range.                      *)
B(index, host) == [A(index, host) EXCEPT !.downstream_trunk_ports = {2}]

(* One switch; the same with another next to it; the two renumbered.       *)
MCFiles == {<<A(1, "h1")>>, <<A(1, "h1"), B(2, "h2")>>, <<B(1, "h2"), A(2, "h1")>>}
MCBoard == {<<1, 2>>, <<None, 2>>}

(* A host with all its settings, and those that lack one or two.           *)
Whole   == [scheme |-> "file", policy |-> TRUE, holds |-> {"on", "off"}, store |-> TRUE, credentials |-> TRUE]
MCSites == {Whole, [Whole EXCEPT !.policy = FALSE], [Whole EXCEPT !.store = FALSE], [Whole EXCEPT !.credentials = FALSE]}
           \cup {[Whole EXCEPT !.holds = {h}] : h \in {"on", "off"}}
           \cup {[Whole EXCEPT !.scheme = "legacy", !.credentials = c] : c \in BOOLEAN}
           \cup {[Whole EXCEPT !.scheme = "none", !.policy = p] : p \in BOOLEAN}

(* toggle and status look at no value.                                     *)
MCRequests == {r \in AllRequests : r.view \in {"status", "toggle"} => r.value = "neither"}
=============================================================================
