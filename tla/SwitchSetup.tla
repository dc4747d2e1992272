------------------------------ MODULE SwitchSetup ------------------------------
(***************************************************************************)
(* fpgas-switch-setup: converge brings the VLANs of one switch to what the *)
(* switches file asks for (src/src/switch_setup/plan.py and apply.py).  It *)
(* reads the switch once, works out the actions, and carries them out one  *)
(* by one; a run that fails, or is killed, on the way is run again.        *)
(* Between runs the file may be edited, so that a run finds the switch as  *)
(* an earlier one, finished or not, for the same or another file left it.  *)
(***************************************************************************)
EXTENDS Integers, FiniteSets

CONSTANTS
  Index,        \* the switch that is set up
  Files,        \* the switches files: functions from the switches' indexes
  Ports,        \* the switch has ports 1..Ports
  HouseVlan,    \* a VLAN of the house, on the uplink
  HousePort,    \* the port of the uplink
  MaxEdits,     \* bound: edits of the file
  MaxFailures   \* bound: runs that do not finish

Port == 1..Ports
SwitchSpec == [access : 0..Ports, trunk : Port, down : SUBSET Port]

ASSUME IndexAssumption == Index \in Nat
ASSUME FilesAssumption ==
  \A file \in Files : Index \in DOMAIN file /\ DOMAIN file \subseteq Nat
                      /\ \A s \in DOMAIN file : file[s] \in SwitchSpec
ASSUME HouseAssumption == HousePort \in Port /\ HouseVlan \in Nat \ {1}
ASSUME BoundsAssumption == {Ports, MaxEdits, MaxFailures} \subseteq Nat

VARIABLES
  file,     \* the switches file
  vlan,     \* the switch: its VLANs, each with its member and untagged ports
  pvid,     \* the switch: each port's PVID
  todo,     \* the actions of the run that are still to be done
  run,      \* "none" since the file was edited, "going", "ok" or "failed"
  edits, failures

switch == <<vlan, pvid>>
vars   == <<file, switch, todo, run, edits, failures>>

-----------------------------------------------------------------------------
(* desired_state                                                           *)

VlanId(s, p) == 2000 + 100 * s + p
OwnRange     == 2101..2348

Access       == 1..file[Index].access
Block(s)     == {VlanId(s, p) : p \in 1..file[s].access}
Behind       == UNION {Block(s) : s \in {t \in DOMAIN file : t > Index}}
Wanted       == Block(Index) \cup Behind                        \* vlans

(* tagged: a trunk port that is named twice carries what is behind.        *)
Tagged == [p \in {file[Index].trunk} \cup file[Index].down |->
             IF p \in file[Index].down THEN Behind ELSE Wanted]

-----------------------------------------------------------------------------
(* diff                                                                    *)

Op == {"create", "tag", "untag", "pvid", "exclude", "delete"}

Act(op, v, p) == [op |-> op, vlan |-> v, port |-> p]

TaggedPorts(v) == vlan[v].member \ vlan[v].untagged

MutCreates == {Act("create", v, 0) : v \in Block(Index) \ DOMAIN vlan}
Creates    == {Act("create", v, 0) : v \in Wanted \ DOMAIN vlan}

Tags == {Act("tag", q[1], q[2]) : q \in
          {r \in Wanted \X DOMAIN Tagged :
             /\ r[1] \in Tagged[r[2]]
             /\ r[1] \in DOMAIN vlan => r[2] \notin TaggedPorts(r[1])}}

MutMember(v, p) == v \in DOMAIN vlan /\ p \in vlan[v].untagged   \* the bitmap alone
Member(v, p)    == v \in DOMAIN vlan /\ p \in vlan[v].member \cap vlan[v].untagged

Untags   == {Act("untag", VlanId(Index, p), p) :
               p \in {q \in Access : ~Member(VlanId(Index, q), q)}}
Pvids    == {Act("pvid", VlanId(Index, p), p) :
               p \in {q \in Access : pvid[q] # VlanId(Index, q)}}
MutExcludes == {Act("exclude", 1, p) :                   \* the bitmap alone
                  p \in {q \in Access : 1 \in DOMAIN vlan /\ q \in vlan[1].untagged}}
Excludes == {Act("exclude", 1, p) :
               p \in {q \in Access : 1 \in DOMAIN vlan /\ q \in vlan[1].member}}
MutDeletes == {Act("delete", v, 0) : v \in DOMAIN vlan \ (Wanted \cup {1})}
Deletes    == {Act("delete", v, 0) : v \in (DOMAIN vlan \cap OwnRange) \ Wanted}

Diff == Creates \cup Tags \cup Untags \cup Pvids \cup Excludes \cup Deletes

(* The order of the list: by kind.  (Within a kind it is sorted, but no    *)
(* action needs another of its kind, so any order is allowed here.)        *)
MutPathLast == <<"create", "untag", "pvid", "tag", "exclude", "delete">>
MutExcludeFirst == <<"create", "tag", "exclude", "untag", "pvid", "delete">>
Order   == <<"create", "tag", "untag", "pvid", "exclude", "delete">>
Rank(a) == CHOOSE i \in DOMAIN Order : Order[i] = a.op
Turn(a) == \A b \in todo : Rank(a) <= Rank(b)

-----------------------------------------------------------------------------
(* The switch.                                                             *)

TypeOK ==
  /\ file \in Files
  /\ DOMAIN vlan \subseteq Nat
  /\ \A v \in DOMAIN vlan : vlan[v] \in [member : SUBSET Port, untagged : SUBSET Port]
  /\ pvid \in [Port -> Nat]
  /\ todo \subseteq [op : Op, vlan : Nat, port : Port \cup {0}]
  /\ run  \in {"none", "going", "ok", "failed"} /\ (run # "going" => todo = {})
  /\ edits \in 0..MaxEdits /\ failures \in 0..MaxFailures

(* From the factory every port is in VLAN 1; the house has a VLAN of its   *)
(* own on the uplink.                                                      *)
Init ==
  /\ file \in Files
  /\ vlan = [v \in {1, HouseVlan} |->
               IF v = 1 THEN [member |-> Port, untagged |-> Port]
               ELSE [member |-> {HousePort}, untagged |-> {}]]
  /\ pvid = [p \in Port |-> 1]
  /\ todo = {} /\ run = "none" /\ edits = 0 /\ failures = 0

Put(v, ports) == vlan' = [w \in DOMAIN vlan \cup {v} |-> IF w = v THEN ports ELSE vlan[w]]

(* Whether the library and the switch take an action.                      *)
Takes(a) ==
  CASE a.op = "create" -> a.vlan \notin DOMAIN vlan
    [] a.op = "pvid"   -> a.vlan \in DOMAIN vlan /\ a.port \in vlan[a.vlan].member
    [] OTHER           -> a.vlan \in DOMAIN vlan

(* A membership is two bitmaps; a new VLAN of some models has every port   *)
(* in its untagged one.  A PVID that names a deleted VLAN stays or falls   *)
(* back to 1.                                                              *)
Do(a) ==
  \/ /\ a.op = "create"
     /\ \E ports \in {{}, Port} : Put(a.vlan, [member |-> {}, untagged |-> ports])
     /\ UNCHANGED pvid
  \/ /\ a.op = "tag"
     /\ Put(a.vlan, [member   |-> vlan[a.vlan].member \cup {a.port},
                     untagged |-> vlan[a.vlan].untagged \ {a.port}])
     /\ UNCHANGED pvid
  \/ /\ a.op = "untag"
     /\ Put(a.vlan, [member   |-> vlan[a.vlan].member \cup {a.port},
                     untagged |-> vlan[a.vlan].untagged \cup {a.port}])
     /\ UNCHANGED pvid
  \/ /\ a.op = "exclude"
     /\ Put(a.vlan, [member   |-> vlan[a.vlan].member \ {a.port},
                     untagged |-> vlan[a.vlan].untagged \ {a.port}])
     /\ UNCHANGED pvid
  \/ /\ a.op = "pvid"
     /\ pvid' = [pvid EXCEPT ![a.port] = a.vlan]
     /\ UNCHANGED vlan
  \/ /\ a.op = "delete"
     /\ vlan' = [v \in DOMAIN vlan \ {a.vlan} |-> vlan[v]]
     /\ \/ UNCHANGED pvid
        \/ pvid' = [p \in Port |-> IF pvid[p] = a.vlan THEN 1 ELSE pvid[p]]

(* Only one of the two bitmaps is written.                                 *)
HalfDo(a) ==
  /\ a.op \in {"tag", "untag", "exclude"}
  /\ LET ports    == vlan[a.vlan]
         member   == IF a.op = "exclude" THEN ports.member \ {a.port}
                     ELSE ports.member \cup {a.port}
         untagged == IF a.op = "untag" THEN ports.untagged \cup {a.port}
                     ELSE ports.untagged \ {a.port}
     IN  \/ Put(a.vlan, [ports EXCEPT !.member = member])
         \/ Put(a.vlan, [ports EXCEPT !.untagged = untagged])
  /\ UNCHANGED pvid

-----------------------------------------------------------------------------
(* converge                                                                *)

(* The switch is read and the actions are worked out.  (Without --apply    *)
(* the run ends here and changes nothing.)                                 *)
Read ==
  /\ run # "going"
  /\ todo' = Diff
  /\ run'  = "going"
  /\ UNCHANGED <<file, switch, edits, failures>>

Apply ==
  /\ \E a \in todo : /\ Turn(a) /\ Takes(a)
                     /\ Do(a)
                     /\ todo' = todo \ {a}
  /\ UNCHANGED <<file, run, edits, failures>>

Finish ==
  /\ run = "going" /\ todo = {}
  /\ run' = "ok"
  /\ UNCHANGED <<file, switch, todo, edits, failures>>

MutFails ==                                      \* goes on with the old list
  /\ run = "going" /\ failures < MaxFailures
  /\ run' = "failed" /\ failures' = failures + 1
  /\ UNCHANGED <<file, switch, todo, edits>>

(* The switch stops answering, or the run is killed: between two actions,  *)
(* or with one done, or half done, and not confirmed.                      *)
Fails ==
  /\ run = "going" /\ failures < MaxFailures
  /\ \/ UNCHANGED switch
     \/ \E a \in todo : Turn(a) /\ Takes(a) /\ (Do(a) \/ HalfDo(a))
  /\ run' = "failed" /\ todo' = {} /\ failures' = failures + 1
  /\ UNCHANGED <<file, edits>>

Edit ==
  /\ run # "going" /\ edits < MaxEdits
  /\ file' \in Files \ {file}
  /\ run'  = "none"
  /\ edits' = edits + 1
  /\ UNCHANGED <<switch, todo, failures>>

Converge == Read \/ Apply \/ Finish

Next == Converge \/ Fails \/ Edit

(* A run goes on, and a run that did not end well is run again.            *)
Fairness == WF_vars(run # "ok" /\ Converge)

Spec     == Init /\ [][Next]_vars
FairSpec == Spec /\ Fairness

-----------------------------------------------------------------------------
(* The dashboard's VLAN columns (_vlans_by_port): the VLANs a port sends.  *)

MutSentUntagged(p) == {v \in DOMAIN vlan : p \in vlan[v].untagged}  \* the bitmap alone
SentUntagged(p) == {v \in DOMAIN vlan : p \in vlan[v].untagged \cap vlan[v].member}
SentTagged(p)   == {v \in DOMAIN vlan : p \in TaggedPorts(v) \cap vlan[v].member}

-----------------------------------------------------------------------------
(* Properties.                                                             *)

(* "in an order that never strands a port" (plan.py:75): at every step, a  *)
(* port is a member of the VLAN that its untagged frames join, whatever    *)
(* was left half done before.                                              *)
NeverStranded ==
  \A p \in Port : pvid[p] \in DOMAIN vlan /\ p \in vlan[pvid[p]].member

(* The library raises for a VLAN that does not exist (plan.py:53), and the *)
(* switch for a PVID the port is no member of (plan.py:79), which would    *)
(* end the run: an action is only come to when the switch takes it.        *)
NothingRefused == \A a \in todo : Turn(a) => Takes(a)

(* "path to gateway exists first" (plan.py:77): no port is moved to its    *)
(* own VLAN before the trunk carries that VLAN.                            *)
PathFirst ==
  [][\A p \in Port :
       pvid'[p] # pvid[p] => /\ pvid'[p] \in DOMAIN vlan
                             /\ file[Index].trunk \in TaggedPorts(pvid'[p])]_vars

(* Neither bitmap of a VLAN gains a port or loses one of no access.        *)
OnlyTaken(v) ==
  /\ vlan'[v].member \subseteq vlan[v].member /\ vlan[v].member \ Access \subseteq vlan'[v].member
  /\ vlan'[v].untagged \subseteq vlan[v].untagged /\ vlan[v].untagged \ Access \subseteq vlan'[v].untagged

(* Only the tool's own VLANs, and VLAN 1 to take the access ports out, are *)
(* ever written (README.md:169): not the house's VLAN, not another port's  *)
(* bit in VLAN 1, not another port's PVID.                                 *)
OnlyItsOwn ==
  [][/\ \A v \in (DOMAIN vlan \cup DOMAIN vlan') \ OwnRange :
          /\ v \in DOMAIN vlan /\ v \in DOMAIN vlan'
          /\ vlan[v] = vlan'[v] \/ (v = 1 /\ OnlyTaken(v))
     /\ \A p \in Port \ Access : pvid'[p] = pvid[p]]_vars

(* Each access port in its own VLAN with the gateway and out of VLAN 1,    *)
(* and no VLAN of an earlier file.                                         *)
Converged ==
  /\ \A p \in Access :
       LET v == VlanId(Index, p)
       IN  /\ pvid[p] = v /\ v \in DOMAIN vlan
           /\ p \in vlan[v].member \cap vlan[v].untagged
           /\ file[Index].trunk \in TaggedPorts(v)
           /\ p \notin vlan[1].member
  /\ DOMAIN vlan \cap OwnRange \subseteq Wanted

(* A run that ended well leaves the switch so (README.md:152), from any    *)
(* state that earlier runs, finished or not, left it in.                   *)
Served == run = "ok" => Converged

(* What the dashboard then shows of an access port (_vlans_by_port) is its *)
(* own VLAN, untagged, and none that it is no member of, whatever bits the *)
(* switch has set in a bitmap (dashboard.py:182).                          *)
ShownAsSet ==
  run = "ok" => \A p \in Access : SentUntagged(p) = {VlanId(Index, p)} /\ SentTagged(p) = {}

(* However many runs fail on the way, the switch gets there and stays.     *)
GetsThere == <>[]Converged

=============================================================================
