-------------------------- MODULE SwitchSetupEndProofs --------------------------
(***************************************************************************)
(* What TLAPS proves of the end of a run of fpgas-switch-setup: the switch *)
(* that a run leaves is the one that the switches file asks for, whatever  *)
(* it found, and the dashboard shows it so.                                *)
(***************************************************************************)
EXTENDS SwitchSetupProofs

(* The switches file gives a port one role: the gateway's trunk, a switch  *)
(* behind this one, or a board.                                            *)
OneRole == \A f \in Files : /\ f[Index].trunk \notin f[Index].down
                            /\ \A p \in 1..f[Index].access :
                                 p # f[Index].trunk /\ p \notin f[Index].down

LEMMA Roles ==
  ASSUME TypeOK, OneRole
  PROVE  /\ \A p \in Access : p \in Port /\ p \notin DOMAIN Tagged
         /\ file[Index].trunk \in DOMAIN Tagged /\ Tagged[file[Index].trunk] = Wanted
         /\ file[Index].trunk \in Port \ Access
BY FileType DEF TypeOK, OneRole, Access, Tagged

(* A run has done what the file asks for, or has still to do it.           *)
UntagInv  == \A p \in Access :
               Member(VlanId(Index, p), p) \/ Act("untag", VlanId(Index, p), p) \in todo
PvidInv   == \A p \in Access :
               pvid[p] = VlanId(Index, p) \/ Act("pvid", VlanId(Index, p), p) \in todo
OutInv    == \A p \in Access : p \notin vlan[1].member \/ Act("exclude", 1, p) \in todo
OldInv    == \A v \in (DOMAIN vlan \cap OwnRange) \ Wanted : Act("delete", v, 0) \in todo
CarryInv  == \A v \in Block(Index) : Carried(v) \/ Act("tag", v, file[Index].trunk) \in todo
TagsInv   == \A a \in todo : a.op = "tag" => a.port \in DOMAIN Tagged

DoneInv == /\ 1 \in DOMAIN vlan
           /\ TagsInv
           /\ run = "going" => UntagInv /\ PvidInv /\ OutInv /\ OldInv /\ CarryInv
           /\ Served

-----------------------------------------------------------------------------
(* What an action leaves of what is done.                                  *)

LEMMA UntagKept ==
  ASSUME TypeOK, OneRole, TagsInv, NEW a \in todo, Needed(a), Takes(a), Do(a), Effect(a),
         NEW p \in Access, Member(VlanId(Index, p), p)
  PROVE  Member(VlanId(Index, p), p)'
<1> DEFINE v == VlanId(Index, p)
<1>1. v \in Wanted /\ v > 1 /\ v \in DOMAIN vlan /\ p \in vlan[v].member /\ p \in vlan[v].untagged
  BY OwnWanted, AccessVlan DEF Member, TypeOK
<1>2. a.op \in Op
  BY DEF TypeOK
<1>3. CASE a.vlan # v \/ a.op = "pvid"
  <2>1. v \in DOMAIN vlan' /\ vlan'[v] = vlan[v]
    BY <1>1, <1>3 DEF Effect
  <2> QED
    BY <1>1, <2>1 DEF Member
<1>4. CASE a.vlan = v /\ a.op \in {"tag", "untag"}
  <2>1. a.op = "tag" => a.port # p
    BY Roles DEF TagsInv
  <2>2. v \in DOMAIN vlan' /\ p \in vlan'[v].member /\ p \in vlan'[v].untagged
    BY <1>1, <1>4, <2>1 DEF Do, Put
  <2> QED
    BY <2>2 DEF Member
<1>5. CASE a.vlan = v /\ a.op \in {"create", "exclude", "delete"}
  BY <1>1, <1>5 DEF Needed
<1> QED
  BY <1>2, <1>3, <1>4, <1>5 DEF Op

LEMMA UntagDone ==
  ASSUME TypeOK, NEW a \in todo, Takes(a), Do(a), a.op = "untag"
  PROVE  Member(a.vlan, a.port)'
BY DEF Do, Takes, Put, Member

(* VLAN 1 stays, and loses the ports that are taken out of it.             *)
LEMMA FirstVlan ==
  ASSUME TypeOK, 1 \in DOMAIN vlan, NEW a \in todo, Needed(a), Takes(a), Do(a) \/ HalfDo(a), Effect(a)
  PROVE  /\ 1 \in DOMAIN vlan'
         /\ vlan'[1].member \subseteq vlan[1].member
         /\ a.op = "exclude" /\ Do(a) => a.port \notin vlan'[1].member
<1>1. a.op \in Op /\ 1 \notin OwnRange
  BY DEF TypeOK, OwnRange
<1>2. a.op # "exclude" => a.op = "pvid" \/ a.vlan # 1
  BY <1>1, WantedType, AccessVlan DEF Needed, TypeOK
<1>3. 1 \in DOMAIN vlan'
  BY <1>1, <1>2 DEF Effect
<1>4. CASE a.op # "exclude"
  BY <1>2, <1>3, <1>4 DEF Effect
<1>5. CASE a.op = "exclude"
  <2>1. a.vlan = 1
    BY <1>5 DEF Needed
  <2>2. Do(a) => vlan'[1].member = vlan[1].member \ {a.port}
    BY <1>5, <2>1 DEF Do, Put
  <2>3. HalfDo(a) => vlan'[1].member \subseteq vlan[1].member
    <3>1. vlan[1] = [member |-> vlan[1].member, untagged |-> vlan[1].untagged]
      BY DEF TypeOK
    <3> QED
      BY <1>5, <2>1, <3>1 DEF HalfDo, Put
  <2> QED
    BY <1>3, <2>2, <2>3
<1> QED
  BY <1>4, <1>5

(* No VLAN is made but one that the file asks for.                         *)
LEMMA OldKept ==
  ASSUME TypeOK, OldInv, NEW a \in todo, Needed(a), Effect(a), todo' = todo \ {a}, file' = file
  PROVE  OldInv'
<1>1. Wanted' = Wanted
  BY DEF Wanted, Block, Behind
<1> SUFFICES ASSUME NEW v \in (DOMAIN vlan' \cap OwnRange) \ Wanted
             PROVE  Act("delete", v, 0) \in todo'
  BY <1>1 DEF OldInv, OwnRange
<1>2. v \in DOMAIN vlan
  <2>1. a.op = "create" => a.vlan \in Wanted
    BY DEF Needed
  <2> QED
    BY <2>1 DEF Effect
<1>3. a # Act("delete", v, 0)
  BY DEF Effect, Act
<1> QED
  BY <1>2, <1>3 DEF OldInv

LEMMA PvidKept ==
  ASSUME TypeOK, PvidInv, NEW a \in todo, Needed(a), Effect(a), todo' = todo \ {a}, file' = file
  PROVE  PvidInv'
<1>1. Access' = Access
  BY DEF Access
<1> SUFFICES ASSUME NEW p \in Access
             PROVE  pvid'[p] = VlanId(Index, p) \/ Act("pvid", VlanId(Index, p), p) \in todo'
  BY <1>1 DEF PvidInv
<1>2. p \in Port /\ a.op \in Op /\ VlanId(Index, p) \in Wanted
  BY FileType, OwnWanted DEF TypeOK
<1>3. CASE a = Act("pvid", VlanId(Index, p), p)
  BY <1>2, <1>3 DEF Effect, Act, TypeOK
<1>4. CASE Act("pvid", VlanId(Index, p), p) \in todo /\ a # Act("pvid", VlanId(Index, p), p)
  BY <1>4
<1>5. CASE pvid[p] = VlanId(Index, p)
  <2>1. a.op = "pvid" => a.port # p \/ a.vlan = VlanId(Index, p)
    BY DEF Needed
  <2>2. a.op = "delete" => a.vlan # VlanId(Index, p)
    BY <1>2 DEF Needed
  <2> QED
    BY <1>2, <1>5, <2>1, <2>2 DEF Effect, TypeOK
<1> QED
  BY <1>3, <1>4, <1>5 DEF PvidInv

LEMMA CarryKept ==
  ASSUME TypeOK, OneRole, CarryInv, NEW a \in todo, Needed(a), Takes(a), Do(a), Effect(a),
         todo' = todo \ {a}, file' = file
  PROVE  CarryInv'
<1>1. TrunkApart
  <2> SUFFICES ASSUME NEW f \in Files PROVE f[Index].trunk \notin f[Index].down /\ f[Index].access < f[Index].trunk
    BY DEF TrunkApart
  <2>1. f[Index].access \in Nat /\ f[Index].trunk \in 1..Ports
    BY FilesAssumption, Numbers DEF FilesAssumption, SwitchSpec, Port
  <2> QED
    BY <2>1, Numbers DEF OneRole
<1>2. Block(Index)' = Block(Index)
  BY DEF Block
<1> SUFFICES ASSUME NEW v \in Block(Index)
             PROVE  Carried(v)' \/ Act("tag", v, file[Index].trunk) \in todo'
  BY <1>2 DEF CarryInv
<1>3. CASE Carried(v)
  BY <1>1, <1>3, CarriedKept
<1>4. CASE a = Act("tag", v, file[Index].trunk)
  BY <1>1, <1>4, Tagging DEF Act
<1> QED
  BY <1>3, <1>4 DEF CarryInv

-----------------------------------------------------------------------------
(* A run's list is all that is left to do, and one that is done leaves     *)
(* nothing.                                                                *)

LEMMA Planned ==
  ASSUME TypeOK, OneRole, 1 \in DOMAIN vlan, Read
  PROVE  TagsInv' /\ UntagInv' /\ PvidInv' /\ OutInv' /\ OldInv' /\ CarryInv'
<1>1. todo' = Diff /\ vlan' = vlan /\ pvid' = pvid /\ file' = file
  BY DEF Read, switch
<1>2. /\ Wanted' = Wanted /\ Access' = Access /\ Tagged' = Tagged /\ Block(Index)' = Block(Index)
      /\ \A v \in Wanted : Carried(v)' <=> Carried(v)
  BY <1>1 DEF Wanted, Access, Tagged, Block, Behind, Carried, TaggedPorts
<1>3. TagsInv'
  <2>1. ASSUME NEW a \in Tags PROVE a.port \in DOMAIN Tagged
    <3>1. PICK q \in Wanted \X DOMAIN Tagged : a = Act("tag", q[1], q[2])
      BY DEF Tags
    <3> QED
      BY <3>1 DEF Act
  <2>2. \A a \in Diff : a.op = "tag" => a \in Tags
    BY DEF Diff, Creates, Untags, Pvids, Excludes, Deletes, Act
  <2> QED
    BY <1>1, <1>2, <2>1, <2>2 DEF TagsInv
<1>4. UntagInv'
  <2>1. \A p \in Access : Member(VlanId(Index, p), p) \/ Act("untag", VlanId(Index, p), p) \in Diff
    BY DEF Diff, Untags
  <2> QED
    BY <1>1, <1>2, <2>1 DEF UntagInv, Member
<1>5. PvidInv'
  <2>1. \A p \in Access : pvid[p] = VlanId(Index, p) \/ Act("pvid", VlanId(Index, p), p) \in Diff
    BY DEF Diff, Pvids
  <2> QED
    BY <1>1, <1>2, <2>1 DEF PvidInv
<1>6. OutInv'
  <2>1. \A p \in Access : p \notin vlan[1].member \/ Act("exclude", 1, p) \in Diff
    BY DEF Diff, Excludes
  <2> QED
    BY <1>1, <1>2, <2>1 DEF OutInv
<1>7. OldInv'
  BY <1>1, <1>2 DEF OldInv, Diff, Deletes, OwnRange
<1>8. CarryInv'
  <2>1. ASSUME NEW v \in Block(Index) PROVE Carried(v) \/ Act("tag", v, file[Index].trunk) \in Diff
    <3> DEFINE q == <<v, file[Index].trunk>>
    <3>1. q \in Wanted \X DOMAIN Tagged /\ q[1] \in Tagged[q[2]]
      BY Roles DEF Wanted
    <3>2. CASE ~Carried(v)
      BY <3>1, <3>2 DEF Carried, Diff, Tags
    <3> QED
      BY <3>2
  <2>2. Block(Index) \subseteq Wanted
    BY DEF Wanted
  <2> QED
    BY <1>1, <1>2, <2>1, <2>2 DEF CarryInv
<1> QED
  BY <1>3, <1>4, <1>5, <1>6, <1>7, <1>8

LEMMA AllDone ==
  ASSUME TypeOK, todo = {}, UntagInv, PvidInv, OutInv, OldInv, CarryInv
  PROVE  Converged
<1>1. \A p \in Access : VlanId(Index, p) \in Block(Index)
  BY DEF Access, Block
<1> QED
  BY <1>1 DEF Converged, UntagInv, PvidInv, OutInv, OldInv, CarryInv, Member, Carried

LEMMA DoneInit == Init => DoneInv
BY DEF Init, DoneInv, TagsInv, Served

LEMMA DoneStep ==
  ASSUME OneRole, TypeOK, NeededInv, DoneInv, [Next]_vars
  PROVE  DoneInv'
<1>1. CASE UNCHANGED vars
  <2>1. /\ vlan' = vlan /\ pvid' = pvid /\ todo' = todo /\ run' = run /\ file' = file
        /\ Access' = Access /\ Wanted' = Wanted /\ Tagged' = Tagged /\ Block(Index)' = Block(Index)
    BY <1>1 DEF vars, switch, Access, Wanted, Tagged, Block, Behind
  <2>2. /\ UntagInv' <=> UntagInv
        /\ PvidInv' <=> PvidInv
        /\ OutInv' <=> OutInv
        /\ OldInv' <=> OldInv
        /\ CarryInv' <=> CarryInv
        /\ TagsInv' <=> TagsInv
    BY <2>1 DEF UntagInv, PvidInv, OutInv, OldInv, CarryInv, TagsInv, Member, Carried, TaggedPorts, OwnRange
  <2>3. Served' <=> Served
    BY <2>1 DEF Served, Converged, TaggedPorts, OwnRange
  <2> QED
    BY <2>1, <2>2, <2>3 DEF DoneInv
<1>2. CASE Read
  BY <1>2, Planned DEF Read, switch, DoneInv, Served
<1>3. CASE Apply
  <2>1. PICK a \in todo : Turn(a) /\ Takes(a) /\ Do(a) /\ todo' = todo \ {a}
    BY <1>3 DEF Apply
  <2>2. Effect(a) /\ run = "going" /\ run' = "going" /\ Needed(a) /\ file' = file
    BY <1>3, <2>1, DoEffect, ActionPort DEF NeededInv, TypeOK, Apply
  <2>3. TagsInv /\ UntagInv /\ PvidInv /\ OutInv /\ OldInv /\ CarryInv /\ 1 \in DOMAIN vlan
    BY <2>2 DEF DoneInv
  <2>4. Access' = Access /\ Tagged' = Tagged
    BY <2>2 DEF Access, Tagged, Wanted, Block, Behind
  <2>5. TagsInv'
    BY <2>1, <2>3, <2>4 DEF TagsInv
  <2>6. UntagInv'
    <3>1. ASSUME NEW p \in Access
          PROVE  Member(VlanId(Index, p), p)' \/ Act("untag", VlanId(Index, p), p) \in todo'
      <4>1. CASE Member(VlanId(Index, p), p)
        BY <2>1, <2>2, <2>3, <4>1, UntagKept
      <4>2. CASE a = Act("untag", VlanId(Index, p), p)
        BY <2>1, <4>2, UntagDone DEF Act
      <4> QED
        BY <2>1, <2>3, <4>1, <4>2 DEF UntagInv
    <3> QED
      BY <2>4, <3>1 DEF UntagInv
  <2>7. 1 \in DOMAIN vlan' /\ OutInv'
    <3>1. /\ 1 \in DOMAIN vlan' /\ vlan'[1].member \subseteq vlan[1].member
          /\ a.op = "exclude" => a.port \notin vlan'[1].member
      BY <2>1, <2>2, <2>3, FirstVlan
    <3>2. ASSUME NEW p \in Access PROVE p \notin vlan'[1].member \/ Act("exclude", 1, p) \in todo'
      BY <2>1, <2>3, <3>1 DEF OutInv, Act
    <3> QED
      BY <2>4, <3>1, <3>2 DEF OutInv
  <2> QED
    BY <2>1, <2>2, <2>3, <2>5, <2>6, <2>7, PvidKept, OldKept, CarryKept DEF DoneInv, Served
<1>4. CASE Finish
  <2>1. Converged
    BY <1>4, AllDone DEF Finish, DoneInv
  <2>2. Converged'
    BY <1>4, <2>1 DEF Finish, switch, Converged, Access, Block, Wanted, Behind, TaggedPorts, OwnRange
  <2> QED
    BY <1>4, <2>2 DEF Finish, switch, DoneInv, TagsInv, Served
<1>5. CASE Fails
  <2>1. todo' = {} /\ run' = "failed"
    BY <1>5 DEF Fails
  <2>2. 1 \in DOMAIN vlan'
    <3>1. CASE UNCHANGED switch
      BY <3>1 DEF switch, DoneInv
    <3>2. ASSUME NEW a \in todo, Takes(a), Do(a) \/ HalfDo(a) PROVE 1 \in DOMAIN vlan'
      BY <3>2, DoEffect, ActionPort, FirstVlan DEF NeededInv, DoneInv
    <3> QED
      BY <1>5, <3>1, <3>2 DEF Fails
  <2> QED
    BY <2>1, <2>2 DEF DoneInv, TagsInv, Served
<1>6. CASE Edit
  <2>1. todo = {} /\ todo' = {} /\ vlan' = vlan /\ run' = "none"
    BY <1>6 DEF Edit, switch, TypeOK
  <2> QED
    BY <2>1 DEF DoneInv, TagsInv, Served
<1> QED
  BY <1>1, <1>2, <1>3, <1>4, <1>5, <1>6 DEF Next, Converge

(* A run that ended well leaves every board in its own VLAN with the       *)
(* gateway, out of VLAN 1, and no VLAN of an earlier file, from whatever   *)
(* state earlier runs, finished or not, left the switch in, for any files  *)
(* that give each port one role.                                           *)
THEOREM ServedWell == ASSUME OneRole PROVE Spec => []Served
<1>1. DoneInv => Served
  BY DEF DoneInv
<1>2. TypeOK /\ NeededInv /\ DoneInv /\ [Next]_vars => DoneInv'
  BY DoneStep
<1> QED
  BY <1>1, <1>2, NeededInit, NeededStep, DoneInit, PTL DEF Spec

-----------------------------------------------------------------------------
(* What the dashboard shows.                                               *)

(* The ports that the house or a file uses for something else than a board.*)
TrunkPorts == {HousePort} \cup UNION {{f[Index].trunk} \cup f[Index].down : f \in Files}

(* No edit makes a board's port a trunk, or a trunk a board's port.        *)
RolesKept == \A f \in Files : \A p \in 1..f[Index].access : p \notin TrunkPorts

(* A board's port is in no other VLAN than VLAN 1 and its own.             *)
AloneInv == \A v \in DOMAIN vlan \ {1} : \A p \in vlan[v].member :
              v = VlanId(Index, p) \/ p \in TrunkPorts

LEMMA OtherPorts ==
  ASSUME TypeOK
  PROVE  DOMAIN Tagged \subseteq TrunkPorts
<1>1. file \in Files
  BY DEF TypeOK
<1>2. {file[Index].trunk} \cup file[Index].down \subseteq TrunkPorts
  BY <1>1 DEF TrunkPorts
<1> QED
  BY <1>2 DEF Tagged

(* What a step does to the members of a VLAN.                              *)
LEMMA Joins ==
  ASSUME TypeOK, NEW a \in todo, Needed(a), Takes(a), Do(a) \/ HalfDo(a), Effect(a),
         NEW v \in DOMAIN vlan', NEW p \in vlan'[v].member
  PROVE  \/ v \in DOMAIN vlan /\ p \in vlan[v].member
         \/ a.op \in {"tag", "untag"} /\ v = a.vlan /\ p = a.port
<1>1. a.op \in Op
  BY DEF TypeOK
<1>2. CASE a.op = "create"
  <2>1. v # a.vlan
    BY <1>2 DEF Do, HalfDo, Put
  <2> QED
    BY <1>2, <2>1 DEF Effect
<1>3. CASE a.op \in {"pvid", "delete"}
  BY <1>3 DEF Do, HalfDo
<1>4. CASE a.op \in {"tag", "untag", "exclude"}
  <2>1. v \in DOMAIN vlan /\ a.vlan \in DOMAIN vlan
    BY <1>4 DEF Effect, Takes
  <2>2. CASE v # a.vlan
    BY <2>1, <2>2 DEF Effect
  <2>3. CASE v = a.vlan
    <3>1. vlan[v] = [member |-> vlan[v].member, untagged |-> vlan[v].untagged]
      BY <2>1 DEF TypeOK
    <3>2. CASE Do(a)
      BY <1>4, <2>1, <2>3, <3>2 DEF Do, Put
    <3>3. CASE HalfDo(a)
      <4> DEFINE m == IF a.op = "exclude" THEN vlan[v].member \ {a.port} ELSE vlan[v].member \cup {a.port}
      <4>1. vlan'[v].member \in {m, vlan[v].member}
        BY <1>4, <2>1, <2>3, <3>1, <3>3 DEF HalfDo, Put
      <4> QED
        BY <1>4, <2>1, <2>3, <4>1
    <3> QED
      BY <3>2, <3>3
  <2> QED
    BY <2>2, <2>3
<1> QED
  BY <1>1, <1>2, <1>3, <1>4 DEF Op

LEMMA AloneStep ==
  ASSUME TypeOK, NeededInv, DoneInv, AloneInv, [Next]_vars
  PROVE  AloneInv'
<1>1. CASE UNCHANGED switch
  BY <1>1 DEF switch, AloneInv, TrunkPorts
<1>2. ASSUME NEW a \in todo, Takes(a), Do(a) \/ HalfDo(a) PROVE AloneInv'
  <2>1. Needed(a) /\ Effect(a)
    BY <1>2, DoEffect, ActionPort DEF NeededInv
  <2> SUFFICES ASSUME NEW v \in DOMAIN vlan' \ {1}, NEW p \in vlan'[v].member
               PROVE  v = VlanId(Index, p) \/ p \in TrunkPorts
    BY DEF AloneInv, TrunkPorts
  <2>2. CASE v \in DOMAIN vlan /\ p \in vlan[v].member
    BY <2>2 DEF AloneInv
  <2>3. CASE a.op = "tag" /\ p = a.port
    BY <2>3, OtherPorts DEF DoneInv, TagsInv
  <2>4. CASE a.op = "untag" /\ v = a.vlan /\ p = a.port
    BY <2>1, <2>4 DEF Needed
  <2> QED
    BY <1>2, <2>1, <2>2, <2>3, <2>4, Joins
<1>3. CASE Apply
  BY <1>2, <1>3 DEF Apply
<1>4. CASE Fails
  BY <1>1, <1>2, <1>4 DEF Fails
<1> QED
  BY <1>1, <1>3, <1>4 DEF vars, Next, Converge, Read, Finish, Edit

LEMMA Shown ==
  ASSUME RolesKept, TypeOK, Served, AloneInv
  PROVE  ShownAsSet
<1> SUFFICES ASSUME run = "ok", NEW p \in Access
             PROVE  SentUntagged(p) = {VlanId(Index, p)} /\ SentTagged(p) = {}
  BY DEF ShownAsSet
<1> DEFINE w == VlanId(Index, p)
<1>1. Converged
  BY DEF Served
<1>2. w \in DOMAIN vlan /\ p \in vlan[w].member \cap vlan[w].untagged /\ p \notin vlan[1].member
  BY <1>1 DEF Converged
<1>3. p \notin TrunkPorts
  BY DEF RolesKept, Access, TypeOK
<1>4. \A v \in DOMAIN vlan : p \in vlan[v].member => v = w
  BY <1>2, <1>3 DEF AloneInv
<1> QED
  BY <1>2, <1>4 DEF SentUntagged, SentTagged, TaggedPorts

(* After a run that ended well the dashboard shows each board's port in    *)
(* its own VLAN, untagged, and in no other, for any files that give each   *)
(* port one role, and none a role that another file gives to a board.      *)
THEOREM ShownWell == ASSUME OneRole, RolesKept PROVE Spec => []ShownAsSet
<1>1. Init => AloneInv
  BY Numbers DEF Init, AloneInv, TrunkPorts
<1>2. TypeOK /\ NeededInv /\ DoneInv /\ [Next]_vars => DoneInv'
  BY DoneStep
<1>3. TypeOK /\ DoneInv /\ AloneInv => ShownAsSet
  BY Shown DEF DoneInv
<1> QED
  BY <1>1, <1>2, <1>3, AloneStep, NeededInit, NeededStep, DoneInit, PTL DEF Spec

=============================================================================
