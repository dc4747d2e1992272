--------------------------- MODULE SwitchSetupProofs ---------------------------
(***************************************************************************)
(* What TLAPS proves of SwitchSetup, for every switch, any switches files  *)
(* and any number of edits and failed runs.                                *)
(***************************************************************************)
EXTENDS SwitchSetup, TLAPS

LEMMA Numbers == Index \in Nat /\ Ports \in Nat /\ MaxEdits \in Nat /\ MaxFailures \in Nat /\ HouseVlan \in Nat
                 /\ HouseVlan # 1 /\ HousePort \in Port
BY IndexAssumption, BoundsAssumption, HouseAssumption DEF IndexAssumption, BoundsAssumption, HouseAssumption

LEMMA FileType ==
  ASSUME file \in Files
  PROVE  /\ Index \in DOMAIN file /\ DOMAIN file \subseteq Nat
         /\ \A s \in DOMAIN file : file[s] \in SwitchSpec /\ file[s].access \in Nat
         /\ Access \subseteq Port
         /\ file[Index].trunk \in Port /\ file[Index].down \subseteq Port
BY FilesAssumption, Numbers DEF FilesAssumption, SwitchSpec, Access, Port

LEMMA VlanIdType == \A s, p \in Nat : VlanId(s, p) \in Nat /\ VlanId(s, p) > 1
BY DEF VlanId

LEMMA WantedType == ASSUME file \in Files PROVE Wanted \subseteq Nat /\ \A v \in Wanted : v > 1
<1>1. ASSUME NEW s \in DOMAIN file, NEW v \in Block(s) PROVE v \in Nat /\ v > 1
  <2>1. s \in Nat /\ file[s].access \in Nat
    BY FileType
  <2>2. PICK p \in 1..file[s].access : v = VlanId(s, p)
    BY DEF Block
  <2> QED
    BY <2>1, <2>2, VlanIdType
<1>2. \A v \in Behind : \E s \in DOMAIN file : v \in Block(s)
  BY DEF Behind
<1>3. \A v \in Wanted : \E s \in DOMAIN file : v \in Block(s)
  BY <1>2, FileType DEF Wanted
<1> QED
  BY <1>1, <1>3

LEMMA OwnWanted == ASSUME NEW p \in Access PROVE VlanId(Index, p) \in Wanted
BY DEF Access, Wanted, Block

LEMMA AccessVlan ==
  ASSUME file \in Files, NEW p \in Access PROVE VlanId(Index, p) \in Nat /\ VlanId(Index, p) > 1
BY OwnWanted, WantedType

-----------------------------------------------------------------------------
(* The actions of a run and their order.                                   *)

LEMMA Ranks ==
  ASSUME NEW a, a.op \in Op
  PROVE  Rank(a) \in 1..6 /\ Order[Rank(a)] = a.op
<1>1. \E i \in DOMAIN Order : Order[i] = a.op
  <2>1. DOMAIN Order = 1..6 /\ Order[1] = "create" /\ Order[2] = "tag" /\ Order[3] = "untag"
        /\ Order[4] = "pvid" /\ Order[5] = "exclude" /\ Order[6] = "delete"
    BY DEF Order
  <2> QED
    BY <2>1 DEF Op
<1>2. DOMAIN Order = 1..6
  BY DEF Order
<1> QED
  BY <1>1, <1>2 DEF Rank

(* An action whose turn has come leaves none of an earlier kind.           *)
Earlier(op) == CASE op = "tag" -> {"create"} [] op = "untag" -> {"create", "tag"}
                 [] op = "pvid" -> {"create", "tag", "untag"}
                 [] op = "exclude" -> {"create", "tag", "untag", "pvid"}
                 [] op = "delete" -> {"create", "tag", "untag", "pvid", "exclude"}
                 [] OTHER -> {}

LEMMA TurnMeans ==
  ASSUME NEW a, a.op \in Op, Turn(a), NEW b \in todo, b.op \in Op
  PROVE  b.op \notin Earlier(a.op)
<1>1. Rank(a) \in 1..6 /\ Rank(b) \in 1..6 /\ Rank(a) <= Rank(b)
      /\ Order[Rank(a)] = a.op /\ Order[Rank(b)] = b.op
  BY Ranks DEF Turn
<1>2. \A i \in 1..6 : Order[i] = CASE i = 1 -> "create" [] i = 2 -> "tag" [] i = 3 -> "untag"
                                   [] i = 4 -> "pvid" [] i = 5 -> "exclude" [] i = 6 -> "delete"
  BY DEF Order
<1> QED
  BY <1>1, <1>2 DEF Earlier

-----------------------------------------------------------------------------
(* Types.                                                                  *)

VlanType == [member : SUBSET Port, untagged : SUBSET Port]

(* What an action does to a VLAN: member and untagged may be written in    *)
(* halves when the run fails.                                              *)
LEMMA PutType ==
  ASSUME TypeOK, NEW v \in Nat, NEW ports \in VlanType, Put(v, ports)
  PROVE  /\ DOMAIN vlan' = DOMAIN vlan \cup {v} /\ DOMAIN vlan' \subseteq Nat
         /\ vlan'[v] = ports /\ \A w \in DOMAIN vlan \ {v} : vlan'[w] = vlan[w]
         /\ \A w \in DOMAIN vlan' : vlan'[w] \in VlanType
BY DEF TypeOK, Put, VlanType

(* What Do and HalfDo may do, by the kind of action.                       *)
Effect(a) ==
  /\ DOMAIN vlan' = CASE a.op = "create" -> DOMAIN vlan \cup {a.vlan}
                      [] a.op = "delete" -> DOMAIN vlan \ {a.vlan}
                      [] OTHER -> DOMAIN vlan
  /\ \A v \in DOMAIN vlan' : vlan'[v] \in VlanType
  /\ \A v \in (DOMAIN vlan \cap DOMAIN vlan') \ {a.vlan} : vlan'[v] = vlan[v]
  /\ a.op \in {"tag", "untag"}
       => vlan[a.vlan].member \subseteq vlan'[a.vlan].member
  /\ a.op = "exclude" => /\ vlan[a.vlan].member \ {a.port} \subseteq vlan'[a.vlan].member
                         /\ vlan'[a.vlan].member \subseteq vlan[a.vlan].member
                         /\ vlan[a.vlan].untagged \ {a.port} \subseteq vlan'[a.vlan].untagged
                         /\ vlan'[a.vlan].untagged \subseteq vlan[a.vlan].untagged
  /\ pvid' = CASE a.op = "pvid" -> [pvid EXCEPT ![a.port] = a.vlan]
               [] a.op = "delete" /\ pvid' # pvid
                    -> [p \in Port |-> IF pvid[p] = a.vlan THEN 1 ELSE pvid[p]]
               [] OTHER -> pvid
  /\ pvid' \in [Port -> Nat]
  /\ a.op = "pvid" => vlan' = vlan

LEMMA DoEffect ==
  ASSUME TypeOK, NEW a \in todo, Takes(a), a.op \in {"tag", "untag", "pvid", "exclude"} => a.port \in Port,
         Do(a) \/ HalfDo(a)
  PROVE  Effect(a)
<1>1. a.vlan \in Nat /\ a.op \in Op
  BY DEF TypeOK
<1>2. \A v \in DOMAIN vlan : /\ vlan[v].member \subseteq Port /\ vlan[v].untagged \subseteq Port
                             /\ vlan[v] = [member |-> vlan[v].member, untagged |-> vlan[v].untagged]
  BY DEF TypeOK
<1>3. CASE a.op = "create"
  <2>1. PICK ports \in {{}, Port} : Put(a.vlan, [member |-> {}, untagged |-> ports])
    BY <1>3 DEF Do, HalfDo
  <2>2. [member |-> {}, untagged |-> ports] \in VlanType
    BY <2>1 DEF VlanType
  <2>3. pvid' = pvid /\ pvid \in [Port -> Nat]
    BY <1>3 DEF Do, HalfDo, TypeOK
  <2> QED
    BY <1>1, <1>3, <2>1, <2>2, <2>3, PutType DEF Effect
<1>4. CASE a.op \in {"tag", "untag", "exclude"}
  <2>1. PICK m, u \in SUBSET Port :
          /\ Put(a.vlan, [member |-> m, untagged |-> u])
          /\ a.op \in {"tag", "untag"} => vlan[a.vlan].member \subseteq m
          /\ a.op = "exclude" => /\ vlan[a.vlan].member \ {a.port} \subseteq m
                                 /\ m \subseteq vlan[a.vlan].member
                                 /\ vlan[a.vlan].untagged \ {a.port} \subseteq u
                                 /\ u \subseteq vlan[a.vlan].untagged
    <3>1. a.vlan \in DOMAIN vlan /\ a.port \in Port
      BY <1>4 DEF Takes
    <3>2. CASE Do(a)
      <4> DEFINE ports == vlan[a.vlan]
                 m == IF a.op = "exclude" THEN ports.member \ {a.port} ELSE ports.member \cup {a.port}
                 u == IF a.op = "untag" THEN ports.untagged \cup {a.port} ELSE ports.untagged \ {a.port}
      <4>1. m \in SUBSET Port /\ u \in SUBSET Port
        BY <1>2, <3>1
      <4>2. Put(a.vlan, [member |-> m, untagged |-> u])
        BY <1>4, <3>2 DEF Do
      <4> QED
        BY <1>4, <4>1, <4>2
    <3>3. CASE HalfDo(a)
      <4> DEFINE ports == vlan[a.vlan]
                 m == IF a.op = "exclude" THEN ports.member \ {a.port} ELSE ports.member \cup {a.port}
                 u == IF a.op = "untag" THEN ports.untagged \cup {a.port} ELSE ports.untagged \ {a.port}
      <4>1. /\ m \in SUBSET Port /\ u \in SUBSET Port
            /\ ports.member \in SUBSET Port /\ ports.untagged \in SUBSET Port
        BY <1>2, <3>1
      <4>2. \/ Put(a.vlan, [ports EXCEPT !.member = m])
            \/ Put(a.vlan, [ports EXCEPT !.untagged = u])
        BY <3>3 DEF HalfDo
      <4>3. /\ [ports EXCEPT !.member = m] = [member |-> m, untagged |-> ports.untagged]
            /\ [ports EXCEPT !.untagged = u] = [member |-> ports.member, untagged |-> u]
        BY <1>2, <3>1
      <4>4. CASE Put(a.vlan, [member |-> m, untagged |-> ports.untagged])
        BY <1>4, <4>1, <4>4
      <4>5. CASE Put(a.vlan, [member |-> ports.member, untagged |-> u])
        BY <1>4, <4>1, <4>5
      <4> QED
        BY <4>2, <4>3, <4>4, <4>5
    <3> QED
      BY <3>2, <3>3
  <2>2. [member |-> m, untagged |-> u] \in VlanType
    BY DEF VlanType
  <2>3. a.vlan \in DOMAIN vlan /\ pvid' = pvid /\ pvid \in [Port -> Nat]
    BY <1>4 DEF Do, HalfDo, TypeOK, Takes
  <2> QED
    BY <1>1, <1>4, <2>1, <2>2, <2>3, PutType DEF Effect
<1>5. CASE a.op = "pvid"
  <2>1. pvid' = [pvid EXCEPT ![a.port] = a.vlan] /\ vlan' = vlan
    BY <1>5 DEF Do, HalfDo
  <2> QED
    BY <1>1, <1>5, <2>1 DEF Effect, TypeOK, VlanType
<1>6. CASE a.op = "delete"
  <2>1. /\ vlan' = [v \in DOMAIN vlan \ {a.vlan} |-> vlan[v]]
        /\ pvid' = pvid \/ pvid' = [p \in Port |-> IF pvid[p] = a.vlan THEN 1 ELSE pvid[p]]
    BY <1>6 DEF Do, HalfDo
  <2>2. pvid' \in [Port -> Nat]
    BY <2>1 DEF TypeOK
  <2> QED
    BY <1>1, <1>6, <2>1, <2>2 DEF Effect, TypeOK, VlanType
<1> QED
  BY <1>1, <1>3, <1>4, <1>5, <1>6 DEF Op

LEMMA SwitchType ==
  ASSUME TypeOK, NEW a \in todo, Effect(a)
  PROVE  /\ DOMAIN vlan' \subseteq Nat
         /\ \A v \in DOMAIN vlan' : vlan'[v] \in VlanType
         /\ pvid' \in [Port -> Nat]
BY DEF TypeOK, Effect

(* What is still to be done: each action is for what this file asks for,   *)
(* and what it needs is there, or is to be done before it.                 *)
Needed(a) ==
  \/ /\ a.op = "create" /\ a = Act("create", a.vlan, 0)
     /\ a.vlan \in Wanted \ DOMAIN vlan
  \/ /\ a.op = "tag" /\ a.port \in Port /\ a.vlan \in Wanted
     /\ a.vlan \in DOMAIN vlan \/ Act("create", a.vlan, 0) \in todo
  \/ /\ a.op = "untag" /\ a.port \in Access /\ a.vlan = VlanId(Index, a.port)
     /\ a.vlan \in DOMAIN vlan \/ Act("create", a.vlan, 0) \in todo
  \/ /\ a.op = "pvid" /\ a.port \in Access /\ a.vlan = VlanId(Index, a.port)
     /\ \/ a.vlan \in DOMAIN vlan /\ a.port \in vlan[a.vlan].member
        \/ Act("untag", a.vlan, a.port) \in todo
  \/ /\ a.op = "exclude" /\ a.port \in Access /\ a.vlan = 1 /\ 1 \in DOMAIN vlan
  \/ /\ a.op = "delete" /\ a = Act("delete", a.vlan, 0)
     /\ a.vlan \in (DOMAIN vlan \cap OwnRange) \ Wanted

NeededInv == \A a \in todo : Needed(a)

(* A board's port is in its own VLAN, or is still to be moved there, and   *)
(* no other has been moved.                                                *)
MovedInv ==
  /\ NeverStranded
  /\ \A p \in Port \ Access : pvid[p] = 1
  /\ run = "going" =>
       \A p \in Access : \/ pvid[p] = VlanId(Index, p)
                         \/ Act("pvid", VlanId(Index, p), p) \in todo

LEMMA ActType == \A op \in Op, v \in Nat, p \in Port \cup {0} : Act(op, v, p) \in [op : Op, vlan : Nat, port : Port \cup {0}]
BY DEF Act

LEMMA DiffType ==
  ASSUME TypeOK PROVE Diff \subseteq [op : Op, vlan : Nat, port : Port \cup {0}]
<1>1. Wanted \subseteq Nat /\ Access \subseteq Port /\ DOMAIN Tagged \subseteq Port
      /\ \A p \in Access : VlanId(Index, p) \in Nat
  BY WantedType, FileType, AccessVlan DEF TypeOK, Tagged
<1>2. Creates \subseteq [op : Op, vlan : Nat, port : Port \cup {0}]
  BY <1>1, ActType DEF Creates, Op
<1>3. Tags \subseteq [op : Op, vlan : Nat, port : Port \cup {0}]
  <2>1. ASSUME NEW q \in Wanted \X DOMAIN Tagged PROVE Act("tag", q[1], q[2]) \in [op : Op, vlan : Nat, port : Port \cup {0}]
    BY <1>1, ActType DEF Op
  <2> QED
    BY <2>1 DEF Tags
<1>4. Untags \subseteq [op : Op, vlan : Nat, port : Port \cup {0}]
  BY <1>1, ActType DEF Untags, Op
<1>5. Pvids \subseteq [op : Op, vlan : Nat, port : Port \cup {0}]
  BY <1>1, ActType DEF Pvids, Op
<1>6. Excludes \subseteq [op : Op, vlan : Nat, port : Port \cup {0}]
  BY <1>1, ActType DEF Excludes, Op
<1>7. Deletes \subseteq [op : Op, vlan : Nat, port : Port \cup {0}]
  BY <1>1, ActType DEF Deletes, Op, TypeOK
<1> QED
  BY <1>2, <1>3, <1>4, <1>5, <1>6, <1>7 DEF Diff

(* The actions of a plan that has just been made.                          *)
LEMMA DiffNeeds ==
  ASSUME TypeOK, Read PROVE \A a \in todo' : Needed(a)'
<1>1. todo' = Diff /\ vlan' = vlan /\ pvid' = pvid /\ file' = file
  BY DEF Read, switch
<1>2. /\ Access \subseteq Port /\ DOMAIN Tagged \subseteq Port
      /\ \A p \in Access : VlanId(Index, p) \in Wanted
  BY FileType, OwnWanted DEF TypeOK, Tagged
<1>3. Wanted' = Wanted /\ Access' = Access
  BY <1>1 DEF Wanted, Access, Block, Behind
<1> SUFFICES ASSUME NEW a \in Diff PROVE Needed(a)'
  BY <1>1
<1>4. ASSUME NEW v \in Wanted, v \notin DOMAIN vlan PROVE Act("create", v, 0) \in todo'
  BY <1>1, <1>4 DEF Diff, Creates
<1>5. CASE a \in Creates
  BY <1>1, <1>3, <1>5 DEF Creates, Act, Needed
<1>6. CASE a \in Tags
  <2>1. PICK q \in Wanted \X DOMAIN Tagged : a = Act("tag", q[1], q[2])
    BY <1>6 DEF Tags
  <2>2. a.op = "tag" /\ a.vlan \in Wanted /\ a.port \in Port
    BY <1>2, <2>1 DEF Act
  <2> QED
    BY <1>1, <1>3, <1>4, <2>2 DEF Needed
<1>7. CASE a \in Untags
  <2>1. a.op = "untag" /\ a.port \in Access /\ a.vlan = VlanId(Index, a.port)
    BY <1>7 DEF Untags, Act
  <2> QED
    BY <1>1, <1>2, <1>3, <1>4, <2>1 DEF Needed
<1>8. CASE a \in Pvids
  <2>1. a.op = "pvid" /\ a.port \in Access /\ a.vlan = VlanId(Index, a.port)
    BY <1>8 DEF Pvids, Act
  <2>2. CASE Member(a.vlan, a.port)
    BY <1>1, <1>3, <2>1, <2>2 DEF Needed, Member
  <2>3. CASE ~Member(a.vlan, a.port)
    <3>1. Act("untag", a.vlan, a.port) \in todo'
      BY <1>1, <2>1, <2>3 DEF Diff, Untags
    <3> QED
      BY <1>3, <2>1, <3>1 DEF Needed
  <2> QED
    BY <2>2, <2>3
<1>9. CASE a \in Excludes
  BY <1>1, <1>3, <1>9 DEF Excludes, Act, Needed
<1>10. CASE a \in Deletes
  BY <1>1, <1>3, <1>10 DEF Deletes, Act, Needed
<1> QED
  BY <1>5, <1>6, <1>7, <1>8, <1>9, <1>10 DEF Diff

LEMMA Untagging ==
  ASSUME TypeOK, NEW a \in todo, a.op = "untag", Takes(a), Do(a)
  PROVE  a.vlan \in DOMAIN vlan' /\ a.port \in vlan'[a.vlan].member
BY DEF Do, Takes, Put

(* An action that is done takes nothing away that another still needs.     *)
LEMMA NeededKept ==
  ASSUME TypeOK, NeededInv, NEW a \in todo, Takes(a), Do(a), Effect(a), file' = file, todo' = todo \ {a}
  PROVE  NeededInv'
<1>1. Wanted' = Wanted /\ Access' = Access
  BY DEF Wanted, Access, Block, Behind
<1>2. Needed(a) /\ a.op \in Op
  BY DEF NeededInv, TypeOK
<1> SUFFICES ASSUME NEW b \in todo, b # a PROVE Needed(b)'
  BY DEF NeededInv
<1>3. Needed(b) /\ b.op \in Op
  BY DEF NeededInv, TypeOK
<1>4. ASSUME NEW v \in Wanted, v \in DOMAIN vlan \/ Act("create", v, 0) \in todo
      PROVE  v \in DOMAIN vlan' \/ Act("create", v, 0) \in todo'
  <2>1. v \in DOMAIN vlan => v \in DOMAIN vlan'
    BY <1>2 DEF Effect, Needed, Act
  <2>2. a = Act("create", v, 0) => v \in DOMAIN vlan'
    BY DEF Effect, Act
  <2> QED
    BY <1>4, <2>1, <2>2
<1>5. CASE b.op = "create"
  <2>1. b = Act("create", b.vlan, 0) /\ b.vlan \in Wanted \ DOMAIN vlan
    BY <1>3, <1>5 DEF Needed
  <2>2. b.vlan \notin DOMAIN vlan'
    <3>1. a.op = "create" => a.vlan # b.vlan
      BY <1>2, <2>1 DEF Needed, Act
    <3> QED
      BY <2>1, <3>1 DEF Effect
  <2> QED
    BY <1>1, <1>5, <2>1, <2>2 DEF Needed
<1>6. CASE b.op = "tag"
  BY <1>1, <1>3, <1>4, <1>6 DEF Needed
<1>7. CASE b.op = "untag"
  BY <1>1, <1>3, <1>4, <1>7, OwnWanted DEF Needed
<1>8. CASE b.op = "pvid"
  <2>1. b.port \in Access /\ b.vlan = VlanId(Index, b.port) /\ b.vlan \in Wanted /\ b.vlan > 1
    BY <1>3, <1>8, OwnWanted, WantedType DEF Needed, TypeOK
  <2>2. CASE b.vlan \in DOMAIN vlan /\ b.port \in vlan[b.vlan].member
    <3>1. b.vlan \in DOMAIN vlan' /\ (a.op \in {"create", "exclude", "delete"} => b.vlan # a.vlan)
      BY <1>2, <2>1, <2>2 DEF Effect, Needed, Act
    <3>2. b.port \in vlan'[b.vlan].member
      <4>1. CASE b.vlan # a.vlan
        BY <2>2, <3>1, <4>1 DEF Effect
      <4>2. CASE b.vlan = a.vlan
        BY <1>2, <2>2, <3>1, <4>2 DEF Effect, Op
      <4> QED
        BY <4>1, <4>2
    <3> QED
      BY <1>1, <1>8, <2>1, <3>1, <3>2 DEF Needed
  <2>3. CASE Act("untag", b.vlan, b.port) \in todo
    <3>1. CASE a = Act("untag", b.vlan, b.port)
      BY <1>1, <1>8, <2>1, <3>1, Untagging DEF Needed, Act
    <3>2. CASE a # Act("untag", b.vlan, b.port)
      BY <1>1, <1>8, <2>1, <2>3, <3>2 DEF Needed
    <3> QED
      BY <3>1, <3>2
  <2> QED
    BY <1>3, <1>8, <2>2, <2>3 DEF Needed
<1>9. CASE b.op = "exclude"
  <2>1. 1 \in DOMAIN vlan' 
    <3>1. 1 \notin OwnRange
      BY DEF OwnRange
    <3> QED
      BY <1>2, <1>3, <1>9, <3>1 DEF Needed, Effect, Act
  <2> QED
    BY <1>1, <1>3, <1>9, <2>1 DEF Needed
<1>10. CASE b.op = "delete"
  <2>1. b = Act("delete", b.vlan, 0) /\ b.vlan \in (DOMAIN vlan \cap OwnRange) \ Wanted
    BY <1>3, <1>10 DEF Needed
  <2>2. b.vlan \in DOMAIN vlan'
    <3>1. a.op = "delete" => a.vlan # b.vlan
      BY <1>2, <2>1 DEF Needed, Act
    <3> QED
      BY <2>1, <3>1 DEF Effect
  <2> QED
    BY <1>1, <1>10, <2>1, <2>2 DEF Needed
<1> QED
  BY <1>3, <1>5, <1>6, <1>7, <1>8, <1>9, <1>10 DEF Op

LEMMA ActionPort ==
  ASSUME TypeOK, NEW a \in todo, Needed(a)
  PROVE  a.op \in Op /\ (a.op \in {"tag", "untag", "pvid", "exclude"} => a.port \in Port)
BY FileType DEF TypeOK, Needed

LEMMA Refused == TypeOK /\ NeededInv => NothingRefused
<1> SUFFICES ASSUME TypeOK, NeededInv, NEW a \in todo, Turn(a) PROVE Takes(a)
  BY DEF NothingRefused
<1>1. Needed(a) /\ a.op \in Op /\ \A b \in todo : b.op \in Op
  BY DEF NeededInv, TypeOK
<1>2. \A b \in todo : b.op \notin Earlier(a.op)
  BY <1>1, TurnMeans
<1>3. a.op \in {"tag", "untag"} => Act("create", a.vlan, 0) \notin todo
  BY <1>2 DEF Earlier, Act
<1>4. a.op = "pvid" => Act("untag", a.vlan, a.port) \notin todo
  BY <1>2 DEF Earlier, Act
<1> QED
  BY <1>1, <1>3, <1>4 DEF Needed, Takes, Op

LEMMA NeededInit == Init => TypeOK /\ NeededInv
<1> SUFFICES ASSUME Init PROVE TypeOK /\ NeededInv
  OBVIOUS
<1>1. DOMAIN vlan = {1, HouseVlan} /\ \A v \in DOMAIN vlan : vlan[v] \in [member : SUBSET Port, untagged : SUBSET Port]
  BY Numbers DEF Init
<1>2. pvid \in [Port -> Nat]
  BY DEF Init
<1> QED
  BY <1>1, <1>2, Numbers DEF Init, TypeOK, NeededInv

LEMMA NeededStep ==
  ASSUME TypeOK, NeededInv, [Next]_vars
  PROVE  TypeOK' /\ NeededInv'
<1>1. CASE UNCHANGED vars
  <2>1. TypeOK'
    BY <1>1 DEF vars, switch, TypeOK
  <2>2. \A a \in todo : Needed(a)' <=> Needed(a)
    BY <1>1 DEF vars, switch, Needed, Wanted, Access, Block, Behind
  <2> QED
    BY <1>1, <2>1, <2>2 DEF vars, NeededInv
<1>2. CASE Read
  <2>1. TypeOK'
    BY <1>2, DiffType DEF Read, switch, TypeOK
  <2> QED
    BY <1>2, <2>1, DiffNeeds DEF NeededInv
<1>3. CASE Apply
  <2>1. PICK a \in todo : Turn(a) /\ Takes(a) /\ Do(a) /\ todo' = todo \ {a}
    BY <1>3 DEF Apply
  <2>2. Effect(a)
    BY <2>1, DoEffect, ActionPort DEF NeededInv
  <2>3. TypeOK'
    BY <1>3, <2>1, <2>2, SwitchType DEF Apply, TypeOK, VlanType
  <2> QED
    BY <1>3, <2>1, <2>2, <2>3, NeededKept DEF Apply
<1>4. CASE Finish
  BY <1>4 DEF Finish, switch, TypeOK, NeededInv
<1>5. CASE Fails
  <2>1. CASE UNCHANGED switch
    BY <1>5, <2>1, Numbers DEF Fails, switch, TypeOK, NeededInv
  <2>2. ASSUME NEW a \in todo, Takes(a), Do(a) \/ HalfDo(a) PROVE TypeOK' /\ NeededInv'
    <3>1. Effect(a)
      BY <2>2, DoEffect, ActionPort DEF NeededInv
    <3> QED
      BY <1>5, <3>1, SwitchType, Numbers DEF Fails, TypeOK, VlanType, NeededInv
  <2> QED
    BY <1>5, <2>1, <2>2 DEF Fails
<1>6. CASE Edit
  BY <1>6, Numbers DEF Edit, switch, TypeOK, NeededInv
<1> QED
  BY <1>1, <1>2, <1>3, <1>4, <1>5, <1>6 DEF Next, Converge

(* The file, the switch and the plan of a run keep their types.            *)
THEOREM TypeCorrect == Spec => []TypeOK
BY NeededInit, NeededStep, PTL DEF Spec

(* No run ends because the switch or the library refuses an action, from   *)
(* whatever earlier runs left, for whatever files: a VLAN is there, and a  *)
(* port a member of it, when it comes to an action that needs it.          *)
THEOREM NoRefusal == Spec => []NothingRefused
BY NeededInit, NeededStep, Refused, PTL DEF Spec

-----------------------------------------------------------------------------
(* No port is stranded.                                                    *)

(* An edit of the file takes no port out of the access range.              *)
NoFewer == file[Index].access <= file'[Index].access

(* The ports are where they were, but for one that is moved to its VLAN.   *)
LEMMA Moves ==
  ASSUME TypeOK, NeededInv, MovedInv, run = "going", NEW a \in todo, Turn(a), Effect(a)
  PROVE  \A p \in Port : \/ pvid'[p] = pvid[p]
                         \/ a.op = "pvid" /\ p = a.port /\ p \in Access /\ pvid'[p] = VlanId(Index, p)
<1>1. Needed(a) /\ a.op \in Op /\ \A b \in todo : b.op \in Op
  BY DEF NeededInv, TypeOK
<1>2. CASE a.op = "pvid"
  BY <1>1, <1>2 DEF Effect, Needed, TypeOK
<1>3. CASE a.op = "delete"
  <2>1. \A p \in Access : pvid[p] = VlanId(Index, p)
    <3>1. \A p \in Access : Act("pvid", VlanId(Index, p), p) \notin todo
      BY <1>1, <1>3, TurnMeans DEF Earlier, Act
    <3> QED
      BY <3>1 DEF MovedInv
  <2>2. a.vlan \in OwnRange \ Wanted /\ 1 \notin OwnRange
    BY <1>1, <1>3 DEF Needed, OwnRange
  <2>3. \A p \in Port : pvid[p] # a.vlan
    BY <2>1, <2>2, OwnWanted DEF MovedInv
  <2> QED
    BY <1>3, <2>3 DEF Effect
<1> QED
  BY <1>1, <1>2, <1>3 DEF Effect, Op

LEMMA Unstranded ==
  ASSUME TypeOK, NeededInv, MovedInv, run = "going", NEW a \in todo, Turn(a), Takes(a), Effect(a)
  PROVE  NeverStranded' /\ \A p \in Port \ Access : pvid'[p] = 1
<1>1. Needed(a) /\ a.op \in Op /\ \A b \in todo : b.op \in Op
  BY DEF NeededInv, TypeOK
<1>2. \A p \in Port \ Access : pvid'[p] = 1
  BY Moves DEF MovedInv
<1>3. ASSUME NEW p \in Port PROVE pvid'[p] \in DOMAIN vlan' /\ p \in vlan'[pvid'[p]].member
  <2>1. pvid[p] \in DOMAIN vlan /\ p \in vlan[pvid[p]].member
    BY DEF MovedInv, NeverStranded
  <2>2. CASE a.op = "pvid"
    <3>1. vlan' = vlan /\ a.vlan \in DOMAIN vlan /\ a.port \in vlan[a.vlan].member
      BY <2>2 DEF Effect, Takes
    <3>2. a.vlan = VlanId(Index, a.port)
      BY <1>1, <2>2 DEF Needed
    <3>3. pvid'[p] = pvid[p] \/ (p = a.port /\ pvid'[p] = a.vlan)
      BY <3>2, Moves
    <3> QED
      BY <2>1, <3>1, <3>3
  <2>3. CASE a.op # "pvid"
    <3>1. pvid'[p] = pvid[p]
      BY <2>3, Moves
    <3>2. CASE a.op = "create"
      BY <2>1, <3>1, <3>2 DEF Effect, Takes
    <3>3. CASE a.op \in {"tag", "untag"}
      BY <2>1, <3>1, <3>3 DEF Effect
    <3>4. CASE a.op = "exclude"
      <4>1. a.port \in Access /\ a.vlan = 1
        BY <1>1, <3>4 DEF Needed
      <4>2. Act("pvid", VlanId(Index, a.port), a.port) \notin todo
        BY <1>1, <3>4, TurnMeans DEF Earlier, Act
      <4>3. pvid[a.port] > 1
        BY <4>1, <4>2, AccessVlan DEF MovedInv, TypeOK
      <4>4. pvid[p] = 1 => p # a.port
        BY <4>3
      <4> QED
        BY <2>1, <3>1, <3>4, <4>1, <4>4 DEF Effect
    <3>5. CASE a.op = "delete"
      <4>1. pvid[p] # a.vlan
        <5>1. CASE p \in Access
          <6>1. Act("pvid", VlanId(Index, p), p) \notin todo
            BY <1>1, <3>5, TurnMeans DEF Earlier, Act
          <6> QED
            BY <1>1, <3>5, <5>1, <6>1, OwnWanted DEF MovedInv, Needed
        <5>2. CASE p \notin Access
          BY <1>1, <3>5, <5>2 DEF MovedInv, Needed, OwnRange
        <5> QED
          BY <5>1, <5>2
      <4> QED
        BY <2>1, <3>1, <3>5, <4>1 DEF Effect
    <3> QED
      BY <1>1, <2>3, <3>2, <3>3, <3>4, <3>5 DEF Op
  <2> QED
    BY <2>2, <2>3
<1> QED
  BY <1>2, <1>3 DEF NeverStranded

LEMMA MovedInit == Init => MovedInv
BY Numbers DEF Init, MovedInv, NeverStranded

LEMMA MovedStep ==
  ASSUME TypeOK, NeededInv, MovedInv, [Next]_vars, [NoFewer]_vars
  PROVE  MovedInv'
<1>1. CASE UNCHANGED vars
  BY <1>1 DEF vars, switch, MovedInv, NeverStranded, Access
<1>2. CASE Read
  <2>1. \A p \in Access : pvid[p] = VlanId(Index, p) \/ Act("pvid", VlanId(Index, p), p) \in Diff
    BY DEF Diff, Pvids
  <2> QED
    BY <1>2, <2>1 DEF Read, switch, MovedInv, NeverStranded, Access
<1>3. CASE Apply
  <2>1. PICK a \in todo : Turn(a) /\ Takes(a) /\ Do(a) /\ todo' = todo \ {a}
    BY <1>3 DEF Apply
  <2>2. Effect(a) /\ run = "going" /\ Needed(a)
    BY <2>1, DoEffect, ActionPort DEF NeededInv, TypeOK
  <2>3. NeverStranded' /\ \A p \in Port \ Access : pvid'[p] = 1
    BY <2>1, <2>2, Unstranded
  <2>4. ASSUME NEW p \in Access
        PROVE  pvid'[p] = VlanId(Index, p) \/ Act("pvid", VlanId(Index, p), p) \in todo'
    <3>1. p \in Port
      BY FileType DEF TypeOK
    <3>2. CASE pvid[p] = VlanId(Index, p)
      BY <2>1, <2>2, <3>1, <3>2, Moves
    <3>3. CASE a = Act("pvid", VlanId(Index, p), p)
      BY <2>2, <3>1, <3>3 DEF Effect, Act, TypeOK
    <3>4. CASE a # Act("pvid", VlanId(Index, p), p) /\ Act("pvid", VlanId(Index, p), p) \in todo
      BY <2>1, <3>4
    <3> QED
      BY <2>2, <3>2, <3>3, <3>4 DEF MovedInv
  <2> QED
    BY <1>3, <2>3, <2>4 DEF Apply, MovedInv, Access
<1>4. CASE Finish
  BY <1>4 DEF Finish, switch, MovedInv, NeverStranded, Access
<1>5. CASE Fails
  <2>1. CASE UNCHANGED switch
    BY <1>5, <2>1 DEF Fails, switch, MovedInv, NeverStranded, Access
  <2>2. ASSUME NEW a \in todo, Turn(a), Takes(a), Do(a) \/ HalfDo(a) PROVE MovedInv'
    <3>1. Effect(a)
      BY <2>2, DoEffect, ActionPort DEF NeededInv
    <3>2. NeverStranded' /\ \A p \in Port \ Access : pvid'[p] = 1
      BY <1>5, <2>2, <3>1, Unstranded DEF Fails
    <3> QED
      BY <1>5, <3>2 DEF Fails, MovedInv, Access
  <2> QED
    BY <1>5, <2>1, <2>2 DEF Fails
<1>6. CASE Edit
  <2>1. Access \subseteq Access'
    <3>1. NoFewer
      BY <1>6 DEF Edit, vars
    <3>2. file[Index].access \in Nat /\ file'[Index].access \in Nat
      <4>1. \A f \in Files : f[Index].access \in Nat
        BY FilesAssumption, Numbers DEF FilesAssumption, SwitchSpec
      <4>2. file \in Files /\ file' \in Files
        BY <1>6 DEF Edit, TypeOK
      <4> QED
        BY <4>1, <4>2
    <3> QED
      BY <3>1, <3>2 DEF Access, NoFewer
  <2> QED
    BY <1>6, <2>1 DEF Edit, switch, MovedInv, NeverStranded
<1> QED
  BY <1>1, <1>2, <1>3, <1>4, <1>5, <1>6 DEF Next, Converge

(* As long as no edit takes a port out of the access range, every port is  *)
(* at every step a member of the VLAN its frames join, for any files,      *)
(* whatever runs fail and wherever.                                        *)
THEOREM NotStranded == Spec /\ [][NoFewer]_vars => []NeverStranded
<1>1. MovedInv => NeverStranded
  BY DEF MovedInv
<1> QED
  BY <1>1, NeededInit, NeededStep, MovedInit, MovedStep, PTL DEF Spec

-----------------------------------------------------------------------------
(* The path to the gateway, and what is not the tool's.                    *)

(* The switches file gives the gateway's trunk no other role.              *)
TrunkApart ==
  \A f \in Files : f[Index].trunk \notin f[Index].down /\ f[Index].access < f[Index].trunk

(* The trunk carries a VLAN tagged.                                        *)
Carried(v) == v \in DOMAIN vlan /\ file[Index].trunk \in TaggedPorts(v)

PathInv ==
  run = "going" => \A v \in Block(Index) : Carried(v) \/ Act("tag", v, file[Index].trunk) \in todo

LEMMA TrunkType ==
  ASSUME TypeOK, TrunkApart
  PROVE  /\ file[Index].trunk \in Port \ Access
         /\ file[Index].trunk \in DOMAIN Tagged /\ Tagged[file[Index].trunk] = Wanted
<1>1. file[Index].trunk \in Port /\ file[Index].trunk \notin file[Index].down /\ file[Index].access \in Nat
      /\ file[Index].access < file[Index].trunk
  BY FileType DEF TypeOK, TrunkApart
<1> QED
  BY <1>1, Numbers DEF Tagged, Access, Port

LEMMA Tagging ==
  ASSUME TypeOK, NEW a \in todo, Takes(a), Do(a), file' = file, TrunkApart,
         a.op = "tag", a.port = file[Index].trunk
  PROVE  Carried(a.vlan)'
BY DEF Do, Takes, Put, Carried, TaggedPorts

LEMMA CarriedKept ==
  ASSUME TypeOK, TrunkApart, NEW a \in todo, Needed(a), Takes(a), Do(a), Effect(a), file' = file,
         NEW v \in Block(Index), Carried(v)
  PROVE  Carried(v)'
<1>1. v \in Wanted /\ v > 1 /\ v \in DOMAIN vlan /\ file[Index].trunk \in vlan[v].member \ vlan[v].untagged
  BY WantedType DEF Carried, TaggedPorts, Wanted, TypeOK
<1>2. a.op \in Op
  BY DEF TypeOK
<1>3. CASE a.vlan # v \/ a.op = "pvid"
  <2>1. v \in DOMAIN vlan' /\ vlan'[v] = vlan[v]
    BY <1>1, <1>3 DEF Effect
  <2> QED
    BY <1>1, <2>1 DEF Carried, TaggedPorts
<1>4. CASE a.vlan = v /\ a.op \in {"tag", "untag"}
  <2>1. a.op = "untag" => a.port # file[Index].trunk
    BY TrunkType DEF Needed
  <2> QED
    BY <1>1, <1>4, <2>1 DEF Do, Put, Carried, TaggedPorts
<1>5. CASE a.vlan = v /\ a.op \in {"create", "exclude", "delete"}
  BY <1>1, <1>5 DEF Needed
<1> QED
  BY <1>2, <1>3, <1>4, <1>5 DEF Op

LEMMA PathStep ==
  ASSUME TrunkApart, TypeOK, NeededInv, PathInv, [Next]_vars
  PROVE  PathInv'
<1>1. CASE UNCHANGED vars
  BY <1>1 DEF vars, switch, PathInv, Carried, TaggedPorts, Block
<1>2. CASE Read
  <2>1. ASSUME NEW v \in Block(Index) PROVE Carried(v) \/ Act("tag", v, file[Index].trunk) \in Diff
    <3> DEFINE q == <<v, file[Index].trunk>>
    <3>1. q \in Wanted \X DOMAIN Tagged /\ q[1] \in Tagged[q[2]]
      BY TrunkType DEF Wanted
    <3>2. CASE ~Carried(v)
      BY <3>1, <3>2 DEF Carried, Diff, Tags
    <3> QED
      BY <3>2
  <2> QED
    BY <1>2, <2>1 DEF Read, switch, PathInv, Carried, TaggedPorts, Block
<1>3. CASE Apply
  <2>1. PICK a \in todo : Turn(a) /\ Takes(a) /\ Do(a) /\ todo' = todo \ {a}
    BY <1>3 DEF Apply
  <2>2. Effect(a) /\ run = "going" /\ Needed(a) /\ file' = file
    BY <1>3, <2>1, DoEffect, ActionPort DEF NeededInv, TypeOK, Apply
  <2>3. ASSUME NEW v \in Block(Index)
        PROVE  Carried(v)' \/ Act("tag", v, file[Index].trunk) \in todo'
    <3>1. CASE Carried(v)
      BY <2>1, <2>2, <3>1, CarriedKept
    <3>2. CASE a = Act("tag", v, file[Index].trunk)
      BY <2>1, <2>2, <3>2, Tagging DEF Act
    <3>3. CASE a # Act("tag", v, file[Index].trunk) /\ Act("tag", v, file[Index].trunk) \in todo
      BY <2>1, <3>3
    <3> QED
      BY <2>2, <3>1, <3>2, <3>3 DEF PathInv
  <2> QED
    BY <2>2, <2>3 DEF PathInv, Block
<1>4. CASE Finish \/ Fails \/ Edit
  BY <1>4 DEF Finish, Fails, Edit, PathInv
<1> QED
  BY <1>1, <1>2, <1>3, <1>4 DEF Next, Converge

(* Which steps write the switch, and what they write.                      *)
LEMMA Writes ==
  ASSUME TypeOK, NeededInv, Next
  PROVE  \/ UNCHANGED switch
         \/ \E a \in todo : run = "going" /\ Turn(a) /\ Takes(a) /\ Needed(a) /\ Effect(a)
<1>1. ASSUME NEW a \in todo, Takes(a), Do(a) \/ HalfDo(a) PROVE run = "going" /\ Needed(a) /\ Effect(a)
  BY <1>1, DoEffect, ActionPort DEF NeededInv, TypeOK
<1>2. CASE Apply
  BY <1>1, <1>2 DEF Apply
<1>3. CASE Fails
  BY <1>1, <1>3 DEF Fails
<1> QED
  BY <1>2, <1>3 DEF Next, Converge, Read, Finish, Edit

(* No port is moved to its own VLAN before the gateway's trunk carries it, *)
(* for any files in which that trunk has no other role and the access      *)
(* range never loses a port.                                               *)
THEOREM PathBeforeMove == TrunkApart => (Spec /\ [][NoFewer]_vars => PathFirst)
<1> SUFFICES ASSUME TrunkApart PROVE Spec /\ [][NoFewer]_vars => PathFirst
  OBVIOUS
<1> DEFINE There == \A p \in Port :
              pvid'[p] # pvid[p] => /\ pvid'[p] \in DOMAIN vlan
                                    /\ file[Index].trunk \in TaggedPorts(pvid'[p])
<1>1. ASSUME TypeOK, NeededInv, MovedInv, PathInv, [Next]_vars PROVE [There]_vars
  <2> SUFFICES ASSUME Next, NEW p \in Port, pvid'[p] # pvid[p]
               PROVE  pvid'[p] \in DOMAIN vlan /\ file[Index].trunk \in TaggedPorts(pvid'[p])
    BY <1>1
  <2>1. PICK a \in todo : run = "going" /\ Turn(a) /\ Takes(a) /\ Needed(a) /\ Effect(a)
    BY <1>1, Writes DEF switch
  <2>2. a.op = "pvid" /\ p \in Access /\ pvid'[p] = VlanId(Index, p)
    BY <1>1, <2>1, Moves
  <2>3. pvid'[p] \in Block(Index)
    BY <2>2 DEF Block, Access
  <2>4. a.op \in Op /\ \A b \in todo : b.op \in Op
    BY <1>1 DEF TypeOK
  <2>5. Act("tag", pvid'[p], file[Index].trunk) \notin todo
    BY <2>1, <2>2, <2>4, TurnMeans DEF Earlier, Act
  <2> QED
    BY <1>1, <2>1, <2>3, <2>5 DEF PathInv, Carried
<1>2. Init => PathInv
  BY DEF Init, PathInv
<1> QED
  BY <1>1, <1>2, NeededInit, NeededStep, MovedInit, MovedStep, PathStep, PTL DEF Spec, PathFirst

(* Every VLAN that a file asks for is one that the tool may delete.        *)
InRange == \A f \in Files : \A s \in DOMAIN f : \A p \in 1..f[s].access : VlanId(s, p) \in OwnRange

LEMMA WantedOwn == ASSUME InRange, file \in Files PROVE Wanted \subseteq OwnRange
<1>1. \A v \in Wanted : \E s \in DOMAIN file : v \in Block(s)
  BY FileType DEF Wanted, Behind
<1> QED
  BY <1>1 DEF InRange, Block

(* Only the tool's own VLANs, VLAN 1 for the access ports, and the access  *)
(* ports' PVIDs are ever written, for any files whose VLANs are in the     *)
(* tool's range and whose access range never loses a port.                 *)
THEOREM NothingElse == InRange => (Spec /\ [][NoFewer]_vars => OnlyItsOwn)
<1> SUFFICES ASSUME InRange PROVE Spec /\ [][NoFewer]_vars => OnlyItsOwn
  OBVIOUS
<1> DEFINE VlansKept == \A v \in (DOMAIN vlan \cup DOMAIN vlan') \ OwnRange :
                /\ v \in DOMAIN vlan /\ v \in DOMAIN vlan'
                /\ vlan[v] = vlan'[v] \/ (v = 1 /\ OnlyTaken(v))
           PvidsKept == \A p \in Port \ Access : pvid'[p] = pvid[p]
<1>1. ASSUME TypeOK, NeededInv, MovedInv, Next PROVE VlansKept /\ PvidsKept
  <2>1. CASE UNCHANGED switch
    BY <2>1 DEF switch
  <2>2. ASSUME NEW a \in todo, run = "going", Turn(a), Takes(a), Needed(a), Effect(a)
        PROVE  VlansKept /\ PvidsKept
    <3>1. PvidsKept
      BY <1>1, <2>2, Moves
    <3>2. a.op \in {"create", "tag", "untag", "delete"} => a.vlan \in OwnRange
      BY <1>1, <2>2, WantedOwn, OwnWanted DEF Needed, TypeOK
    <3>3. ASSUME NEW v \in (DOMAIN vlan \cup DOMAIN vlan') \ OwnRange
          PROVE  /\ v \in DOMAIN vlan /\ v \in DOMAIN vlan'
                 /\ vlan[v] = vlan'[v] \/ (v = 1 /\ OnlyTaken(v))
      <4>1. v \in DOMAIN vlan /\ v \in DOMAIN vlan'
        BY <2>2, <3>2, <3>3 DEF Effect
      <4>2. CASE v # a.vlan \/ a.op = "pvid"
        BY <2>2, <4>1, <4>2 DEF Effect
      <4>3. CASE v = a.vlan /\ a.op = "exclude"
        <5>1. v = 1 /\ a.port \in Access
          BY <2>2, <4>3 DEF Needed
        <5> QED
          BY <2>2, <4>3, <5>1 DEF Effect, OnlyTaken
      <4> QED
        BY <1>1, <3>2, <3>3, <4>1, <4>2, <4>3 DEF TypeOK, Op
    <3> QED
      BY <3>1, <3>3
  <2> QED
    BY <1>1, <2>1, <2>2, Writes
<1>2. ASSUME TypeOK, NeededInv, MovedInv, [Next]_vars PROVE [VlansKept /\ PvidsKept]_vars
  BY <1>1, <1>2
<1> QED
  BY <1>2, NeededInit, NeededStep, MovedInit, MovedStep, PTL DEF Spec, OnlyItsOwn

=============================================================================
