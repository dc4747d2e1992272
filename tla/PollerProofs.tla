---------------------------- MODULE PollerProofs ----------------------------
(***************************************************************************)
(* What TLAPS proves of Poller, for any number of switches and ports.      *)
(***************************************************************************)
EXTENDS Poller, TLAPS

(* The switches of a set of things to do have answered whole in this poll. *)
Answered(things) == \A c \in things : c.port \in Key /\ read_at[c.port[1]] = 0

(* Between two polls there is nothing to do; while the changes of a switch *)
(* are gone through, it is the one that has just been read.                *)
AnsweredInv ==
  /\ read_at \in [Switch -> Ages \cup {Never}] /\ sw \in Switch
  /\ pc = "changes" => read_at[sw] = 0
  /\ found # {} => pc = "changes"
  /\ \A c \in found : c.port \in Key /\ c.port[1] = sw
  /\ Answered(check) /\ Answered(due) /\ Answered(doing)
  /\ check # {} => pc \in {"read", "changes", "reconcile"}
  /\ due # {}   => pc = "due"
  /\ doing # {} => pc \in {"changes", "due"}

LEMMA Sizes == Switch \subseteq Nat /\ 1 \in Switch /\ 0 \in Ages /\ Ages \subseteq Nat
BY SizesAssumption, TimesAssumption DEF SizesAssumption, TimesAssumption, Switch, Ages, Long

LEMMA KeyOfSwitch == ASSUME NEW k \in Key PROVE k[1] \in Switch
BY DEF Key, Switch

LEMMA AnsweredInit == Init => AnsweredInv
<1> SUFFICES ASSUME Init PROVE AnsweredInv
  OBVIOUS
<1>1. read_at \in [Switch -> Ages \cup {Never}]
  BY DEF Init, NeverRead
<1> QED
  BY <1>1, Sizes DEF Init, AnsweredInv, Answered

(* After a switch, with what is to check.                                  *)
LEMMA NextSwitch ==
  ASSUME AnsweredInv, NEW checks, Answered(checks), AfterSwitch(checks), pc # "due",
         read_at' = read_at, found' = {}, due' = due, doing' = {}
  PROVE  AnsweredInv'
<1>1. sw' \in Switch /\ pc' \in {"read", "reconcile", "idle"} /\ check' = checks
      /\ (pc' = "idle" => checks = {})
  BY SizesAssumption, Sizes DEF AfterSwitch, AnsweredInv, Switch, SizesAssumption
<1> QED
  BY <1>1 DEF AnsweredInv, Answered

LEMMA AnsweredStep == AnsweredInv /\ [Next]_vars => AnsweredInv'
<1> SUFFICES ASSUME AnsweredInv, [Next]_vars PROVE AnsweredInv'
  OBVIOUS
<1> USE DEF AnsweredInv, Answered
<1>1. CASE UNCHANGED vars
  BY <1>1 DEF vars, memory, poll
<1>2. CASE StartPoll
  <2>1. \A s \in Switch : Older(read_at[s]) \in Ages \cup {Never}
    BY TimesAssumption DEF TimesAssumption, Older, Ages, Never, Long, Min2
  <2>2. read_at' \in [Switch -> Ages \cup {Never}]
    BY <1>2, <2>1 DEF StartPoll
  <2> QED
    BY <1>2, <2>2, Sizes DEF StartPoll
<1>3. CASE Unread
  <2>1. found = {} /\ doing = {} /\ pc # "due"
    BY <1>3 DEF Unread
  <2> QED
    BY <1>3, <2>1, NextSwitch DEF Unread, memory
<1>4. CASE Read
  <2>1. \A c \in found' : c.port \in Key /\ c.port[1] = sw
    BY <1>4 DEF Read
  <2>2. read_at' \in [Switch -> Ages \cup {Never}] /\ read_at'[sw] = 0
    BY <1>4, Sizes DEF Read
  <2>3. Answered(check)' /\ check' = check /\ due' = due /\ doing' = doing
    BY <1>4, Sizes, KeyOfSwitch DEF Read
  <2> QED
    BY <1>4, <2>1, <2>2, <2>3 DEF Read
<1>5. CASE Change
  <2>1. PICK c \in found :
          /\ found' = found \ {c}
          /\ check' = IF c.link # "bounced" THEN check
                      ELSE check \cup {[port |-> c.port, since |-> BounceSince, cause |-> "link-down"]}
          /\ IF c.link = "down" THEN Start([port |-> c.port, since |-> 0, cause |-> "link-down"])
             ELSE UNCHANGED doing
    BY <1>5 DEF Change
  <2>2. c.port \in Key /\ read_at[c.port[1]] = 0 /\ pc = "changes" /\ doing = {}
    BY <1>5, <2>1 DEF Change
  <2>3. Answered(check') /\ Answered(doing')
    BY <2>1, <2>2 DEF Start
  <2>4. /\ read_at' = read_at /\ sw' = sw /\ pc' = pc /\ due' = due
    BY <1>5 DEF Change, memory
  <2> QED
    BY <2>1, <2>2, <2>3, <2>4
<1>6. CASE Watch
  <2> DEFINE checks == check \cup {[port |-> k, since |-> down_since[k], cause |-> "down-port"] :
                                   k \in {q \in Key : DownHere(q) /\ Reconciles(q)}}
  <2>1. pc = "changes" /\ doing' = {} /\ found' = {} /\ due' = due /\ read_at' = read_at /\ AfterSwitch(checks)
    BY <1>6 DEF Watch
  <2>2. Answered(checks)
    BY <2>1 DEF DownHere
  <2> HIDE DEF checks
  <2> QED
    BY <2>1, <2>2, NextSwitch
<1>7. ASSUME NEW seen, Tables(seen)
      PROVE  AnsweredInv'
  BY <1>7 DEF Tables, memory
<1>8. CASE TablesFail
  BY <1>8 DEF TablesFail, memory
<1>9. CASE Due
  <2>1. pc = "due" /\ doing = {} /\ UNCHANGED <<read_at, sw, found, check>>
    BY <1>9 DEF Due, memory
  <2>2. CASE due = {} /\ pc' = "idle" /\ UNCHANGED <<due, doing>>
    BY <2>1, <2>2
  <2>3. CASE \E c \in due : Start(c) /\ due' = due \ {c} /\ UNCHANGED pc
    BY <2>1, <2>3 DEF Start
  <2> QED
    BY <1>9, <2>2, <2>3 DEF Due
<1>10. ASSUME NEW k \in Key, Released(k) \/ ReleaseFails(k)
       PROVE  AnsweredInv'
  BY <1>10 DEF Released, ReleaseFails, memory
<1>11. CASE Restart
  <2>1. read_at' \in [Switch -> Ages \cup {Never}]
    BY <1>11 DEF Restart, NeverRead
  <2> QED
    BY <1>11, <2>1, Sizes DEF Restart
<1>12. CASE \E k \in Key : LinkChange(k) \/ \E f \in Family : Grant(k, f)
  BY <1>12 DEF LinkChange, Grant, memory, poll
<1>13. CASE \E s \in Switch : Reboot(s) \/ Wrap(s)
  BY <1>13 DEF Reboot, Wrap, memory, poll
<1> QED
  BY <1>1, <1>2, <1>3, <1>4, <1>5, <1>6, <1>7, <1>8, <1>9, <1>10, <1>11, <1>12, <1>13
     DEF Next, Step, Around, SomeMissed

(* Nothing is ever released for a switch that has not answered whole in    *)
(* the poll that is running, whatever else fails or happens meanwhile.     *)
THEOREM NotBlind == Spec => []NeverBlind
<1>1. AnsweredInv => NeverBlind
  BY DEF AnsweredInv, Answered, NeverBlind
<1> QED
  BY <1>1, AnsweredInit, AnsweredStep, PTL DEF Spec

-----------------------------------------------------------------------------
(* Types.                                                                  *)

USE SizesAssumption, TimesAssumption, OpersAssumption, UpsetsAssumption

LEMMA Sorts ==
  /\ 0 \in Ages /\ 0 \in Leases /\ NoLease \in Leases /\ 1 \in Switch
  /\ "up" \in Opers /\ "down" \in Opers
  /\ \A k \in Key : k[1] \in Switch /\ k[2] \in 1..Ports
  /\ \A s \in Switch, p \in 1..Ports : <<s, p>> \in Key
BY DEF Ages, Leases, NoLease, Endless, Long, Switch, Key

LEMMA OlderType ==
  ASSUME NEW age \in Ages \cup {Never}
  PROVE  /\ Older(age) \in Ages \cup {Never}
         /\ Older(age) = Never <=> age = Never
         /\ age # Never => Older(age) = IF age + 1 > Long THEN Long ELSE age + 1
BY DEF Older, Ages, Never, Long, Min2

LEMMA OlderLeaseType ==
  ASSUME NEW age \in Leases
  PROVE  /\ OlderLease(age) \in Leases
         /\ OlderLease(age) \in {NoLease, age, age + 1}
         /\ age \in 0..Life => OlderLease(age) \in {NoLease, age + 1}
BY DEF OlderLease, Leases, NoLease, Endless

LEMMA AfterType ==
  ASSUME NEW w \in 0..MaxBackoff
  PROVE  After(w) \in 1..MaxBackoff
BY DEF After, Min2

LEMMA TypeInit == Init => TypeOK
<1> SUFFICES ASSUME Init PROVE TypeOK
  OBVIOUS
<1>1. oper \in [Key -> Opers] /\ moved \in [Key -> BOOLEAN] /\ back \in [Switch -> BOOLEAN]
  BY Sorts DEF Init, NotMoved
<1>2. lease \in [Key -> [Family -> Leases]]
  BY DEF Init, Leases, NoLease, Endless
<1>3. early \in [Key -> [Family -> BOOLEAN]] /\ fresh \in [Key -> [Family -> BOOLEAN]]
  BY DEF Init, Neither
<1>4. /\ read_at \in [Switch -> Ages \cup {Never}]
      /\ known \in [Key -> Links \cup {"none"}]
      /\ down_polls \in [Key -> 0..2] /\ down_since \in [Key -> Ages \cup {Never}]
  BY Sorts DEF Init, NeverRead, NoneKnown, Zero, NeverDown
<1>5. wait \in [Key -> 0..MaxBackoff] /\ retry_in \in [Key -> 0..MaxBackoff]
  BY DEF Init, Zero
<1>6. oper_read \in [1..Ports -> AllOpers] /\ site \in [Key -> Links \cup {"none"}]
  BY DEF Init, NothingRead, NoneKnown, AllOpers
<1> QED
  BY <1>1, <1>2, <1>3, <1>4, <1>5, <1>6, Sorts DEF Init, TypeOK

(* What follows a switch.                                                  *)
LEMMA AfterSwitchType ==
  ASSUME sw \in Switch, NEW checks \in SUBSET Check, AfterSwitch(checks)
  PROVE  /\ pc' \in {"idle", "read", "reconcile"} /\ sw' \in Switch /\ check' \subseteq Check
         /\ oper_read' \in [1..Ports -> AllOpers] /\ since_was' \in Ages \cup {Never}
BY DEF AfterSwitch, Switch, NothingRead, AllOpers

(* What is reconciled has a time to compare with: a change is found only   *)
(* after an earlier reading, and a port that was read down has the time of *)
(* its first down reading.                                                 *)
TimesInv ==
  /\ found # {} => since_was # Never
  /\ \A k \in Key : down_since[k] = Never => down_polls[k] = 0

LEMMA TimesInit == Init => TimesInv
BY DEF Init, TimesInv, Zero

LEMMA TimesStep == TypeOK /\ AnsweredInv /\ TimesInv /\ [Next]_vars => TimesInv'
<1> SUFFICES ASSUME TypeOK, AnsweredInv, TimesInv, [Next]_vars PROVE TimesInv'
  OBVIOUS
<1> USE DEF TypeOK, TimesInv
<1>1. CASE UNCHANGED vars
  BY <1>1 DEF vars, memory, poll
<1>2. CASE StartPoll
  BY <1>2, OlderType DEF StartPoll
<1>3. CASE Unread
  BY <1>3 DEF Unread, memory, AnsweredInv
<1>4. CASE Read
  BY <1>4 DEF Read
<1>5. CASE Change
  BY <1>5 DEF Change, memory
<1>6. CASE Watch
  <2>1. \A k \in Key : down_since'[k] = Never => down_polls'[k] = 0
    BY <1>6 DEF Watch, Never
  <2> QED
    BY <1>6, <2>1 DEF Watch
<1>7. ASSUME NEW seen, Tables(seen)
      PROVE  TimesInv'
  BY <1>7 DEF Tables, memory
<1>8. CASE TablesFail
  BY <1>8 DEF TablesFail, memory
<1>9. CASE Due
  BY <1>9 DEF Due, memory
<1>10. ASSUME NEW k \in Key, Released(k) \/ ReleaseFails(k)
       PROVE  TimesInv'
  BY <1>10 DEF Released, ReleaseFails, memory
<1>11. CASE Restart
  BY <1>11 DEF Restart, Zero
<1>12. CASE Around /\ ~Restart
  BY <1>12 DEF Around, LinkChange, Grant, Reboot, Wrap, memory, poll
<1> QED
  BY <1>1, <1>2, <1>3, <1>4, <1>5, <1>6, <1>7, <1>8, <1>9, <1>10, <1>11, <1>12
     DEF Next, Step, SomeMissed

LEMMA TypeStep == TypeOK /\ TimesInv /\ [Next]_vars => TypeOK'
<1> SUFFICES ASSUME TypeOK, TimesInv, [Next]_vars PROVE TypeOK'
  OBVIOUS
<1> USE DEF TypeOK
<1>1. CASE UNCHANGED vars
  BY <1>1 DEF vars, world, leases, memory, backoff, poll
<1>2. CASE StartPoll
  <2> USE <1>2 DEF StartPoll, world
  <2>1. lease' \in [Key -> [Family -> Leases]]
    BY OlderLeaseType
  <2>2. read_at' \in [Switch -> Ages \cup {Never}] /\ down_since' \in [Key -> Ages \cup {Never}]
    BY OlderType
  <2>3. retry_in' \in [Key -> 0..MaxBackoff]
    OBVIOUS
  <2>4. early' \in [Key -> [Family -> BOOLEAN]] /\ fresh' \in [Key -> [Family -> BOOLEAN]]
    OBVIOUS
  <2> QED
    BY <2>1, <2>2, <2>3, <2>4, Sorts
<1>3. CASE Unread
  BY <1>3, AfterSwitchType DEF Unread, world, leases, memory, backoff
<1>4. CASE Read
  <2> USE <1>4 DEF Read, leases, backoff
  <2>1. found' \subseteq [port : Key, link : Links \cup {"bounced"}]
    BY DEF ChangeOf, Links
  <2>2. known' \in [Key -> Links \cup {"none"}] /\ moved' \in [Key -> BOOLEAN]
    BY DEF KnownAfter, Here
  <2>3. site' \in [Key -> Links \cup {"none"}]
    BY DEF Here
  <2>4. back' \in [Switch -> BOOLEAN] /\ read_at' \in [Switch -> Ages \cup {Never}]
    BY Sorts
  <2>5. oper_read' \in [1..Ports -> AllOpers] /\ since_was' \in Ages \cup {Never}
    BY Sorts
  <2> QED
    BY <2>1, <2>2, <2>3, <2>4, <2>5
<1>5. CASE Change
  <2>1. PICK c \in found :
          /\ found' = found \ {c}
          /\ site' = IF c.link = "bounced" THEN site ELSE [site EXCEPT ![c.port] = c.link]
          /\ check' = IF c.link # "bounced" THEN check
                      ELSE check \cup {[port |-> c.port, since |-> BounceSince, cause |-> "link-down"]}
          /\ IF c.link = "down" THEN Start([port |-> c.port, since |-> 0, cause |-> "link-down"])
             ELSE UNCHANGED doing
    BY <1>5 DEF Change
  <2>2. c.port \in Key /\ c.link \in Links \cup {"bounced"}
    OBVIOUS
  <2>3. site' \in [Key -> Links \cup {"none"}]
    BY <2>1, <2>2
  <2>4. check' \subseteq Check
    BY <2>1, <2>2 DEF Check, Causes, BounceSince, TimesInv
  <2>5. doing' \subseteq Check
    BY <2>1, <2>2, Sorts DEF Check, Causes, Start
  <2> QED
    BY <1>5, <2>1, <2>3, <2>4, <2>5 DEF Change, world, leases, memory, backoff
<1>6. CASE Watch
  <2> DEFINE checks == check \cup {[port |-> k, since |-> down_since[k], cause |-> "down-port"] :
                                   k \in {q \in Key : DownHere(q) /\ Reconciles(q)}}
  <2>1. AfterSwitch(checks)
    BY <1>6 DEF Watch
  <2>2. checks \in SUBSET Check
    BY DEF Check, Causes, Reconciles, TimesInv
  <2> HIDE DEF checks
  <2>3. /\ pc' \in {"idle", "read", "reconcile"} /\ sw' \in Switch /\ check' \subseteq Check
        /\ oper_read' \in [1..Ports -> AllOpers] /\ since_was' \in Ages \cup {Never}
    BY <2>1, <2>2, AfterSwitchType
  <2>4. down_polls' \in [Key -> 0..2]
    BY <1>6 DEF Watch, Min2
  <2>5. down_since' \in [Key -> Ages \cup {Never}]
    BY <1>6, Sorts DEF Watch
  <2> QED
    BY <1>6, <2>3, <2>4, <2>5 DEF Watch, world, leases, backoff
<1>7. ASSUME NEW seen, Tables(seen)
      PROVE  TypeOK'
  BY <1>7 DEF Tables, world, leases, memory, backoff
<1>8. CASE TablesFail
  BY <1>8 DEF TablesFail, world, leases, memory, backoff
<1>9. CASE Due
  <2>1. /\ due' \subseteq due /\ doing' \subseteq due \cup doing /\ pc' \in {"idle", "due"}
    BY <1>9 DEF Due, Start
  <2> QED
    BY <1>9, <2>1 DEF Due, world, leases, memory, backoff
<1>10. ASSUME NEW k \in Key, Released(k) \/ ReleaseFails(k)
       PROVE  TypeOK'
  <2>1. lease' \in [Key -> [Family -> Leases]]
    <3>1. [f \in Family |-> NoLease] \in [Family -> Leases]
      BY Sorts
    <3>2. Deleted(k) \/ lease' = lease
      BY <1>10 DEF Released, ReleaseFails, leases
    <3> QED
      BY <3>1, <3>2 DEF Deleted
  <2>2. wait' \in [Key -> 0..MaxBackoff] /\ retry_in' \in [Key -> 0..MaxBackoff]
    <3>1. CASE Released(k)
      BY <3>1 DEF Released
    <3>2. CASE ReleaseFails(k)
      <4>1. After(wait[k]) \in 0..MaxBackoff
        BY AfterType
      <4> QED
        BY <3>2, <4>1 DEF ReleaseFails
    <3> QED
      BY <1>10, <3>1, <3>2
  <2>3. early' \in [Key -> [Family -> BOOLEAN]] /\ fresh' \in [Key -> [Family -> BOOLEAN]]
    <3>1. Neither \in [Family -> BOOLEAN]
      BY DEF Neither
    <3>2. Deleted(k) \/ UNCHANGED <<early, fresh>>
      BY <1>10 DEF Released, ReleaseFails, leases
    <3>3. early \in [Key -> [Family -> BOOLEAN]] /\ fresh \in [Key -> [Family -> BOOLEAN]]
      BY DEF TypeOK
    <3>4. CASE Deleted(k)
      <4>1. early' = [early EXCEPT ![k] = Neither] /\ fresh' = [fresh EXCEPT ![k] = Neither]
        BY <3>4 DEF Deleted
      <4> QED
        BY <3>1, <3>3, <4>1
    <3> QED
      BY <3>2, <3>3, <3>4
  <2> QED
    BY <1>10, <2>1, <2>2, <2>3 DEF Released, ReleaseFails, world, memory
<1>11. CASE Restart
  <2>1. /\ read_at' \in [Switch -> Ages \cup {Never}]
        /\ known' \in [Key -> Links \cup {"none"}] /\ moved' \in [Key -> BOOLEAN]
        /\ site' \in [Key -> Links \cup {"none"}]
        /\ down_polls' \in [Key -> 0..2] /\ down_since' \in [Key -> Ages \cup {Never}]
        /\ wait' \in [Key -> 0..MaxBackoff] /\ retry_in' \in [Key -> 0..MaxBackoff]
        /\ oper_read' \in [1..Ports -> AllOpers]
    BY <1>11, Sorts DEF Restart, NeverRead, NoneKnown, NotMoved, Zero, NeverDown, NothingRead, AllOpers
  <2> QED
    BY <1>11, <2>1, Sorts DEF Restart, leases
<1>12. ASSUME NEW k \in Key, LinkChange(k)
       PROVE  TypeOK'
  <2>1. moved' \in [Key -> BOOLEAN]
    BY <1>12 DEF LinkChange
  <2>2. oper' \in [Key -> Opers] /\ fresh' \in [Key -> [Family -> BOOLEAN]]
    BY <1>12 DEF LinkChange, Neither
  <2> QED
    BY <1>12, <2>1, <2>2 DEF LinkChange, memory, backoff, poll
<1>13. ASSUME NEW k \in Key, NEW f \in Family, Grant(k, f)
       PROVE  TypeOK'
  <2>1. lease' \in [Key -> [Family -> Leases]]
    BY <1>13, Sorts DEF Grant
  <2>2. early' \in [Key -> [Family -> BOOLEAN]] /\ fresh' \in [Key -> [Family -> BOOLEAN]]
    BY <1>13 DEF Grant
  <2> QED
    BY <1>13, <2>1, <2>2 DEF Grant, world, memory, backoff, poll
<1>14. ASSUME NEW s \in Switch, Reboot(s)
       PROVE  TypeOK'
  <2>1. oper' \in [Key -> Opers] /\ moved' \in [Key -> BOOLEAN] /\ back' \in [Switch -> BOOLEAN]
    BY <1>14, Sorts DEF Reboot
  <2>2. fresh' \in [Key -> [Family -> BOOLEAN]]
    BY <1>14 DEF Reboot, Neither
  <2> QED
    BY <1>14, <2>1, <2>2 DEF Reboot, memory, backoff, poll
<1>15. ASSUME NEW s \in Switch, Wrap(s)
       PROVE  TypeOK'
  BY <1>15 DEF Wrap, leases, memory, backoff, poll
<1> QED
  BY <1>1, <1>2, <1>3, <1>4, <1>5, <1>6, <1>7, <1>8, <1>9, <1>10, <1>11, <1>12, <1>13, <1>14,
     <1>15 DEF Next, Step, Around, SomeMissed

LEMMA Sound == Spec => [](TypeOK /\ AnsweredInv /\ TimesInv)
<1>1. Init => TypeOK /\ AnsweredInv /\ TimesInv
  BY TypeInit, AnsweredInit, TimesInit
<1>2. TypeOK /\ AnsweredInv /\ TimesInv /\ [Next]_vars => (TypeOK /\ AnsweredInv /\ TimesInv)'
  BY TypeStep, AnsweredStep, TimesStep
<1> QED
  BY <1>1, <1>2, PTL DEF Spec

(* Every variable keeps its type: a check has a time to compare with, and  *)
(* no port waits longer than MAX_BACKOFF_POLLS.                            *)
THEOREM TypeCorrect == Spec => []TypeOK
BY Sound, PTL

-----------------------------------------------------------------------------
(* Leases.  A lease a board took since its link last came up is no older   *)
(* than the time the port is reconciled with, so only a grant the code     *)
(* cannot place (in this poll, or in the second a poll began) is released. *)

Within(k, since) == \A f \in Family : fresh[k][f] => lease[k][f] <= since

Spent(k) == (\E f \in Family : lease[k][f] # NoLease) => \E f \in Family : MayGo(k, f)

(* A link that changed since its switch was last read has lost what it had *)
(* been granted before.                                                    *)
SinceRead(k) ==
  oper[k] \in Links /\ moved[k] /\ read_at[k[1]] # Never
    => Within(k, read_at[k[1]])

FreshPort(k) ==
  /\ oper[k] # "up" => \A f \in Family : ~fresh[k][f]
  /\ SinceRead(k)
  /\ down_since[k] # Never => Within(k, down_since[k])
  /\ pc = "changes" /\ DownHere(k) => Within(k, 0)

FreshFound(c) ==
  /\ c.link = "bounced" => Within(c.port, since_was)
  /\ c.link = "down"    => Within(c.port, 0)

FreshToDo ==
  /\ \A c \in found : FreshFound(c)
  /\ \A c \in check : Within(c.port, c.since)
  /\ \A c \in due \cup doing : Spent(c.port)

FreshInv ==
  /\ \A k \in Key : FreshPort(k)
  /\ FreshToDo
  /\ \A c, d \in doing : c = d

LEMMA FreshInit == Init => FreshInv
<1> SUFFICES ASSUME Init PROVE FreshInv
  OBVIOUS
<1>1. ASSUME NEW k \in Key PROVE FreshPort(k)
  <2>1. k[1] \in Switch
    BY Sorts
  <2> QED
    BY <2>1 DEF Init, FreshPort, SinceRead, NeverRead, NeverDown
<1> QED
  BY <1>1 DEF Init, FreshInv, FreshToDo

(* What keeps Within and Spent: a port whose link and leases are left as   *)
(* they are, whose leases are all released, or whose board takes a new one.*)
Calmer(k) ==
  /\ \A f \in Family :
       fresh'[k][f] => \/ fresh[k][f] /\ lease'[k][f] = lease[k][f] /\ early'[k][f] = early[k][f]
                      \/ lease'[k][f] \in {NoLease, 0}
  /\ \/ \A f \in Family : lease'[k][f] = NoLease
     \/ \A f \in Family : lease'[k][f] = NoLease => lease[k][f] = NoLease

LEMMA CalmerKeeps ==
  ASSUME TypeOK, NEW k \in Key, Calmer(k)
  PROVE  /\ \A since \in Ages : Within(k, since) => Within(k, since)'
         /\ Spent(k) => Spent(k)'
<1>1. ASSUME NEW since \in Ages, Within(k, since)
      PROVE  Within(k, since)'
  <2> SUFFICES ASSUME NEW f \in Family, fresh'[k][f]
               PROVE  lease'[k][f] <= since
    BY DEF Within
  <2> QED
    BY <1>1 DEF Calmer, Within, Ages, NoLease
<1>2. ASSUME Spent(k)
      PROVE  Spent(k)'
  <2> SUFFICES ASSUME NEW g \in Family, lease'[k][g] # NoLease
               PROVE  \E f \in Family : MayGo(k, f)'
    BY DEF Spent
  <2>1. \A f \in Family : lease'[k][f] = NoLease => lease[k][f] = NoLease
    BY DEF Calmer
  <2>2. CASE \E f \in Family : lease[k][f] # NoLease
    <3>1. PICK f \in Family : MayGo(k, f)
      BY <1>2, <2>2 DEF Spent
    <3>2. lease'[k][f] # NoLease
      BY <2>1, <3>1 DEF MayGo
    <3>3. MayGo(k, f)'
      BY <3>1, <3>2, Zenon DEF MayGo, Calmer
    <3> QED
      BY <3>3
  <2>3. CASE \A f \in Family : lease[k][f] = NoLease
    <3>1. fresh'[k][g] => lease'[k][g] = 0
      BY <2>3, Zenon DEF Calmer
    <3>2. MayGo(k, g)'
      BY <3>1 DEF MayGo
    <3> QED
      BY <3>2
  <2> QED
    BY <2>2, <2>3
<1> QED
  BY <1>1, <1>2

(* Within one poll nothing but the world and the leases changes, and what  *)
(* the poller knows of times does not.                                     *)
LEMMA CalmerPort ==
  ASSUME TypeOK, NEW k \in Key, FreshPort(k), Calmer(k),
         UNCHANGED <<read_at, down_since>>,
         pc' = "changes" => UNCHANGED <<pc, sw, oper_read>>,
         \/ oper'[k] = oper[k] /\ moved'[k] = moved[k]
            /\ (oper[k] = "up" \/ \A f \in Family : fresh'[k][f] => fresh[k][f])
         \/ \A f \in Family : ~fresh'[k][f]
  PROVE  FreshPort(k)'
<1>1. k[1] \in Switch /\ 0 \in Ages
  BY Sorts
<1>2. \A since \in Ages : Within(k, since) => Within(k, since)'
  BY CalmerKeeps
<1>3. (oper'[k] # "up" => \A f \in Family : ~fresh'[k][f])
  BY DEF FreshPort
<1>4. SinceRead(k)'
  <2>1. CASE \A f \in Family : ~fresh'[k][f]
    BY <2>1 DEF SinceRead, Within
  <2>2. CASE oper'[k] = oper[k] /\ moved'[k] = moved[k]
    <3>1. read_at[k[1]] \in Ages \cup {Never}
      BY <1>1 DEF TypeOK
    <3>2. SinceRead(k)
      BY DEF FreshPort
    <3>3. CASE read_at[k[1]] = Never
      BY <3>3 DEF SinceRead
    <3>4. CASE read_at[k[1]] \in Ages
      <4>1. Within(k, read_at[k[1]]) => Within(k, read_at[k[1]])'
        BY <1>2, <3>4 DEF Within
      <4> QED
        BY <2>2, <3>2, <4>1 DEF SinceRead
    <3> QED
      BY <3>1, <3>3, <3>4
  <2> QED
    BY <2>1, <2>2
<1>5. down_since'[k] # Never => Within(k, down_since[k])'
  <2>1. down_since[k] \in Ages \cup {Never}
    BY DEF TypeOK
  <2> QED
    BY <1>2, <2>1 DEF FreshPort, Within
<1>6. pc' = "changes" /\ DownHere(k)' => Within(k, 0)'
  BY <1>1, <1>2 DEF FreshPort, DownHere
<1> QED
  BY <1>3, <1>4, <1>5, <1>6 DEF FreshPort

(* What is still to be done stays as good as it was.                       *)
LEMMA CalmerToDo ==
  ASSUME TypeOK, TimesInv, FreshToDo, \A k \in Key : Calmer(k), since_was' = since_was \/ found' = {},
         found' \subseteq found, check' \subseteq check, due' \cup doing' \subseteq due \cup doing
  PROVE  FreshToDo'
<1>1. ASSUME NEW c \in found' PROVE FreshFound(c)'
  <2>1. c \in found /\ c.port \in Key /\ since_was \in Ages /\ 0 \in Ages /\ since_was' = since_was
    BY Sorts DEF TypeOK, TimesInv
  <2> QED
    BY <2>1, CalmerKeeps DEF FreshToDo, FreshFound, Within
<1>2. ASSUME NEW c \in check' PROVE Within(c.port, c.since)'
  <2>1. c \in check /\ c.port \in Key /\ c.since \in Ages
    BY DEF TypeOK, Check
  <2> QED
    BY <2>1, CalmerKeeps DEF FreshToDo, Within
<1>3. ASSUME NEW c \in due' \cup doing' PROVE Spent(c.port)'
  <2>1. c \in due \cup doing /\ c.port \in Key
    BY DEF TypeOK, Check
  <2> QED
    BY <2>1, CalmerKeeps DEF FreshToDo
<1> QED
  BY <1>1, <1>2, <1>3 DEF FreshToDo

(* A poll later everything is a poll older, or gone.                       *)
LEMMA Ageing ==
  ASSUME TypeOK, StartPoll, NEW k \in Key, NEW since \in Ages, Within(k, since)
  PROVE  \A f \in Family : fresh'[k][f] => lease'[k][f] <= Older(since)
<1> SUFFICES ASSUME NEW f \in Family, fresh'[k][f]
             PROVE  lease'[k][f] <= Older(since)
  OBVIOUS
<1>1. lease[k][f] \in Leases /\ lease[k][f] <= since /\ lease'[k][f] = OlderLease(lease[k][f])
  BY DEF TypeOK, StartPoll, Within
<1>2. OlderLease(lease[k][f]) \in {NoLease, lease[k][f], lease[k][f] + 1}
      /\ (lease[k][f] \in 0..Life => OlderLease(lease[k][f]) \in {NoLease, lease[k][f] + 1})
  BY <1>1, OlderLeaseType
<1>3. OlderLease(lease[k][f]) # Life + 1
  BY <1>1 DEF OlderLease, Leases, NoLease, Endless
<1>4. since \in 0..(Life + 1) /\ Older(since) = IF since + 1 > Life + 1 THEN Life + 1 ELSE since + 1
  BY OlderType DEF Ages, Never, Long
<1> QED
  BY <1>1, <1>2, <1>3, <1>4 DEF Leases, NoLease, Endless

(* Steps that leave the poller's times and the reading it is at alone.     *)
LEMMA FreshCalm ==
  ASSUME TypeOK, TimesInv, FreshInv,
         UNCHANGED <<read_at, down_since>>,
         pc' = "changes" => UNCHANGED <<pc, sw, oper_read>>,
         since_was' = since_was \/ found' = {},
         found' \subseteq found, check' \subseteq check, due' \cup doing' \subseteq due \cup doing,
         \A c, d \in doing' : c = d,
         \A k \in Key :
           /\ Calmer(k)
           /\ \/ oper'[k] = oper[k] /\ moved'[k] = moved[k]
                 /\ (oper[k] = "up" \/ \A f \in Family : fresh'[k][f] => fresh[k][f])
              \/ \A f \in Family : ~fresh'[k][f]
  PROVE  FreshInv'
<1>1. ASSUME NEW k \in Key PROVE FreshPort(k)'
  BY CalmerPort DEF FreshInv
<1>2. FreshToDo'
  BY CalmerToDo DEF FreshInv
<1> QED
  BY <1>1, <1>2 DEF FreshInv

(* The same, of a step that leaves the links and the leases alone too.     *)
LEMMA StillCalm ==
  ASSUME UNCHANGED world, UNCHANGED leases
  PROVE  \A k \in Key :
           /\ Calmer(k)
           /\ oper'[k] = oper[k] /\ moved'[k] = moved[k]
           /\ \A f \in Family : fresh'[k][f] => fresh[k][f]
BY DEF world, leases, Calmer

LEMMA FreshStep ==
  TypeOK /\ AnsweredInv /\ TimesInv /\ FreshInv /\ [Next]_vars => FreshInv'
<1> SUFFICES ASSUME TypeOK, AnsweredInv, TimesInv, FreshInv, [Next]_vars
             PROVE  FreshInv'
  OBVIOUS
<1>1. CASE UNCHANGED vars
  BY <1>1, FreshCalm, StillCalm DEF vars, memory, poll, FreshInv
<1>2. CASE StartPoll
  <2>1. found' = {} /\ check' = {} /\ due' = {} /\ doing' = {} /\ pc' = "read"
    BY <1>2 DEF StartPoll, AnsweredInv
  <2>2. ASSUME NEW k \in Key PROVE FreshPort(k)'
    <3>1. /\ k[1] \in Switch /\ read_at[k[1]] \in Ages \cup {Never}
          /\ down_since[k] \in Ages \cup {Never} /\ FreshPort(k)
          /\ read_at'[k[1]] = Older(read_at[k[1]]) /\ down_since'[k] = Older(down_since[k])
          /\ UNCHANGED <<oper, moved>> /\ \A f \in Family : fresh'[k][f] => fresh[k][f]
      BY <1>2, Sorts DEF FreshInv, TypeOK, StartPoll, world
    <3>2. SinceRead(k)'
      <4>1. CASE read_at[k[1]] = Never
        BY <3>1, <4>1, OlderType DEF SinceRead
      <4>2. CASE read_at[k[1]] \in Ages
        <5>1. ASSUME Within(k, read_at[k[1]])
              PROVE  Within(k, read_at[k[1]])'
          <6>1. \A f \in Family : fresh'[k][f] => lease'[k][f] <= Older(read_at[k[1]])
            BY <1>2, <4>2, <5>1, Ageing
          <6> QED
            BY <3>1, <6>1 DEF Within
        <5> QED
          BY <3>1, <4>2, <5>1, OlderType DEF SinceRead, FreshPort
      <4> QED
        BY <3>1, <4>1, <4>2
    <3>3. down_since'[k] # Never => Within(k, down_since[k])'
      <4>1. ASSUME down_since[k] \in Ages
            PROVE  Within(k, down_since[k])'
        <5>1. \A f \in Family : fresh'[k][f] => lease'[k][f] <= Older(down_since[k])
          BY <1>2, <3>1, <4>1, Ageing DEF FreshPort, Ages, Never
        <5> QED
          BY <3>1, <5>1 DEF Within
      <4> QED
        BY <3>1, <4>1, OlderType
    <3> QED
      BY <2>1, <3>1, <3>2, <3>3 DEF FreshPort
  <2> QED
    BY <2>1, <2>2 DEF FreshInv, FreshToDo
<1>3. CASE Unread
  <2>1. found = {} /\ doing = {} /\ UNCHANGED <<world, leases, memory, found, due, doing>>
    BY <1>3 DEF Unread, AnsweredInv
  <2>2. pc' # "changes" /\ check' = check
    BY <1>3 DEF Unread, AfterSwitch
  <2> QED
    BY <2>1, <2>2, FreshCalm, StillCalm DEF memory
<1>4. CASE Read
  <2>1. UNCHANGED <<oper, leases, down_polls, down_since, sw, check, due, doing>>
    BY <1>4 DEF Read
  <2>2. \A k \in Key : Calmer(k)
    BY <2>1 DEF Calmer, leases
  <2>3. sw \in Switch /\ read_at' = [read_at EXCEPT ![sw] = 0] /\ found = {}
    BY <1>4 DEF Read, TypeOK, AnsweredInv
  <2>4. ASSUME NEW k \in Key PROVE FreshPort(k)'
    <3>1. k[1] \in Switch /\ FreshPort(k)
      BY Sorts DEF FreshInv
    <3>2. Within(k, 0)' /\ Within(k, down_since[k])' <=> Within(k, 0) /\ Within(k, down_since[k])
      BY <2>1 DEF Within, leases
    <3>3. SinceRead(k)'
      <4>1. CASE k[1] = sw
        BY <1>4, <2>1, <4>1 DEF Read, SinceRead, Here
      <4>2. CASE k[1] # sw
        <5>1. read_at'[k[1]] = read_at[k[1]] /\ moved'[k] = moved[k]
          BY <1>4, <2>3, <3>1, <4>2 DEF Read, Here, TypeOK
        <5> QED
          BY <2>1, <3>1, <5>1 DEF FreshPort, SinceRead, Within, leases
      <4> QED
        BY <4>1, <4>2
    <3>4. DownHere(k)' => Within(k, 0)'
      <4>1. ASSUME DownHere(k)' PROVE oper[k] = "down"
        <5>1. k[2] \in 1..Ports /\ k = <<sw, k[2]>>
          BY <2>1, <4>1 DEF DownHere, Key
        <5> QED
          BY <1>4, <4>1, <5>1 DEF Read, DownHere
      <4> QED
        BY <2>1, <3>1, <4>1 DEF FreshPort, Within, leases
    <3> QED
      BY <2>1, <3>1, <3>2, <3>3, <3>4 DEF FreshPort, leases, Within
  <2>5. ASSUME NEW c \in found' PROVE FreshFound(c)'
    <3>1. PICK k \in Key : c = [port |-> k, link |-> ChangeOf(k)] /\ k[1] = sw
      BY <1>4 DEF Read
    <3>2. FreshPort(k) /\ since_was' = read_at[sw] /\ read_at[sw] # Never
      BY <1>4 DEF FreshInv, Read
    <3>3. c.link = "bounced" => Within(c.port, read_at[sw])
      BY <3>1, <3>2 DEF ChangeOf, FreshPort, SinceRead, Links
    <3>4. c.link = "down" => Within(c.port, 0)
      BY <3>1, <3>2 DEF ChangeOf, FreshPort, Links, Within
    <3> QED
      BY <2>1, <3>2, <3>3, <3>4 DEF FreshFound, Within, leases
  <2>6. /\ \A c \in check : Within(c.port, c.since)'
        /\ \A c \in due \cup doing : Spent(c.port)'
    BY <2>1 DEF FreshInv, FreshToDo, Within, Spent, MayGo, leases
  <2> QED
    BY <2>1, <2>4, <2>5, <2>6 DEF FreshInv, FreshToDo
<1>5. CASE Change
  <2>1. PICK c \in found :
          /\ found' = found \ {c}
          /\ check' = IF c.link # "bounced" THEN check
                      ELSE check \cup {[port |-> c.port, since |-> BounceSince, cause |-> "link-down"]}
          /\ IF c.link = "down" THEN Start([port |-> c.port, since |-> 0, cause |-> "link-down"])
             ELSE UNCHANGED doing
    BY <1>5 DEF Change
  <2>2. /\ doing = {} /\ FreshFound(c)
        /\ UNCHANGED <<world, leases, memory, pc, sw, oper_read, since_was, due>>
    BY <1>5 DEF Change, FreshInv, FreshToDo
  <2>3. ASSUME NEW k \in Key PROVE FreshPort(k)'
    BY <2>2, CalmerPort, StillCalm DEF FreshInv, memory
  <2>4. \A d \in doing' : d.port = c.port /\ c.link = "down"
    BY <2>1, <2>2 DEF Start
  <2>5. \A d, e \in doing' : d = e
    BY <2>1, <2>2 DEF Start
  <2>6. \A d \in doing' : Spent(d.port)'
    <3>1. c.port \in Key
      BY DEF TypeOK
    <3>2. c.link = "down" => Spent(c.port)
      <4> SUFFICES ASSUME c.link = "down", NEW f \in Family, lease[c.port][f] # NoLease
                   PROVE  MayGo(c.port, f)
        BY DEF Spent
      <4>1. lease[c.port][f] \in Leases /\ (fresh[c.port][f] => lease[c.port][f] <= 0)
        BY <2>2, <3>1 DEF FreshFound, Within, TypeOK
      <4>2. fresh[c.port][f] => lease[c.port][f] = 0
        BY <4>1 DEF Leases, NoLease, Endless
      <4> QED
        BY <4>2 DEF MayGo
    <3>3. \A d \in doing' : Spent(d.port)
      BY <2>4, <3>2
    <3> QED
      BY <2>2, <3>3 DEF Spent, MayGo, leases
  <2>7. \A d \in check' : Within(d.port, d.since)'
    <3> SUFFICES ASSUME NEW d \in check' PROVE Within(d.port, d.since)
      BY <2>2 DEF Within, leases
    <3>1. CASE d \in check
      BY <3>1 DEF FreshInv, FreshToDo
    <3>2. CASE d \notin check
      <4>1. c.link = "bounced" /\ d = [port |-> c.port, since |-> BounceSince, cause |-> "link-down"]
        BY <2>1, <3>2
      <4> QED
        BY <2>2, <4>1 DEF FreshFound, BounceSince
    <3> QED
      BY <3>1, <3>2
  <2>8. /\ \A d \in found' : FreshFound(d)'
        /\ \A d \in due : Spent(d.port)'
    BY <2>1, <2>2 DEF FreshInv, FreshToDo, FreshFound, Within, Spent, MayGo, leases
  <2> QED
    BY <2>2, <2>3, <2>5, <2>6, <2>7, <2>8 DEF FreshInv, FreshToDo
<1>6. CASE Watch
  <2> DEFINE checks == check \cup {[port |-> k, since |-> down_since[k], cause |-> "down-port"] :
                                   k \in {q \in Key : DownHere(q) /\ Reconciles(q)}}
  <2>1. /\ pc = "changes" /\ doing = {} /\ found = {} /\ AfterSwitch(checks)
        /\ UNCHANGED <<world, leases, read_at, found, due, doing>>
    BY <1>6 DEF Watch
  <2>2. ASSUME NEW c \in checks PROVE Within(c.port, c.since)
    <3>1. CASE c \in check
      BY <3>1 DEF FreshInv, FreshToDo
    <3>2. CASE c \notin check
      <4>1. PICK k \in Key : /\ c = [port |-> k, since |-> down_since[k], cause |-> "down-port"]
                            /\ Reconciles(k)
        BY <3>2
      <4>2. down_since[k] # Never
        BY <4>1 DEF Reconciles, TimesInv
      <4> QED
        BY <4>1, <4>2 DEF FreshInv, FreshPort
    <3> QED
      BY <3>1, <3>2
  <2> HIDE DEF checks
  <2>3. check' = checks /\ pc' # "changes"
    BY <2>1 DEF AfterSwitch
  <2>4. ASSUME NEW k \in Key PROVE FreshPort(k)'
    <3>1. FreshPort(k) /\ down_since'[k] \in {down_since[k], Never, 0}
          /\ (down_since'[k] = 0 => DownHere(k) \/ down_since[k] = 0)
      BY <1>6 DEF Watch, FreshInv, Never
    <3>2. down_since'[k] # Never => Within(k, down_since'[k])
      BY <2>1, <3>1 DEF FreshPort, Never
    <3> QED
      BY <2>1, <2>3, <3>1, <3>2 DEF FreshPort, SinceRead, Within, world, leases
  <2>5. FreshToDo'
    BY <2>1, <2>2, <2>3 DEF FreshInv, FreshToDo, FreshFound, Within, Spent, MayGo, leases
  <2> QED
    BY <2>1, <2>4, <2>5 DEF FreshInv
<1>7. ASSUME NEW seen \in SUBSET WholeFile, Tables(seen)
      PROVE  FreshInv'
  <2>1. /\ UNCHANGED <<world, leases, memory, doing, found, since_was>> /\ doing = {} /\ found = {}
        /\ pc' = "due" /\ check' = {}
    BY <1>7 DEF Tables, AnsweredInv
  <2>2. ASSUME NEW c \in due' PROVE Spent(c.port)
    <3>1. PICK f \in Family : c \in check /\ Stale(lease[c.port][f], early[c.port][f], c.since)
      BY <1>7 DEF Tables
    <3>2. /\ c.port \in Key /\ Within(c.port, c.since) /\ c.since \in Ages
          /\ lease[c.port][f] \in Leases
      BY <3>1 DEF FreshInv, FreshToDo, TypeOK, Check
    <3>3. lease[c.port][f] # NoLease
          /\ (fresh[c.port][f] => lease[c.port][f] = 0 \/ early[c.port][f])
      BY <3>1, <3>2 DEF Stale, Within, Ages, Leases, NoLease, Endless, Long
    <3>4. MayGo(c.port, f)
      BY <3>3, Zenon DEF MayGo
    <3> QED
      BY <3>4 DEF Spent
  <2>3. FreshToDo'
    BY <2>1, <2>2 DEF FreshToDo, Spent, MayGo, leases
  <2>4. ASSUME NEW k \in Key PROVE FreshPort(k)'
    BY <2>1, CalmerPort, StillCalm DEF FreshInv, memory
  <2> QED
    BY <2>1, <2>3, <2>4 DEF FreshInv
<1>8. CASE TablesFail
  <2>1. check' = {} /\ pc' = "idle"
    BY <1>8 DEF TablesFail
  <2> QED
    BY <1>8, <2>1, FreshCalm, StillCalm DEF TablesFail, memory, FreshInv
<1>9. CASE Due
  <2>1. /\ UNCHANGED <<world, leases, memory, sw, oper_read, found, since_was, check>>
        /\ doing = {} /\ pc' # "changes"
        /\ due' \subseteq due /\ doing' \subseteq due /\ \A c, d \in doing' : c = d
    BY <1>9 DEF Due, Start
  <2> QED
    BY <2>1, FreshCalm, StillCalm DEF memory
<1>10. ASSUME NEW k \in Key, Released(k) \/ ReleaseFails(k)
       PROVE  FreshInv'
  <2>1. /\ UNCHANGED <<world, memory, pc, sw, oper_read, found, since_was, check, due>>
        /\ doing' = {} /\ (UNCHANGED leases \/ Deleted(k))
    BY <1>10 DEF Released, ReleaseFails
  <2>2. ASSUME NEW q \in Key
        PROVE  /\ Calmer(q)
               /\ oper'[q] = oper[q] /\ moved'[q] = moved[q]
               /\ \A f \in Family : fresh'[q][f] => fresh[q][f]
    <3>1. UNCHANGED <<oper, moved>>
      BY <2>1 DEF world
    <3>2. CASE lease'[q] = lease[q] /\ early'[q] = early[q] /\ fresh'[q] = fresh[q]
      BY <3>1, <3>2 DEF Calmer
    <3>3. CASE lease'[q] = [f \in Family |-> NoLease] /\ fresh'[q] = Neither
      BY <3>1, <3>3 DEF Calmer, Neither
    <3>4. CASE UNCHANGED leases
      BY <3>2, <3>4 DEF leases
    <3>5. CASE Deleted(k) /\ q = k
      BY <3>3, <3>5 DEF Deleted, TypeOK
    <3>6. CASE Deleted(k) /\ q # k
      BY <3>2, <3>6 DEF Deleted, TypeOK
    <3> QED
      BY <2>1, <3>4, <3>5, <3>6
  <2> QED
    BY <2>1, <2>2, FreshCalm DEF memory
<1>11. CASE Restart
  <2>1. /\ UNCHANGED <<oper, leases>>
        /\ found' = {} /\ check' = {} /\ due' = {} /\ doing' = {} /\ pc' = "idle"
        /\ read_at' = NeverRead /\ down_since' = NeverDown
    BY <1>11 DEF Restart
  <2>2. ASSUME NEW k \in Key PROVE FreshPort(k)'
    <3>1. read_at'[k[1]] = Never /\ down_since'[k] = Never
      BY <2>1, Sorts DEF NeverRead, NeverDown
    <3> QED
      BY <2>1, <3>1 DEF FreshInv, FreshPort, SinceRead, leases
  <2> QED
    BY <2>1, <2>2 DEF FreshInv, FreshToDo
<1>12. ASSUME NEW k \in Key, LinkChange(k)
       PROVE  FreshInv'
  <2>1. UNCHANGED <<lease, early, memory, poll>>
    BY <1>12 DEF LinkChange
  <2>2. ASSUME NEW q \in Key
        PROVE  /\ Calmer(q)
               /\ \/ oper'[q] = oper[q] /\ moved'[q] = moved[q]
                     /\ \A f \in Family : fresh'[q][f] => fresh[q][f]
                  \/ \A f \in Family : ~fresh'[q][f]
    BY <1>12 DEF LinkChange, Calmer, Neither, TypeOK
  <2> QED
    BY <2>1, <2>2, FreshCalm DEF memory, poll, FreshInv
<1>13. ASSUME NEW k \in Key, NEW g \in Family, Grant(k, g)
       PROVE  FreshInv'
  <2>1. UNCHANGED <<world, memory, poll>> /\ oper[k] = "up"
    BY <1>13 DEF Grant
  <2>2. ASSUME NEW q \in Key
        PROVE  /\ Calmer(q)
               /\ oper'[q] = oper[q] /\ moved'[q] = moved[q]
               /\ oper[q] = "up" \/ \A f \in Family : fresh'[q][f] => fresh[q][f]
    <3>1. CASE q = k
      <4>1. /\ lease' = [lease EXCEPT ![k][g] = 0]
            /\ fresh' = [fresh EXCEPT ![k][g] = TRUE]
            /\ \E soon \in BOOLEAN : early' = [early EXCEPT ![k][g] = soon]
        BY <1>13 DEF Grant
      <4>2. lease'[k][g] = 0 /\ 0 # NoLease
        BY <4>1 DEF TypeOK, NoLease
      <4>3. ASSUME NEW f \in Family, f # g
            PROVE  lease'[k][f] = lease[k][f] /\ fresh'[k][f] = fresh[k][f] /\ early'[k][f] = early[k][f]
        BY <4>1, <4>3 DEF TypeOK
      <4>4. Calmer(k)
        BY <4>2, <4>3 DEF Calmer
      <4> QED
        BY <2>1, <3>1, <4>4 DEF world
    <3>2. CASE q # k
      BY <1>13, <2>1, <3>2 DEF Grant, Calmer, TypeOK, world
    <3> QED
      BY <3>1, <3>2
  <2> QED
    BY <2>1, <2>2, FreshCalm DEF memory, poll, FreshInv
<1>14. ASSUME NEW s \in Switch, Reboot(s)
       PROVE  FreshInv'
  <2>1. UNCHANGED <<lease, early, memory, poll>>
    BY <1>14 DEF Reboot
  <2>2. ASSUME NEW q \in Key
        PROVE  /\ Calmer(q)
               /\ \/ oper'[q] = oper[q] /\ moved'[q] = moved[q]
                     /\ \A f \in Family : fresh'[q][f] => fresh[q][f]
                  \/ \A f \in Family : ~fresh'[q][f]
    BY <1>14 DEF Reboot, Calmer, Neither, TypeOK
  <2> QED
    BY <2>1, <2>2, FreshCalm DEF memory, poll, FreshInv
<1>15. ASSUME NEW s \in Switch, Wrap(s)
       PROVE  FreshInv'
  <2>1. UNCHANGED <<oper, moved, leases, memory, poll>>
    BY <1>15 DEF Wrap
  <2>2. \A q \in Key : Calmer(q) /\ \A f \in Family : fresh'[q][f] => fresh[q][f]
    BY <2>1 DEF Calmer, leases
  <2> QED
    BY <2>1, <2>2, FreshCalm DEF memory, poll, FreshInv
<1> QED
  BY <1>1, <1>2, <1>3, <1>4, <1>5, <1>6, <1>7, <1>8, <1>9, <1>10, <1>11, <1>12, <1>13, <1>14,
     <1>15 DEF Next, Step, Around, SomeMissed

(* A port whose leases the board all took since its link last came up, in  *)
(* earlier polls, is not released, however links, leases, switches and the *)
(* process come and go, and whatever families its addresses are of.        *)
THEOREM FreshKept == Spec => FreshPortKept
<1> DEFINE Taken(k) == \E f \in Family : lease[k][f] # NoLease /\ lease'[k][f] = NoLease
           Kept == \A k \in Key : doing # {} /\ Taken(k) => \E f \in Family : MayGo(k, f)
<1>1. TypeOK /\ AnsweredInv /\ FreshInv /\ [Next]_vars => [Kept]_vars
  <2> SUFFICES ASSUME TypeOK, AnsweredInv, FreshInv, Next, doing # {}, NEW k \in Key, Taken(k)
               PROVE  \E f \in Family : MayGo(k, f)
    OBVIOUS
  <2>1. PICK f \in Family : lease[k][f] # NoLease /\ lease'[k][f] = NoLease
    OBVIOUS
  <2>2. ~StartPoll /\ ~(\E q \in Key, g \in Family : Grant(q, g))
    <3>1. ~StartPoll
      BY DEF StartPoll, AnsweredInv
    <3>2. ASSUME NEW q \in Key, NEW g \in Family, Grant(q, g) PROVE FALSE
      <4>1. lease' = [lease EXCEPT ![q][g] = 0]
        BY <3>2 DEF Grant
      <4>2. lease'[k][f] \in {lease[k][f], 0}
        BY <4>1 DEF TypeOK
      <4> QED
        BY <2>1, <4>2 DEF NoLease
    <3> QED
      BY <3>1, <3>2
  <2>3. PICK q \in Key : Released(q) \/ ReleaseFails(q)
    BY <2>1, <2>2 DEF Next, Step, Around, SomeMissed, Read, Change, Watch, Tables, Due, Unread,
                      TablesFail, Restart, LinkChange, Reboot, Wrap, leases
  <2>4. (\E c \in doing : c.port = q) /\ (lease' = lease \/ Deleted(q))
    BY <2>3 DEF Released, ReleaseFails, leases
  <2>5. q = k
    BY <2>1, <2>4 DEF Deleted, TypeOK
  <2>6. Spent(k)
    BY <2>4, <2>5 DEF FreshInv, FreshToDo
  <2> QED
    BY <2>1, <2>6 DEF Spent
<1>2. Init => FreshInv
  BY FreshInit
<1>3. TypeOK /\ AnsweredInv /\ TimesInv /\ FreshInv /\ [Next]_vars => FreshInv'
  BY FreshStep
<1>4. FreshPortKept <=> [][Kept]_vars
  BY DEF FreshPortKept
<1> HIDE DEF Kept
<1> QED
  BY <1>1, <1>2, <1>3, <1>4, Sound, PTL DEF Spec

-----------------------------------------------------------------------------
(* What the poller knows of a port the site was told, or is about to be,   *)
(* or it had nothing to compare it with.                                   *)

Told(k) == known[k] = site[k] \/ \E c \in found : c.port = k /\ c.link = known[k]

ToldPort(k) ==
  /\ site[k] = "none" <=> known[k] = "none"
  /\ read_at[k[1]] = Never => known[k] = "none"
  /\ Told(k)

ToldInv ==
  /\ \A k \in Key : ToldPort(k)
  /\ \A c \in found : c.link \in {"bounced", known[c.port]}

LEMMA ToldInit == Init => ToldInv
BY DEF Init, ToldInv, ToldPort, Told, NoneKnown

(* Steps that neither read a switch nor publish a change.                  *)
LEMMA ToldCalm ==
  ASSUME ToldInv, UNCHANGED <<known, site, found>>,
         \A s \in Switch : read_at'[s] = Never <=> read_at[s] = Never
  PROVE  ToldInv'
<1>1. ASSUME NEW k \in Key PROVE ToldPort(k)'
  <2>1. k[1] \in Switch /\ ToldPort(k)
    BY Sorts DEF ToldInv
  <2> QED
    BY <2>1 DEF ToldPort, Told
<1> QED
  BY <1>1 DEF ToldInv

LEMMA ToldStep ==
  TypeOK /\ AnsweredInv /\ ToldInv /\ [Next]_vars => ToldInv'
<1> SUFFICES ASSUME TypeOK, AnsweredInv, ToldInv, [Next]_vars
             PROVE  ToldInv'
  OBVIOUS
<1>1. CASE UNCHANGED vars
  BY <1>1, ToldCalm DEF vars, world, memory, poll
<1>2. CASE StartPoll
  <2>1. \A s \in Switch : read_at'[s] = Never <=> read_at[s] = Never
    BY <1>2, OlderType DEF StartPoll, TypeOK
  <2> QED
    BY <1>2, <2>1, ToldCalm DEF StartPoll, world
<1>3. CASE Read
  <2>1. found = {} /\ sw \in Switch /\ read_at' = [read_at EXCEPT ![sw] = 0]
    BY <1>3 DEF Read, AnsweredInv, TypeOK
  <2>3. ASSUME NEW k \in Key PROVE ToldPort(k)'
    <3>1. /\ k[1] \in Switch /\ ToldPort(k) /\ known[k] = site[k]
          /\ known'[k] = IF Here(k) THEN oper[k] ELSE known[k]
          /\ site'[k] = IF Here(k) /\ (site[k] = "none" \/ back[sw]) THEN oper[k] ELSE site[k]
          /\ known[k] \in Links \cup {"none"}
      BY <1>3, <2>1, Sorts DEF Read, KnownAfter, ToldInv, ToldPort, Told, TypeOK
    <3>2. CASE ~Here(k) \/ known[k] \in {"none", oper[k]} \/ back[sw]
      <4>1. known'[k] = site'[k]
        BY <3>1, <3>2 DEF Here
      <4>2. site'[k] = "none" <=> known'[k] = "none"
        BY <4>1
      <4>3. read_at'[k[1]] = Never => known'[k] = "none"
        BY <2>1, <3>1 DEF ToldPort, Here, Never, TypeOK
      <4> QED
        BY <4>1, <4>2, <4>3 DEF ToldPort, Told
    <3>3. CASE Here(k) /\ known[k] \notin {"none", oper[k]} /\ ~back[sw]
      <4>1. ChangeOf(k) = oper[k] /\ k[1] = sw /\ oper[k] \in Links /\ read_at[sw] # Never
        BY <3>1, <3>3 DEF ChangeOf, Here, ToldPort
      <4>2. [port |-> k, link |-> oper[k]] \in found'
        <5>1. found' = {[port |-> q, link |-> ChangeOf(q)] : q \in {r \in Key : r[1] = sw /\ ChangeOf(r) # "none"}}
          BY <1>3, <3>3, <4>1 DEF Read
        <5>2. k \in {r \in Key : r[1] = sw /\ ChangeOf(r) # "none"}
          BY <4>1 DEF Links
        <5> HIDE DEF ChangeOf
        <5> QED
          BY <4>1, <5>1, <5>2
      <4>3. known'[k] = oper[k] /\ site'[k] = site[k] /\ known'[k] # "none" /\ site'[k] # "none"
        BY <3>1, <3>3, <4>1 DEF Links
      <4>4. Told(k)'
        BY <4>2, <4>3 DEF Told
      <4>5. read_at'[k[1]] # Never
        BY <2>1, <4>1 DEF Never, TypeOK
      <4> QED
        BY <4>3, <4>4, <4>5 DEF ToldPort
    <3> QED
      BY <3>2, <3>3
  <2>4. ASSUME NEW c \in found' PROVE c.link \in {"bounced", known'[c.port]}
    <3>1. PICK k \in Key : c = [port |-> k, link |-> ChangeOf(k)] /\ k[1] = sw /\ ChangeOf(k) # "none"
      BY <1>3 DEF Read
    <3> QED
      BY <1>3, <3>1 DEF Read, ChangeOf, KnownAfter, Here
  <2> QED
    BY <2>3, <2>4 DEF ToldInv
<1>4. CASE Change
  <2>1. PICK c \in found :
          /\ found' = found \ {c}
          /\ site' = IF c.link = "bounced" THEN site ELSE [site EXCEPT ![c.port] = c.link]
    BY <1>4 DEF Change
  <2>2. UNCHANGED <<back, known, read_at>> /\ c.port \in Key /\ c.link \in {"bounced", "up", "down"}
    BY <1>4 DEF Change, world, memory, TypeOK, Links
  <2>3. ASSUME NEW k \in Key PROVE ToldPort(k)'
    <3>1. ToldPort(k) /\ known[k] \in {"none", "up", "down"} /\ c.link \in {"bounced", known[c.port]}
      BY DEF ToldInv, TypeOK, Links
    <3>2. CASE c.port = k /\ c.link # "bounced"
      <4>1. site'[k] = c.link /\ c.link = known'[k] /\ c.link # "none"
        BY <2>1, <2>2, <3>1, <3>2 DEF TypeOK
      <4> QED
        BY <2>2, <3>1, <4>1 DEF ToldPort, Told
    <3>3. CASE c.port # k \/ c.link = "bounced"
      <4>1. site'[k] = site[k]
        BY <2>1, <3>3 DEF TypeOK
      <4>2. \A d \in found : d.port = k /\ d.link = known[k] => d \in found'
        BY <2>1, <3>1, <3>3
      <4> QED
        BY <2>2, <3>1, <4>1, <4>2 DEF ToldPort, Told
    <3> QED
      BY <3>2, <3>3
  <2> QED
    BY <2>1, <2>2, <2>3 DEF ToldInv
<1>5. CASE Unread \/ Watch
  BY <1>5, ToldCalm DEF Unread, Watch, world, memory
<1>6. ASSUME NEW seen, Tables(seen)
      PROVE  ToldInv'
  BY <1>6, ToldCalm DEF Tables, world, memory
<1>7. CASE TablesFail \/ Due
  BY <1>7, ToldCalm DEF TablesFail, Due, world, memory
<1>8. ASSUME NEW k \in Key, Released(k) \/ ReleaseFails(k)
      PROVE  ToldInv'
  BY <1>8, ToldCalm DEF Released, ReleaseFails, world, memory
<1>9. ASSUME NEW k \in Key, LinkChange(k) \/ \E f \in Family : Grant(k, f)
      PROVE  ToldInv'
  BY <1>9, ToldCalm DEF LinkChange, Grant, world, memory, poll
<1>10. CASE Restart
  <2>1. /\ known' = [k \in Key |-> "none"] /\ site' = [k \in Key |-> "none"] /\ found' = {}
    BY <1>10 DEF Restart, NoneKnown
  <2> QED
    BY <2>1 DEF ToldInv, ToldPort, Told
<1>11. ASSUME NEW s \in Switch, Reboot(s) \/ Wrap(s)
       PROVE  ToldInv'
  BY <1>11, ToldCalm DEF Reboot, Wrap, memory, poll
<1> QED
  BY <1>1, <1>2, <1>3, <1>4, <1>5, <1>6, <1>7, <1>8, <1>9, <1>10, <1>11
     DEF Next, Step, Around, SomeMissed

(* When a poll is over, the site has been told of every link the poller    *)
(* knows, through silent switches, unknown readings and failures, but for  *)
(* those that were read with nothing to compare them with.                 *)
THEOREM SiteTold == Spec => []SiteAgrees
<1>1. AnsweredInv /\ ToldInv => SiteAgrees
  BY DEF AnsweredInv, ToldInv, ToldPort, Told, SiteAgrees
<1> QED
  BY <1>1, ToldInit, ToldStep, Sound, PTL DEF Spec

=============================================================================
