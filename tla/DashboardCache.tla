----------------------------- MODULE DashboardCache -----------------------------
(***************************************************************************)
(* The dashboard's reading of one switch through the shared cache:         *)
(* _cached_switch and _read_spec of src/src/snmp_switch/dashboard.py.      *)
(* Every page view of every worker is a reader.  They meet in two cache    *)
(* entries, the last reading and the lock of whoever is reading now, and   *)
(* each access to the cache is a step of its own.                          *)
(*                                                                         *)
(* Beside them a view switches a port's power (power of views.py).  Its    *)
(* answer carries the time at which the switch had been written and read   *)
(* back; the page compares that with the time a reading began.             *)
(*                                                                         *)
(* A time is kept as its age in ticks.  No age grows past Long.            *)
(***************************************************************************)
EXTENDS Integers

CONSTANTS
  Reader,       \* the page views that may be served at once
  Ttl,          \* a reading is good for this many ticks
  LockSeconds,  \* LOCK_SECONDS, in ticks
  Patience,     \* the most ticks a reader holds the lock (see Tick)
  Long,         \* ages this large are all alike
  MaxWrites,    \* bound: times the port's power is switched
  MaxCrashes,   \* bound: workers killed while they hold the lock
  Faults,       \* what may go wrong besides, a subset of AllFaults
  Nobody        \* not a reader

(* "silent": the switch does not answer.  "column": it does, but not with  *)
(* its power.  "odd": what it answers cannot be made into ports.  "store": *)
(* the cache raises.  "evict": it drops the reading, or this version of    *)
(* the code cannot read it.                                                *)
AllFaults == {"silent", "column", "odd", "store", "evict"}

ASSUME FaultsAssumption  == Faults \subseteq AllFaults
ASSUME NobodyAssumption  == Nobody \notin Reader
ASSUME NumbersAssumption ==
  /\ {Ttl, LockSeconds, Patience} \subseteq Nat \ {0}
  /\ Long \in Nat /\ Long > Ttl
  /\ {MaxWrites, MaxCrashes} \subseteq Nat

VARIABLES
  pc,         \* each reader: "idle" or its next step
  held,       \* ticks since it took the lock
  old,        \* the reading it found in the cache
  new,        \* the reading it made
  entry,      \* the cache: the last reading
  lock,       \* the cache: who may read the switch, and for how many ticks more
  power,      \* how often the port has been switched: what a reading shows
  confirmed,  \* the last switching answered with a confirmed_at: its number and age
  crashes

vars == <<pc, held, old, new, entry, lock, power, confirmed, crashes>>

Never   == -1                  \* no such time; no ports
Ages    == 0..Long
Unlocked == [by |-> Nobody, left |-> 0]

(* What is kept of a SwitchView: read_at, good_at, which switching the     *)
(* ports show (Never: no ports, or none with its power), reachable.        *)
View   == [read : Ages, good : Ages \cup {Never}, ports : Never..MaxWrites, ok : BOOLEAN]
NoView == [read |-> Long, good |-> Never, ports |-> Never, ok |-> FALSE]

Holding == {"read", "rest", "store", "check", "delete"}

TypeOK ==
  /\ pc        \in [Reader -> {"idle", "lock"} \cup Holding]
  /\ held      \in [Reader -> 0..Patience]
  /\ old       \in [Reader -> View]
  /\ new       \in [Reader -> View]
  /\ entry     \in View
  /\ lock      \in [by : Reader \cup {Nobody}, left : 0..LockSeconds]
  /\ power     \in 0..MaxWrites
  /\ confirmed \in [nr : 0..MaxWrites, age : Ages]
  /\ crashes   \in 0..MaxCrashes

Init ==
  /\ pc   = [r \in Reader |-> "idle"]
  /\ held = [r \in Reader |-> 0]
  /\ old  = [r \in Reader |-> NoView]
  /\ new  = [r \in Reader |-> NoView]
  /\ entry = NoView /\ lock = Unlocked
  /\ power = 0 /\ confirmed = [nr |-> 0, age |-> Long]
  /\ crashes = 0

Goto(r, label) == pc' = [pc EXCEPT ![r] = label]

(* A reader that is done forgets what it read.                             *)
Done(r) == /\ Goto(r, "idle")
           /\ old'  = [old EXCEPT ![r] = NoView]
           /\ new'  = [new EXCEPT ![r] = NoView]
           /\ held' = [held EXCEPT ![r] = 0]

-----------------------------------------------------------------------------
(* _cached_switch                                                          *)

Fresh(view) == view # NoView /\ view.read < Ttl

(* cache.get(key).  A fresh reading is the answer, and nothing is kept; a  *)
(* cache that raises ends the view, with nothing changed.                  *)
Get(r) ==
  /\ pc[r] = "idle"
  /\ \/ ~Fresh(entry) /\ old' = [old EXCEPT ![r] = entry] /\ Goto(r, "lock")
     \/ "store" \in Faults /\ UNCHANGED <<old, pc>>
  /\ UNCHANGED <<held, new, entry, lock, power, confirmed, crashes>>

MutFree == TRUE                                   \* a get, then a set
Free    == lock.left = 0

MutTakeLock(r) == lock' = [by |-> r, left |-> 1]  \* gone before the read is over
TakeLock(r)    == lock' = [by |-> r, left |-> LockSeconds]

(* cache.add(lock): the reading begins, and its read_at is now; or another *)
(* reader is at it, and what was found before is the answer.               *)
Lock(r) ==
  /\ pc[r] = "lock"
  /\ \/ /\ Free /\ TakeLock(r)
        /\ Goto(r, "read")
        /\ new' = [new EXCEPT ![r] = [NoView EXCEPT !.read = 0]]
        /\ UNCHANGED <<held, old>>
     \/ ~Free /\ Done(r) /\ UNCHANGED lock
  /\ UNCHANGED <<entry, power, confirmed, crashes>>

(* An add that raises ends the view before its try: if it was carried out, *)
(* the lock is held by nobody who reads, until it runs out.                *)
LockFails(r) ==
  /\ pc[r] = "lock" /\ "store" \in Faults
  /\ UNCHANGED lock \/ (Free /\ TakeLock(r))
  /\ Done(r)
  /\ UNCHANGED <<entry, power, confirmed, crashes>>

(* _read_spec: the switch answers with its ports, and with their power     *)
(* unless that read fails, which leaves its column empty (_read_or_none).  *)
Sample(r) ==
  /\ pc[r] = "read"
  /\ \/ new' = [new EXCEPT ![r].ports = power]
     \/ "column" \in Faults /\ UNCHANGED new
  /\ Goto(r, "rest")
  /\ UNCHANGED <<held, old, entry, lock, power, confirmed, crashes>>

MutAnswered(r) ==                                 \* read_at when the reading ends
  /\ pc[r] = "rest"
  /\ new' = [new EXCEPT ![r].good = 0, ![r].ok = TRUE, ![r].read = 0]
  /\ Goto(r, "store")
  /\ UNCHANGED <<held, old, entry, lock, power, confirmed, crashes>>

(* Then with the counters, and good_at is now, and with the rest.          *)
Answered(r) ==
  /\ pc[r] = "rest"
  /\ new' = [new EXCEPT ![r].good = 0, ![r].ok = TRUE]
  /\ Goto(r, "store")
  /\ UNCHANGED <<held, old, entry, lock, power, confirmed, crashes>>

(* _stale: the ports that the reader found before it took the lock.        *)
Stale(view, before) ==
  IF before.good = Never THEN view
  ELSE [view EXCEPT !.good = before.good, !.ports = before.ports]

(* The switch does not answer, or what it answered is odd.                 *)
NotRead(r) ==
  /\ \/ pc[r] = "read" /\ "silent" \in Faults
        /\ new' = [new EXCEPT ![r] = Stale(new[r], old[r])]
     \/ pc[r] = "rest" /\ "odd" \in Faults
        /\ new' = [new EXCEPT ![r] =
                     Stale([new[r] EXCEPT !.good = 0, !.ports = Never], old[r])]
  /\ Goto(r, "store")
  /\ UNCHANGED <<held, old, entry, lock, power, confirmed, crashes>>

(* cache.set(key); when it raises, the lock is given back all the same.    *)
Store(r) ==
  /\ pc[r] = "store"
  /\ \/ entry' = new[r]
     \/ "store" \in Faults /\ UNCHANGED entry
  /\ Goto(r, "check")
  /\ UNCHANGED <<held, old, new, lock, power, confirmed, crashes>>

(* cache.get(lock) == token, and then, as a second access, the delete.     *)
CheckLock(r) ==
  /\ pc[r] = "check"
  /\ \/ lock.by = r /\ Goto(r, "delete") /\ UNCHANGED <<held, old, new>>
     \/ lock.by # r /\ Done(r)
     \/ "store" \in Faults /\ Done(r)
  /\ UNCHANGED <<entry, lock, power, confirmed, crashes>>

DeleteLock(r) ==
  /\ pc[r] = "delete"
  /\ \/ lock' = Unlocked
     \/ "store" \in Faults /\ UNCHANGED lock
  /\ Done(r)
  /\ UNCHANGED <<entry, power, confirmed, crashes>>

(* The worker is killed; another takes its place.                          *)
Crash(r) ==
  /\ pc[r] \in Holding /\ crashes < MaxCrashes
  /\ crashes' = crashes + 1
  /\ Done(r)
  /\ UNCHANGED <<entry, lock, power, confirmed>>

-----------------------------------------------------------------------------
(* Around the readers.                                                     *)

(* A view writes the port; once the switch has read it back, the answer is *)
(* stamped (confirmed_at).  One at a time: the views hold the port.        *)
Write ==
  /\ confirmed.nr = power /\ power < MaxWrites
  /\ power' = power + 1
  /\ UNCHANGED <<pc, held, old, new, entry, lock, confirmed, crashes>>

Confirm ==
  /\ confirmed.nr < power
  /\ confirmed' = [nr |-> power, age |-> 0]
  /\ UNCHANGED <<pc, held, old, new, entry, lock, power, crashes>>

Evict ==
  /\ "evict" \in Faults /\ entry # NoView
  /\ entry' = NoView
  /\ UNCHANGED <<pc, held, old, new, lock, power, confirmed, crashes>>

Older(age)      == IF age = Never THEN Never ELSE IF age < Long THEN age + 1 ELSE Long
OlderView(view) == [view EXCEPT !.read = Older(@), !.good = Older(@)]

MutOneTickOn(l)   == l                            \* an add with no timeout
MutOneTickOver(l) == [l EXCEPT !.left = @ - 1]   \* never dropped
OneTickOn(l)    == IF l.left > 1 THEN [l EXCEPT !.left = @ - 1] ELSE Unlocked

Tick ==
  /\ \A r \in Reader : held[r] < Patience
  /\ held'  = [r \in Reader |-> IF pc[r] \in Holding THEN held[r] + 1 ELSE 0]
  /\ old'   = [r \in Reader |-> OlderView(old[r])]
  /\ new'   = [r \in Reader |-> OlderView(new[r])]
  /\ entry' = OlderView(entry)
  /\ lock'  = OneTickOn(lock)
  /\ confirmed' = [confirmed EXCEPT !.age = Older(@)]
  /\ UNCHANGED <<pc, power, crashes>>

Read(r) == \/ Get(r) \/ Lock(r) \/ LockFails(r) \/ Sample(r) \/ Answered(r) \/ NotRead(r)
           \/ Store(r) \/ CheckLock(r) \/ DeleteLock(r)

Next == Tick \/ Write \/ Confirm \/ Evict \/ \E r \in Reader : Read(r) \/ Crash(r)

(* Time passes, a reader that is not killed goes on, and the page is asked *)
(* for again and again.  A cache that raises also answers, now and again:  *)
(* the get (a Get that raises changes nothing, so it is no step of         *)
(* Read(r)), and the add of a lock that is free.                           *)
Fairness == /\ WF_vars(Tick)
            /\ \A r \in Reader : WF_vars(Read(r))
            /\ SF_vars(\E r \in Reader : Lock(r) /\ Free)

Spec     == Init /\ [][Next]_vars
FairSpec == Spec /\ Fairness

-----------------------------------------------------------------------------
(* Properties.                                                             *)

(* A reading is over, and its lock deleted, before the lock runs out.      *)
(* Nothing in the code sees to this: the eight reads' time-outs against    *)
(* LOCK_SECONDS do.                                                        *)
Prompt == Patience < LockSeconds

(* Whatever the number of viewers, one of them reads the switch at a time  *)
(* (dashboard.py:5, 374), also after one was killed with the lock.         *)
OneReader ==
  \A r, s \in Reader : r # s => ~(pc[r] \in Holding /\ pc[s] \in Holding)

(* A reading is not replaced in the cache by one that began before it.     *)
NeverOlder ==
  [][\A r \in Reader :
       pc[r] = "store" /\ pc'[r] = "check" => entry'.read <= entry.read]_vars

(* A reading of a switch that answered with the power, and that began      *)
(* after a switching of it was confirmed, shows it (views.py:231), in the  *)
(* cache and on its way there: the page may drop what the switch           *)
(* confirmed.                                                              *)
Shows(view) ==
  view.ok /\ view.ports # Never /\ view.read < confirmed.age
    => view.ports >= confirmed.nr

ReadingShowsConfirmed == Shows(entry) /\ \A r \in Reader : Shows(new[r])

(* As long as the page is asked for, the switch is read again and again,   *)
(* also when a worker was killed with the lock (dashboard.py:56) or an add *)
(* that raised left it behind, and whether the switch answers or not.  Of  *)
(* the cache it takes that it does not raise for ever in the get and the   *)
(* add before a reading (dashboard.py:367, 374): Fairness.                 *)
KeepsReading == []<>(\E r \in Reader : pc[r] = "store")

=============================================================================
