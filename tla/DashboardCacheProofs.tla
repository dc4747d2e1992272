------------------------- MODULE DashboardCacheProofs -------------------------
(***************************************************************************)
(* What TLAPS proves of DashboardCache, for any number of readers, any     *)
(* times and any faults.                                                   *)
(***************************************************************************)
EXTENDS DashboardCache, TLAPS

USE NobodyAssumption DEF NobodyAssumption, Never

LEMMA Numbers ==
  /\ Ttl \in Nat /\ Ttl > 0 /\ LockSeconds \in Nat /\ LockSeconds > 0
  /\ Patience \in Nat /\ Patience > 0 /\ Long \in Nat /\ Long > 0
  /\ MaxWrites \in Nat /\ MaxCrashes \in Nat
BY NumbersAssumption DEF NumbersAssumption

LEMMA Viewed == NoView \in View
BY Numbers DEF NoView, View, Ages

-----------------------------------------------------------------------------
(* Types.                                                                  *)

LEMMA OlderType ==
  /\ \A age \in Ages : Older(age) \in Ages
  /\ \A age \in Ages \cup {Never} : Older(age) \in Ages \cup {Never}
BY Numbers DEF Older, Ages

LEMMA OlderViewType == ASSUME NEW view \in View PROVE OlderView(view) \in View
BY OlderType DEF OlderView, View

LEMMA StaleType == ASSUME NEW view \in View, NEW before \in View PROVE Stale(view, before) \in View
BY DEF Stale, View

LEMMA FieldTypes ==
  ASSUME NEW view \in View
  PROVE  /\ [view EXCEPT !.read = 0] \in View
         /\ [view EXCEPT !.good = 0, !.ok = TRUE] \in View
         /\ [view EXCEPT !.good = 0, !.ports = Never] \in View
         /\ \A nr \in 0..MaxWrites : [view EXCEPT !.ports = nr] \in View
<1>1. 0 \in Ages /\ Never \in Never..MaxWrites /\ 0..MaxWrites \subseteq Never..MaxWrites
  BY Numbers DEF Ages
<1> QED
  BY <1>1 DEF View

LEMMA DoneType ==
  ASSUME TypeOK, NEW r \in Reader, Done(r)
  PROVE  /\ pc'   \in [Reader -> {"idle", "lock"} \cup Holding]
         /\ held' \in [Reader -> 0..Patience]
         /\ old'  \in [Reader -> View]
         /\ new'  \in [Reader -> View]
BY Viewed, Numbers DEF TypeOK, Done, Goto

LEMMA TypeInit == Init => TypeOK
BY Viewed, Numbers DEF Init, TypeOK, Unlocked, Ages

LEMMA TypeStep == TypeOK /\ [Next]_vars => TypeOK'
<1> SUFFICES ASSUME TypeOK, [Next]_vars PROVE TypeOK'
  OBVIOUS
<1>1. CASE UNCHANGED vars
  BY <1>1 DEF vars, TypeOK
<1>2. CASE Tick
  <2>1. held' \in [Reader -> 0..Patience]
    BY <1>2, Numbers DEF TypeOK, Tick
  <2>2. old' \in [Reader -> View] /\ new' \in [Reader -> View] /\ entry' \in View
    BY <1>2, OlderViewType DEF TypeOK, Tick
  <2>3. lock' \in [by : Reader \cup {Nobody}, left : 0..LockSeconds]
    BY <1>2, Numbers DEF TypeOK, Tick, OneTickOn, Unlocked
  <2>4. confirmed' \in [nr : 0..MaxWrites, age : Ages]
    BY <1>2, OlderType DEF TypeOK, Tick
  <2> QED
    BY <1>2, <2>1, <2>2, <2>3, <2>4 DEF TypeOK, Tick
<1>3. CASE Write
  BY <1>3, Numbers DEF TypeOK, Write
<1>4. CASE Confirm
  BY <1>4, Numbers DEF TypeOK, Confirm, Ages
<1>5. CASE Evict
  BY <1>5, Viewed DEF TypeOK, Evict
<1>6. ASSUME NEW r \in Reader, Read(r) \/ Crash(r) PROVE TypeOK'
  <2> USE <1>6
  <2>1. CASE Get(r)
    BY <2>1 DEF TypeOK, Get, Goto
  <2>2. CASE Lock(r)
    <3>1. CASE ~Free /\ Done(r) /\ UNCHANGED lock
      BY <2>2, <3>1, DoneType DEF TypeOK, Lock
    <3>2. CASE Free /\ TakeLock(r) /\ Goto(r, "read") /\ UNCHANGED <<held, old>>
               /\ new' = [new EXCEPT ![r] = [NoView EXCEPT !.read = 0]]
      <4>1. [NoView EXCEPT !.read = 0] \in View
        BY Viewed, FieldTypes
      <4>2. new' \in [Reader -> View]
        BY <3>2, <4>1 DEF TypeOK
      <4> QED
        BY <2>2, <3>2, <4>2, Numbers DEF TypeOK, Lock, TakeLock, Goto, Holding
    <3> QED
      BY <2>2, <3>1, <3>2 DEF Lock
  <2>3. CASE Sample(r)
    <3>1. [new[r] EXCEPT !.ports = power] \in View
      BY FieldTypes DEF TypeOK
    <3>2. new' = [new EXCEPT ![r] = [new[r] EXCEPT !.ports = power]] \/ new' = new
      BY <2>3 DEF Sample
    <3>3. new' \in [Reader -> View]
      BY <3>1, <3>2 DEF TypeOK
    <3> QED
      BY <2>3, <3>3 DEF TypeOK, Sample, Goto, Holding
  <2>4. CASE Answered(r)
    <3>1. [new[r] EXCEPT !.good = 0, !.ok = TRUE] \in View
      BY FieldTypes DEF TypeOK
    <3>2. new' = [new EXCEPT ![r] = [new[r] EXCEPT !.good = 0, !.ok = TRUE]]
      BY <2>4 DEF Answered
    <3>3. new' \in [Reader -> View]
      BY <3>1, <3>2 DEF TypeOK
    <3> QED
      BY <2>4, <3>3 DEF TypeOK, Answered, Goto, Holding
  <2>5. CASE NotRead(r)
    <3>1. [new[r] EXCEPT !.good = 0, !.ports = Never] \in View
      BY FieldTypes DEF TypeOK
    <3>2. new' \in [Reader -> View]
      BY <2>5, <3>1, StaleType DEF TypeOK, NotRead
    <3> QED
      BY <2>5, <3>2 DEF TypeOK, NotRead, Goto, Holding
  <2>6. CASE Store(r)
    BY <2>6 DEF TypeOK, Store, Goto, Holding
  <2>7. CASE CheckLock(r)
    <3>1. CASE Goto(r, "delete") /\ UNCHANGED <<held, old, new>>
      BY <2>7, <3>1 DEF TypeOK, CheckLock, Goto, Holding
    <3>2. CASE Done(r)
      BY <2>7, <3>2, DoneType DEF TypeOK, CheckLock
    <3> QED
      BY <2>7, <3>1, <3>2 DEF CheckLock
  <2>8. CASE DeleteLock(r)
    BY <2>8, DoneType, Numbers DEF TypeOK, DeleteLock, Unlocked
  <2>9. CASE Crash(r)
    BY <2>9, DoneType, Numbers DEF TypeOK, Crash
  <2>10. CASE LockFails(r)
    <3>1. lock' = lock \/ lock' = [by |-> r, left |-> LockSeconds]
      BY <2>10 DEF LockFails, TakeLock
    <3> QED
      BY <2>10, <3>1, DoneType, Numbers DEF TypeOK, LockFails
  <2> QED
    BY <2>1, <2>2, <2>3, <2>4, <2>5, <2>6, <2>7, <2>8, <2>9, <2>10 DEF Read
<1> QED
  BY <1>1, <1>2, <1>3, <1>4, <1>5, <1>6 DEF Next

(* The cache, its lock and the readers keep their types.                   *)
THEOREM TypeCorrect == Spec => []TypeOK
BY TypeInit, TypeStep, PTL DEF Spec

-----------------------------------------------------------------------------
(* The lock.                                                               *)

(* Whoever is reading is the one the lock names, and what is left of the   *)
(* lock and how long it has been held are LockSeconds together.            *)
LockInv ==
  \A r \in Reader :
    IF pc[r] \in Holding THEN lock.by = r /\ lock.left + held[r] = LockSeconds
    ELSE held[r] = 0

(* While one reads, the reading in the cache is none that began later.     *)
OrderInv == \A r \in Reader : pc[r] \in {"read", "rest", "store"} => new[r].read <= entry.read

LEMMA LockInit == Init => LockInv /\ OrderInv
BY DEF Init, LockInv, OrderInv, Holding

LEMMA NotOver ==
  ASSUME Prompt, TypeOK, LockInv, NEW r \in Reader, pc[r] \in Holding
  PROVE  lock.by = r /\ lock.left > 0
BY Numbers DEF Prompt, TypeOK, LockInv

(* When nobody else is reading, one reader's step leaves the others be.    *)
LEMMA Alone ==
  ASSUME Prompt, TypeOK, LockInv, NEW r \in Reader, NEW s \in Reader, r # s, pc[r] \in Holding
  PROVE  pc[s] \notin Holding
BY NotOver

LEMMA DoneAlone ==
  ASSUME Prompt, TypeOK, LockInv, NEW r \in Reader, Done(r), pc[r] \in Holding
  PROVE  LockInv'
<1>1. \A s \in Reader : pc'[s] \notin Holding /\ held'[s] = 0
  BY Alone DEF Done, Goto, LockInv, TypeOK, Holding
<1> QED
  BY <1>1 DEF LockInv

LEMMA LockStep ==
  ASSUME Prompt, TypeOK, LockInv, [Next]_vars
  PROVE  LockInv'
<1>1. CASE UNCHANGED vars
  BY <1>1 DEF vars, LockInv
<1>2. CASE Tick
  <2>1. ASSUME NEW r \in Reader, pc[r] \in Holding
        PROVE  lock'.by = r /\ lock'.left + held'[r] = LockSeconds
    <3>1. held[r] < Patience /\ lock.by = r /\ lock.left + held[r] = LockSeconds
      BY <1>2, <2>1 DEF Tick, LockInv
    <3>2. held[r] \in Nat /\ lock.left \in Nat /\ lock = [by |-> lock.by, left |-> lock.left]
      BY Numbers DEF TypeOK
    <3>3. lock.left > 1
      BY <3>1, <3>2, Numbers DEF Prompt
    <3>4. lock' = [lock EXCEPT !.left = @ - 1] /\ held'[r] = held[r] + 1
      BY <1>2, <2>1, <3>3 DEF Tick, OneTickOn
    <3>5. lock'.by = lock.by /\ lock'.left = lock.left - 1
      BY <3>2, <3>4 DEF TypeOK
    <3> QED
      BY <3>1, <3>2, <3>4, <3>5, Numbers
  <2> QED
    BY <1>2, <2>1 DEF Tick, LockInv
<1>3. CASE Write \/ Confirm \/ Evict
  BY <1>3 DEF Write, Confirm, Evict, LockInv
<1>4. ASSUME NEW r \in Reader, Read(r) \/ Crash(r) PROVE LockInv'
  <2>1. CASE Get(r)
    BY <2>1 DEF Get, Goto, TypeOK, LockInv, Holding
  <2>2. CASE Lock(r)
    <3>1. CASE ~Free /\ Done(r) /\ UNCHANGED lock
      <4>1. /\ pc' = [pc EXCEPT ![r] = "idle"] /\ held' = [held EXCEPT ![r] = 0]
            /\ lock' = lock
        BY <3>1 DEF Done, Goto
      <4> QED
        BY <4>1 DEF LockInv, TypeOK, Holding
    <3>2. CASE Free /\ TakeLock(r) /\ Goto(r, "read") /\ UNCHANGED held
      <4>1. \A s \in Reader : pc[s] \notin Holding /\ held[s] = 0
        BY <3>2, NotOver DEF Free, LockInv
      <4>2. /\ lock'.by = r /\ lock'.left = LockSeconds /\ held' = held
            /\ \A s \in Reader \ {r} : pc'[s] = pc[s]
        BY <3>2 DEF TakeLock, Goto, TypeOK
      <4> QED
        BY <4>1, <4>2, Numbers DEF LockInv
    <3> QED
      BY <2>2, <3>1, <3>2 DEF Lock
  <2>3. CASE Sample(r) \/ Answered(r) \/ NotRead(r) \/ Store(r)
    <3>1. /\ pc[r] \in Holding /\ UNCHANGED <<held, lock>>
          /\ \E l \in Holding : pc' = [pc EXCEPT ![r] = l]
      BY <2>3 DEF Sample, Answered, NotRead, Store, Goto, Holding
    <3> QED
      BY <3>1 DEF LockInv, TypeOK
  <2>4. CASE CheckLock(r)
    <3>1. CASE Goto(r, "delete") /\ UNCHANGED <<held, old, new>>
      BY <2>4, <3>1 DEF CheckLock, Goto, LockInv, TypeOK, Holding
    <3>2. CASE Done(r)
      BY <2>4, <3>2, DoneAlone DEF CheckLock, Holding
    <3> QED
      BY <2>4, <3>1, <3>2 DEF CheckLock
  <2>5. CASE DeleteLock(r)
    BY <2>5, DoneAlone DEF DeleteLock, Holding
  <2>6. CASE Crash(r)
    BY <2>6, DoneAlone DEF Crash
  <2>7. CASE LockFails(r)
    <3>1. /\ pc' = [pc EXCEPT ![r] = "idle"] /\ held' = [held EXCEPT ![r] = 0]
          /\ UNCHANGED lock \/ Free
      BY <2>7 DEF LockFails, Done, Goto
    <3>2. CASE UNCHANGED lock
      BY <3>1, <3>2 DEF LockInv, TypeOK, Holding
    <3>3. CASE Free
      <4>1. \A s \in Reader : pc[s] \notin Holding /\ held[s] = 0
        BY <3>3, NotOver DEF Free, LockInv
      <4>2. \A s \in Reader : pc'[s] \notin Holding /\ held'[s] = 0
        BY <3>1, <4>1 DEF TypeOK, Holding
      <4> QED
        BY <4>2 DEF LockInv
    <3> QED
      BY <3>1, <3>2, <3>3
  <2> QED
    BY <1>4, <2>1, <2>2, <2>3, <2>4, <2>5, <2>6, <2>7 DEF Read
<1> QED
  BY <1>1, <1>2, <1>3, <1>4 DEF Next

(* One view reads the switch at a time, however many page views there are  *)
(* and whoever is killed, when a reading is over before its lock runs out. *)
THEOREM Sharing == Prompt => (Spec => []OneReader)
<1> SUFFICES ASSUME Prompt PROVE Spec => []OneReader
  OBVIOUS
<1>1. TypeOK /\ LockInv => OneReader
  BY Alone DEF OneReader
<1> QED
  BY <1>1, TypeInit, TypeStep, LockInit, LockStep, PTL DEF Spec

-----------------------------------------------------------------------------
(* The order of the readings.                                              *)

LEMMA OrderStep ==
  ASSUME Prompt, TypeOK, LockInv, OrderInv, [Next]_vars
  PROVE  OrderInv'
<1>1. CASE UNCHANGED vars
  BY <1>1 DEF vars, OrderInv
<1>2. CASE Tick
  <2>1. ASSUME NEW r \in Reader, new[r].read <= entry.read PROVE new'[r].read <= entry'.read
    <3>1. new[r].read \in Ages /\ entry.read \in Ages
      BY DEF TypeOK, View
    <3>2. new'[r].read = Older(new[r].read) /\ entry'.read = Older(entry.read)
      BY <1>2 DEF Tick, OlderView, TypeOK, View
    <3> QED
      BY <2>1, <3>1, <3>2, Numbers DEF Older, Ages
  <2> QED
    BY <1>2, <2>1 DEF Tick, OrderInv
<1>3. CASE Write \/ Confirm
  BY <1>3 DEF Write, Confirm, OrderInv
<1>4. CASE Evict
  <2>1. \A r \in Reader : new[r].read \in Nat /\ new[r].read <= Long
    BY Numbers DEF TypeOK, View, Ages
  <2> QED
    BY <1>4, <2>1 DEF Evict, OrderInv, NoView
<1>5. ASSUME NEW r \in Reader, Read(r) \/ Crash(r) PROVE OrderInv'
  <2>1. CASE Get(r)
    BY <2>1 DEF Get, Goto, TypeOK, OrderInv
  <2>2. CASE Lock(r)
    <3>1. CASE Done(r)
      BY <2>2, <3>1 DEF Lock, Done, Goto, TypeOK, OrderInv
    <3>2. CASE Goto(r, "read") /\ new' = [new EXCEPT ![r] = [NoView EXCEPT !.read = 0]]
      <4>1. new'[r].read = 0
        BY <3>2 DEF TypeOK, NoView
      <4>2. entry.read \in Nat
        BY Numbers DEF TypeOK, View, Ages
      <4> QED
        BY <2>2, <3>2, <4>1, <4>2 DEF Lock, Goto, TypeOK, OrderInv
    <3> QED
      BY <2>2, <3>1, <3>2 DEF Lock
  <2>3. CASE Sample(r) \/ Answered(r) \/ NotRead(r)
    <3>1. new'[r].read = new[r].read /\ \A s \in Reader \ {r} : new'[s] = new[s]
      <4>1. CASE Sample(r)
        BY <4>1 DEF Sample, TypeOK, View
      <4>2. CASE Answered(r)
        BY <4>2 DEF Answered, TypeOK, View
      <4>3. CASE NotRead(r)
        <5>1. \A view, before \in View : Stale(view, before).read = view.read
          BY DEF Stale, View
        <5>2. [new[r] EXCEPT !.good = 0, !.ports = Never] \in View
          BY FieldTypes DEF TypeOK
        <5>3. [new[r] EXCEPT !.good = 0, !.ports = Never].read = new[r].read
          BY DEF TypeOK, View
        <5>4. PICK view \in {new[r], [new[r] EXCEPT !.good = 0, !.ports = Never]} :
                new' = [new EXCEPT ![r] = Stale(view, old[r])]
          BY <4>3 DEF NotRead
        <5>5. view \in View /\ view.read = new[r].read
          <6>1. new[r] \in View
            BY DEF TypeOK
          <6>2. CASE view = new[r]
            BY <6>1, <6>2
          <6>3. CASE view = [new[r] EXCEPT !.good = 0, !.ports = Never]
            BY <6>1, <6>3, <5>2, <5>3
          <6> QED
            BY <5>4, <6>2, <6>3
        <5>6. Stale(view, old[r]).read = new[r].read
          BY <5>1, <5>5 DEF TypeOK
        <5> QED
          BY <5>4, <5>6 DEF TypeOK
      <4> QED
        BY <2>3, <4>1, <4>2, <4>3
    <3>2. /\ entry' = entry /\ pc[r] \in {"read", "rest"}
          /\ \A s \in Reader \ {r} : pc'[s] = pc[s]
      BY <2>3 DEF Sample, Answered, NotRead, Goto, TypeOK
    <3> QED
      BY <3>1, <3>2 DEF OrderInv
  <2>4. CASE Store(r)
    <3>1. \A s \in Reader : pc'[s] \notin {"read", "rest", "store"}
      BY <2>4, Alone DEF Store, Goto, TypeOK, Holding
    <3> QED
      BY <3>1 DEF OrderInv
  <2>5. CASE CheckLock(r)
    BY <2>5 DEF CheckLock, Done, Goto, TypeOK, OrderInv
  <2>6. CASE DeleteLock(r)
    BY <2>6 DEF DeleteLock, Done, Goto, TypeOK, OrderInv
  <2>7. CASE Crash(r)
    BY <2>7 DEF Crash, Done, Goto, TypeOK, OrderInv
  <2>8. CASE LockFails(r)
    BY <2>8 DEF LockFails, Done, Goto, TypeOK, OrderInv
  <2> QED
    BY <1>5, <2>1, <2>2, <2>3, <2>4, <2>5, <2>6, <2>7, <2>8 DEF Read
<1> QED
  BY <1>1, <1>2, <1>3, <1>4, <1>5 DEF Next

(* No reading in the cache is replaced by one that began before it, when a *)
(* reading is over before its lock runs out.                               *)
THEOREM NeverBack == Prompt => (Spec => NeverOlder)
<1> SUFFICES ASSUME Prompt PROVE Spec => NeverOlder
  OBVIOUS
<1> DEFINE Kept == \A r \in Reader : pc[r] = "store" /\ pc'[r] = "check" => entry'.read <= entry.read
<1>1. ASSUME TypeOK, OrderInv, [Next]_vars PROVE [Kept]_vars
  <2> SUFFICES ASSUME Next, NEW r \in Reader, pc[r] = "store", pc'[r] = "check"
               PROVE  entry'.read <= entry.read
    BY <1>1
  <2>1. new[r].read <= entry.read /\ entry.read \in Nat
    BY <1>1, Numbers DEF OrderInv, TypeOK, View, Ages
  <2>2. ASSUME NEW s \in Reader, Read(s) \/ Crash(s) PROVE s = r /\ Store(r)
    BY <1>1, <2>2 DEF Read, Crash, Get, Lock, LockFails, Sample, Answered, NotRead, Store, CheckLock,
                      DeleteLock, Done, Goto, TypeOK, Holding
  <2>3. Store(r)
    BY <2>2 DEF Next, Tick, Write, Confirm, Evict
  <2> QED
    BY <2>1, <2>3 DEF Store
<1> QED
  BY <1>1, TypeInit, TypeStep, LockInit, LockStep, OrderStep, PTL DEF Spec, NeverOlder

-----------------------------------------------------------------------------
(* What a reading shows.                                                   *)

(* A reading that is not over is not yet one of a switch that answered,    *)
(* but shows what it has to once it is.                                    *)
ShowsInv ==
  /\ ReadingShowsConfirmed
  /\ confirmed.nr <= power
  /\ \A r \in Reader :
       /\ pc[r] \in {"read", "rest"} => ~new[r].ok
       /\ pc[r] = "read" => new[r].ports = Never
       /\ pc[r] = "rest" => Shows([new[r] EXCEPT !.ok = TRUE])

LEMMA NotAnswered == ASSUME NEW view, ~view.ok PROVE Shows(view)
BY DEF Shows

LEMMA NoViewShows == Shows(NoView)
BY DEF Shows, NoView

LEMMA ShowsInit == Init => ShowsInv
BY NoViewShows DEF Init, ShowsInv, ReadingShowsConfirmed

(* A tick makes the reading and the confirmation older by as much.         *)
LEMMA ShowsOlder ==
  ASSUME TypeOK, NEW view \in View, Shows(view), Tick
  PROVE  OlderView(view).ok /\ OlderView(view).ports # Never /\ OlderView(view).read < confirmed'.age
           => OlderView(view).ports >= confirmed'.nr
<1>1. /\ OlderView(view).read = Older(view.read) /\ OlderView(view).ok = view.ok
      /\ OlderView(view).ports = view.ports
  BY DEF OlderView, View
<1>2. confirmed'.age = Older(confirmed.age) /\ confirmed'.nr = confirmed.nr
  BY DEF Tick, TypeOK
<1>3. Older(view.read) < Older(confirmed.age) => view.read < confirmed.age
  BY Numbers DEF Older, Ages, View, TypeOK
<1> QED
  BY <1>1, <1>2, <1>3 DEF Shows

LEMMA ShowsStep ==
  ASSUME TypeOK, ShowsInv, [Next]_vars
  PROVE  ShowsInv'
<1>1. CASE UNCHANGED vars
  BY <1>1 DEF vars, ShowsInv, ReadingShowsConfirmed, Shows
<1>2. CASE Tick
  <2>1. Shows(entry)' /\ \A r \in Reader : Shows(new[r])'
    BY <1>2, ShowsOlder DEF Tick, ShowsInv, ReadingShowsConfirmed, Shows, TypeOK
  <2>2. ASSUME NEW r \in Reader, pc[r] = "rest" PROVE Shows([new[r] EXCEPT !.ok = TRUE])'
    <3> DEFINE view == [new[r] EXCEPT !.ok = TRUE]
    <3>1. view \in View /\ Shows(view)
      BY <2>2 DEF ShowsInv, TypeOK, View
    <3>2. [new'[r] EXCEPT !.ok = TRUE] = OlderView(view)
      BY <1>2 DEF Tick, OlderView, TypeOK, View
    <3> QED
      BY <1>2, <3>1, <3>2, ShowsOlder DEF Shows
  <2>3. \A r \in Reader : new'[r].ok = new[r].ok /\ new'[r].ports = new[r].ports
    BY <1>2 DEF Tick, OlderView, TypeOK, View
  <2> QED
    BY <1>2, <2>1, <2>2, <2>3 DEF Tick, ShowsInv, ReadingShowsConfirmed, TypeOK
<1>3. CASE Write
  <2>1. power' >= confirmed'.nr
    BY <1>3, Numbers DEF Write, TypeOK, ShowsInv
  <2> QED
    BY <1>3, <2>1 DEF Write, ShowsInv, ReadingShowsConfirmed, Shows
<1>4. CASE Confirm
  <2>1. confirmed'.age = 0 /\ confirmed'.nr = power'
    BY <1>4 DEF Confirm
  <2>2. \A view \in View : Shows(view)'
    BY <2>1, Numbers DEF Shows, View, Ages
  <2>3. \A r \in Reader : [new[r] EXCEPT !.ok = TRUE] \in View
    BY DEF TypeOK, View
  <2> QED
    BY <1>4, <2>1, <2>2, <2>3, Numbers DEF Confirm, ShowsInv, ReadingShowsConfirmed, TypeOK
<1>5. CASE Evict
  BY <1>5, NoViewShows DEF Evict, ShowsInv, ReadingShowsConfirmed, Shows
<1>6. ASSUME NEW r \in Reader, Read(r) \/ Crash(r) PROVE ShowsInv'
  <2>1. UNCHANGED <<power, confirmed>>
    BY <1>6 DEF Read, Get, Lock, LockFails, Sample, Answered, NotRead, Store, CheckLock, DeleteLock, Crash
  <2>2. \A view : Shows(view)' <=> Shows(view)
    BY <2>1 DEF Shows
  <2>3. ASSUME entry' \in {entry, new[r]},
               \A q \in Reader \ {r} : new'[q] = new[q] /\ pc'[q] = pc[q],
               Shows(new'[r]),
               pc'[r] \in {"read", "rest"} => ~new'[r].ok,
               pc'[r] = "read" => new'[r].ports = Never,
               pc'[r] = "rest" => Shows([new'[r] EXCEPT !.ok = TRUE])
        PROVE  ShowsInv'
    <3>1. Shows(entry')
      BY <2>3 DEF ShowsInv, ReadingShowsConfirmed
    <3>2. ASSUME NEW q \in Reader
          PROVE  /\ Shows(new'[q])
                 /\ pc'[q] \in {"read", "rest"} => ~new'[q].ok
                 /\ pc'[q] = "read" => new'[q].ports = Never
                 /\ pc'[q] = "rest" => Shows([new'[q] EXCEPT !.ok = TRUE])
      <4>1. CASE q = r
        BY <2>3, <4>1
      <4>2. CASE q # r
        BY <2>3, <4>2 DEF ShowsInv, ReadingShowsConfirmed
      <4> QED
        BY <4>1, <4>2
    <3>3. confirmed'.nr <= power'
      BY <2>1 DEF ShowsInv
    <3> QED
      BY <2>1, <3>1, <3>2, <3>3 DEF ShowsInv, ReadingShowsConfirmed, Shows
  <2>4. ASSUME Done(r), UNCHANGED entry PROVE ShowsInv'
    <3>1. new'[r] = NoView /\ pc'[r] = "idle" /\ \A q \in Reader \ {r} : new'[q] = new[q] /\ pc'[q] = pc[q]
      BY <2>4 DEF Done, Goto, TypeOK
    <3> QED
      BY <2>3, <2>4, <3>1, NoViewShows
  <2>5. ASSUME UNCHANGED new, entry' \in {entry, new[r]}, NEW l \in {"lock", "check", "delete"},
               pc' = [pc EXCEPT ![r] = l]
        PROVE  ShowsInv'
    <3>1. new'[r] = new[r] /\ pc'[r] = l /\ \A q \in Reader \ {r} : new'[q] = new[q] /\ pc'[q] = pc[q]
      BY <2>5 DEF TypeOK
    <3>2. Shows(new'[r])
      BY <3>1 DEF ShowsInv, ReadingShowsConfirmed
    <3> QED
      BY <2>3, <2>5, <3>1, <3>2
  <2>6. CASE Get(r)
    <3>1. CASE Goto(r, "lock")
      BY <2>5, <2>6, <3>1 DEF Get, Goto
    <3>2. CASE UNCHANGED pc
      BY <2>1, <2>2, <2>6, <3>2 DEF Get, ShowsInv, ReadingShowsConfirmed
    <3> QED
      BY <2>6, <3>1, <3>2 DEF Get
  <2>7. CASE Lock(r)
    <3>1. CASE Done(r)
      BY <2>4, <2>7, <3>1 DEF Lock
    <3>2. CASE Goto(r, "read") /\ new' = [new EXCEPT ![r] = [NoView EXCEPT !.read = 0]]
      <4>1. new'[r] = [NoView EXCEPT !.read = 0] /\ pc'[r] = "read" /\ UNCHANGED entry
            /\ \A q \in Reader \ {r} : new'[q] = new[q] /\ pc'[q] = pc[q]
        BY <2>7, <3>2 DEF Lock, Goto, TypeOK
      <4>2. ~new'[r].ok /\ new'[r].ports = Never
        BY <4>1 DEF NoView
      <4> QED
        BY <2>3, <4>1, <4>2, NotAnswered
    <3> QED
      BY <2>7, <3>1, <3>2 DEF Lock
  <2>8. CASE Sample(r)
    <3>1. ~new[r].ok /\ new[r].ports = Never /\ new[r] \in View
      BY <2>8 DEF Sample, ShowsInv, TypeOK
    <3>2. /\ new'[r] = [new[r] EXCEPT !.ports = power] \/ new'[r] = new[r]
          /\ pc'[r] = "rest" /\ UNCHANGED entry
          /\ \A q \in Reader \ {r} : new'[q] = new[q] /\ pc'[q] = pc[q]
      BY <2>8 DEF Sample, Goto, TypeOK
    <3>3. ~new'[r].ok
      BY <3>1, <3>2 DEF View
    <3>4. Shows([new'[r] EXCEPT !.ok = TRUE])
      <4>1. [new'[r] EXCEPT !.ok = TRUE].ports \in {power, Never}
        BY <3>1, <3>2 DEF View
      <4> QED
        BY <4>1, Numbers DEF Shows, ShowsInv, TypeOK
    <3> QED
      BY <2>3, <3>2, <3>3, <3>4, NotAnswered
  <2>9. CASE Answered(r)
    <3>1. Shows([new[r] EXCEPT !.ok = TRUE])
      BY <2>9 DEF Answered, ShowsInv
    <3>2. /\ new'[r] = [new[r] EXCEPT !.good = 0, !.ok = TRUE] /\ pc'[r] = "store" /\ UNCHANGED entry
          /\ \A q \in Reader \ {r} : new'[q] = new[q] /\ pc'[q] = pc[q]
      BY <2>9 DEF Answered, Goto, TypeOK
    <3>3. Shows(new'[r])
      BY <3>1, <3>2 DEF Shows, TypeOK, View
    <3> QED
      BY <2>3, <3>2, <3>3
  <2>10. CASE NotRead(r)
    <3>1. new[r] \in View /\ old[r] \in View /\ ~new[r].ok
      BY <2>10 DEF NotRead, ShowsInv, TypeOK
    <3>2. PICK view \in {new[r], [new[r] EXCEPT !.good = 0, !.ports = Never]} :
            new' = [new EXCEPT ![r] = Stale(view, old[r])]
      BY <2>10 DEF NotRead
    <3>3. view \in View
      BY <3>1, <3>2, FieldTypes
    <3>4. view.ok = new[r].ok
      BY <3>1, <3>2 DEF View
    <3>5. ~Stale(view, old[r]).ok
      BY <3>1, <3>3, <3>4 DEF Stale, View
    <3>6. /\ new'[r] = Stale(view, old[r]) /\ pc'[r] = "store" /\ UNCHANGED entry
          /\ \A q \in Reader \ {r} : new'[q] = new[q] /\ pc'[q] = pc[q]
      BY <2>10, <3>2 DEF NotRead, Goto, TypeOK
    <3> QED
      BY <2>3, <3>5, <3>6, NotAnswered
  <2>11. CASE Store(r)
    BY <2>5, <2>11 DEF Store, Goto
  <2>12. CASE CheckLock(r)
    BY <2>4, <2>5, <2>12 DEF CheckLock, Goto
  <2>13. CASE DeleteLock(r) \/ Crash(r)
    BY <2>4, <2>13 DEF DeleteLock, Crash
  <2>14. CASE LockFails(r)
    BY <2>4, <2>14 DEF LockFails
  <2> QED
    BY <1>6, <2>6, <2>7, <2>8, <2>9, <2>10, <2>11, <2>12, <2>13, <2>14 DEF Read
<1> QED
  BY <1>1, <1>2, <1>3, <1>4, <1>5, <1>6 DEF Next

(* A reading of a switch that answered shows every switching of the power  *)
(* that was confirmed before it began.                                     *)
THEOREM Confirmed == Spec => []ReadingShowsConfirmed
<1>1. ShowsInv => ReadingShowsConfirmed
  BY DEF ShowsInv
<1> QED
  BY <1>1, TypeInit, TypeStep, ShowsInit, ShowsStep, PTL DEF Spec

=============================================================================
