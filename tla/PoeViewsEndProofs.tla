-------------------------- MODULE PoeViewsEndProofs --------------------------
(***************************************************************************)
(* What TLAPS proves of how a request of PoeViews ends: what it leaves on  *)
(* the switch, in the cache and in the address records.                    *)
(***************************************************************************)
EXTENDS PoeViewsProofs

-----------------------------------------------------------------------------
(* A step of one request leaves what the others know as it was.            *)

LEMMA OthersStay ==
  ASSUME TypeOK, NEW r \in Request, Serve(r) \/ Fail(r), NEW s \in Request, s # r
  PROVE  /\ req' = req /\ pc'[s] = pc[s] /\ hit'[s] = hit[s] /\ reply'[s] = reply[s]
         /\ off'[s] = off[s] /\ got'[s] = got[s] /\ (s \in released' <=> s \in released)
<1> USE DEF TypeOK, Goto, Reply, Hit
<1>1. CASE Claim(r) \/ Refuse(r) \/ OpenPort(r) \/ OpenFails(r)
  BY <1>1 DEF Claim, Refuse, OpenPort, OpenFails
<1>2. CASE Write(r)
  BY <1>2 DEF Write
<1>3. CASE OffAnswered(r) \/ OnAnswered(r) \/ SetAnswered(r)
  BY <1>3 DEF OffAnswered, OnAnswered, SetAnswered
<1>4. CASE Cycled(r) \/ TellSet(r)
  BY <1>4 DEF Cycled, TellSet
<1>5. CASE TellOff(r) \/ TellOn(r) \/ TellFails(r)
  BY <1>5 DEF TellOff, TellOn, TellFails
<1>6. CASE GiveBack(r) \/ StoreFails(r) \/ Crash(r)
  BY <1>6 DEF GiveBack, StoreFails, Crash
<1> QED
  BY <1>1, <1>2, <1>3, <1>4, <1>5, <1>6 DEF Serve, Fail

(* A fault that was met is not forgotten.                                  *)
LEMMA FaultsStay ==
  ASSUME TypeOK, NEW r \in Request, Serve(r) \/ Fail(r)
  PROVE  hit[r] \subseteq hit'[r]
BY DEF TypeOK, Serve, Fail, Hit, Claim, Refuse, OpenPort, OpenFails, Write, OffAnswered,
       OnAnswered, SetAnswered, Cycled, TellOff, TellOn, TellSet, TellFails, GiveBack,
       StoreFails, Crash

-----------------------------------------------------------------------------
(* The way each view takes, and what it cannot know before the switch has  *)
(* answered it.                                                            *)

Switching == {"off", "offAnswer", "tellOff", "on", "onAnswer", "cycled", "tellOn"}
Setting   == {"set", "setAnswer", "tellSet"}

Way(r) ==
  /\ pc[r] \in Switching => req[r].view = "toggle"
  /\ pc[r] \in Setting   => req[r].view # "toggle"
  /\ pc[r] \in {"new", "refused", "open", "off", "offAnswer"} => off[r] = "none"
  /\ pc[r] \in {"new", "refused", "open", "set", "setAnswer"} => got[r] = "none"

WayInv == \A r \in Request : Way(r)

LEMMA WayInit == Init => WayInv
BY DEF Init, WayInv, Way, Switching, Setting

LEMMA WayStep == TypeOK /\ WayInv /\ [Next]_vars => WayInv'
<1> SUFFICES ASSUME TypeOK, WayInv, [Next]_vars, NEW s \in Request
             PROVE  Way(s)'
  BY DEF WayInv
<1>0. Way(s)
  BY DEF WayInv
<1>1. CASE UNCHANGED vars \/ Tick
  BY <1>0, <1>1 DEF vars, Tick, Way
<1>2. ASSUME NEW r \in Request, Serve(r) \/ Fail(r)
      PROVE  Way(s)'
  <2>1. CASE s # r
    BY <1>0, <1>2, <2>1, OthersStay DEF Way
  <2>2. CASE s = r
    <3> USE <1>0, <2>2 DEF TypeOK, Way, Switching, Setting, Goto
    <3>1. CASE Claim(r) \/ Refuse(r) \/ OpenPort(r) \/ OpenFails(r)
      BY <3>1 DEF Claim, Refuse, OpenPort, OpenFails
    <3>2. CASE Write(r)
      BY <3>2 DEF Write, Asks
    <3>3. CASE OffAnswered(r) \/ OnAnswered(r) \/ SetAnswered(r)
      BY <3>3 DEF OffAnswered, OnAnswered, SetAnswered
    <3>4. CASE Cycled(r) \/ TellSet(r)
      BY <3>4 DEF Cycled, TellSet
    <3>5. CASE TellOff(r) \/ TellOn(r) \/ TellFails(r)
      BY <3>5 DEF TellOff, TellOn, TellFails
    <3>6. CASE GiveBack(r) \/ StoreFails(r) \/ Crash(r)
      BY <3>6 DEF GiveBack, StoreFails, Crash
    <3> QED
      BY <1>2, <3>1, <3>2, <3>3, <3>4, <3>5, <3>6 DEF Serve, Fail
  <2> QED
    BY <2>1, <2>2
<1> QED
  BY <1>1, <1>2 DEF Next

-----------------------------------------------------------------------------
(* A request that took a port's power, and knows it, has started the       *)
(* release of the port's lease once it comes to its answer.                *)

TookPower(r) == IF req[r].view = "toggle" THEN off[r] = "off"
                ELSE req[r].view = "power" /\ got[r] = "off" /\ req[r].want = "off"

Let(r) ==
  pc[r] \in {"tellOn", "giveBack", "kept", "returned"} /\ hit[r] = {} /\ ~Legacy /\ TookPower(r)
    => r \in released

LetInv == \A r \in Request : Let(r)

LEMMA LetInit == Init => LetInv
BY DEF Init, LetInv, Let

LEMMA LetStep == TypeOK /\ WayInv /\ LetInv /\ [Next]_vars => LetInv'
<1> SUFFICES ASSUME TypeOK, WayInv, LetInv, [Next]_vars, NEW s \in Request
             PROVE  Let(s)'
  BY DEF LetInv
<1>0. Way(s) /\ Let(s)
  BY DEF WayInv, LetInv
<1>1. CASE UNCHANGED vars \/ Tick
  BY <1>0, <1>1 DEF vars, Tick, Let, TookPower
<1>2. ASSUME NEW r \in Request, Serve(r) \/ Fail(r)
      PROVE  Let(s)'
  <2>1. CASE s # r
    BY <1>0, <1>2, <2>1, OthersStay DEF Let, TookPower
  <2>2. CASE s = r
    <3> USE <1>0, <2>2 DEF TypeOK, Let, TookPower, Goto
    <3>1. CASE Claim(r) \/ Refuse(r) \/ OpenPort(r)
      BY <3>1 DEF Claim, Refuse, OpenPort
    <3>2. CASE OpenFails(r)
      BY <3>2 DEF OpenFails, Hit, Way
    <3>3. CASE Write(r)
      BY <3>3 DEF Write, Asks
    <3>4. CASE OffAnswered(r) \/ OnAnswered(r)
      BY <3>4 DEF OffAnswered, OnAnswered
    <3>5. CASE SetAnswered(r)
      BY <3>5 DEF SetAnswered, Way, Setting
    <3>6. CASE Cycled(r)
      BY <3>6 DEF Cycled, Way, Switching
    <3>7. CASE TellSet(r)
      BY <3>7 DEF TellSet, Way, Setting
    <3>8. CASE TellOff(r) \/ TellOn(r)
      BY <3>8 DEF TellOff, TellOn
    <3>9. CASE TellFails(r)
      <4>1. hit'[r] # {}
        BY <3>9 DEF TellFails, Hit
      <4> QED
        BY <4>1
    <3>12. CASE StoreFails(r)
      <4>1. pc'[r] = "denied"
        BY <3>12 DEF StoreFails
      <4> QED
        BY <4>1
    <3>10. CASE GiveBack(r)
      BY <3>10 DEF GiveBack, Hit
    <3>11. CASE Crash(r)
      BY <3>11 DEF Crash
    <3> QED
      BY <1>2, <3>1, <3>2, <3>3, <3>4, <3>5, <3>6, <3>7, <3>8, <3>9, <3>10, <3>11,
         <3>12 DEF Serve, Fail
  <2> QED
    BY <2>1, <2>2
<1> QED
  BY <1>1, <1>2 DEF Next

(* A board that lost its power loses its lease, also when switching back   *)
(* on failed: whatever the holds, and however long requests take.          *)
THEOREM LeasesLetGo == Spec => []LossReleases
<1>1. Init => TypeOK /\ WayInv /\ LetInv
  BY TypeInit, WayInit, LetInit
<1>2. TypeOK /\ WayInv /\ LetInv /\ [Next]_vars => (TypeOK /\ WayInv /\ LetInv)'
  BY TypeStep, WayStep, LetStep
<1>3. LetInv => LossReleases
  BY DEF LetInv, Let, TookPower, LossReleases
<1> QED
  BY <1>1, <1>2, <1>3, PTL DEF Spec

-----------------------------------------------------------------------------
(* A power or link request that found no switch to send to gives its hold  *)
(* back, if the cache lets it; and a hold that was given back is not taken *)
(* again.                                                                  *)

Unsent(r) ==
  /\ (reply[r] = 503 \/ "open" \in hit[r]) /\ req[r].view # "toggle" /\ "store" \notin hit[r]
       => pc[r] \in {"giveBack", "returned", "dead"}
  /\ pc[r] = "returned" => claim[KeyOf(r)].by # r

UnsentInv == \A r \in Request : Unsent(r)

LEMMA UnsentInit == Init => UnsentInv
<1> SUFFICES ASSUME Init, NEW r \in Request PROVE Unsent(r)
  BY DEF UnsentInv
<1>1. pc[r] = "new" /\ reply[r] = 0 /\ hit[r] = {}
  BY DEF Init
<1> QED
  BY <1>1 DEF Unsent

(* Only a request that is new becomes a holder.                            *)
LEMMA Holder ==
  ASSUME TypeOK, NEW r \in Request, Serve(r) \/ Fail(r),
         NEW k \in Key, NEW s \in Request, claim'[k].by = s
  PROVE  claim[k].by = s \/ (s = r /\ pc[r] = "new")
<1>1. Does(r) /\ KeyOf(r) \in Key
  BY Doings, KeyType DEF TypeOK
<1>2. CASE Takes(r)
  BY <1>1, <1>2 DEF Takes, TakeClaim, TypeOK
<1>3. CASE Works(r) \/ GoesAway(r)
  BY <1>3 DEF Works, GoesAway
<1>4. CASE Returns(r)
  BY <1>1, <1>4, NobodyAssumption DEF Returns, NoClaim, TypeOK
<1> QED
  BY <1>1, <1>2, <1>3, <1>4 DEF Does

LEMMA UnsentStep == TypeOK /\ UnsentInv /\ [Next]_vars => UnsentInv'
<1> SUFFICES ASSUME TypeOK, UnsentInv, [Next]_vars, NEW s \in Request
             PROVE  Unsent(s)'
  BY DEF UnsentInv
<1>0. Unsent(s) /\ KeyOf(s) \in Key
  BY KeyType DEF UnsentInv, TypeOK
<1>1. CASE UNCHANGED vars
  BY <1>0, <1>1 DEF vars, Unsent, KeyOf
<1>2. CASE Tick
  <2>1. /\ <<req, pc, hit, reply>>' = <<req, pc, hit, reply>> /\ KeyOf(s)' = KeyOf(s)
        /\ claim'[KeyOf(s)] = OneTickOn(claim[KeyOf(s)])
    BY <1>0, <1>2 DEF Tick, KeyOf
  <2>2. claim'[KeyOf(s)].by \in {claim[KeyOf(s)].by, Nobody}
    BY <1>0, <2>1, TickedClaim DEF TypeOK
  <2> QED
    BY <1>0, <2>1, <2>2, NobodyAssumption DEF Unsent
<1>3. ASSUME NEW r \in Request, Serve(r) \/ Fail(r)
      PROVE  Unsent(s)'
  <2>1. KeyOf(s)' = KeyOf(s)
    BY <1>3, Doings DEF Here, KeyOf
  <2>2. CASE s # r
    BY <1>0, <1>3, <2>1, <2>2, OthersStay, Holder DEF Unsent
  <2>3. CASE s = r
    <3>1. pc'[r] = "returned" => claim'[KeyOf(r)].by # r
      <4>1. ASSUME pc'[r] = "returned" PROVE Returns(r)
        BY <1>3, <4>1, Doings DEF Does, Takes, Works, GoesAway, Claiming, Asks, Waits, Tells
      <4> QED
        BY <1>0, <2>3, <4>1, NobodyAssumption DEF Returns, NoClaim, TypeOK
    <3>2. ASSUME reply'[r] = 503 \/ "open" \in hit'[r], req'[r].view # "toggle", "store" \notin hit'[r]
          PROVE  pc'[r] \in {"giveBack", "returned", "dead"}
      <4> USE <1>0, <2>3, <3>2 DEF TypeOK, Unsent, Goto, Reply
      <4>1. CASE Claim(r) \/ Refuse(r) \/ OpenPort(r)
        BY <4>1 DEF Claim, Refuse, OpenPort
      <4>2. CASE OpenFails(r)
        <5>1. pc'[r] = "giveBack"
          BY <4>2 DEF OpenFails
        <5> QED
          BY <5>1
      <4>3. CASE Write(r)
        BY <4>3 DEF Write, Asks
      <4>4. CASE OffAnswered(r) \/ OnAnswered(r) \/ SetAnswered(r)
        BY <4>4 DEF OffAnswered, OnAnswered, SetAnswered
      <4>5. CASE Cycled(r) \/ TellSet(r)
        BY <4>5 DEF Cycled, TellSet
      <4>6. CASE TellOff(r) \/ TellOn(r)
        BY <4>6 DEF TellOff, TellOn
      <4>7. CASE TellFails(r)
        <5>1. pc[r] \in Tells /\ hit'[r] = hit[r] \cup {"notify"} /\ reply'[r] = 500
          BY <4>7 DEF TellFails, Hit
        <5>2. "open" \in hit[r] /\ "store" \notin hit[r] /\ req[r].view # "toggle"
          <6>1. req' = req
            BY <4>7 DEF TellFails
          <6> QED
            BY <3>2, <5>1, <6>1
        <5>3. pc[r] \in {"giveBack", "returned", "dead"}
          BY <5>2
        <5> QED
          BY <5>1, <5>3 DEF Tells
      <4>8. CASE StoreFails(r)
        <5>1. "store" \in hit'[r]
          BY <4>8 DEF StoreFails, Hit
        <5> QED
          BY <3>2, <5>1
      <4>9. CASE GiveBack(r)
        <5>1. pc'[r] = "returned" \/ "store" \in hit'[r]
          BY <4>9 DEF GiveBack, Hit
        <5> QED
          BY <3>2, <5>1
      <4>10. CASE Crash(r)
        BY <4>10 DEF Crash
      <4> QED
        BY <1>3, <4>1, <4>2, <4>3, <4>4, <4>5, <4>6, <4>7, <4>8, <4>9, <4>10 DEF Serve, Fail
    <3> QED
      BY <2>1, <2>3, <3>1, <3>2 DEF Unsent
  <2> QED
    BY <2>2, <2>3
<1> QED
  BY <1>1, <1>2, <1>3 DEF Next

(* A power or link request that found no switch to send to holds nothing   *)
(* when it is over, whatever became of its claim in the meantime.          *)
THEOREM NothingHeld == Spec => []NothingSentNothingHeld
<1>1. Init => TypeOK /\ UnsentInv
  BY TypeInit, UnsentInit
<1>2. TypeOK /\ UnsentInv /\ [Next]_vars => (TypeOK /\ UnsentInv)'
  BY TypeStep, UnsentStep
<1>3. UnsentInv => NothingSentNothingHeld
  BY DEF UnsentInv, Unsent, NothingSentNothingHeld, Ended
<1> QED
  BY <1>1, <1>2, <1>3, PTL DEF Spec

-----------------------------------------------------------------------------
(* What a request was last told of its port is so while it is at work, and *)
(* after that for as long as its hold lasts: nobody else switches it.      *)

AsSaid(r) ==
  /\ pc[r] \in {"cycled", "tellOn", "tellSet"} => got[r] \in NoAnswer \cup {admin[KeyOf(r)]}
  /\ pc[r] = "tellOn" => ~OnFailed(got[r])
  /\ pc[r] = "kept" /\ hit[r] = {} /\ got[r] # "none" /\ claim[KeyOf(r)].by = r
       => admin[KeyOf(r)] = req[r].want

AsSaidInv == \A r \in Request : AsSaid(r)

LEMMA AsSaidInit == Init => AsSaidInv
BY DEF Init, AsSaidInv, AsSaid

(* A port is switched by nobody but the request that holds it.             *)
LEMMA Switcher ==
  ASSUME TypeOK, HoldInv, NEW r \in Request, Serve(r) \/ Fail(r),
         NEW k \in Key, admin'[k] # admin[k]
  PROVE  KeyOf(r) = k /\ claim[k].by = r /\ claim' = claim /\ pc[r] \in Asks
<1>1. Does(r)
  BY Doings
<1>2. KeyOf(r) = k /\ claim[k].by = r /\ claim' = claim
  BY <1>1 DEF Does, Takes, Works, GoesAway, Returns, Untouched, HoldInv, OwnClaim
<1>3. Write(r)
  BY DEF Serve, Fail, Claim, Refuse, OpenPort, OpenFails, OffAnswered, OnAnswered, SetAnswered,
         Cycled, TellOff, TellOn, TellSet, TellFails, GiveBack, StoreFails, Crash
<1> QED
  BY <1>2, <1>3 DEF Write

LEMMA AsSaidStep ==
  ~Legacy /\ TypeOK /\ HoldInv /\ WayInv /\ AsSaidInv /\ [Next]_vars => AsSaidInv'
<1> SUFFICES ASSUME ~Legacy, TypeOK, HoldInv, WayInv, AsSaidInv, [Next]_vars, NEW s \in Request
             PROVE  AsSaid(s)'
  BY DEF AsSaidInv
<1>0. Way(s) /\ AsSaid(s) /\ KeyOf(s) \in Key
  BY KeyType DEF WayInv, AsSaidInv, TypeOK
<1>1. CASE UNCHANGED vars
  BY <1>0, <1>1 DEF vars, AsSaid, KeyOf
<1>2. CASE Tick
  <2>1. /\ <<req, pc, hit, got, admin>>' = <<req, pc, hit, got, admin>> /\ KeyOf(s)' = KeyOf(s)
        /\ claim'[KeyOf(s)] = OneTickOn(claim[KeyOf(s)])
    BY <1>0, <1>2 DEF Tick, KeyOf
  <2>2. claim'[KeyOf(s)].by \in {claim[KeyOf(s)].by, Nobody}
    BY <1>0, <2>1, TickedClaim DEF TypeOK
  <2> QED
    BY <1>0, <2>1, <2>2, NobodyAssumption DEF AsSaid
<1>3. ASSUME NEW r \in Request, Serve(r) \/ Fail(r)
      PROVE  AsSaid(s)'
  <2>1. KeyOf(s)' = KeyOf(s) /\ req' = req
    BY <1>3, Doings DEF Here, KeyOf
  <2>2. CASE s # r
    <3>1. /\ pc'[s] = pc[s] /\ got'[s] = got[s] /\ hit'[s] = hit[s]
          /\ claim'[KeyOf(s)].by = s => claim[KeyOf(s)].by = s
      BY <1>0, <1>3, <2>2, OthersStay, Holder
    <3>2. claim[KeyOf(s)].by = s \/ pc[s] \in Claiming => admin'[KeyOf(s)] = admin[KeyOf(s)]
      BY <1>0, <1>3, <2>2, Switcher DEF HoldInv, OwnClaim
    <3> QED
      BY <1>0, <2>1, <3>1, <3>2 DEF AsSaid, Claiming, Tells
  <2>3. CASE s = r
    <3> USE <1>0, <2>1, <2>3 DEF TypeOK, AsSaid, Goto
    <3>1. CASE Claim(r) \/ Refuse(r) \/ OpenPort(r)
      BY <3>1 DEF Claim, Refuse, OpenPort
    <3>2. CASE OpenFails(r)
      <4>1. pc'[r] # "kept" \/ got'[r] = "none"
        BY <3>2 DEF OpenFails, Way
      <4>2. pc'[r] \in {"kept", "giveBack"}
        BY <3>2 DEF OpenFails
      <4> QED
        BY <4>1, <4>2
    <3>3. CASE Write(r)
      BY <3>3 DEF Write, Asks
    <3>4. CASE OffAnswered(r)
      BY <3>4 DEF OffAnswered
    <3>5. CASE OnAnswered(r)
      BY <3>5 DEF OnAnswered, Answers
    <3>6. CASE SetAnswered(r)
      BY <3>6 DEF SetAnswered, Answers
    <3>7. CASE Cycled(r)
      BY <3>7 DEF Cycled
    <3>8. CASE TellOff(r)
      BY <3>8 DEF TellOff
    <3>9. CASE TellOn(r)
      <4>1. req[r].want = "on"
        BY <3>9 DEF TellOn, Way, Switching, Asked
      <4>2. got[r] \in {"none", "on"}
        BY <3>9 DEF TellOn, OnFailed, OnOff, NoAnswer
      <4> QED
        BY <3>9, <4>1, <4>2 DEF TellOn, NoAnswer
    <3>10. CASE TellSet(r)
      <4>1. req[r].want \notin NoAnswer
        BY WantType DEF OnOff, NoAnswer
      <4>2. /\ admin' = admin /\ pc'[r] \in {"kept", "giveBack"}
            /\ pc'[r] = "kept" => got[r] = req[r].want
        BY <3>10 DEF TellSet
      <4>3. pc'[r] = "kept" => admin[KeyOf(r)] = req[r].want
        BY <3>10, <4>1, <4>2 DEF TellSet
      <4> QED
        BY <4>2, <4>3
    <3>11. CASE TellFails(r) \/ StoreFails(r) \/ GiveBack(r)
      <4>1. CASE TellFails(r)
        <5>1. hit'[r] # {} /\ pc'[r] = "kept"
          BY <4>1 DEF TellFails, Hit
        <5> QED
          BY <5>1
      <4>2. CASE StoreFails(r)
        <5>1. pc'[r] = "denied"
          BY <4>2 DEF StoreFails
        <5> QED
          BY <5>1
      <4>3. CASE GiveBack(r)
        <5>1. pc'[r] = "returned" \/ (hit'[r] # {} /\ pc'[r] = "kept")
          BY <4>3 DEF GiveBack, Hit
        <5> QED
          BY <5>1
      <4> QED
        BY <3>11, <4>1, <4>2, <4>3
    <3>12. CASE Crash(r)
      BY <3>12 DEF Crash
    <3> QED
      BY <1>3, <3>1, <3>2, <3>3, <3>4, <3>5, <3>6, <3>7, <3>8, <3>9, <3>10, <3>11, <3>12
         DEF Serve, Fail
  <2> QED
    BY <2>2, <2>3
<1> QED
  BY <1>1, <1>2, <1>3 DEF Next

(* A port that is still held by a request that is over and met no fault is *)
(* as that request left it to be, where answers are read back from the     *)
(* switch: the single SNMPv3 switch's answer is what was sent to it.       *)
THEOREM LeftAsAsked == ASSUME Prompt, ~Legacy PROVE Spec => []HeldAsAsked
<1>1. Init => WayInv /\ AsSaidInv
  BY WayInit, AsSaidInit
<1>2. TypeOK /\ HoldInv /\ WayInv /\ AsSaidInv /\ [Next]_vars => (WayInv /\ AsSaidInv)'
  BY WayStep, AsSaidStep
<1>3. AsSaidInv => HeldAsAsked
  BY DEF AsSaidInv, AsSaid, HeldAsAsked
<1> QED
  BY <1>1, <1>2, <1>3, HoldInvariant, PTL DEF Spec

=============================================================================
