--------------------------- MODULE PoeViewsProofs ---------------------------
(***************************************************************************)
(* What TLAPS proves of PoeViews, for any number of requests and ports and *)
(* any hold.  The properties about the hold are proved under Prompt: every *)
(* worker is done before the hold it took runs out.  They do not hold      *)
(* without it (README, "Also seen").                                       *)
(***************************************************************************)
EXTENDS PoeViews, TLAPS

USE NumbersAssumption, NobodyAssumption, LegacyAssumption, ViewsAssumption, FaultsAssumption

-----------------------------------------------------------------------------
(* Types.                                                                  *)

LEMMA KeyType ==
  ASSUME NEW r \in Request, req \in [Request -> Asked]
  PROVE  KeyOf(r) \in Key
BY DEF KeyOf, Kind, Key, Kinds, Asked

LEMMA HoldType ==
  ASSUME NEW w \in OnOff
  PROVE  HoldAfter(w) \in Nat \ {0} /\ HoldAfter(w) <= Longest /\ Longest \in Nat
BY DEF HoldAfter, Longest, OnOff

LEMMA WantType ==
  ASSUME NEW r \in Request, req \in [Request -> Asked]
  PROVE  req[r].want \in OnOff
BY DEF Asked

(* What an operator writes has its variable's type.                        *)
ClaimType   == [Key -> [by : Request \cup {Nobody}, left : Nat]]
ChangedType == [Key -> [by : Request \cup {Nobody}, since : Nat]]

LEMMA TakenType ==
  ASSUME NEW r \in Request, TypeOK, TakeClaim(r)
  PROVE  claim' \in ClaimType
<1>1. KeyOf(r) \in Key /\ HoldAfter(req[r].want) \in Nat
  BY KeyType, WantType, HoldType DEF TypeOK
<1>2. [by |-> r, left |-> HoldAfter(req[r].want)] \in [by : Request \cup {Nobody}, left : Nat]
  BY <1>1
<1> QED
  BY <1>1, <1>2 DEF TypeOK, TakeClaim, ClaimType

LEMMA HitType ==
  ASSUME NEW r \in Request, NEW f, TypeOK, Hit(r, f)
  PROVE  hit' \in [Request -> SUBSET Faults]
BY DEF TypeOK, Hit

LEMMA TypeInit == Init => TypeOK
<1> SUFFICES ASSUME Init PROVE TypeOK
  OBVIOUS
<1>1. Longest \in Nat
  BY DEF Longest
<1> QED
  BY <1>1 DEF Init, TypeOK, OnOff, NoAnswer, Codes, NoClaim, Key, Kinds

LEMMA TypeStep == TypeOK /\ [Next]_vars => TypeOK'
<1> SUFFICES ASSUME TypeOK, [Next]_vars PROVE TypeOK'
  OBVIOUS
<1> USE DEF TypeOK, Goto, Reply, InFlight, Claiming, Asks, Waits, Tells, Ended, Codes
<1>1. CASE UNCHANGED vars
  BY <1>1 DEF vars
<1>2. CASE Tick
  <2>1. Longest \in Nat
    BY DEF Longest
  <2>2. \A k \in Key : OneTickOn(claim[k]) \in [by : Request \cup {Nobody}, left : Nat]
    BY DEF OneTickOn, NoClaim
  <2>3. \A k \in Key : Min2(Longest, changed[k].since + 1) \in Nat
    BY <2>1 DEF Min2
  <2>4. claim' \in ClaimType
    BY <1>2, <2>2 DEF Tick, ClaimType
  <2>5. changed' \in ChangedType
    BY <1>2, <2>3 DEF Tick, ChangedType
  <2>6. age' \in [Request -> Nat]
    BY <1>2 DEF Tick
  <2> QED
    BY <1>2, <2>4, <2>5, <2>6 DEF Tick, ClaimType, ChangedType
<1>3. ASSUME NEW r \in Request, Serve(r) \/ Fail(r)
      PROVE  TypeOK'
  <2>1. KeyOf(r) \in Key
    BY KeyType
  <2>2. req[r].want \in OnOff /\ HoldAfter(req[r].want) \in Nat
    BY WantType, HoldType
  <2>3. StateAsked(r) \in OnOff
    BY <2>2 DEF StateAsked, OnOff
  <2>4. Answers(r) \subseteq OnOff \cup NoAnswer
    BY <2>1, <2>3 DEF Answers
  <2>5. CASE Claim(r)
    <3>1. claim' \in ClaimType
      BY <2>5, TakenType DEF Claim, ClaimType
    <3> QED
      BY <2>5, <3>1 DEF Claim, ClaimType
  <2>6. CASE Refuse(r)
    BY <2>6 DEF Refuse
  <2>7. CASE OpenPort(r)
    BY <2>7 DEF OpenPort
  <2>8. CASE OpenFails(r)
    <3>1. hit' \in [Request -> SUBSET Faults]
      BY <2>8, HitType DEF OpenFails
    <3>2. pc' \in [Request -> {"new"} \cup InFlight \cup Ended]
      BY <2>8 DEF OpenFails
    <3>3. reply' \in [Request -> Codes]
      BY <2>8 DEF OpenFails, OpenError
    <3> QED
      BY <2>8, <3>1, <3>2, <3>3 DEF OpenFails
  <2>9. CASE Write(r)
    <3>1. admin' \in [Key -> OnOff]
      BY <2>9, <2>3 DEF Write
    <3>2. changed' \in ChangedType
      BY <2>9, <2>1 DEF Write, ChangedType
    <3>3. tries' \in [Request -> Nat]
      BY <2>9 DEF Write
    <3>4. pc' \in [Request -> {"new"} \cup InFlight \cup Ended]
      BY <2>9 DEF Write
    <3> QED
      BY <2>9, <3>1, <3>2, <3>3, <3>4 DEF Write, ChangedType
  <2>10. CASE OffAnswered(r)
    BY <2>10, <2>4 DEF OffAnswered
  <2>11. CASE OnAnswered(r)
    BY <2>11, <2>4 DEF OnAnswered
  <2>12. CASE SetAnswered(r)
    BY <2>12, <2>4 DEF SetAnswered
  <2>13. CASE Cycled(r)
    BY <2>13 DEF Cycled
  <2>14. CASE TellOff(r)
    BY <2>14 DEF TellOff
  <2>15. CASE TellOn(r)
    <3>1. reply' \in [Request -> Codes]
      BY <2>15 DEF TellOn
    <3>2. pc' \in [Request -> {"new"} \cup InFlight \cup Ended]
      BY <2>15 DEF TellOn
    <3> QED
      BY <2>15, <3>1, <3>2 DEF TellOn
  <2>16. CASE TellSet(r)
    <3>1. reply' \in [Request -> Codes]
      BY <2>16 DEF TellSet
    <3>2. pc' \in [Request -> {"new"} \cup InFlight \cup Ended]
      BY <2>16 DEF TellSet
    <3> QED
      BY <2>16, <3>1, <3>2 DEF TellSet
  <2>17. CASE GiveBack(r)
    <3>1. claim' \in ClaimType
      BY <2>17, <2>1 DEF GiveBack, NoClaim, ClaimType
    <3>2. hit' \in [Request -> SUBSET Faults]
      BY <2>17, HitType DEF GiveBack
    <3>3. pc' \in [Request -> {"new"} \cup InFlight \cup Ended]
      BY <2>17 DEF GiveBack
    <3> QED
      BY <2>17, <3>1, <3>2, <3>3 DEF GiveBack, ClaimType
  <2>18. CASE StoreFails(r)
    <3>1. claim' \in ClaimType
      BY <2>18, TakenType DEF StoreFails, ClaimType
    <3>2. hit' \in [Request -> SUBSET Faults]
      BY <2>18, HitType DEF StoreFails
    <3>3. pc' \in [Request -> {"new"} \cup InFlight \cup Ended] /\ reply' \in [Request -> Codes]
      BY <2>18 DEF StoreFails
    <3> QED
      BY <2>18, <3>1, <3>2, <3>3 DEF StoreFails, ClaimType
  <2>19. CASE TellFails(r)
    <3>1. hit' \in [Request -> SUBSET Faults]
      BY <2>19, HitType DEF TellFails
    <3>2. reply' \in [Request -> Codes]
      BY <2>19 DEF TellFails
    <3>3. pc' \in [Request -> {"new"} \cup InFlight \cup Ended]
      BY <2>19 DEF TellFails
    <3> QED
      BY <2>19, <3>1, <3>2, <3>3 DEF TellFails
  <2>20. CASE Crash(r)
    BY <2>20 DEF Crash
  <2> QED
    BY <1>3, <2>5, <2>6, <2>7, <2>8, <2>9, <2>10, <2>11, <2>12, <2>13, <2>14, <2>15, <2>16,
       <2>17, <2>18, <2>19, <2>20 DEF Serve, Fail
<1> QED
  BY <1>1, <1>2, <1>3 DEF Next

(* Every variable keeps its type, whatever the constants.                  *)
THEOREM TypeCorrect == Spec => []TypeOK
BY TypeInit, TypeStep, PTL DEF Spec

-----------------------------------------------------------------------------
(* What a step of one request does to the hold and to the switch: it takes *)
(* the port, works on it, goes away without it, or gives it back.          *)

Here(r) == <<req, age>>' = <<req, age>> /\ pc' = [pc EXCEPT ![r] = pc'[r]]

Untouched == UNCHANGED <<admin, changed>>

Takes(r) ==
  /\ pc[r] = "new" /\ pc'[r] \in {"open", "denied"}
  /\ Free(KeyOf(r)) /\ TakeClaim(r) /\ Untouched

Works(r) ==
  /\ pc[r] \in Claiming /\ UNCHANGED claim
  /\ \/ pc'[r] \in Claiming \cup {"kept", "dead"} /\ Untouched
     \/ /\ pc'[r] \in Claiming
        /\ \A k \in Key : k # KeyOf(r) => admin'[k] = admin[k] /\ changed'[k] = changed[k]
        /\ \/ changed'[KeyOf(r)] = changed[KeyOf(r)]
           \/ changed'[KeyOf(r)] = [by |-> r, since |-> 0]

GoesAway(r) ==
  /\ pc[r] \in {"new", "refused"} /\ pc'[r] \in {"refused", "denied", "dead"}
  /\ UNCHANGED claim /\ Untouched

Returns(r) ==
  /\ pc[r] = "giveBack" /\ pc'[r] = "returned"
  /\ claim' = [claim EXCEPT ![KeyOf(r)] = NoClaim] /\ Untouched

Does(r) == Takes(r) \/ Works(r) \/ GoesAway(r) \/ Returns(r)

LEMMA Doings ==
  ASSUME TypeOK, NEW r \in Request, Serve(r) \/ Fail(r)
  PROVE  Here(r) /\ Does(r)
<1> USE DEF TypeOK, Goto, Here, Does, Untouched, Claiming, Asks, Waits, Tells
<1>1. CASE Claim(r)
  <2>1. CASE Free(KeyOf(r)) /\ TakeClaim(r) /\ Goto(r, "open")
    BY <1>1, <2>1 DEF Claim, Takes
  <2>2. CASE ~Free(KeyOf(r)) /\ Goto(r, "refused") /\ UNCHANGED claim
    BY <1>1, <2>2 DEF Claim, GoesAway
  <2> QED
    BY <1>1, <2>1, <2>2 DEF Claim
<1>2. CASE Refuse(r)
  BY <1>2 DEF Refuse, GoesAway
<1>3. CASE OpenPort(r)
  BY <1>3 DEF OpenPort, Works
<1>4. CASE OpenFails(r)
  BY <1>4 DEF OpenFails, Works
<1>5. CASE Write(r)
  <2>1. KeyOf(r) \in Key
    BY KeyType
  <2> QED
    BY <1>5, <2>1 DEF Write, Works
<1>6. CASE OffAnswered(r)
  BY <1>6 DEF OffAnswered, Works
<1>7. CASE OnAnswered(r)
  BY <1>7 DEF OnAnswered, Works
<1>8. CASE SetAnswered(r)
  BY <1>8 DEF SetAnswered, Works
<1>9. CASE Cycled(r)
  BY <1>9 DEF Cycled, Works
<1>10. CASE TellOff(r)
  BY <1>10 DEF TellOff, Works
<1>11. CASE TellOn(r)
  BY <1>11 DEF TellOn, Works
<1>12. CASE TellSet(r)
  BY <1>12 DEF TellSet, Works
<1>13. CASE GiveBack(r)
  BY <1>13 DEF GiveBack, Works, Returns
<1>14. CASE StoreFails(r)
  BY <1>14 DEF StoreFails, Takes, GoesAway
<1>15. CASE TellFails(r)
  BY <1>15 DEF TellFails, Works
<1>16. CASE Crash(r)
  BY <1>16 DEF Crash, InFlight, Works, GoesAway
<1> QED
  BY <1>1, <1>2, <1>3, <1>4, <1>5, <1>6, <1>7, <1>8, <1>9, <1>10, <1>11, <1>12, <1>13, <1>14,
     <1>15, <1>16 DEF Serve, Fail

-----------------------------------------------------------------------------
(* The invariant of the hold.  Under Prompt a request at work still has    *)
(* its claim, with what is left of the hold it took.  A claim names the    *)
(* request that took it, and only for as long as it lives.                 *)

OwnClaim(r) ==
  /\ claim[KeyOf(r)].by = r
  /\ claim[KeyOf(r)].left + age[r] = HoldAfter(req[r].want)
  /\ age[r] <= Patience

HoldInv ==
  /\ \A r \in Request : pc[r] \in Claiming => OwnClaim(r)
  /\ \A r \in Request : pc[r] = "new" => age[r] = 0
  /\ \A k \in Key : claim[k].left = 0 <=> claim[k].by = Nobody
  /\ \A k \in Key, r \in Request :
       claim[k].by = r => KeyOf(r) = k /\ pc[r] \in Claiming \cup Ended

LEMMA HoldInit == Init => HoldInv
BY DEF Init, HoldInv, Claiming, Asks, Waits, Tells, NoClaim

LEMMA TickedClaim ==
  ASSUME NEW c \in [by : Request \cup {Nobody}, left : Nat]
  PROVE  \/ c.left > 1  /\ OneTickOn(c).by = c.by /\ OneTickOn(c).left = c.left - 1
         \/ c.left <= 1 /\ OneTickOn(c).by = Nobody /\ OneTickOn(c).left = 0
BY DEF OneTickOn, NoClaim

LEMMA HoldTick == Prompt /\ TypeOK /\ HoldInv /\ Tick => HoldInv'
<1> SUFFICES ASSUME Prompt, TypeOK, HoldInv, Tick PROVE HoldInv'
  OBVIOUS
<1>1. \A r \in Request : KeyOf(r) \in Key /\ KeyOf(r)' = KeyOf(r)
  BY KeyType DEF TypeOK, Tick, KeyOf
<1>2. \A k \in Key : claim'[k] = OneTickOn(claim[k])
  BY DEF Tick
<1>3. \A k \in Key : claim[k] \in [by : Request \cup {Nobody}, left : Nat]
  BY DEF TypeOK
<1>4. ASSUME NEW r \in Request, pc'[r] \in Claiming
      PROVE  OwnClaim(r)'
  <2>1. pc[r] \in Claiming /\ age[r] < Patience /\ age'[r] = age[r] + 1 /\ age[r] \in Nat
    BY <1>4 DEF Tick, InFlight, TypeOK
  <2>2. OwnClaim(r) /\ HoldAfter(req[r].want) \in Nat /\ req'[r].want = req[r].want
    BY <2>1, WantType, HoldType DEF HoldInv, TypeOK, Tick
  <2>3. HoldAfter(req[r].want) > Patience /\ HoldAfter(req'[r].want) = HoldAfter(req[r].want)
    BY <2>2 DEF Prompt, HoldAfter
  <2>4. claim[KeyOf(r)].left > 1
    BY <1>1, <1>3, <2>1, <2>2, <2>3 DEF OwnClaim
  <2>5. /\ claim'[KeyOf(r)].by = r
        /\ claim'[KeyOf(r)].left = claim[KeyOf(r)].left - 1
    BY <1>1, <1>2, <1>3, <2>2, <2>4, TickedClaim DEF OwnClaim
  <2> QED
    BY <1>1, <1>3, <2>1, <2>2, <2>3, <2>5 DEF OwnClaim
<1>5. \A r \in Request : pc'[r] = "new" => age'[r] = 0
  BY DEF Tick, InFlight, Claiming, Asks, Waits, Tells
<1>6. \A k \in Key : claim'[k].left = 0 <=> claim'[k].by = Nobody
  <2> SUFFICES ASSUME NEW k \in Key
               PROVE  claim'[k].left = 0 <=> claim'[k].by = Nobody
    OBVIOUS
  <2>1. claim[k].left \in Nat /\ (claim[k].left = 0 <=> claim[k].by = Nobody)
    BY <1>3 DEF HoldInv
  <2> QED
    BY <1>2, <1>3, <2>1, TickedClaim
<1>7. ASSUME NEW k \in Key, NEW r \in Request, claim'[k].by = r
      PROVE  KeyOf(r)' = k /\ pc'[r] \in Claiming \cup Ended
  <2>1. claim[k].by = r
    BY <1>2, <1>3, <1>7, TickedClaim
  <2> QED
    BY <1>1, <2>1 DEF HoldInv, Tick
<1> QED
  BY <1>4, <1>5, <1>6, <1>7 DEF HoldInv

LEMMA HoldDoes ==
  ASSUME TypeOK, HoldInv, NEW r \in Request, Here(r), Does(r)
  PROVE  HoldInv'
<1>1. \A s \in Request : KeyOf(s) \in Key /\ KeyOf(s)' = KeyOf(s)
  BY KeyType DEF TypeOK, Here, KeyOf
<1>2. \A s \in Request : s # r => pc'[s] = pc[s]
  BY DEF Here, TypeOK
<1>3. age' = age /\ req' = req
  BY DEF Here
<1>4. HoldAfter(req[r].want) \in Nat \ {0}
  BY WantType, HoldType DEF TypeOK
<1>5. CASE Takes(r)
  <2>1. claim'[KeyOf(r)] = [by |-> r, left |-> HoldAfter(req[r].want)]
    BY <1>1, <1>5 DEF Takes, TakeClaim, TypeOK
  <2>2. \A k \in Key : k # KeyOf(r) => claim'[k] = claim[k]
    BY <1>1, <1>5 DEF Takes, TakeClaim, TypeOK
  <2>3. claim[KeyOf(r)].by = Nobody
    BY <1>1, <1>5 DEF Takes, Free, HoldInv
  <2>4. ASSUME NEW s \in Request, pc'[s] \in Claiming
        PROVE  OwnClaim(s)'
    <3>1. CASE s = r
      BY <1>1, <1>3, <1>4, <1>5, <2>1, <3>1 DEF OwnClaim, Takes, HoldInv, HoldAfter
    <3>2. CASE s # r
      <4>1. OwnClaim(s) /\ KeyOf(s) # KeyOf(r)
        BY <1>2, <2>3, <2>4, <3>2, NobodyAssumption DEF HoldInv, OwnClaim
      <4> QED
        BY <1>1, <1>3, <2>2, <4>1 DEF OwnClaim, HoldAfter
    <3> QED
      BY <3>1, <3>2
  <2>5. \A s \in Request : pc'[s] = "new" => age'[s] = 0
    BY <1>2, <1>3, <1>5 DEF Takes, HoldInv
  <2>6. \A k \in Key : claim'[k].left = 0 <=> claim'[k].by = Nobody
    BY <1>4, <2>1, <2>2, NobodyAssumption DEF HoldInv
  <2>7. ASSUME NEW k \in Key, NEW s \in Request, claim'[k].by = s
        PROVE  KeyOf(s)' = k /\ pc'[s] \in Claiming \cup Ended
    <3>1. CASE k = KeyOf(r)
      BY <1>1, <1>5, <2>1, <2>7, <3>1 DEF Takes, Claiming, Ended
    <3>2. CASE k # KeyOf(r)
      BY <1>1, <1>2, <1>5, <2>2, <2>7, <3>2 DEF HoldInv
    <3> QED
      BY <3>1, <3>2
  <2> QED
    BY <2>4, <2>5, <2>6, <2>7 DEF HoldInv
<1>6. CASE Works(r) \/ GoesAway(r)
  <2>1. claim' = claim
    BY <1>6 DEF Works, GoesAway
  <2>2. pc'[r] \in Claiming => pc[r] \in Claiming
    BY <1>6 DEF Works, GoesAway, Claiming, Asks, Waits, Tells
  <2>3. pc'[r] # "new" /\ (pc[r] \in Claiming \cup Ended => pc'[r] \in Claiming \cup Ended)
    BY <1>6 DEF Works, GoesAway, Claiming, Asks, Waits, Tells, Ended
  <2>4. \A s \in Request : pc'[s] \in Claiming => OwnClaim(s)'
    BY <1>1, <1>2, <1>3, <2>1, <2>2 DEF HoldInv, OwnClaim, HoldAfter
  <2>5. \A s \in Request : pc'[s] = "new" => age'[s] = 0
    BY <1>2, <1>3, <2>3 DEF HoldInv
  <2> QED
    BY <1>1, <1>2, <2>1, <2>3, <2>4, <2>5 DEF HoldInv
<1>7. CASE Returns(r)
  <2>1. claim'[KeyOf(r)] = NoClaim /\ \A k \in Key : k # KeyOf(r) => claim'[k] = claim[k]
    BY <1>1, <1>7 DEF Returns, TypeOK
  <2>2. claim[KeyOf(r)].by = r /\ pc'[r] = "returned"
    BY <1>7 DEF Returns, HoldInv, OwnClaim, Claiming
  <2>3. ASSUME NEW s \in Request, pc'[s] \in Claiming
        PROVE  OwnClaim(s)'
    <3>1. s # r
      BY <2>2, <2>3 DEF Claiming, Asks, Waits, Tells
    <3>2. OwnClaim(s) /\ KeyOf(s) # KeyOf(r)
      BY <1>2, <2>2, <2>3, <3>1 DEF HoldInv, OwnClaim
    <3> QED
      BY <1>1, <1>3, <2>1, <3>2 DEF OwnClaim, HoldAfter
  <2>4. \A s \in Request : pc'[s] = "new" => age'[s] = 0
    BY <1>2, <1>3, <2>2 DEF HoldInv
  <2>5. \A k \in Key : claim'[k].left = 0 <=> claim'[k].by = Nobody
    BY <2>1 DEF HoldInv, NoClaim
  <2>6. ASSUME NEW k \in Key, NEW s \in Request, claim'[k].by = s
        PROVE  KeyOf(s)' = k /\ pc'[s] \in Claiming \cup Ended
    <3>1. k # KeyOf(r) /\ claim[k].by = s
      BY <2>1, <2>6, NobodyAssumption DEF NoClaim
    <3> QED
      BY <1>1, <1>2, <2>2, <3>1 DEF HoldInv, Ended
  <2> QED
    BY <2>3, <2>4, <2>5, <2>6 DEF HoldInv
<1> QED
  BY <1>5, <1>6, <1>7 DEF Does

LEMMA HoldStep == Prompt /\ TypeOK /\ HoldInv /\ [Next]_vars => HoldInv'
<1> SUFFICES ASSUME Prompt, TypeOK, HoldInv, [Next]_vars PROVE HoldInv'
  OBVIOUS
<1>1. CASE UNCHANGED vars
  BY <1>1 DEF vars, HoldInv, OwnClaim, KeyOf, HoldAfter
<1>2. CASE Tick
  BY <1>2, HoldTick
<1>3. ASSUME NEW r \in Request, Serve(r) \/ Fail(r)
      PROVE  HoldInv'
  BY <1>3, Doings, HoldDoes
<1> QED
  BY <1>1, <1>2, <1>3 DEF Next

THEOREM HoldInvariant == ASSUME Prompt PROVE Spec => [](TypeOK /\ HoldInv)
<1>1. Init => TypeOK /\ HoldInv
  BY TypeInit, HoldInit
<1>2. TypeOK /\ HoldInv /\ [Next]_vars => (TypeOK /\ HoldInv)'
  BY TypeStep, HoldStep
<1> QED
  BY <1>1, <1>2, PTL DEF Spec

(* No two requests are at work on one port's power, or on one link.        *)
THEOREM Exclusion == ASSUME Prompt PROVE Spec => []Exclusive
<1>1. HoldInv => Exclusive
  BY DEF HoldInv, OwnClaim, Exclusive
<1> QED
  BY <1>1, HoldInvariant, PTL

(* What release_toggle_claim deletes is the caller's own claim.            *)
THEOREM GivingBack == ASSUME Prompt PROVE Spec => []GivesBackItsOwn
<1>1. HoldInv => GivesBackItsOwn
  BY DEF HoldInv, OwnClaim, GivesBackItsOwn, Claiming
<1> QED
  BY <1>1, HoldInvariant, PTL

-----------------------------------------------------------------------------
(* What the hold leaves of the time since a port was changed: once r is    *)
(* over, r's claim is what is missing, or nothing is.                      *)

Due(r) == HoldAfter(req[r].want) - Patience

Covered(k, r) ==
  \/ changed[k].since >= Due(r)
  \/ claim[k].by = r /\ claim[k].left + changed[k].since >= Due(r)

HistoryInv ==
  \A k \in Key, r \in Request :
    LeftBy(k, r) => /\ KeyOf(r) = k
                    /\ pc[r] \in Claiming \cup {"kept", "dead"}
                    /\ pc[r] \notin Claiming => Covered(k, r)

LEMMA HistoryInit == Init => HistoryInv
BY DEF Init, HistoryInv, LeftBy

LEMMA HistoryTick == TypeOK /\ HistoryInv /\ Tick => HistoryInv'
<1> SUFFICES ASSUME TypeOK, HistoryInv, Tick,
                    NEW k \in Key, NEW r \in Request, LeftBy(k, r)'
             PROVE  /\ KeyOf(r)' = k
                    /\ pc'[r] \in Claiming \cup {"kept", "dead"}
                    /\ pc'[r] \notin Claiming => Covered(k, r)'
  BY DEF HistoryInv
<1>1. /\ changed'[k].by = changed[k].by
      /\ changed'[k].since = Min2(Longest, changed[k].since + 1)
      /\ claim'[k] = OneTickOn(claim[k])
      /\ claim[k] \in [by : Request \cup {Nobody}, left : Nat]
      /\ changed[k].since \in Nat
  BY DEF Tick, TypeOK
<1>2. pc' = pc /\ KeyOf(r)' = KeyOf(r) /\ Due(r)' = Due(r) /\ LeftBy(k, r)
  BY <1>1 DEF Tick, KeyOf, LeftBy, Due, HoldAfter
<1>3. KeyOf(r) = k /\ pc[r] \in Claiming \cup {"kept", "dead"}
  BY <1>2 DEF HistoryInv
<1>4. ASSUME pc[r] \notin Claiming
      PROVE  Covered(k, r)'
  <2>1. Covered(k, r)
    BY <1>2, <1>4 DEF HistoryInv
  <2>2. HoldAfter(req[r].want) \in Nat /\ HoldAfter(req[r].want) <= Longest /\ Longest \in Nat
    BY WantType, HoldType DEF TypeOK
  <2>3. CASE changed[k].since >= Due(r)
    BY <1>1, <1>2, <2>2, <2>3 DEF Covered, Min2, Due
  <2>4. CASE claim[k].by = r /\ claim[k].left + changed[k].since >= Due(r)
    BY <1>1, <1>2, <2>2, <2>4, TickedClaim DEF Covered, Min2, Due
  <2> QED
    BY <2>1, <2>3, <2>4 DEF Covered
<1> QED
  BY <1>2, <1>3, <1>4

(* Only the request at work on a port changes it.                          *)
LEMMA Changer ==
  ASSUME TypeOK, HoldInv, NEW r \in Request, Does(r), NEW k \in Key, changed'[k] # changed[k]
  PROVE  /\ KeyOf(r) = k /\ claim[k].by = r /\ changed'[k].by = r
         /\ pc[r] \in Claiming /\ pc'[r] \in Claiming
BY DEF Does, Takes, Works, GoesAway, Returns, Untouched, HoldInv, OwnClaim

LEMMA HistoryDoes ==
  ASSUME TypeOK, HoldInv, HistoryInv, NEW r \in Request, Here(r), Does(r)
  PROVE  HistoryInv'
<1> SUFFICES ASSUME NEW k \in Key, NEW s \in Request, LeftBy(k, s)'
             PROVE  /\ KeyOf(s)' = k
                    /\ pc'[s] \in Claiming \cup {"kept", "dead"}
                    /\ pc'[s] \notin Claiming => Covered(k, s)'
  BY DEF HistoryInv
<1>1. KeyOf(s)' = KeyOf(s) /\ Due(s)' = Due(s)
  BY DEF Here, KeyOf, Due, HoldAfter
<1>2. s # r => pc'[s] = pc[s]
  BY DEF Here, TypeOK
<1>3. KeyOf(r) \in Key /\ KeyOf(s) \in Key
  BY KeyType DEF TypeOK
<1>4. CASE changed'[k] # changed[k]
  BY <1>1, <1>4, Changer DEF LeftBy
<1>5. CASE changed'[k] = changed[k] /\ s # r
  <2>1. LeftBy(k, s)
    BY <1>2, <1>5 DEF LeftBy
  <2>2. KeyOf(s) = k /\ pc[s] \in Claiming \cup {"kept", "dead"}
    BY <2>1 DEF HistoryInv
  <2>3. ASSUME pc[s] \notin Claiming
        PROVE  Covered(k, s)'
    <3>1. Covered(k, s)
      BY <2>1, <2>3 DEF HistoryInv
    <3>2. CASE changed[k].since >= Due(s)
      BY <1>1, <1>5, <3>2 DEF Covered
    <3>3. CASE claim[k].by = s /\ claim[k].left + changed[k].since >= Due(s)
      <4>1. claim'[k] = claim[k]
        <5>1. CASE Takes(r)
          <6>1. k # KeyOf(r)
            BY <1>3, <3>3, <5>1, NobodyAssumption DEF Takes, Free, HoldInv
          <6> QED
            BY <5>1, <6>1 DEF Takes, TakeClaim, TypeOK
        <5>2. CASE Works(r) \/ GoesAway(r)
          BY <5>2 DEF Works, GoesAway
        <5>3. CASE Returns(r)
          <6>1. k # KeyOf(r)
            BY <1>5, <3>3, <5>3 DEF Returns, HoldInv, OwnClaim, Claiming
          <6> QED
            BY <5>3, <6>1 DEF Returns, TypeOK
        <5> QED
          BY <5>1, <5>2, <5>3 DEF Does
      <4> QED
        BY <1>1, <1>5, <3>3, <4>1 DEF Covered
    <3> QED
      BY <3>1, <3>2, <3>3 DEF Covered
  <2> QED
    BY <1>1, <1>2, <1>5, <2>2, <2>3
<1>6. CASE changed'[k] = changed[k] /\ s = r
  <2>1. pc'[r] # "returned" /\ changed[k].by = r
    BY <1>6 DEF LeftBy
  <2>2. Works(r)
    BY <1>6, <2>1 DEF Does, Takes, GoesAway, Returns, HistoryInv, LeftBy, Claiming, Asks, Waits, Tells
  <2>3. pc[r] \in Claiming /\ claim' = claim /\ pc'[r] \in Claiming \cup {"kept", "dead"}
    BY <2>2 DEF Works
  <2>4. LeftBy(k, r)
    BY <2>1, <2>3 DEF LeftBy, Claiming, Asks, Waits, Tells
  <2>5. KeyOf(r) = k /\ OwnClaim(r)
    BY <2>3, <2>4 DEF HistoryInv, HoldInv
  <2>6. Covered(k, r)
    <3>1. /\ changed[k].since \in Nat /\ claim[k].left \in Nat /\ age[r] \in Nat
          /\ HoldAfter(req[r].want) \in Nat
      BY WantType, HoldType DEF TypeOK
    <3> QED
      BY <2>5, <3>1 DEF Covered, OwnClaim, Due
  <2> QED
    BY <1>1, <1>6, <2>3, <2>5, <2>6 DEF Covered
<1> QED
  BY <1>4, <1>5, <1>6

LEMMA HistoryStep == TypeOK /\ HoldInv /\ HistoryInv /\ [Next]_vars => HistoryInv'
<1> SUFFICES ASSUME TypeOK, HoldInv, HistoryInv, [Next]_vars PROVE HistoryInv'
  OBVIOUS
<1>1. CASE UNCHANGED vars
  BY <1>1 DEF vars, HistoryInv, LeftBy, Covered, Due, KeyOf, HoldAfter
<1>2. CASE Tick
  BY <1>2, HistoryTick
<1>3. ASSUME NEW r \in Request, Serve(r) \/ Fail(r)
      PROVE  HistoryInv'
  BY <1>3, Doings, HistoryDoes
<1> QED
  BY <1>1, <1>2, <1>3 DEF Next

(* A port that was switched is left alone for the hold of what was done    *)
(* last, less the time its request took.                                   *)
THEOREM NearlyFullHold == ASSUME Prompt PROVE Spec => HoldNearlyFull
<1> DEFINE Full == \A k \in Key, r \in Request :
                     LeftBy(k, r) /\ changed'[k].by # r => changed[k].since >= Due(r)
<1>1. TypeOK /\ HoldInv /\ HistoryInv /\ [Next]_vars => [Full]_vars
  <2> SUFFICES ASSUME TypeOK, HoldInv, HistoryInv, Next,
                      NEW k \in Key, NEW r \in Request, LeftBy(k, r), changed'[k].by # r
               PROVE  changed[k].since >= Due(r)
    OBVIOUS
  <2>1. changed'[k].by # changed[k].by
    BY DEF LeftBy
  <2>2. PICK s \in Request : Serve(s) \/ Fail(s)
    BY <2>1 DEF Next, Tick, TypeOK
  <2>3. KeyOf(s) = k /\ claim[k].by = s /\ changed'[k].by = s
    BY <2>1, <2>2, Doings, Changer
  <2>4. claim[k].by # r /\ pc[r] \notin Claiming
    BY <2>3 DEF HistoryInv, HoldInv, OwnClaim
  <2> QED
    BY <2>4 DEF HistoryInv, Covered
<1>2. Init => HistoryInv
  BY HistoryInit
<1>3. TypeOK /\ HoldInv /\ HistoryInv /\ [Next]_vars => HistoryInv'
  BY HistoryStep
<1>4. HoldNearlyFull <=> [][Full]_vars
  BY DEF HoldNearlyFull, Due
<1> HIDE DEF Full
<1> QED
  BY <1>1, <1>2, <1>3, <1>4, HoldInvariant, PTL DEF Spec

-----------------------------------------------------------------------------
(* Requests, through their claims, do to a port what PortHold allows.      *)
THEOREM Refinement == ASSUME Prompt PROVE Spec => ImplementsPortHold
<1>1. Init => Hold!Init
  BY DEF Init, Hold!Init, Phase, NoClaim
<1>2. TypeOK /\ HoldInv /\ TypeOK' /\ [Next]_vars
        => [Hold!Next]_<<[k \in Key |-> Phase(k)], admin>>
  <2> SUFFICES ASSUME TypeOK, HoldInv, TypeOK', [Next]_vars
               PROVE  [Hold!Next]_<<[k \in Key |-> Phase(k)], admin>>
    OBVIOUS
  <2>1. CASE UNCHANGED vars
    BY <2>1 DEF vars, Phase
  <2>2. CASE Next
    <3>1. ASSUME NEW k \in Key PROVE Hold!PortStep(k)
      <4> DEFINE p == [j \in Key |-> Phase(j)]
      <4>1. p[k] = Phase(k) /\ p'[k] = Phase(k)'
        OBVIOUS
      <4>2. CASE Tick
        <5>1. admin' = admin /\ pc' = pc /\ claim'[k] = OneTickOn(claim[k])
          BY <4>2 DEF Tick
        <5>2. claim'[k].by \in {Nobody, claim[k].by}
          BY <5>1, TickedClaim DEF TypeOK
        <5> QED
          BY <4>1, <5>1, <5>2 DEF Hold!PortStep, Phase
      <4>3. ASSUME NEW r \in Request, Serve(r) \/ Fail(r) PROVE Hold!PortStep(k)
        <5>1. Here(r) /\ Does(r)
          BY <4>3, Doings
        <5>2. claim[k].by \in Request \cup {Nobody} /\ KeyOf(r) \in Key
          BY KeyType DEF TypeOK
        <5>3. \A s \in Request : s # r => pc'[s] = pc[s]
          BY <5>1 DEF Here, TypeOK
        <5>4. CASE Takes(r)
          <6>1. CASE k = KeyOf(r)
            <7>1. Phase(k) = "free" /\ Phase(k)' \in {"busy", "held"} /\ admin' = admin
              BY <5>2, <5>4, <6>1 DEF Takes, TakeClaim, Free, Untouched, HoldInv, Phase, TypeOK
            <7> QED
              BY <4>1, <7>1 DEF Hold!PortStep
          <6>2. CASE k # KeyOf(r)
            <7>1. claim'[k] = claim[k] /\ claim[k].by # r /\ admin' = admin
              BY <5>2, <5>4, <6>2 DEF Takes, TakeClaim, Untouched, HoldInv, TypeOK
            <7>2. Phase(k)' = Phase(k)
              BY <5>2, <5>3, <7>1 DEF Phase
            <7> QED
              BY <4>1, <7>1, <7>2 DEF Hold!PortStep
          <6> QED
            BY <6>1, <6>2
        <5>5. CASE Works(r)
          <6>1. pc[r] \in Claiming /\ claim' = claim /\ claim[KeyOf(r)].by = r
            BY <5>5 DEF Works, HoldInv, OwnClaim
          <6>2. CASE k = KeyOf(r)
            <7>1. Phase(k) = "busy" /\ Phase(k)' = IF pc'[r] \in Claiming THEN "busy" ELSE "held"
              BY <6>1, <6>2 DEF Phase
            <7>2. pc'[r] \in Claiming \/ admin' = admin
              BY <5>5 DEF Works, Untouched
            <7> QED
              BY <4>1, <7>1, <7>2 DEF Hold!PortStep
          <6>3. CASE k # KeyOf(r)
            <7>1. claim[k].by # r /\ admin'[k] = admin[k]
              BY <5>5, <6>3 DEF Works, Untouched, HoldInv
            <7>2. Phase(k)' = Phase(k)
              BY <5>2, <5>3, <6>1, <7>1 DEF Phase
            <7> QED
              BY <4>1, <7>1, <7>2 DEF Hold!PortStep
          <6> QED
            BY <6>2, <6>3
        <5>6. CASE GoesAway(r)
          <6>1. claim' = claim /\ claim[k].by # r /\ admin' = admin
            BY <5>6 DEF GoesAway, Untouched, HoldInv, Claiming, Asks, Waits, Tells, Ended
          <6>2. Phase(k)' = Phase(k)
            BY <5>2, <5>3, <6>1 DEF Phase
          <6> QED
            BY <4>1, <6>1, <6>2 DEF Hold!PortStep
        <5>7. CASE Returns(r)
          <6>1. claim[KeyOf(r)].by = r /\ admin' = admin
            BY <5>7 DEF Returns, HoldInv, OwnClaim, Untouched, Claiming
          <6>2. CASE k = KeyOf(r)
            <7>1. Phase(k) = "busy" /\ Phase(k)' = "free"
              BY <5>2, <5>7, <6>1, <6>2 DEF Returns, Phase, NoClaim, Claiming, TypeOK
            <7> QED
              BY <4>1, <6>1, <7>1 DEF Hold!PortStep
          <6>3. CASE k # KeyOf(r)
            <7>1. claim'[k] = claim[k] /\ claim[k].by # r
              BY <5>2, <5>7, <6>3 DEF Returns, HoldInv, TypeOK
            <7>2. Phase(k)' = Phase(k)
              BY <5>2, <5>3, <7>1 DEF Phase
            <7> QED
              BY <4>1, <6>1, <7>2 DEF Hold!PortStep
          <6> QED
            BY <6>2, <6>3
        <5> QED
          BY <5>1, <5>4, <5>5, <5>6, <5>7 DEF Does
      <4> QED
        BY <2>2, <4>2, <4>3 DEF Next
    <3>2. admin' \in [Key -> OnOff]
      BY DEF TypeOK
    <3>3. [k \in Key |-> Phase(k)]' \in [Key -> Hold!Phases]
      BY DEF Phase, Hold!Phases
    <3> QED
      BY <3>1, <3>2, <3>3 DEF Hold!Next
  <2> QED
    BY <2>1, <2>2
<1> QED
  BY <1>1, <1>2, HoldInvariant, PTL DEF Spec, ImplementsPortHold, Hold!Spec

=============================================================================
