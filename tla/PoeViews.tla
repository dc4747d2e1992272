------------------------------ MODULE PoeViews ------------------------------
(***************************************************************************)
(* The Django views that write to a switch port: toggle (a power cycle),   *)
(* power (one switch on or off) and link (the port's ifAdminStatus), from  *)
(* src/src/snmp_switch/views.py, with the hold they take on the port in    *)
(* the shared cache (policy.py) and the object that speaks to the switch   *)
(* (switches.py).  A request reaches this module once poe_view has let it  *)
(* through.                                                                *)
(*                                                                         *)
(* Every request is served by a worker of its own, so requests interleave  *)
(* at every call that leaves the process: the cache, the switch, the       *)
(* channel layer.  Time is a Tick.  What the code measures against it (the *)
(* cache entry's time-out) is kept as the number of ticks it has left.     *)
(***************************************************************************)
EXTENDS Integers

CONSTANTS
  Request,     \* the requests; each is served once
  Port,        \* the ports they may name
  Views,       \* the views that are routed, a subset of AllViews
  Legacy,      \* TRUE: the single SNMPv3 switch (LegacyPort), else LibraryPort
  OnAfterOff,  \* SNMP_SWITCH_ON_AFTER_OFF, in ticks
  OffAfterOn,  \* SNMP_SWITCH_OFF_AFTER_ON, in ticks
  OnAttempts,  \* ON_ATTEMPTS
  Patience,    \* the most ticks a worker may serve one request (see Tick)
  Faults,      \* what may go wrong besides the switch, a subset of AllFaults
  Nobody       \* not a request

AllViews  == {"toggle", "power", "link"}

(* "crash": a worker dies.  "notify": the channel layer raises.  "open":   *)
(* open_port raises (a setting is missing).  "store": the cache raises.    *)
AllFaults == {"crash", "notify", "open", "store"}

ASSUME ViewsAssumption   == Views \subseteq AllViews
ASSUME FaultsAssumption  == Faults \subseteq AllFaults
ASSUME LegacyAssumption  == Legacy \in BOOLEAN
ASSUME NobodyAssumption  == Nobody \notin Request
ASSUME NumbersAssumption == /\ OnAfterOff \in Nat \ {0}
                            /\ OffAfterOn \in Nat \ {0}
                            /\ OnAttempts \in Nat \ {0}
                            /\ Patience   \in Nat \ {0}

VARIABLES
  req,       \* what each request asks; never changes
  pc,        \* the next call each request makes, or how it ended
  age,       \* ticks since the request read the clock in seconds_until_toggle_allowed
  off,       \* toggle's `off`: what the switch said of the power-off
  got,       \* the switch's last answer (`on` of toggle, `state` of power and link)
  tries,     \* how many times toggle has sent "on"
  reply,     \* the status code of the response, 0 before there is one
  claim,     \* the cache: who holds each port, and for how many ticks more
  admin,     \* the switch: each port's PoE and link administrative state
  released,  \* the requests that started a lease release
  changed,   \* history: whose write last changed each admin state, how long ago
  hit        \* history: the exceptions each request met

vars == <<req, pc, age, off, got, tries, reply, claim, admin, released, changed, hit>>

-----------------------------------------------------------------------------

Kinds == {"toggle", "link"}       \* KINDS: a port's power and its link are held apart
Key   == Kinds \X Port            \* _claim_key
OnOff == {"on", "off"}            \* for a link: "enabled", "disabled"

(* A cycle ends on, so toggle asks for (leaves_on) "on".                   *)
Asked == {q \in [view : Views, port : Port, want : OnOff] :
            q.view = "toggle" => q.want = "on"}

Kind(view) == IF view = "link" THEN "link" ELSE "toggle"
KeyOf(r)   == <<Kind(req[r].view), req[r].port>>

HoldAfter(want) == IF want = "on" THEN OffAfterOn ELSE OnAfterOff
Longest         == IF OffAfterOn > OnAfterOff THEN OffAfterOn ELSE OnAfterOff

NoClaim == [by |-> Nobody, left |-> 0]
MutFree(k) == TRUE                                            \* a get, then a set
Free(k) == claim[k].left = 0

(* "error" is an exception, "none" a state of None; neither says what the  *)
(* port is.                                                                *)
NoAnswer == {"error", "none"}
Codes    == {0, 200, 429, 500, 502, 503}

(* Where a request can be while it holds its claim, before it ends:        *)
(* `asks' names a write about to be made, `waits' its answer.              *)
Asks     == {"off", "on", "set"}
Waits    == {"offAnswer", "onAnswer", "setAnswer"}
Tells    == {"tellOff", "tellOn", "tellSet"}
Claiming == {"open", "cycled", "giveBack"} \cup Asks \cup Waits \cup Tells
InFlight == Claiming \cup {"refused"}

(* How a request ends: "denied" never had the port, "kept" leaves its      *)
(* claim to run out, "returned" gave it back, "dead" was killed.           *)
Ended == {"denied", "kept", "returned", "dead"}

Min2(a, b) == IF a < b THEN a ELSE b

TypeOK ==
  /\ req      \in [Request -> Asked]
  /\ pc       \in [Request -> {"new"} \cup InFlight \cup Ended]
  /\ age      \in [Request -> Nat]
  /\ off      \in [Request -> OnOff \cup NoAnswer]
  /\ got      \in [Request -> OnOff \cup NoAnswer]
  /\ tries    \in [Request -> Nat]
  /\ reply    \in [Request -> Codes]
  /\ claim    \in [Key -> [by : Request \cup {Nobody}, left : Nat]]
  /\ admin    \in [Key -> OnOff]
  /\ released \in SUBSET Request
  /\ changed  \in [Key -> [by : Request \cup {Nobody}, since : Nat]]
  /\ hit      \in [Request -> SUBSET Faults]

Init ==
  /\ req      \in [Request -> Asked]
  /\ pc       = [r \in Request |-> "new"]
  /\ age      = [r \in Request |-> 0]
  /\ off      = [r \in Request |-> "none"]
  /\ got      = [r \in Request |-> "none"]
  /\ tries    = [r \in Request |-> 0]
  /\ reply    = [r \in Request |-> 0]
  /\ claim    = [k \in Key |-> NoClaim]
  /\ admin    \in [Key -> OnOff]
  /\ released = {}
  /\ changed  = [k \in Key |-> [by |-> Nobody, since |-> Longest]]
  /\ hit      = [r \in Request |-> {}]

Goto(r, label)         == pc' = [pc EXCEPT ![r] = label]
Reply(r, code)         == reply' = [reply EXCEPT ![r] = code]
Hit(r, fault)          == /\ fault \in Faults
                          /\ hit' = [hit EXCEPT ![r] = @ \cup {fault}]
MutTakeClaim(r)        == claim' = [claim EXCEPT ![KeyOf(r)] =      \* one hold for all
                                      [by |-> r, left |-> OnAfterOff]]
TakeClaim(r)           == claim' = [claim EXCEPT ![KeyOf(r)] =
                                      [by |-> r, left |-> HoldAfter(req[r].want)]]

-----------------------------------------------------------------------------
(* seconds_until_toggle_allowed: one cache.add, and a cache.get when       *)
(* somebody else has the port.                                             *)

Claim(r) ==
  /\ pc[r] = "new"
  /\ \/ Free(KeyOf(r)) /\ TakeClaim(r) /\ Goto(r, "open")
     \/ ~Free(KeyOf(r)) /\ Goto(r, "refused") /\ UNCHANGED claim
  /\ UNCHANGED <<req, age, off, got, tries, reply, admin, released, changed, hit>>

MutRefuse(r) ==                                               \* gives back in a `finally`
  /\ pc[r] = "refused"
  /\ Goto(r, "giveBack")
  /\ Reply(r, 429)
  /\ UNCHANGED <<req, age, off, got, tries, claim, admin, released, changed, hit>>

(* The get only works out the Retry-After: whatever it finds, and also when *)
(* the claim has run out since the add, the request is turned away.        *)
Refuse(r) ==
  /\ pc[r] = "refused"
  /\ Goto(r, "denied")
  /\ Reply(r, 429)
  /\ UNCHANGED <<req, age, off, got, tries, claim, admin, released, changed, hit>>

(* The cache raises: 503.  An add that raises may have been carried out.   *)
StoreFails(r) ==
  /\ pc[r] \in {"new", "refused"}
  /\ Hit(r, "store")
  /\ \/ UNCHANGED claim
     \/ pc[r] = "new" /\ Free(KeyOf(r)) /\ TakeClaim(r)
  /\ Goto(r, "denied")
  /\ Reply(r, 503)
  /\ UNCHANGED <<req, age, off, got, tries, admin, released, changed>>

(* open_port sends nothing.                                                *)
OpenPort(r) ==
  /\ pc[r] = "open"
  /\ ~(Legacy /\ req[r].view = "link")
  /\ Goto(r, IF req[r].view = "toggle" THEN "off" ELSE "set")
  /\ UNCHANGED <<req, age, off, got, tries, reply, claim, admin, released, changed, hit>>

(* PoeConfigError for a switch with no community, and for the legacy one a *)
(* KeyError, which only power and link catch.                              *)
OpenError(r) == IF ~Legacy THEN 503 ELSE IF req[r].view = "toggle" THEN 500 ELSE 502

MutOpenFails(r) ==                                            \* power and link, as toggle
  /\ pc[r] = "open"
  /\ \/ Hit(r, "open") /\ Reply(r, OpenError(r))
     \/ Legacy /\ req[r].view = "link" /\ UNCHANGED hit /\ Reply(r, 503)
  /\ Goto(r, "kept")
  /\ UNCHANGED <<req, age, off, got, tries, claim, admin, released, changed>>

(* It raises, or LegacyPort.set_link does.  power and link call it inside  *)
(* the try that gives the claim back, toggle does not.                     *)
OpenFails(r) ==
  /\ pc[r] = "open"
  /\ \/ Hit(r, "open") /\ Reply(r, OpenError(r))
     \/ Legacy /\ req[r].view = "link" /\ UNCHANGED hit /\ Reply(r, 503)
  /\ Goto(r, IF req[r].view = "toggle" THEN "kept" ELSE "giveBack")
  /\ UNCHANGED <<req, age, off, got, tries, claim, admin, released, changed>>

-----------------------------------------------------------------------------
(* The switch.                                                             *)

StateAsked(r) == IF pc[r] = "off" \/ pc[r] = "offAnswer" THEN "off" ELSE req[r].want

(* The SET reaches the switch or is lost, and the switch takes it or not.  *)
Write(r) ==
  /\ pc[r] \in Asks
  /\ \/ UNCHANGED <<admin, changed>>
     \/ /\ admin' = [admin EXCEPT ![KeyOf(r)] = StateAsked(r)]
        /\ changed' = IF admin[KeyOf(r)] = StateAsked(r) THEN changed
                      ELSE [changed EXCEPT ![KeyOf(r)] = [by |-> r, since |-> 0]]
  /\ tries' = [tries EXCEPT ![r] = IF pc[r] = "on" THEN @ + 1 ELSE @]
  /\ Goto(r, CASE pc[r] = "off" -> "offAnswer"
               [] pc[r] = "on"  -> "onAnswer"
               [] pc[r] = "set" -> "setAnswer")
  /\ UNCHANGED <<req, age, off, got, reply, claim, released, hit>>

(* LibraryPort reads the port back (None: it is not listed).  LegacyPort   *)
(* returns the state its own SET response carries, also when that response *)
(* is an SNMP error, and None when there was no response.                  *)
Answers(r) == NoAnswer \cup {IF Legacy THEN StateAsked(r) ELSE admin[KeyOf(r)]}

-----------------------------------------------------------------------------
(* toggle                                                                  *)

MutOffReturns(r) ==                                           \* returns when "off" failed
  /\ pc[r] = "offAnswer"
  /\ \E a \in Answers(r) :
       /\ off' = [off EXCEPT ![r] = a]
       /\ Goto(r, IF a = "error" THEN "giveBack" ELSE "tellOff")
  /\ UNCHANGED <<req, age, got, tries, reply, claim, admin, released, changed, hit>>

MutOffGivesBack(r) ==                                         \* gives back before the "on"
  /\ pc[r] = "offAnswer"
  /\ \E a \in Answers(r) :
       /\ off' = [off EXCEPT ![r] = a]
       /\ Goto(r, IF a = "error" THEN "on" ELSE "tellOff")
       /\ claim' = IF a = "error" THEN [claim EXCEPT ![KeyOf(r)] = NoClaim] ELSE claim
  /\ UNCHANGED <<req, age, got, tries, reply, admin, released, changed, hit>>

OffAnswered(r) ==
  /\ pc[r] = "offAnswer"
  /\ \E a \in Answers(r) :
       /\ off' = [off EXCEPT ![r] = a]
       /\ Goto(r, IF a = "error" THEN "on" ELSE "tellOff")
  /\ UNCHANGED <<req, age, got, tries, reply, claim, admin, released, changed, hit>>

MutOnFailed(answer) == answer = "error"                       \* forgets the read-back
OnFailed(answer) == answer \in {"error", "off"}   \* on_error is not None

OnAnswered(r) ==
  /\ pc[r] = "onAnswer"
  /\ \E a \in Answers(r) :
       /\ got' = [got EXCEPT ![r] = a]
       /\ Goto(r, IF OnFailed(a) /\ tries[r] < OnAttempts THEN "on" ELSE "cycled")
  /\ UNCHANGED <<req, age, off, tries, reply, claim, admin, released, changed, hit>>

MutCycled(r) ==                                               \* releases once "on" is confirmed
  /\ pc[r] = "cycled"
  /\ released' = IF off[r] = "off" /\ got[r] = "on" /\ ~Legacy
                   THEN released \cup {r} ELSE released
  /\ IF OnFailed(got[r])
       THEN Goto(r, "giveBack") /\ Reply(r, 502)
       ELSE Goto(r, "tellOn") /\ UNCHANGED reply
  /\ UNCHANGED <<req, age, off, got, tries, claim, admin, changed, hit>>

(* After the last try: the lease release, then the answer for a failed on. *)
Cycled(r) ==
  /\ pc[r] = "cycled"
  /\ released' = IF off[r] = "off" /\ ~Legacy THEN released \cup {r} ELSE released
  /\ IF OnFailed(got[r])
       THEN Goto(r, "giveBack") /\ Reply(r, 502)
       ELSE Goto(r, "tellOn") /\ UNCHANGED reply
  /\ UNCHANGED <<req, age, off, got, tries, claim, admin, changed, hit>>

(* power and link: what follows set() and set_link().                      *)
SetAnswered(r) ==
  /\ pc[r] = "setAnswer"
  /\ \E a \in Answers(r) :
       /\ got' = [got EXCEPT ![r] = a]
       /\ IF a = "error" \/ (a = "none" /\ req[r].view = "link")
            THEN Goto(r, "giveBack") /\ Reply(r, 502)
            ELSE Goto(r, "tellSet") /\ UNCHANGED reply
  /\ UNCHANGED <<req, age, off, tries, claim, admin, released, changed, hit>>

-----------------------------------------------------------------------------
(* notify_dcws, and what each view does after it.                          *)

TellOff(r) ==
  /\ pc[r] = "tellOff"
  /\ Goto(r, "on")
  /\ UNCHANGED <<req, age, off, got, tries, reply, claim, admin, released, changed, hit>>

TellOn(r) ==
  /\ pc[r] = "tellOn"
  /\ IF off[r] = "error"
       THEN Goto(r, "giveBack") /\ Reply(r, 502)
       ELSE Goto(r, "kept") /\ Reply(r, 200)
  /\ UNCHANGED <<req, age, off, got, tries, claim, admin, released, changed, hit>>

TellSet(r) ==
  /\ pc[r] = "tellSet"
  /\ released' = IF req[r].view = "power" /\ req[r].want = "off" /\ got[r] = "off" /\ ~Legacy
                   THEN released \cup {r} ELSE released
  /\ IF got[r] = req[r].want
       THEN Goto(r, "kept") /\ Reply(r, 200)
       ELSE Goto(r, "giveBack") /\ Reply(r, 200)
  /\ UNCHANGED <<req, age, off, got, tries, claim, admin, changed, hit>>

(* group_send is called outside every try: the view ends there.            *)
TellFails(r) ==
  /\ pc[r] \in Tells
  /\ Hit(r, "notify")
  /\ Goto(r, "kept")
  /\ Reply(r, 500)
  /\ UNCHANGED <<req, age, off, got, tries, claim, admin, released, changed>>

(* release_toggle_claim: the key is deleted, whoever's claim is under it.  *)
(* A cache that raises is logged and left, the key deleted or not.         *)
GiveBack(r) ==
  /\ pc[r] = "giveBack"
  /\ \/ /\ claim' = [claim EXCEPT ![KeyOf(r)] = NoClaim]
        /\ Goto(r, "returned")
        /\ UNCHANGED hit \/ Hit(r, "store")
     \/ /\ Hit(r, "store")
        /\ Goto(r, "kept")
        /\ UNCHANGED claim
  /\ UNCHANGED <<req, age, off, got, tries, reply, admin, released, changed>>

-----------------------------------------------------------------------------

(* The worker is killed between any two calls.                             *)
Crash(r) ==
  /\ pc[r] \in InFlight
  /\ "crash" \in Faults
  /\ Goto(r, "dead")
  /\ UNCHANGED <<req, age, off, got, tries, reply, claim, admin, released, changed, hit>>

MutEntryKept(c)   == c                                        \* an add with no timeout
MutEntryOverrun(c) == IF c.left > 0 THEN [c EXCEPT !.left = @ - 2] ELSE NoClaim

(* A cache entry one tick later.                                           *)
OneTickOn(c) == IF c.left > 1 THEN [c EXCEPT !.left = @ - 1] ELSE NoClaim

(* A tick of the clock: the cache's entries run out.  Patience stands for  *)
(* the time-outs of the switch and of the worker: no request is served for *)
(* longer.                                                                 *)
Tick ==
  /\ \A r \in Request : pc[r] \in InFlight => age[r] < Patience
  /\ age'     = [r \in Request |-> IF pc[r] \in InFlight THEN age[r] + 1 ELSE 0]
  /\ claim'   = [k \in Key |-> OneTickOn(claim[k])]
  /\ changed' = [k \in Key |-> [changed[k] EXCEPT !.since = Min2(Longest, @ + 1)]]
  /\ UNCHANGED <<req, pc, off, got, tries, reply, admin, released, hit>>

(* What the code does for request r when nothing outside it fails.         *)
Serve(r) ==
  \/ Claim(r)       \/ Refuse(r)     \/ OpenPort(r)    \/ Write(r)
  \/ OffAnswered(r) \/ OnAnswered(r) \/ SetAnswered(r) \/ Cycled(r)
  \/ TellOff(r)     \/ TellOn(r)     \/ TellSet(r)     \/ GiveBack(r)
  \/ OpenFails(r)

Fail(r) == StoreFails(r) \/ TellFails(r) \/ Crash(r)

Next == Tick \/ \E r \in Request : Serve(r) \/ Fail(r)

(* A worker that is not killed keeps running, and time passes.             *)
Fairness == WF_vars(Tick) /\ \A r \in Request : WF_vars(pc[r] # "new" /\ Serve(r))

Spec     == Init /\ [][Next]_vars
FairSpec == Spec /\ Fairness

-----------------------------------------------------------------------------
(* Properties.                                                             *)

(* Every worker is done with its request before the hold it took runs out. *)
(* Nothing in the code sees to this: the switch's and the worker's         *)
(* time-outs against the configured holds do.                              *)
Prompt == Patience < OnAfterOff /\ Patience < OffAfterOn

(* Two requests that are at work on the same port's power, or on the same  *)
(* link: the claim's one atomic add lets one of them in (policy.py:106).   *)
Exclusive ==
  \A r, s \in Request :
    r # s /\ pc[r] \in Claiming /\ pc[s] \in Claiming => KeyOf(r) # KeyOf(s)

(* release_toggle_claim deletes whatever is under the key: what it deletes *)
(* is never the claim of another request.                                  *)
GivesBackItsOwn ==
  \A r \in Request : pc[r] = "giveBack" => claim[KeyOf(r)].by \in {r, Nobody}

(* A port seen from outside: requests take it, switch it and hold it as    *)
(* PortHold says, so a port that is held, by a request that was answered   *)
(* or by one whose worker died, stays as it was left.                      *)
Phase(k) == IF claim[k].by = Nobody THEN "free"
            ELSE IF pc[claim[k].by] \in Claiming THEN "busy" ELSE "held"

Hold == INSTANCE PortHold WITH State <- OnOff, phase <- [k \in Key |-> Phase(k)]

ImplementsPortHold == Hold!Spec

(* The hold depends on what was done last (README.md:77): the next request *)
(* to change a port that r last changed, and did not give back, does so no *)
(* earlier than r's hold allows, less the time r took to be served.        *)
LeftBy(k, r) == changed[k].by = r /\ pc[r] # "returned"

HoldNearlyFull ==
  [][\A k \in Key, r \in Request :
       LeftBy(k, r) /\ changed'[k].by # r
         => changed[k].since >= HoldAfter(req[r].want) - Patience]_vars

(* A port that is still held by a request that is over and met no fault is *)
(* as that request left it to be: on after a cycle, never off under a hold *)
(* that keeps everybody from switching it back on.  (The switch no longer  *)
(* listing the port, got "none", is the exception the code makes.)         *)
HeldAsAsked ==
  \A r \in Request :
    LET k == KeyOf(r)
    IN  pc[r] = "kept" /\ hit[r] = {} /\ got[r] # "none" /\ claim[k].by = r
          => admin[k] = req[r].want

(* A board that lost its power loses its lease, also when switching back   *)
(* on failed (views.py:172; the README's words are ReleasedOnceOn, below). *)
LossReleases ==
  \A r \in Request :
    /\ pc[r] \in {"kept", "returned"} /\ hit[r] = {} /\ ~Legacy
    /\ IF req[r].view = "toggle" THEN off[r] = "off"
       ELSE req[r].view = "power" /\ got[r] = "off" /\ req[r].want = "off"
    => r \in released

(* "The view gives it back when the switch did not carry the request out"  *)
(* (policy.py:107): a power or link request that found no switch to send   *)
(* to holds nothing.  (toggle opens the port outside its try, and does.)   *)
NothingSentNothingHeld ==
  \A r \in Request :
    /\ reply[r] = 503 \/ "open" \in hit[r]
    /\ pc[r] \in Ended \ {"dead"}
    /\ req[r].view # "toggle" /\ "store" \notin hit[r]
    => claim[KeyOf(r)].by # r

(* A port toggle may have switched off is sent an "on" (views.py:156),     *)
(* unless the worker dies or the channel layer raises.                     *)
OffIsFollowedByOn ==
  \A r \in Request : pc[r] = "offAnswer" ~> tries[r] > 0 \/ pc[r] = "dead" \/ hit[r] # {}

(* Whatever became of the request that took it, a port does not stay held. *)
HoldsRunOut ==
  \A k \in Key, r \in Request : claim[k].by = r ~> claim[k].by # r

-----------------------------------------------------------------------------
(* What the documentation says and the code does not do.                   *)

(* README.md:88: "if the port may still be off ... the rate-limit claim is *)
(* given back so that it can be tried again at once".                      *)
MaybeOffIsGivenBack ==
  \A r \in Request :
    LET k == KeyOf(r)
    IN  req[r].view = "toggle" /\ pc[r] = "kept" /\ admin[k] = "off" => claim[k].by # r

(* README.md:105: the view starts the release of a lease "after a toggle   *)
(* (once "on" is confirmed)".  It does whether "on" is confirmed or not    *)
(* (views.py:172, LossReleases).                                           *)
ReleasedOnceOn == \A r \in released : req[r].view = "toggle" => got[r] = "on"

=============================================================================
