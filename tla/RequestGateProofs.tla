-------------------------- MODULE RequestGateProofs --------------------------
(***************************************************************************)
(* What TLAPS proves of RequestGate: for every set of switches files,      *)
(* settings and requests, and however often the file is edited and the     *)
(* boards change while a request is served.                                *)
(***************************************************************************)
EXTENDS RequestGate, TLAPS

-----------------------------------------------------------------------------
(* Types.                                                                  *)

(* What a specification of a readable file holds.                          *)
LEMMA SpecType ==
  ASSUME file \in Files, NEW i \in DOMAIN file
  PROVE  file[i].index \in Index /\ file[i].host \in Host /\ file[i].access_ports \in Nat
<1>1. file \in Seq(Spec_)
  BY FilesAssumption DEF FilesAssumption
<1>2. file[i] \in Spec_
  BY <1>1
<1> QED
  BY <1>2 DEF Spec_

LEMMA SeqOfOne ==
  ASSUME NEW S, NEW x \in S
  PROVE  <<x>> \in Seq(S) /\ Len(<<x>>) = 1
OBVIOUS

(* Once a port is named, there is a PortRef.                               *)
LEMMA RefType ==
  ASSUME TypeOK, pc \in {"named", "allowed", "open"}
  PROVE  ref[1] \in Refs /\ 1 \in DOMAIN ref
<1>1. ref \in Seq(Refs) /\ Len(ref) = 1
  BY DEF TypeOK
<1> QED
  BY <1>1

LEMMA TypeInit == Init => TypeOK
<1> SUFFICES ASSUME Init PROVE TypeOK
  OBVIOUS
<1>1. site \in AllSites /\ req \in AllRequests
  BY SitesAssumption DEF Init, SitesAssumption
<1> QED
  BY <1>1 DEF Init, TypeOK

LEMMA TypeStep == TypeOK /\ [Next]_vars => TypeOK'
<1> SUFFICES ASSUME TypeOK, [Next]_vars PROVE TypeOK'
  OBVIOUS
<1> USE DEF TypeOK, Goto, Refuse, Untouched
<1>1. CASE UNCHANGED vars
  BY <1>1 DEF vars
<1>2. CASE CrossSite \/ NoPolicy \/ BadBody \/ NotConfigured \/ BadFile \/ NoSuchSwitch
  BY <1>2 DEF CrossSite, NoPolicy, BadBody, NotConfigured, BadFile, NoSuchSwitch
<1>3. CASE LegacyNamed
  <2>1. req.port \in Port
    BY <1>3 DEF LegacyNamed, Ported, Heard, AllRequests
  <2>2. CASE req.switch # None
    BY <1>3, <2>2 DEF LegacyNamed
  <2>3. CASE req.switch = None
    <3> DEFINE named == [switch |-> None, port |-> req.port, host |-> LegacyHost]
    <3>1. named \in Refs
      BY <2>1 DEF Refs
    <3>3. ref' = <<named>>
      BY <1>3, <2>3 DEF LegacyNamed
    <3> HIDE DEF named
    <3>2. ref' \in Seq(Refs) /\ Len(ref') = 1
      BY <3>1, <3>3, SeqOfOne
    <3> QED
      BY <1>3, <2>3, <3>2 DEF LegacyNamed
  <2> QED
    BY <2>2, <2>3
<1>4. CASE FileNamed
  <2>1. req.port \in Port /\ file \in Files
    BY <1>4 DEF FileNamed, Filed, Ported, Heard, AllRequests
  <2>2. PICK i \in DOMAIN file :
          IF ~is_access_port(file[i], req.port) THEN Refuse(403)
          ELSE /\ Goto("named")
               /\ ref' = <<[switch |-> file[i].index, port |-> req.port, host |-> file[i].host]>>
               /\ UNCHANGED sent
    BY <1>4 DEF FileNamed
  <2> DEFINE named == [switch |-> file[i].index, port |-> req.port, host |-> file[i].host]
  <2>3. named \in Refs
    BY <2>1, <2>2, SpecType DEF Refs
  <2>4. CASE ~is_access_port(file[i], req.port)
    BY <1>4, <2>2, <2>4 DEF FileNamed
  <2>5. CASE is_access_port(file[i], req.port)
    <3>2. ref' = <<named>>
      BY <2>2, <2>5
    <3> HIDE DEF named
    <3>1. ref' \in Seq(Refs) /\ Len(ref') = 1
      BY <2>3, <3>2, SeqOfOne
    <3> QED
      BY <1>4, <2>2, <2>5, <3>1 DEF FileNamed
  <2> QED
    BY <2>4, <2>5
<1>5. CASE AskPolicy
  BY <1>5 DEF AskPolicy
<1>6. CASE BadValue \/ NotInOrder \/ NotClaimed
  BY <1>6 DEF BadValue, NotInOrder, NotClaimed
<1>9. CASE Claim \/ Ask
  BY <1>9 DEF Claim, Valued, Ask
<1>10. CASE OpenFails
  BY <1>10 DEF OpenFails
<1>7. CASE Send
  <2>1. ref[1] \in Refs
    BY <1>7, RefType DEF Send
  <2>2. [host |-> Target, port |-> ref[1].port] \in Sends
    BY <2>1 DEF Target, Refs, Sends
  <2> QED
    BY <1>7, <2>2 DEF Send
<1>8. CASE EditFile \/ Register
  BY <1>8 DEF EditFile, Register
<1> QED
  BY <1>1, <1>2, <1>3, <1>4, <1>5, <1>6, <1>7, <1>8, <1>9, <1>10 DEF Next, Gate, Serve

(* Type correctness.                                                       *)
THEOREM TypeCorrect == Spec => []TypeOK
BY TypeInit, TypeStep, PTL DEF Spec

-----------------------------------------------------------------------------
(* A board's port.                                                         *)

(* What is named, and what is sent, was found in one file.                 *)
FoundAt(x) == site.scheme = "file" =>
                \E f \in files \ {Unreadable} : IsBoardIn(f, req.switch, x.host, x.port)

NamedInv == /\ \A i \in DOMAIN ref : FoundAt(ref[i])
            /\ \A i \in DOMAIN sent : FoundAt(sent[i])

(* The file in place is among those there have been.                       *)
FileInv == file \in files

(* No file is forgotten: what was found stays found.                       *)
LEMMA Found ==
  ASSUME NEW x, FoundAt(x), site' = site, req' = req, files \subseteq files'
  PROVE  FoundAt(x)'
BY DEF FoundAt, IsBoardIn, Chosen

LEMMA NamedInit == Init => NamedInv /\ FileInv
BY DEF Init, NamedInv, FileInv

LEMMA NamedStep == TypeOK /\ NamedInv /\ FileInv /\ [Next]_vars => (NamedInv /\ FileInv)'
<1> SUFFICES ASSUME TypeOK, NamedInv, FileInv, [Next]_vars PROVE (NamedInv /\ FileInv)'
  OBVIOUS
<1>1. site' = site /\ req' = req /\ files \subseteq files' /\ FileInv'
  BY DEF Next, Gate, Serve, CrossSite, NoPolicy, BadBody, NotConfigured, LegacyNamed, BadFile, NoSuchSwitch,
         FileNamed, AskPolicy, BadValue, NotInOrder, NotClaimed, Claim, Ask, OpenFails, Send, EditFile, Register,
         Goto, Refuse, FileInv, vars
<1>2. CASE ref' = ref /\ sent' = sent
  BY <1>1, <1>2, Found DEF NamedInv
<1>3. CASE LegacyNamed
  <2>1. site.scheme # "file" /\ (sent' = sent)
    BY <1>3 DEF LegacyNamed, Refuse
  <2> QED
    BY <1>1, <2>1 DEF NamedInv, FoundAt
<1>4. CASE FileNamed
  <2>1. sent' = sent
    BY <1>4 DEF FileNamed, Refuse
  <2>2. PICK i \in DOMAIN file :
          /\ Chosen(file, req.switch, i)
          /\ IF ~is_access_port(file[i], req.port) THEN Refuse(403)
             ELSE /\ Goto("named")
                  /\ ref' = <<[switch |-> file[i].index, port |-> req.port, host |-> file[i].host]>>
                  /\ UNCHANGED sent
    BY <1>4 DEF FileNamed
  <2>3. CASE ~is_access_port(file[i], req.port)
    BY <1>2, <2>1, <2>2, <2>3 DEF Refuse
  <2>4. CASE is_access_port(file[i], req.port)
    <3> DEFINE named == [switch |-> file[i].index, port |-> req.port, host |-> file[i].host]
    <3>1. ref' = <<named>> /\ files' = files
      BY <2>2, <2>4 DEF Goto
    <3>7. file \in Files /\ file # Unreadable /\ req.port \in Nat \ {0}
      BY <1>4, PortAssumption DEF FileNamed, Filed, Ported, Heard, TypeOK, AllRequests, PortAssumption
    <3>8. req.port \in 1..file[i].access_ports
      BY <2>2, <2>4, <3>7, SpecType DEF is_access_port
    <3>2. IsBoardIn(file, req.switch, named.host, named.port) /\ file # Unreadable
      BY <2>2, <2>4, <3>7, <3>8 DEF IsBoardIn, is_access_port
    <3>3. FoundAt(named)
      BY <3>2 DEF FoundAt, FileInv
    <3>4. FoundAt(named) => \A j \in DOMAIN ref' : FoundAt(ref'[j])
      <4> HIDE DEF named
      <4> QED
        BY <3>1
    <3>5. \A j \in DOMAIN ref' : FoundAt(ref[j])'
      BY <1>1, <3>1, <3>3, <3>4 DEF FoundAt, IsBoardIn, Chosen
    <3> HIDE DEF named
    <3>6. \A j \in DOMAIN sent' : FoundAt(sent[j])'
      BY <1>1, <2>1, Found DEF NamedInv
    <3> QED
      BY <1>1, <2>1, <3>5, <3>6 DEF NamedInv
  <2> QED
    BY <2>3, <2>4
<1>5. CASE Send
  <2> DEFINE target == [host |-> ref[1].host, port |-> ref[1].port]
  <2>1. sent' = <<target>> /\ ref' = ref /\ files' = files
    BY <1>5 DEF Send, Target, Goto
  <2>2. FoundAt(ref[1])
    BY <1>5, RefType DEF Send, NamedInv
  <2>3. FoundAt(target)
    BY <2>2 DEF FoundAt
  <2>4. FoundAt(target) => \A j \in DOMAIN sent' : FoundAt(sent'[j])
    <3> HIDE DEF target
    <3> QED
      BY <2>1
  <2>6. \A j \in DOMAIN sent' : FoundAt(sent[j])'
    BY <1>1, <2>1, <2>3, <2>4 DEF FoundAt, IsBoardIn, Chosen
  <2> HIDE DEF target
  <2>5. \A j \in DOMAIN ref' : FoundAt(ref[j])'
    BY <1>1, <2>1, Found DEF NamedInv
  <2> QED
    BY <1>1, <2>5, <2>6 DEF NamedInv
<1>6. CASE ~(LegacyNamed \/ FileNamed \/ Send)
  <2>1. ref' = ref /\ sent' = sent
    BY <1>6 DEF Next, Gate, Serve, CrossSite, NoPolicy, BadBody, NotConfigured, BadFile, NoSuchSwitch,
         AskPolicy, BadValue, NotInOrder, NotClaimed, Claim, Ask, OpenFails, EditFile, Register,
         Goto, Refuse, vars
  <2> QED
    BY <1>2, <2>1
<1> QED
  BY <1>3, <1>4, <1>5, <1>6

(* Nothing is ever sent to a trunk, an uplink or a port outside the access *)
(* ports: whatever is sent goes to a board's port of the switch that was   *)
(* named, by one file that was read while the request was served.          *)
THEOREM BoardsOnly == Spec => []SentToABoard
<1>1. NamedInv => SentToABoard
  BY DEF NamedInv, FoundAt, SentToABoard
<1> QED
  BY <1>1, TypeInit, TypeStep, NamedInit, NamedStep, PTL DEF Spec

-----------------------------------------------------------------------------
(* The policy and the settings.                                            *)

(* What a request that is on its way has passed.                           *)
PassedInv ==
  /\ pc \in {"named", "allowed", "open"} =>
       /\ site.policy /\ req.ours
       /\ ref[1].port = req.port /\ req.switch \in {None, ref[1].switch}
  /\ pc \in {"allowed", "open"} => <<ref[1].switch, ref[1].port>> \in offered
  /\ pc = "open" /\ req.view # "status" => InOrder
  /\ hold = "held" => InOrder
  /\ pc # "done" => sent = <<>> /\ answer = 0

(* What one that is over has got.                                          *)
OverInv ==
  /\ sent # <<>> => site.policy /\ (req.view # "status" => InOrder)
  /\ SentIfOffered /\ NoPolicyNoService

OfferInv == offers \subseteq offered

LEMMA PassedInit == Init => PassedInv /\ OverInv /\ OfferInv
BY DEF Init, PassedInv, OverInv, OfferInv, SentIfOffered, NoPolicyNoService

LEMMA PassedStep == TypeOK /\ PassedInv /\ OverInv /\ OfferInv /\ [Next]_vars => (PassedInv /\ OverInv /\ OfferInv)'
<1> SUFFICES ASSUME TypeOK, PassedInv, OverInv, OfferInv, [Next]_vars PROVE (PassedInv /\ OverInv /\ OfferInv)'
  OBVIOUS
<1> USE DEF PassedInv, OverInv, OfferInv, Goto, Refuse, Untouched, InOrder, SentIfOffered, NoPolicyNoService
<1>1. CASE UNCHANGED vars
  BY <1>1 DEF vars
<1>2. CASE CrossSite
  BY <1>2 DEF CrossSite
<1>3. CASE NoPolicy
  BY <1>3 DEF NoPolicy
<1>4. CASE BadBody \/ NotConfigured \/ BadFile \/ NoSuchSwitch
  BY <1>4 DEF BadBody, NotConfigured, BadFile, NoSuchSwitch, Filed, Ported, Heard
<1>5. CASE LegacyNamed
  BY <1>5 DEF LegacyNamed, Ported, Heard
<1>6. CASE FileNamed
  <2>1. PICK i \in DOMAIN file :
          /\ Chosen(file, req.switch, i)
          /\ IF ~is_access_port(file[i], req.port) THEN Refuse(403)
             ELSE /\ Goto("named")
                  /\ ref' = <<[switch |-> file[i].index, port |-> req.port, host |-> file[i].host]>>
                  /\ UNCHANGED sent
    BY <1>6 DEF FileNamed
  <2>2. req.switch \in {None, file[i].index}
    BY <2>1 DEF Chosen
  <2>3. Heard /\ hold' = hold
    BY <1>6 DEF FileNamed, Filed, Ported
  <2> QED
    BY <2>1, <2>2, <2>3 DEF Heard
<1>7. CASE AskPolicy
  BY <1>7 DEF AskPolicy, Allowed
<1>8. CASE BadValue \/ NotInOrder
  BY <1>8 DEF BadValue, NotInOrder, Valued
<1>9. CASE NotClaimed
  BY <1>9 DEF NotClaimed, Valued
<1>10. CASE Claim \/ Ask
  BY <1>10 DEF Claim, Ask, Valued
<1>11. CASE OpenFails
  BY <1>11 DEF OpenFails
<1>12. CASE Send
  <2>1. ref[1] \in Refs /\ pc = "open"
    BY <1>12, RefType DEF Send
  <2> QED
    BY <1>12, <2>1 DEF Send, Refs
<1>13. CASE EditFile \/ Register
  BY <1>13 DEF EditFile, Register
<1> QED
  BY <1>1, <1>2, <1>3, <1>4, <1>5, <1>6, <1>7, <1>8, <1>9, <1>10, <1>11, <1>12, <1>13 DEF Next, Gate, Serve

(* Nothing is sent for another site's page, nor to a port that the policy  *)
(* did not offer while the request was served.                             *)
THEOREM OfferedOnly == Spec => []SentIfOffered
<1>1. OverInv => SentIfOffered
  BY DEF OverInv
<1> QED
  BY <1>1, TypeInit, TypeStep, PassedInit, PassedStep, PTL DEF Spec

(* A site without a policy answers 503 to whatever its pages ask.          *)
THEOREM Refusal == Spec => []NoPolicyNoService
<1>1. OverInv => NoPolicyNoService
  BY DEF OverInv
<1> QED
  BY <1>1, TypeInit, TypeStep, PassedInit, PassedStep, PTL DEF Spec

(* With a hold setting out of order nothing is switched, and nothing held. *)
THEOREM Closed == Spec => []NotSwitchedUnheld
<1>1. TypeOK /\ PassedInv /\ OverInv => NotSwitchedUnheld
  BY DEF TypeOK, PassedInv, OverInv, NotSwitchedUnheld, InOrder
<1> QED
  BY <1>1, TypeInit, TypeStep, PassedInit, PassedStep, PTL DEF Spec

=============================================================================
