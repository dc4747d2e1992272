----------------------------- MODULE RequestGate -----------------------------
(***************************************************************************)
(* What a request has to pass before a switch hears of it: poe_view        *)
(* (src/src/snmp_switch/views.py), the settings it needs (policy.py) and   *)
(* the port it names (switches.py), up to the first thing that is sent.    *)
(* The switches file is edited and boards come and go meanwhile: the file  *)
(* is read once, the policy asked after it, and the switch opened last.    *)
(* What happens from there on is PoeViews' subject; requests meet only in  *)
(* the claims, so here there is one.                                       *)
(***************************************************************************)
EXTENDS Integers, Sequences

CONSTANTS
  Files,       \* the switches files there may be: sequences of specs
  Unreadable,  \* one that load_specs cannot make specs of
  Index, Host, \* the numbers and the management addresses of switches
  Port,        \* the port numbers that a request may name
  Board,       \* the ports the policy may offer: pairs of a switch and a port
  None,        \* no switch is named; the index of the legacy switch
  Wrong,       \* what _number refuses, or nothing at all
  LegacyHost,
  Sites,       \* the settings a host may have, out of AllSites
  Requests     \* what a request may say, out of AllRequests

View  == {"status", "toggle", "power", "link"}

Spec_ == [index : Index, host : Host, access_ports : Nat, gateway_trunk_port : Nat,
          downstream_trunk_ports : SUBSET Nat, house_uplink_port : Nat]

ASSUME FilesAssumption  == Files \subseteq Seq(Spec_) /\ Unreadable \notin Files
ASSUME PortAssumption   == Port \subseteq Nat \ {0} /\ Wrong \notin Port
ASSUME BoardAssumption  == Board \subseteq (Index \cup {None}) \X Port
ASSUME NamesAssumption  == None \notin Index /\ Wrong \notin Index /\ Wrong # None /\ LegacyHost \notin Host

(* The settings: what names the switches, whether the policy can be looked *)
(* up, the hold settings that are whole numbers of seconds, whether the    *)
(* store of holds is named, and the credentials.                           *)
AllSites == [scheme : {"file", "legacy", "none"}, policy : BOOLEAN, holds : SUBSET {"on", "off"},
             store : BOOLEAN, credentials : BOOLEAN]

(* ours: JSON, and of the site's own pages if of a browser.  value: `on'   *)
(* or `enabled' is true or false.                                          *)
AllRequests == [ours : BOOLEAN, view : View, port : Port \cup {Wrong}, switch : Index \cup {None, Wrong},
                value : {"on", "off", "neither"}]

ASSUME SitesAssumption == Sites \subseteq AllSites /\ Requests \subseteq AllRequests

VARIABLES
  site,     \* this host's settings and environment
  file,     \* the switches file
  offers,   \* the boards that the policy offers
  req,      \* what the request says
  pc,       \* "new", "named", "allowed", "open" or "done"
  ref,      \* the PortRef: [switch, port, host], the host for its spec
  hold,     \* "held" when it holds the port, "free" when not
  answer,   \* the status it was refused with, or 0
  sent,     \* the switch and the port it was sent to: a sequence of at most one
  files,    \* history: the files there have been since the request came in
  offered   \* history: the boards that have been offered since then

vars == <<site, file, offers, req, pc, ref, hold, answer, sent, files, offered>>

Refs  == [switch : Index \cup {None}, port : Port, host : Host \cup {LegacyHost}]
Sends == [host : Host \cup {LegacyHost}, port : Port]

TypeOK ==
  /\ site \in AllSites /\ req \in AllRequests
  /\ file \in Files \cup {Unreadable} /\ files \subseteq Files \cup {Unreadable}
  /\ offers \subseteq Board /\ offered \subseteq Board
  /\ pc \in {"new", "named", "allowed", "open", "done"}
  /\ ref \in Seq(Refs) /\ (pc \in {"named", "allowed", "open"} => Len(ref) = 1)
  /\ hold \in {"free", "held"}
  /\ answer \in {0, 400, 403, 429, 500, 502, 503}
  /\ sent \in Seq(Sends)

Init ==
  /\ site \in Sites /\ req \in Requests
  /\ file \in Files \cup {Unreadable} /\ files = {file}
  /\ offers \in SUBSET Board /\ offered = offers
  /\ pc = "new" /\ ref = <<>> /\ hold = "free" /\ answer = 0 /\ sent = <<>>

Goto(l)   == pc' = l /\ UNCHANGED <<site, file, offers, req, answer, files, offered>>
Refuse(n) == pc' = "done" /\ answer' = n /\ UNCHANGED <<site, file, offers, req, ref, sent, files, offered>>
Untouched == UNCHANGED hold

-----------------------------------------------------------------------------
(* poe_view, up to the policy.                                             *)

CrossSite == pc = "new" /\ ~req.ours /\ Refuse(403) /\ Untouched

NoPolicy  == pc = "new" /\ req.ours /\ ~site.policy /\ Refuse(503) /\ Untouched

MutHeard == pc = "new" /\ req.ours              \* the body is read before the policy is looked up
Heard    == pc = "new" /\ req.ours /\ site.policy

(* No JSON object with a port number from 1 to 999.                        *)
BadBody == Heard /\ req.port = Wrong /\ Refuse(400) /\ Untouched

MutPorted ==                                    \* the legacy scheme takes any port
  Heard /\ (req.port # Wrong \/ site.scheme = "legacy")
Ported    == Heard /\ req.port # Wrong

NotConfigured == Ported /\ site.scheme = "none" /\ Refuse(503) /\ Untouched

LegacyNamed ==
  /\ Ported /\ site.scheme = "legacy"
  /\ IF req.switch # None THEN Refuse(400)
     ELSE Goto("named") /\ ref' = <<[switch |-> None, port |-> req.port, host |-> LegacyHost]>> /\ UNCHANGED sent
  /\ Untouched

(* load_specs raises, and nothing catches it.                              *)
BadFile == Ported /\ site.scheme = "file" /\ file = Unreadable /\ Refuse(500) /\ Untouched

Filed == Ported /\ site.scheme = "file" /\ file # Unreadable

MutIsAccessPort(spec, p) == p <= spec.access_ports  \* a trunk inside the access range is one
is_access_port(spec, p) ==
  /\ 1 <= p /\ p <= spec.access_ports
  /\ p \notin {spec.gateway_trunk_port, spec.house_uplink_port} \cup spec.downstream_trunk_ports

(* The first spec of the switch that is named; without one, the only spec. *)
Chosen(f, index, i) ==
  /\ i \in DOMAIN f
  /\ IF index = None THEN Len(f) = 1
     ELSE f[i].index = index /\ \A j \in 1..(i - 1) : f[j].index # index

NoSuchSwitch ==
  /\ Filed /\ ~\E i \in DOMAIN file : Chosen(file, req.switch, i)
  /\ Refuse(400) /\ Untouched

FileNamed ==
  /\ Filed
  /\ \E i \in DOMAIN file :
       /\ Chosen(file, req.switch, i)
       /\ IF ~is_access_port(file[i], req.port) THEN Refuse(403)
          ELSE /\ Goto("named")
               /\ ref' = <<[switch |-> file[i].index, port |-> req.port, host |-> file[i].host]>>
               /\ UNCHANGED sent
  /\ Untouched

(* The policy answers for what it knows of the boards now, or raises.      *)
MutAllowed == TRUE
Allowed    == <<ref[1].switch, ref[1].port>> \in offers

AskPolicy ==
  /\ pc = "named"
  /\ \/ Allowed /\ Goto("allowed") /\ UNCHANGED <<ref, sent>>
     \/ ~Allowed /\ Refuse(403)
     \/ Refuse(500)
  /\ Untouched

-----------------------------------------------------------------------------
(* The view, up to the switch.                                             *)

BadValue ==
  /\ pc = "allowed" /\ req.view \in {"power", "link"} /\ req.value = "neither"
  /\ Refuse(400) /\ Untouched

Valued == pc = "allowed" /\ (req.view = "toggle" \/ (req.view # "status" /\ req.value # "neither"))

(* seconds_until_toggle_allowed: both holds are worked out, and the store  *)
(* looked up, before anything is claimed.                                  *)
MutInOrder == site.store /\ (IF req.view = "toggle" THEN "on" ELSE req.value) \in site.holds
InOrder    == site.store /\ {"on", "off"} \subseteq site.holds

NotInOrder == Valued /\ ~InOrder /\ Refuse(503) /\ Untouched

(* Another request holds the port; or the store raises, which does not say *)
(* that the claim was not taken.                                           *)
NotClaimed ==
  /\ Valued /\ InOrder
  /\ \/ Refuse(429) /\ Untouched
     \/ Refuse(503) /\ hold' \in {"free", "held"}

Claim == Valued /\ InOrder /\ Goto("open") /\ hold' = "held" /\ UNCHANGED <<ref, sent>>

Ask == pc = "allowed" /\ req.view = "status" /\ Goto("open") /\ Untouched /\ UNCHANGED <<ref, sent>>

MutTarget ==                                    \* reads the file again
  IF site.scheme = "file" /\ file # Unreadable /\ \E i \in DOMAIN file : file[i].index = ref[1].switch
  THEN file[CHOOSE i \in DOMAIN file : file[i].index = ref[1].switch].host ELSE ref[1].host
Target == ref[1].host

(* The legacy scheme has no link control.                                  *)
Opens == site.credentials /\ ~(site.scheme = "legacy" /\ req.view = "link")

(* PoeConfigError; or for a protocol that the legacy scheme does not know  *)
(* a KeyError, which only power and link answer.  They give the port back, *)
(* toggle does not.                                                        *)
OpenFails ==
  /\ pc = "open" /\ ~Opens
  /\ IF site.credentials \/ site.scheme = "file" THEN Refuse(503)
     ELSE Refuse(IF req.view \in {"power", "link"} THEN 502 ELSE 500)
  /\ hold' = IF req.view = "toggle" THEN hold ELSE "free"

Send ==
  /\ pc = "open" /\ Opens
  /\ Goto("done") /\ sent' = <<[host |-> Target, port |-> ref[1].port]>>
  /\ Untouched /\ UNCHANGED ref

-----------------------------------------------------------------------------
(* Meanwhile.                                                              *)

EditFile ==
  /\ pc # "done"
  /\ file' \in (Files \cup {Unreadable}) \ {file} /\ files' = files \cup {file'}
  /\ UNCHANGED <<site, offers, req, pc, ref, hold, answer, sent, offered>>

Register ==
  /\ pc # "done"
  /\ offers' \in SUBSET Board /\ offered' = offered \cup offers'
  /\ UNCHANGED <<site, file, req, pc, ref, hold, answer, sent, files>>

Gate == \/ CrossSite \/ NoPolicy \/ BadBody \/ NotConfigured \/ LegacyNamed \/ BadFile
        \/ NoSuchSwitch \/ FileNamed \/ AskPolicy
Serve == BadValue \/ NotInOrder \/ NotClaimed \/ Claim \/ Ask \/ OpenFails \/ Send
Next == Gate \/ Serve \/ EditFile \/ Register

Spec == Init /\ [][Next]_vars

-----------------------------------------------------------------------------
(* Properties.                                                             *)

(* "Never ... a trunk or an uplink" (switches.py:135): whatever is sent    *)
(* goes to a port that one and the same switches file, read while the      *)
(* request was served, calls a board's port of the switch that the request *)
(* named, at the address the switch is spoken to; a switch that is not     *)
(* named was that file's only one.                                         *)
IsBoardIn(f, index, host, p) ==
  \E i \in DOMAIN f :
    /\ Chosen(f, index, i) /\ f[i].host = host
    /\ p \in 1..f[i].access_ports
    /\ p # f[i].gateway_trunk_port /\ p # f[i].house_uplink_port /\ p \notin f[i].downstream_trunk_ports

SentToABoard ==
  \A i \in DOMAIN sent :
    site.scheme = "file" =>
      \E f \in files \ {Unreadable} : IsBoardIn(f, req.switch, sent[i].host, sent[i].port)

(* Nothing is sent for a page of another site, nor to a port that the      *)
(* policy has not offered since the request came in (views.py:50), of the  *)
(* switch the request named if it named one.                               *)
SentIfOffered ==
  sent # <<>> =>
    req.ours /\ \E i \in Index \cup {None} : req.switch \in {None, i} /\ <<i, req.port>> \in offered

(* "A project that has none refuses every request, whatever it says"       *)
(* (views.py:60): with 503, and not with what else is wrong with it.       *)
NoPolicyNoService == ~site.policy /\ req.ours /\ pc = "done" => answer = 503

(* Where one of the hold settings is not in order, nothing is switched and *)
(* no port is held, not even by the requests that would wait by the other. *)
NotSwitchedUnheld ==
  req.view # "status" /\ ~(site.store /\ {"on", "off"} \subseteq site.holds) => sent = <<>> /\ hold = "free"

=============================================================================
