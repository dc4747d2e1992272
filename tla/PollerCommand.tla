---------------------------- MODULE PollerCommand ----------------------------
(***************************************************************************)
(* The poller's process as systemd's watchdog sees it: the command in      *)
(* src/src/snmp_switch/management/commands/switch_poller.py, whose loop    *)
(* polls every switch, releases leases, reads the gateway's files          *)
(* (GatewayFiles) and only then says WATCHDOG=1.  What is polled and       *)
(* released is Poller's subject; here it is how long each call may take,   *)
(* in a unit of time that is left open.                                    *)
(***************************************************************************)
EXTENDS GatewayFiles

CONSTANTS
  Switches,     \* switches 1..Switches, in the order of `specs'
  SNMP_TIME,    \* the longest a switch's read takes
  RELEASE_TIME, \* the longest a release takes
  READ_PAUSE,   \* between two reads of a file
  Period,       \* SWITCH_POLL_SECONDS
  WatchdogSec   \* of the systemd unit

TablesTime == (3 * READ_TRIES - 2) * READ_PAUSE  \* all the pauses one reconciliation can make

(* release.py:25: the watchdog "must stay above" a release, "it is kept    *)
(* alive before each release"; it must also be above what comes after one, *)
(* and above a poll that releases nothing.                                 *)
ASSUME CommandAssumption ==
  /\ Switches \in Nat \ {0}
  /\ {SNMP_TIME, RELEASE_TIME, READ_PAUSE, Period, WatchdogSec} \subseteq Nat
  /\ Period + Switches * SNMP_TIME + TablesTime <= WatchdogSec
  /\ RELEASE_TIME + (Switches - 1) * SNMP_TIME + TablesTime <= WatchdogSec

VARIABLES
  at,     \* "start", "read", "changes", "leases", "ports", "due" or "end"
  sw,     \* the switch the loop is at
  tries,  \* how often ports.conf has been read without success
  quiet,  \* how long ago the watchdog heard of the process
  spent   \* how long the poll has taken, no more than Period

command == <<at, sw, tries, quiet, spent>>
vars    == <<dnsmasq, reader, command>>

TypeOK ==
  /\ TypeOKFiles
  /\ at \in {"start", "read", "changes", "leases", "ports", "due", "end"}
  /\ sw \in 1..Switches /\ tries \in 0..(READ_TRIES - 1)
  /\ quiet \in Nat /\ spent \in 0..Period

Init ==
  /\ InitDnsmasq /\ InitReader
  /\ at = "start" /\ sw = 1 /\ tries = 0 /\ quiet = 0 /\ spent = 0

Passes(t) ==
  /\ quiet' = quiet + t
  /\ spent' = IF spent + t < Period THEN spent + t ELSE Period

-----------------------------------------------------------------------------

(* handle: the settings and ports.conf are read, then READY=1.             *)
Ready ==
  /\ at = "start"
  /\ at' = "read" /\ quiet' = 0
  /\ UNCHANGED <<dnsmasq, reader, sw, tries, spent>>

ReadSwitch ==
  /\ at = "read"
  /\ \E t \in 0..SNMP_TIME : Passes(t)
  /\ at' = "changes"
  /\ UNCHANGED <<dnsmasq, reader, sw, tries>>

MutKeepalive == quiet                           \* no WATCHDOG=1 before a release
Keepalive    == 0

(* _release of a port, while the changes of a switch or what the           *)
(* reconciliation found are gone through.                                  *)
Release ==
  /\ at \in {"changes", "due"}
  /\ \E t \in 0..RELEASE_TIME :
       /\ quiet' = Keepalive + t
       /\ spent' = IF spent + t < Period THEN spent + t ELSE Period
  /\ UNCHANGED <<dnsmasq, reader, at, sw, tries>>

NextSwitch ==
  /\ at = "changes" /\ sw < Switches
  /\ at' = "read" /\ sw' = sw + 1
  /\ UNCHANGED <<dnsmasq, reader, tries, quiet, spent>>

(* After the last switch: the leases, when there is something to check.    *)
Check ==
  /\ at = "changes" /\ sw = Switches
  /\ at' = "leases" /\ OpenLeases
  /\ UNCHANGED <<dnsmasq, sw, tries, quiet, spent>>

NothingToCheck ==
  /\ at = "changes" /\ sw = Switches
  /\ at' = "end"
  /\ UNCHANGED <<dnsmasq, reader, sw, tries, quiet, spent>>

LeasesRead   == ReadSome    /\ UNCHANGED <<dnsmasq, command>>
LeasesAgree  == ReadAgrees  /\ at' = "ports" /\ UNCHANGED <<dnsmasq, sw, tries, quiet, spent>>
LeasesDiffer == ReadDiffers /\ Passes(READ_PAUSE) /\ UNCHANGED <<dnsmasq, at, sw, tries>>
LeasesFail   == ReadGivesUp /\ at' = "end" /\ Passes(READ_PAUSE) /\ UNCHANGED <<dnsmasq, sw, tries>>

(* read_with_retry of ports.conf: in the shape parse_ports_conf knows, or  *)
(* once more.                                                              *)
PortsRead ==
  /\ at = "ports"
  /\ at' = "due" /\ tries' = 0
  /\ UNCHANGED <<dnsmasq, reader, sw, quiet, spent>>

PortsRetry ==
  /\ at = "ports" /\ tries < READ_TRIES - 1
  /\ tries' = tries + 1 /\ Passes(READ_PAUSE)
  /\ UNCHANGED <<dnsmasq, reader, at, sw>>

PortsFail ==
  /\ at = "ports" /\ tries = READ_TRIES - 1
  /\ at' = "end" /\ tries' = 0
  /\ UNCHANGED <<dnsmasq, reader, sw, quiet, spent>>

Reconciled ==
  /\ at = "due"
  /\ at' = "end"
  /\ UNCHANGED <<dnsmasq, reader, sw, tries, quiet, spent>>

(* run: WATCHDOG=1 after the poll, and sleep for what is left of Period.   *)
EndPoll ==
  /\ at = "end"
  /\ at' = "read" /\ sw' = 1 /\ quiet' = Period - spent /\ spent' = 0
  /\ UNCHANGED <<dnsmasq, reader, tries>>

(* An exception ends the process, and systemd starts it again.             *)
Restart ==
  /\ at # "start"
  /\ at' = "start" /\ sw' = 1 /\ tries' = 0 /\ quiet' = 0 /\ spent' = 0
  /\ reading' = "no" /\ reads' = 0 /\ text' = <<>> /\ previous' = <<>> /\ torn' = {}
  /\ UNCHANGED <<dnsmasq, told>>

Reading == LeasesRead \/ LeasesAgree \/ LeasesDiffer \/ LeasesFail
Command == \/ Ready \/ ReadSwitch \/ Release \/ NextSwitch \/ Check \/ NothingToCheck
           \/ Reading \/ PortsRead \/ PortsRetry \/ PortsFail \/ Reconciled \/ EndPoll
Next    == Command \/ Restart \/ (Dnsmasq /\ UNCHANGED <<believing, command>>)

(* dnsmasq finishes what it writes, and a file is read to its end.         *)
Spec     == Init /\ [][Next]_vars
FairSpec == Spec /\ WF_vars((Truncate \/ Flush) /\ UNCHANGED <<believing, command>>) /\ WF_vars(Reading)

-----------------------------------------------------------------------------
(* Properties.                                                             *)

(* systemd never stops a poller for want of a WATCHDOG=1, whatever it has  *)
(* to read and however many ports it has to release.                       *)
Fed == at # "start" => quiet <= WatchdogSec

(* What the poller believes of the lease file, it believes rightly         *)
(* (BelievedRightly of GatewayFiles).                                      *)
ToldUnlessTorn == [][LeasesAgree => BelievedRightly]_vars

(* gateway.py:75: "a lease missed this way only waits for the next poll".  *)
(* When the leases no longer change and the poller goes on reading them,   *)
(* it has them all in the end, and no other.                               *)
AllToldInTheEnd == []<><<LeasesAgree>>_vars => <>[](told = Leases(db))

=============================================================================
