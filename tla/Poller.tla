------------------------------- MODULE Poller -------------------------------
(***************************************************************************)
(* The switch poller (src/src/snmp_switch/poller.py, run by the command in *)
(* management/commands/switch_poller.py): it reads every switch in turn,   *)
(* publishes the link changes, releases the leases of ports that went      *)
(* down, and after the last switch reconciles the down and bounced ports   *)
(* with the gateway's leases.  Around it, at every call that leaves the    *)
(* process, links come and go, boards take leases, switches reboot.        *)
(*                                                                         *)
(* The code compares times of three sorts: when a poll began (its `now`,   *)
(* kept as read_at and down_since), when a lease was granted, and the      *)
(* polls at which a failing port is tried again.  Only their order         *)
(* matters, so a time is kept as its age: how many polls have begun since. *)
(* 0 is during the poll now running; no age grows past Long.               *)
(***************************************************************************)
EXTENDS Integers

CONSTANTS
  Switches,    \* switches 1..Switches, in the order of `specs'
  Ports,       \* each with board_ports 1..Ports
  Family,      \* the address families a port has an address of
  Life,        \* the lease time, in polls
  Opers,       \* the ifOperStatus readings that happen, a subset of AllOpers
  MaxBackoff,  \* MAX_BACKOFF_POLLS
  Upsets       \* what else may happen, a subset of AllUpsets

AllOpers  == {"up", "down", "other"}   \* link(): "other" is None

(* "unread": a switch does not answer whole.  "tables": the lease file or  *)
(* ports.conf does not read.  "missed": the lease file was caught half     *)
(* written, and read so twice, so that some leases are not seen (that one  *)
(* may be taken for another port's is left to gatewayfiles_cut).           *)
(* "release": a release is not confirmed.                                  *)
(* "restart": the process ends and systemd starts it again.  "reboot": a   *)
(* switch reboots.  "wrap": sysUpTime passes 2^32 hundredths of a second.  *)
(* "second": a lease is granted in the very second in which a poll began.  *)
AllUpsets == {"unread", "tables", "missed", "release", "restart", "reboot", "wrap", "second"}

ASSUME SizesAssumption   == Switches \in Nat \ {0} /\ Ports \in Nat \ {0}
ASSUME TimesAssumption   == Life \in Nat \ {0} /\ MaxBackoff \in Nat \ {0}
ASSUME OpersAssumption   == {"up", "down"} \subseteq Opers /\ Opers \subseteq AllOpers
ASSUME UpsetsAssumption  == Upsets \subseteq AllUpsets

Switch == 1..Switches
Key    == Switch \X (1..Ports)

VARIABLES
  (* the switches, the boards and the gateway *)
  oper,     \* each port's ifOperStatus
  moved,    \* whether its ifLastChange differs from known_change, the one last read with its link
  back,     \* whether a switch's sysUpTime is below what it last answered
  lease,    \* the age of each address's lease
  early,    \* whether it was granted in the second in which that poll began
  fresh,    \* history: there is one, and it was granted since the link last came up
  (* the poller, by the names of its fields *)
  read_at, known, down_polls, down_since,
  wait,     \* failures, as the wait it last made: 2 ** (failures - 1), and 0 for none
  retry_in, \* retry_at_poll less polls, 0 at the least
  (* poll_once *)
  pc,       \* "idle", "read", "changes", "reconcile" or "due"
  sw,       \* the switch the loop is at
  oper_read,\* current.oper
  found,    \* the changes of this switch not yet dealt with
  since_was,\* previous_read_at
  check,    \* what to reconcile: [port, since, cause]
  due,      \* those of them found to hold a stale lease and not yet released
  doing,    \* the release being waited for: a set of at most one
  site      \* history: the link this process last told the site of, or read with nothing to compare it with

world   == <<oper, moved, back>>
leases  == <<lease, early, fresh>>
memory  == <<read_at, known, down_polls, down_since>>
backoff == <<wait, retry_in>>
poll    == <<pc, sw, oper_read, found, since_was, check, due, doing>>
vars    == <<world, leases, memory, backoff, poll, site>>

NoLease == -1
Long    == Life + 1       \* longer ago than any lease that has not run out
Endless == Life + 2       \* expires 0, or granted for a longer time than today's
Leases  == (NoLease..Life) \cup {Endless}
Ages    == 0..Long
Never   == -1             \* None, where a time is expected
Links   == {"up", "down"}
Causes  == {"link-down", "down-port"}

Check     == [port : Key, since : Ages, cause : Causes]

Min2(a, b) == IF a < b THEN a ELSE b

TypeOK ==
  /\ oper         \in [Key -> Opers]
  /\ moved        \in [Key -> BOOLEAN]
  /\ back         \in [Switch -> BOOLEAN]
  /\ lease        \in [Key -> [Family -> Leases]]
  /\ early        \in [Key -> [Family -> BOOLEAN]]
  /\ fresh        \in [Key -> [Family -> BOOLEAN]]
  /\ read_at      \in [Switch -> Ages \cup {Never}]
  /\ known        \in [Key -> Links \cup {"none"}]
  /\ down_polls   \in [Key -> 0..2]
  /\ down_since   \in [Key -> Ages \cup {Never}]
  /\ wait         \in [Key -> 0..MaxBackoff]
  /\ retry_in     \in [Key -> 0..MaxBackoff]
  /\ pc           \in {"idle", "read", "changes", "reconcile", "due"}
  /\ sw           \in Switch
  /\ oper_read    \in [1..Ports -> AllOpers]
  /\ found        \subseteq [port : Key, link : Links \cup {"bounced"}]
  /\ since_was    \in Ages \cup {Never}
  /\ check        \subseteq Check
  /\ due          \subseteq Check
  /\ doing        \subseteq Check
  /\ site         \in [Key -> Links \cup {"none"}]

Neither     == [f \in Family |-> FALSE]
NothingRead == [p \in 1..Ports |-> "other"]

(* The fields of a process that has read nothing.                          *)
NeverRead == [s \in Switch |-> Never]
NotMoved  == [k \in Key |-> FALSE]
NoneKnown == [k \in Key |-> "none"]
Zero      == [k \in Key |-> 0]
NeverDown == [k \in Key |-> Never]

(* A board that is up may hold a lease of its own; a port may hold an old  *)
(* one.                                                                    *)
Init ==
  /\ read_at = NeverRead /\ known = NoneKnown
  /\ down_polls = Zero /\ down_since = NeverDown /\ wait = Zero /\ retry_in = Zero
  /\ pc = "idle" /\ sw = 1 /\ oper_read = NothingRead /\ since_was = Never
  /\ found = {} /\ check = {} /\ due = {} /\ doing = {}
  /\ oper  \in [Key -> Opers]
  /\ moved = NotMoved
  /\ back  = [s \in Switch |-> FALSE]
  /\ lease \in [Key -> [Family -> {NoLease, Life, Endless}]]
  /\ early = [k \in Key |-> Neither]
  /\ fresh = [k \in Key |-> [f \in Family |-> oper[k] = "up" /\ lease[k][f] # NoLease]]
  /\ site  = NoneKnown

-----------------------------------------------------------------------------
(* Ages.                                                                   *)

Older(age) == IF age = Never THEN Never ELSE Min2(age + 1, Long)

(* dnsmasq drops a lease that has run out.                                 *)
OlderLease(age) == IF age = Life THEN NoLease
                   ELSE IF age \in {NoLease, Endless} THEN age ELSE age + 1

(* _stale, of a lease of this age.  A lease granted after `now' has         *)
(* expires - now > lease_seconds, as has one granted for longer.  But an   *)
(* expiry is in whole seconds and `now' and down_since are not: of a lease *)
(* granted later in the second of a poll's beginning, the code takes the   *)
(* grant to be before it.                                                  *)
Stale(age, soon, since) ==
  /\ age # NoLease
  /\ IF soon THEN age >= since ELSE age = 0 \/ age > since

-----------------------------------------------------------------------------
(* poll_once                                                               *)

StartPoll ==
  /\ pc = "idle"
  /\ pc' = "read" /\ sw' = 1
  /\ lease'      = [k \in Key |-> [f \in Family |-> OlderLease(lease[k][f])]]
  /\ early'      = [k \in Key |-> [f \in Family |-> early[k][f] /\ lease'[k][f] # NoLease]]
  /\ fresh'      = [k \in Key |-> [f \in Family |-> fresh[k][f] /\ lease'[k][f] # NoLease]]
  /\ read_at'    = [s \in Switch |-> Older(read_at[s])]
  /\ down_since' = [k \in Key |-> Older(down_since[k])]
  /\ retry_in'   = [k \in Key |-> IF retry_in[k] = 0 THEN 0 ELSE retry_in[k] - 1]
  /\ UNCHANGED <<world, known, down_polls, wait, oper_read,
                 found, since_was, check, due, doing, site>>

(* After a switch: the next one, or the reconciliation of what is to check. *)
AfterSwitch(checks) ==
  /\ IF sw < Switches THEN pc' = "read" /\ sw' = sw + 1
     ELSE pc' = (IF checks = {} THEN "idle" ELSE "reconcile") /\ sw' = 1
  /\ check' = checks
  /\ oper_read' = NothingRead /\ since_was' = Never

(* No complete reading: the switch's ports are left as they were.          *)
MutUnread ==                                    \* goes on with what is known
  /\ pc = "read" /\ "unread" \in Upsets
  /\ pc' = "changes"
  /\ oper_read' = [p \in 1..Ports |-> known[<<sw, p>>]]
  /\ UNCHANGED <<world, leases, memory, backoff, sw, check, found, since_was, due, doing, site>>

Unread ==
  /\ pc = "read" /\ "unread" \in Upsets
  /\ AfterSwitch(check)
  /\ UNCHANGED <<world, leases, memory, backoff, found, due, doing, site>>

(* _changes: what the reading of one port says against the last known one. *)
ChangeOf(k) ==
  IF oper[k] \notin Links \/ known[k] = "none" THEN "none"
  ELSE IF known[k] # oper[k] THEN oper[k]
  ELSE IF moved[k] THEN "bounced" ELSE "none"

Here(k)      == k[1] = sw /\ oper[k] \in Links

MutKnownAfter(k) == IF k[1] # sw THEN known[k] ELSE IF oper[k] \in Links THEN oper[k] ELSE "none"
KnownAfter(k)    == IF Here(k) THEN oper[k] ELSE known[k]

(* A complete reading.  The first one of a switch, and the first after its *)
(* sysUpTime went backwards, reports nothing.                              *)
Read ==
  /\ pc = "read"
  /\ found' = IF read_at[sw] = Never \/ back[sw] THEN {}
              ELSE {[port |-> k, link |-> ChangeOf(k)] : k \in {q \in Key : q[1] = sw /\ ChangeOf(q) # "none"}}
  /\ known' = [k \in Key |-> KnownAfter(k)]
  /\ moved' = [k \in Key |-> moved[k] /\ ~Here(k)]
  /\ site'  = [k \in Key |-> IF Here(k) /\ (site[k] = "none" \/ back[sw]) THEN oper[k] ELSE site[k]]
  /\ back'      = [back EXCEPT ![sw] = FALSE]
  /\ oper_read' = [p \in 1..Ports |-> oper[<<sw, p>>]]
  /\ since_was' = read_at[sw]
  /\ read_at'   = [read_at EXCEPT ![sw] = 0]
  /\ pc' = "changes"
  /\ UNCHANGED <<oper, leases, down_polls, down_since, backoff, sw, check, due, doing>>

(* _release, up to the call of release: nothing while the port backs off.  *)
Start(c) == doing' = IF retry_in[c.port] > 0 THEN {} ELSE {c}

(* One change, the code takes them by port: published, and for a port that *)
(* went down its leases released; a bounced one is checked after the       *)
(* readings.                                                               *)
MutBounceSince == 0                             \* now, not previous_read_at
BounceSince    == since_was

Change ==
  /\ pc = "changes" /\ doing = {}
  /\ \E c \in found :
       /\ found' = found \ {c}
       /\ site'  = IF c.link = "bounced" THEN site ELSE [site EXCEPT ![c.port] = c.link]
       /\ check' = IF c.link # "bounced" THEN check
                   ELSE check \cup {[port |-> c.port, since |-> BounceSince, cause |-> "link-down"]}
       /\ IF c.link = "down" THEN Start([port |-> c.port, since |-> 0, cause |-> "link-down"])
          ELSE UNCHANGED doing
  /\ UNCHANGED <<world, leases, memory, backoff, pc, sw, oper_read, since_was, due>>

DownHere(k) == k[1] = sw /\ oper_read[k[2]] = "down"

MutReconciles(k) == down_polls[k] = 1           \* on the second down reading only
Reconciles(k)    == down_polls[k] >= 1          \* with this reading, DOWN_POLLS_BEFORE_RECONCILE

(* The ports of the switch are watched, and the poll goes on.              *)
Watch ==
  /\ pc = "changes" /\ doing = {} /\ found = {}
  /\ down_polls' = [k \in Key |-> IF k[1] # sw THEN down_polls[k]
                                  ELSE IF DownHere(k) THEN Min2(down_polls[k] + 1, 2) ELSE 0]
  /\ down_since' = [k \in Key |-> IF k[1] # sw THEN down_since[k]
                                  ELSE IF ~DownHere(k) THEN Never
                                  ELSE IF down_polls[k] = 0 THEN 0 ELSE down_since[k]]
  /\ AfterSwitch(check \cup {[port |-> k, since |-> down_since[k], cause |-> "down-port"] :
                             k \in {q \in Key : DownHere(q) /\ Reconciles(q)}})
  /\ UNCHANGED <<world, leases, read_at, known, backoff, found, due, doing, site>>

(* _reconcile: the leases and the addresses are read once, for all.  Of    *)
(* the leases those that are seen.                                         *)
WholeFile == Key \X Family

Tables(seen) ==
  /\ pc = "reconcile"
  /\ due' = {c \in check : \E f \in Family : /\ <<c.port, f>> \in seen
                                          /\ Stale(lease[c.port][f], early[c.port][f], c.since)}
  /\ pc' = "due" /\ check' = {}
  /\ UNCHANGED <<world, leases, memory, backoff, sw, oper_read, found, since_was, doing, site>>

SomeMissed == "missed" \in Upsets /\ \E seen \in SUBSET WholeFile : Tables(seen)

TablesFail ==
  /\ pc = "reconcile" /\ "tables" \in Upsets
  /\ pc' = "idle" /\ check' = {}
  /\ UNCHANGED <<world, leases, memory, backoff, sw, oper_read, found, since_was, due, doing, site>>

Due ==
  /\ pc = "due" /\ doing = {}
  /\ \/ due = {} /\ pc' = "idle" /\ UNCHANGED <<due, doing>>
     \/ \E c \in due : Start(c) /\ due' = due \ {c} /\ UNCHANGED pc
  /\ UNCHANGED <<world, leases, memory, backoff, sw, oper_read, found, since_was, check, site>>

(* The script releases every lease of the port.                            *)
Deleted(k) ==
  /\ lease' = [lease EXCEPT ![k] = [f \in Family |-> NoLease]]
  /\ early' = [early EXCEPT ![k] = Neither]
  /\ fresh' = [fresh EXCEPT ![k] = Neither]

Released(k) ==
  /\ \E c \in doing : c.port = k
  /\ Deleted(k)
  /\ wait' = [wait EXCEPT ![k] = 0]
  /\ retry_in' = [retry_in EXCEPT ![k] = 0]
  /\ doing' = {}
  /\ UNCHANGED <<world, memory, pc, sw, oper_read, found, since_was, check, due, site>>

(* Waits of 1, 2, 4 ... polls, at most MAX_BACKOFF_POLLS.                  *)
MutAfter(w) == IF w = 0 THEN 1 ELSE 2 * w       \* with no MAX_BACKOFF_POLLS
After(w)    == IF w = 0 THEN 1 ELSE Min2(2 * w, MaxBackoff)

(* Not confirmed: the leases may be gone or not.                           *)
ReleaseFails(k) ==
  /\ "release" \in Upsets /\ \E c \in doing : c.port = k
  /\ Deleted(k) \/ UNCHANGED leases
  /\ wait'     = [wait EXCEPT ![k] = After(@)]
  /\ retry_in' = [retry_in EXCEPT ![k] = After(wait[k])]
  /\ doing' = {}
  /\ UNCHANGED <<world, memory, pc, sw, oper_read, found, since_was, check, due, site>>

(* The process ends, at whatever call it is, and starts again.             *)
Restart ==
  /\ "restart" \in Upsets
  /\ read_at' = NeverRead /\ known' = NoneKnown /\ moved' = NotMoved
  /\ down_polls' = Zero /\ down_since' = NeverDown /\ wait' = Zero /\ retry_in' = Zero
  /\ pc' = "idle" /\ sw' = 1 /\ oper_read' = NothingRead /\ since_was' = Never
  /\ found' = {} /\ check' = {} /\ due' = {} /\ doing' = {}
  /\ site' = NoneKnown
  /\ UNCHANGED <<oper, back, leases>>

-----------------------------------------------------------------------------
(* Around the poller.                                                      *)

(* The lease of a board that lost its link is no longer its own.           *)
LinkChange(k) ==
  /\ \E o \in Opers \ {oper[k]} : oper' = [oper EXCEPT ![k] = o]
  /\ moved' = [moved EXCEPT ![k] = TRUE]
  /\ fresh' = [fresh EXCEPT ![k] = Neither]
  /\ UNCHANGED <<back, lease, early, memory, backoff, poll, site>>

(* dnsmasq answers a board: a new lease, or its own one renewed.           *)
Grant(k, f) ==
  /\ oper[k] = "up"
  /\ lease' = [lease EXCEPT ![k][f] = 0]
  /\ \E soon \in BOOLEAN : /\ soon => "second" \in Upsets
                          /\ early' = [early EXCEPT ![k][f] = soon]
  /\ fresh' = [fresh EXCEPT ![k][f] = TRUE]
  /\ UNCHANGED <<world, memory, backoff, poll, site>>

(* Every link of the switch goes; sysUpTime is lower, unless the switch    *)
(* had been up for less than this long.  An ifLastChange may be what it was *)
(* before.                                                                 *)
Reboot(s) ==
  /\ "reboot" \in Upsets
  /\ \E b \in BOOLEAN : back' = [back EXCEPT ![s] = b]
  /\ oper'  = [k \in Key |-> IF k[1] = s THEN "down" ELSE oper[k]]
  /\ \E m \in BOOLEAN : moved' = [k \in Key |-> IF k[1] = s THEN m ELSE moved[k]]
  /\ fresh' = [k \in Key |-> IF k[1] = s THEN Neither ELSE fresh[k]]
  /\ UNCHANGED <<lease, early, memory, backoff, poll, site>>

Wrap(s) ==
  /\ "wrap" \in Upsets
  /\ back' = [back EXCEPT ![s] = TRUE]
  /\ UNCHANGED <<oper, moved, leases, memory, backoff, poll, site>>

-----------------------------------------------------------------------------

Step == \/ StartPoll \/ Read \/ Change \/ Watch \/ Tables(WholeFile) \/ Due
        \/ Unread \/ SomeMissed \/ TablesFail
        \/ \E k \in Key : Released(k) \/ ReleaseFails(k)

Around == \/ Restart
          \/ \E k \in Key : LinkChange(k) \/ \E f \in Family : Grant(k, f)
          \/ \E s \in Switch : Reboot(s) \/ Wrap(s)

Next == Step \/ Around

(* The command polls for ever; a switch, the gateway's files and the       *)
(* script answer now and again.                                            *)
Fairness ==
  /\ WF_vars(Step)
  /\ \A s \in Switch : SF_vars(Read /\ sw = s)
  /\ SF_vars(Tables(WholeFile))
  /\ \A k \in Key : SF_vars(Released(k))

Spec     == Init /\ [][Next]_vars
FairSpec == Spec /\ Fairness

-----------------------------------------------------------------------------
(* Properties.                                                             *)

(* "A stale or partial read can never release a lease" (poller.py:12): a   *)
(* release is for a port of a switch that answered whole in this poll.     *)
NeverBlind == \A c \in doing : read_at[c.port[1]] = 0

(* A lease that a release may take: granted before the link last came up,  *)
(* or when the code cannot place it, in this poll or in the second in      *)
(* which a poll began.                                                     *)
MayGo(k, f) == lease[k][f] # NoLease /\ (~fresh[k][f] \/ lease[k][f] = 0 \/ early[k][f])

(* A port whose leases the board all took since its link last came up is   *)
(* not released, however it flapped before: the bounce is checked against  *)
(* the reading before it, the down port against its first down reading     *)
(* (poller.py:183, 195).  One of its leases at least is one that may go;   *)
(* those of its other families go with it, new or not (poller.py:253).     *)
FreshPortKept ==
  [][\A k \in Key :
       doing # {} /\ (\E f \in Family : lease[k][f] # NoLease /\ lease'[k][f] = NoLease)
         => \E f \in Family : MayGo(k, f)]_vars

(* Whenever a poll is over the poller knows no other link of a port than   *)
(* the site does: it has told the site of each change, through unknown     *)
(* readings and silent switches, but for what it read with nothing to      *)
(* compare it with, at first or after a reboot (poller.py:211).            *)
SiteAgrees == pc = "idle" => \A k \in Key : known[k] \in {"none", site[k]}

(* A port that stays down does not keep a lease, whatever fails on the     *)
(* way, once the process is no longer started again.                       *)
DownLeaseGoes ==
  <>[][~Restart]_vars =>
    \A k \in Key : oper[k] = "down" ~> oper[k] # "down" \/ \A f \in Family : lease[k][f] = NoLease

-----------------------------------------------------------------------------
(* What the documentation says and the code does not do.                   *)

(* A lease goes, in the step that releases those of a port that bounced.   *)
BounceTakes(k, f) ==
  /\ pc = "due" /\ \E c \in doing : c.cause = "link-down"
  /\ lease[k][f] # NoLease /\ lease'[k][f] = NoLease

NewOnly(k) == \A f \in Family : lease[k][f] # NoLease => fresh[k][f]

(* poller.py:182: "a lease granted since is the board's new one, kept".    *)
(* But of a port with new leases only, one that was granted in this very   *)
(* poll goes (poller.py:261), and with it one that was granted before, of  *)
(* the other family (poller.py:253).                                       *)
BounceKeepsNew ==
  [][\A k \in Key, f \in Family : BounceTakes(k, f) /\ NewOnly(k) => lease[k][f] = 0]_vars

=============================================================================
