------------------------- MODULE PollerCommandProofs -------------------------
(***************************************************************************)
(* What TLAPS proves of PollerCommand: the watchdog is fed in time, for    *)
(* any number of switches, any times that CommandAssumption allows, and    *)
(* whatever the gateway's files do; and what read_leases returns of the    *)
(* lease file were leases, in whatever pieces it is written and read.      *)
(***************************************************************************)
EXTENDS PollerCommand, SequenceTheorems, TLAPS

-----------------------------------------------------------------------------
(* Numbers.                                                                *)

LEMMA Numbers ==
  /\ Switches \in Nat \ {0} /\ SNMP_TIME \in Nat /\ RELEASE_TIME \in Nat /\ READ_PAUSE \in Nat
  /\ Period \in Nat /\ WatchdogSec \in Nat /\ READ_TRIES \in Nat /\ READ_TRIES >= 2
BY CommandAssumption, TriesAssumption DEF CommandAssumption, TriesAssumption

(* The time that n switches, and that n pauses, can take at the most.      *)
SwitchTime(n) == n * SNMP_TIME
PauseTime(n)  == n * READ_PAUSE

LEMMA OneLess ==
  ASSUME NEW n \in Nat \ {0}
  PROVE  /\ SwitchTime(n) \in Nat /\ SwitchTime(n - 1) \in Nat /\ SwitchTime(n) = SwitchTime(n - 1) + SNMP_TIME
         /\ PauseTime(n) \in Nat /\ PauseTime(n - 1) \in Nat /\ PauseTime(n) = PauseTime(n - 1) + READ_PAUSE
BY Numbers DEF SwitchTime, PauseTime

LEMMA Fewer ==
  ASSUME NEW m \in Nat, NEW n \in Nat, m <= n
  PROVE  /\ SwitchTime(m) \in Nat /\ SwitchTime(n) \in Nat /\ SwitchTime(m) <= SwitchTime(n)
         /\ PauseTime(m) \in Nat /\ PauseTime(n) \in Nat /\ PauseTime(m) <= PauseTime(n)
BY Numbers DEF SwitchTime, PauseTime

(* What the code can still take from here on to the next WATCHDOG=1.       *)
ToGo ==
  CASE at = "read"    -> SwitchTime(Switches - sw + 1) + PauseTime(3 * READ_TRIES - 2)
    [] at = "changes" -> SwitchTime(Switches - sw) + PauseTime(3 * READ_TRIES - 2)
    [] at = "leases"  -> PauseTime(3 * READ_TRIES - 2 - reads)
    [] at = "ports"   -> PauseTime(READ_TRIES - 1 - tries)
    [] OTHER          -> 0

(* What has been said to the watchdog is recent enough for all that.       *)
FedInv ==
  /\ at \in {"start", "read", "changes", "leases", "ports", "due", "end"}
  /\ sw \in 1..Switches /\ tries \in 0..(READ_TRIES - 1) /\ reads \in 0..(LeaseReads - 1)
  /\ at # "ports" => tries = 0
  /\ quiet \in Nat /\ spent \in 0..Period
  /\ at = "leases" <=> reading # "no"
  /\ at # "start" => quiet + ToGo <= WatchdogSec

LEMMA FedInit == Init => FedInv
BY Numbers DEF Init, InitReader, FedInv, LeaseReads

(* The two sums the watchdog has to be above.                              *)
LEMMA Sums ==
  /\ Period + SwitchTime(Switches) + PauseTime(3 * READ_TRIES - 2) <= WatchdogSec
  /\ RELEASE_TIME + SwitchTime(Switches - 1) + PauseTime(3 * READ_TRIES - 2) <= WatchdogSec
BY CommandAssumption DEF CommandAssumption, TablesTime, SwitchTime, PauseTime

LEMMA FedStep == FedInv /\ [Next]_vars => FedInv'
<1> SUFFICES ASSUME FedInv, [Next]_vars PROVE FedInv'
  OBVIOUS
<1> USE Numbers DEF FedInv, LeaseReads
<1>1. /\ Switches - sw \in Nat /\ Switches - sw + 1 \in Nat \ {0}
      /\ SwitchTime(Switches - sw) \in Nat
      /\ SwitchTime(Switches - sw + 1) = SwitchTime(Switches - sw) + SNMP_TIME
  <2>1. Switches - sw \in Nat /\ Switches - sw + 1 \in Nat \ {0} /\ (Switches - sw + 1) - 1 = Switches - sw
    OBVIOUS
  <2> QED
    BY <2>1, OneLess
<1>2. PauseTime(3 * READ_TRIES - 2) \in Nat
  BY Fewer
<1>3. CASE UNCHANGED vars \/ (Dnsmasq /\ UNCHANGED <<believing, command>>)
  BY <1>3 DEF vars, command, reader, believing, ToGo
<1>4. CASE Ready
  BY <1>4, <1>1, <1>2, Sums, Fewer DEF Ready, ToGo, reader, believing
<1>5. CASE ReadSwitch
  <2>1. PICK t \in 0..SNMP_TIME : quiet' = quiet + t /\ spent' = IF spent + t < Period THEN spent + t ELSE Period
    BY <1>5 DEF ReadSwitch, Passes
  <2> QED
    BY <1>1, <1>2, <1>5, <2>1 DEF ReadSwitch, ToGo, reader, believing
<1>6. CASE Release
  <2>1. PICK t \in 0..RELEASE_TIME : quiet' = t /\ spent' = IF spent + t < Period THEN spent + t ELSE Period
    BY <1>6 DEF Release, Keepalive
  <2>2. SwitchTime(Switches - sw) <= SwitchTime(Switches - 1) /\ SwitchTime(Switches - 1) \in Nat
    BY <1>1, Fewer
  <2> QED
    BY <1>1, <1>2, <1>6, <2>1, <2>2, Sums DEF Release, ToGo, reader, believing
<1>7. CASE NextSwitch
  <2>1. Switches - (sw + 1) + 1 = Switches - sw
    OBVIOUS
  <2> QED
    BY <1>7, <2>1 DEF NextSwitch, ToGo, reader, believing
<1>8. CASE Check \/ NothingToCheck
  <2>1. CASE Check
    <3>1. at' = "leases" /\ reads' = 0 /\ reading' = "open" /\ quiet' = quiet /\ UNCHANGED <<sw, tries, spent>>
      BY <2>1 DEF Check, OpenLeases
    <3>2. 3 * READ_TRIES - 2 - 0 = 3 * READ_TRIES - 2
      OBVIOUS
    <3>3. ToGo' = PauseTime(3 * READ_TRIES - 2)
      BY <3>1, <3>2 DEF ToGo
    <3>4. at = "changes" /\ tries = 0 /\ ToGo = SwitchTime(Switches - sw) + PauseTime(3 * READ_TRIES - 2)
      BY <2>1 DEF Check, ToGo
    <3> QED
      BY <1>1, <1>2, <3>1, <3>3, <3>4
  <2>2. CASE NothingToCheck
    BY <1>1, <1>2, <2>2 DEF NothingToCheck, ToGo, reader, believing
  <2> QED
    BY <1>8, <2>1, <2>2
<1>9. CASE LeasesRead
  BY <1>9 DEF LeasesRead, ReadSome, ToGo, command
<1>10. CASE LeasesAgree
  <2>1. PauseTime(READ_TRIES - 1) <= PauseTime(3 * READ_TRIES - 2 - reads) /\ PauseTime(READ_TRIES - 1) \in Nat
    BY Fewer
  <2>2. at = "leases" /\ at' = "ports" /\ reads' = 0 /\ reading' = "no" /\ UNCHANGED <<sw, tries, quiet, spent>>
    BY <1>10 DEF LeasesAgree, ReadAgrees, AtEnd
  <2>3. READ_TRIES - 1 - 0 = READ_TRIES - 1 /\ tries = 0
    BY <2>2
  <2>4. ToGo = PauseTime(3 * READ_TRIES - 2 - reads) /\ ToGo' = PauseTime(READ_TRIES - 1)
    BY <2>2, <2>3 DEF ToGo
  <2>5. PauseTime(3 * READ_TRIES - 2 - reads) \in Nat
    BY Fewer
  <2> QED
    BY <2>1, <2>2, <2>3, <2>4, <2>5
<1>11. CASE LeasesDiffer \/ LeasesFail
  <2>1. /\ 3 * READ_TRIES - 2 - reads \in Nat \ {0}
        /\ 3 * READ_TRIES - 2 - (reads + 1) = (3 * READ_TRIES - 2 - reads) - 1
    OBVIOUS
  <2>2. /\ PauseTime(3 * READ_TRIES - 2 - reads) = PauseTime(3 * READ_TRIES - 2 - (reads + 1)) + READ_PAUSE
        /\ PauseTime(3 * READ_TRIES - 2 - (reads + 1)) \in Nat
    BY <2>1, OneLess
  <2>3. at = "leases" /\ ToGo = PauseTime(3 * READ_TRIES - 2 - reads)
    BY <1>11 DEF LeasesDiffer, ReadDiffers, LeasesFail, ReadGivesUp, AtEnd, ToGo
  <2>4. /\ quiet' = quiet + READ_PAUSE /\ spent' = IF spent + READ_PAUSE < Period THEN spent + READ_PAUSE ELSE Period
        /\ UNCHANGED <<sw, tries>>
    BY <1>11 DEF LeasesDiffer, LeasesFail, Passes
  <2>5. CASE LeasesDiffer
    <3>1. at' = "leases" /\ reads' = reads + 1 /\ reading' = "open" /\ reads < LeaseReads - 1
      BY <2>3, <2>5 DEF LeasesDiffer, ReadDiffers
    <3>2. ToGo' = PauseTime(3 * READ_TRIES - 2 - (reads + 1))
      BY <3>1 DEF ToGo
    <3> QED
      BY <2>2, <2>3, <2>4, <3>1, <3>2
  <2>6. CASE LeasesFail
    <3>1. at' = "end" /\ reads' = 0 /\ reading' = "no"
      BY <2>6 DEF LeasesFail, ReadGivesUp
    <3>2. ToGo' = 0
      BY <3>1 DEF ToGo
    <3> QED
      BY <2>2, <2>3, <2>4, <3>1, <3>2
  <2> QED
    BY <1>11, <2>5, <2>6
<1>12. CASE PortsRead \/ PortsFail \/ Reconciled
  <2>1. PauseTime(READ_TRIES - 1 - tries) \in Nat
    BY Fewer
  <2> QED
    BY <1>12, <2>1 DEF PortsRead, PortsFail, Reconciled, ToGo, reader, believing
<1>13. CASE PortsRetry
  <2>1. READ_TRIES - 1 - tries \in Nat \ {0} /\ READ_TRIES - 1 - (tries + 1) = (READ_TRIES - 1 - tries) - 1
    BY <1>13 DEF PortsRetry
  <2>2. /\ PauseTime(READ_TRIES - 1 - tries) = PauseTime(READ_TRIES - 1 - (tries + 1)) + READ_PAUSE
        /\ PauseTime(READ_TRIES - 1 - (tries + 1)) \in Nat
    BY <2>1, OneLess
  <2> QED
    BY <1>13, <2>2 DEF PortsRetry, Passes, ToGo, reader, believing
<1>14. CASE EndPoll
  <2>1. Switches - 1 + 1 = Switches /\ SwitchTime(Switches) \in Nat
    BY Fewer
  <2> QED
    BY <1>2, <1>14, <2>1, Sums DEF EndPoll, ToGo, reader, believing
<1>15. CASE Restart
  BY <1>15 DEF Restart, ToGo
<1> QED
  BY <1>3, <1>4, <1>5, <1>6, <1>7, <1>8, <1>9, <1>10, <1>11, <1>12, <1>13, <1>14, <1>15
     DEF Next, Command, Reading

(* The watchdog never stops a poller that is at work: whatever switches,   *)
(* files and releases take, up to their limits, WATCHDOG=1 comes in time.  *)
THEOREM InTime == Spec => []Fed
<1>1. FedInv => Fed
  <2> SUFFICES ASSUME FedInv, at # "start" PROVE quiet <= WatchdogSec
    BY DEF Fed
  <2>1. ToGo \in Nat
    BY Numbers, Fewer DEF FedInv, ToGo, LeaseReads
  <2> QED
    BY <2>1, Numbers DEF FedInv
<1> QED
  BY <1>1, FedInit, FedStep, PTL DEF Spec

-----------------------------------------------------------------------------
(* Types.                                                                  *)

LEMMA Changes == MaxChanges \in Nat /\ NoAddress \notin Address /\ CutAs \in Address \cup {NoAddress}
BY ChangesAssumption, AddressAssumption DEF ChangesAssumption, AddressAssumption

LEMMA TextType == ASSUME NEW d \in Seq(Lease) PROVE TextOf(d) \in Seq(Half)
<1>1. ASSUME NEW i \in 1..(2 * Len(d)) PROVE TextOf(d)[i] \in Half
  <2> DEFINE l == d[(i + 1) \div 2]
  <2>1. (i + 1) \div 2 \in 1..Len(d)
    OBVIOUS
  <2>2. l.expires \in 0..MaxChanges /\ l.address \in Address
    <3>1. l \in Lease
      BY <2>1
    <3> QED
      BY <3>1 DEF Lease
  <2>3. TextOf(d)[i] = IF i % 2 = 1 THEN [first |-> TRUE, expires |-> l.expires]
                                    ELSE [first |-> FALSE, address |-> l.address]
    BY DEF TextOf
  <2> QED
    BY <2>2, <2>3 DEF Half
<1>2. TextOf(d) = [i \in 1..(2 * Len(d)) |-> TextOf(d)[i]] /\ 2 * Len(d) \in Nat
  BY DEF TextOf
<1> QED
  BY <1>1, <1>2

LEMMA LeasesType == ASSUME NEW d \in Seq(Lease) PROVE Leases(d) \subseteq Lease
BY DEF Leases

LEMMA GivenType ==
  ASSUME db \in Seq(Lease), NEW a \in Address, NEW l \in Lease PROVE Given(a, l) \in Seq(Lease)
<1>1. CASE \E i \in DOMAIN db : db[i].address = a
  <2>1. Given(a, l) = [i \in 1..Len(db) |-> IF db[i].address = a THEN l ELSE db[i]]
    BY <1>1 DEF Given
  <2> QED
    BY <2>1
<1>2. CASE ~ \E i \in DOMAIN db : db[i].address = a
  BY <1>2 DEF Given
<1> QED
  BY <1>1, <1>2

LEMMA OthersType == ASSUME db \in Seq(Lease), NEW i \in DOMAIN db PROVE Others(i) \in Seq(Lease)
BY DEF Others

LEMMA HalfType ==
  ASSUME NEW h \in Half
  PROVE  (h.first => h.expires \in 0..MaxChanges) /\ (~h.first => h.address \in Address)
<1>1. CASE h \in [first : {TRUE}, expires : 0..MaxChanges]
  BY <1>1
<1>2. CASE h \in [first : {FALSE}, address : Address]
  BY <1>2
<1> QED
  BY <1>1, <1>2 DEF Half

(* A half of a line is its first or its second, and a lease that is made   *)
(* of two is one.                                                          *)
LEMMA ParsedType == ASSUME NEW t \in Seq(Half) PROVE ParseLeases(t) \subseteq Lease
<1> SUFFICES ASSUME NEW i \in DOMAIN t, t[i].first, AddressAt(t, i) # NoAddress
             PROVE  [address |-> AddressAt(t, i), expires |-> t[i].expires] \in Lease
  BY DEF ParseLeases
<1>1. t[i].expires \in 0..MaxChanges
  BY HalfType
<1>2. AddressAt(t, i) \in Address
  <2>1. CASE i = Len(t)
    BY <2>1, Changes DEF AddressAt
  <2>2. CASE i # Len(t)
    <3>1. i + 1 \in DOMAIN t
      BY <2>2
    <3>2. t[i + 1].first \/ t[i + 1].address \in Address
      BY <3>1, HalfType
    <3> QED
      BY <2>2, <3>2 DEF AddressAt
  <2> QED
    BY <2>1, <2>2
<1> QED
  BY <1>1, <1>2 DEF Lease

DnsmasqType ==
  /\ db \in Seq(Lease) /\ changes \in 0..MaxChanges /\ file \in Seq(Half)
  /\ writer \in {"clean", "dirty", "writing"} /\ granted \subseteq Lease

ReaderType ==
  /\ text \in Seq(Half) /\ previous \in Seq(Seq(Half)) /\ told \subseteq Lease
  /\ reading \in {"no", "open", "more"} /\ torn \subseteq {"this", "last"}

LEMMA FilesInit == Init => DnsmasqType /\ ReaderType
<1> SUFFICES ASSUME Init PROVE DnsmasqType /\ ReaderType
  OBVIOUS
<1>1. db \in Seq(Lease)
  <2>1. \A a \in Address : [address |-> a, expires |-> 0] \in Lease
    BY Changes DEF Lease
  <2>2. db = <<>> \/ \E a \in Address : db = <<[address |-> a, expires |-> 0]>>
    BY DEF Init, InitDnsmasq
  <2>3. CASE db = <<>>
    BY <2>3
  <2>4. ASSUME NEW a \in Address, db = <<[address |-> a, expires |-> 0]>> PROVE db \in Seq(Lease)
    <3> DEFINE l == [address |-> a, expires |-> 0]
    <3>1. l \in Lease
      BY <2>1
    <3>2. db = <<l>>
      BY <2>4
    <3> HIDE DEF l
    <3> QED
      BY <3>1, <3>2
  <2> QED
    BY <2>2, <2>3, <2>4
<1> QED
  BY <1>1, TextType, LeasesType, Changes DEF Init, InitDnsmasq, InitReader, DnsmasqType, ReaderType

LEMMA DnsmasqStep == ASSUME DnsmasqType, Dnsmasq PROVE DnsmasqType'
<1> USE Changes DEF DnsmasqType
<1>1. CASE LeaseChange
  <2>1. changes + 1 \in 0..MaxChanges
    BY <1>1 DEF LeaseChange
  <2>2. \A a \in Address : [address |-> a, expires |-> changes + 1] \in Lease
    BY <2>1 DEF Lease
  <2>3. db' \in Seq(Lease)
    BY <1>1, <2>2, GivenType, OthersType DEF LeaseChange
  <2> QED
    BY <1>1, <2>1, <2>3, LeasesType DEF LeaseChange
<1>2. CASE Truncate
  BY <1>2 DEF Truncate
<1>3. CASE Flush
  <2>1. TextOf(db) \in Seq(Half)
    BY TextType
  <2>2. PICK n \in (Len(file) + 1)..Len(TextOf(db)) :
          /\ file' = SubSeq(TextOf(db), 1, n)
          /\ writer' \in {"clean", "writing"}
    BY <1>3 DEF Flush
  <2>3. file' \in Seq(Half)
    BY <2>1, <2>2
  <2> QED
    BY <1>3, <2>2, <2>3 DEF Flush
<1> QED
  BY <1>1, <1>2, <1>3 DEF Dnsmasq

LEMMA FilesStep ==
  ASSUME DnsmasqType, ReaderType, [Next]_vars PROVE DnsmasqType' /\ ReaderType'
<1>1. CASE Dnsmasq /\ UNCHANGED <<believing, command>>
  <2>1. torn' \in {torn, torn \cup {"this"}}
    BY <1>1 DEF Dnsmasq, LeaseChange, Truncate, Flush
  <2> QED
    BY <1>1, <2>1, DnsmasqStep DEF believing, ReaderType
<1>2. CASE UNCHANGED <<dnsmasq, reader>>
  BY <1>2 DEF dnsmasq, reader, believing, DnsmasqType, ReaderType
<1>3. CASE Check
  BY <1>3 DEF Check, OpenLeases, dnsmasq, DnsmasqType, ReaderType
<1>4. CASE LeasesRead
  <2>1. text' \in Seq(Half)
    BY <1>4 DEF LeasesRead, ReadSome, DnsmasqType, ReaderType
  <2> QED
    BY <1>4, <2>1 DEF LeasesRead, ReadSome, dnsmasq, DnsmasqType, ReaderType
<1>5. CASE LeasesAgree
  BY <1>5, ParsedType DEF LeasesAgree, ReadAgrees, dnsmasq, DnsmasqType, ReaderType
<1>6. CASE LeasesDiffer
  BY <1>6 DEF LeasesDiffer, ReadDiffers, dnsmasq, DnsmasqType, ReaderType
<1>7. CASE LeasesFail
  BY <1>7 DEF LeasesFail, ReadGivesUp, dnsmasq, DnsmasqType, ReaderType
<1>8. CASE Restart
  BY <1>8 DEF Restart, dnsmasq, DnsmasqType, ReaderType
<1>9. CASE UNCHANGED vars \/ Ready \/ ReadSwitch \/ Release \/ NextSwitch \/ NothingToCheck
           \/ PortsRead \/ PortsRetry \/ PortsFail \/ Reconciled \/ EndPoll
  <2>1. UNCHANGED <<dnsmasq, reader>>
    BY <1>9 DEF vars, Ready, ReadSwitch, Release, NextSwitch, NothingToCheck, PortsRead, PortsRetry,
                PortsFail, Reconciled, EndPoll
  <2> QED
    BY <1>2, <2>1
<1> QED
  BY <1>1, <1>3, <1>4, <1>5, <1>6, <1>7, <1>8, <1>9 DEF Next, Command, Reading

(* What dnsmasq writes, in whatever pieces it is read, and what the poller *)
(* takes it to say, is leases; the poller's own counts stay in their       *)
(* bounds.                                                                 *)
THEOREM TypeCorrect == Spec => []TypeOK
<1>1. DnsmasqType /\ ReaderType /\ FedInv => TypeOK
  BY DEF DnsmasqType, ReaderType, FedInv, TypeOK, TypeOKFiles
<1> QED
  BY <1>1, FilesInit, FilesStep, FedInit, FedStep, PTL DEF Spec

-----------------------------------------------------------------------------
(* What is told of the leases.                                             *)

(* A text is what another begins with.                                     *)
Begins(t, u) == Len(t) <= Len(u) /\ \A i \in 1..Len(t) : t[i] = u[i]

(* A text that begins one writing of leases that there have been.          *)
Honest(t) == \E d \in Seq(Lease) : Leases(d) \subseteq granted /\ Begins(t, TextOf(d))

(* The file is always of one writing.                                      *)
FileInv ==
  /\ Leases(db) \subseteq granted /\ Honest(file)
  /\ writer = "writing" => Begins(file, TextOf(db))

(* A read in which the file was not truncated has the beginning of it, and *)
(* the read before, if it was not in that, the beginning of one writing.   *)
TextInv ==
  /\ "this" \notin torn => Begins(text, file)
  /\ "last" \notin torn => \A i \in DOMAIN previous : Honest(previous[i])

LEMMA Halves ==
  ASSUME NEW i \in Nat, i % 2 = 1 PROVE (i + 1) % 2 # 1 /\ ((i + 1) + 1) \div 2 = (i + 1) \div 2
OBVIOUS

(* The lease that a whole line of a beginning of a writing makes.          *)
LEMMA LineParsed ==
  ASSUME NEW d \in Seq(Lease), NEW t \in Seq(Half), Begins(t, TextOf(d)),
         NEW i \in DOMAIN t, t[i].first, i # Len(t), AddressAt(t, i) # NoAddress
  PROVE  [address |-> AddressAt(t, i), expires |-> t[i].expires] \in Leases(d)
<1>1. Len(TextOf(d)) = 2 * Len(d)
  BY DEF TextOf
<1>2. \A j \in 1..Len(t) : /\ j \in 1..(2 * Len(d)) /\ (j + 1) \div 2 \in 1..Len(d)
                           /\ t[j] = IF j % 2 = 1 THEN [first |-> TRUE, expires |-> d[(j + 1) \div 2].expires]
                                                  ELSE [first |-> FALSE, address |-> d[(j + 1) \div 2].address]
  <2> SUFFICES ASSUME NEW j \in 1..Len(t)
               PROVE  /\ j \in 1..(2 * Len(d)) /\ (j + 1) \div 2 \in 1..Len(d)
                      /\ t[j] = IF j % 2 = 1 THEN [first |-> TRUE, expires |-> d[(j + 1) \div 2].expires]
                                             ELSE [first |-> FALSE, address |-> d[(j + 1) \div 2].address]
    OBVIOUS
  <2>1. j \in 1..(2 * Len(d))
    BY <1>1 DEF Begins
  <2>2. t[j] = TextOf(d)[j]
    BY DEF Begins
  <2> QED
    BY <2>1, <2>2 DEF TextOf
<1> DEFINE l == d[(i + 1) \div 2]
<1>3. i \in 1..Len(t) /\ i + 1 \in 1..Len(t)
  OBVIOUS
<1>4. i % 2 = 1
  <2>1. i % 2 # 1 => t[i] = [first |-> FALSE, address |-> l.address]
    BY <1>2, <1>3
  <2> QED
    BY <2>1
<1>5. t[i] = [first |-> TRUE, expires |-> l.expires]
  BY <1>2, <1>3, <1>4
<1>6. (i + 1) % 2 # 1 /\ ((i + 1) + 1) \div 2 = (i + 1) \div 2 /\ (i + 1) \div 2 \in 1..Len(d)
  <2>1. i \in Nat
    BY <1>3
  <2>2. (i + 1) \div 2 \in 1..Len(d)
    BY <1>2, <1>3, Zenon
  <2> QED
    BY <1>4, <2>1, <2>2, Halves
<1>7. t[i + 1] = [first |-> FALSE, address |-> l.address]
  BY <1>2, <1>3, <1>6
<1>8. AddressAt(t, i) = l.address
  BY <1>3, <1>7 DEF AddressAt
<1>9. l \in Lease /\ l \in Leases(d)
  BY <1>6 DEF Leases
<1>10. l = [address |-> l.address, expires |-> l.expires]
  BY <1>9 DEF Lease
<1> QED
  BY <1>5, <1>8, <1>9, <1>10

(* But for its last line, cut in its address, every line of an honest text *)
(* is a lease that there has been.                                         *)
LEMMA HonestParsed ==
  ASSUME ReaderType, Honest(text) PROVE ParseLeases(text) \subseteq granted \cup CutLease
<1>1. text \in Seq(Half)
  BY DEF ReaderType
<1> SUFFICES ASSUME NEW i \in DOMAIN text, text[i].first, AddressAt(text, i) # NoAddress
             PROVE  [address |-> AddressAt(text, i), expires |-> text[i].expires] \in granted \cup CutLease
  BY DEF ParseLeases
<1>2. CASE i # Len(text)
  BY <1>1, <1>2, LineParsed DEF Honest
<1>3. CASE i = Len(text)
  <2>1. text # <<>> /\ AddressAt(text, i) = CutAs
    BY <1>1, <1>3 DEF AddressAt
  <2> QED
    BY <1>3, <2>1 DEF CutLease
<1> QED
  BY <1>2, <1>3

LEMMA BeginsHonest ==
  ASSUME NEW t \in Seq(Half), NEW f \in Seq(Half), Begins(t, f), Honest(f) PROVE Honest(t)
<1>1. PICK d \in Seq(Lease) : Leases(d) \subseteq granted /\ Begins(f, TextOf(d))
  BY DEF Honest
<1>2. Begins(t, TextOf(d))
  BY <1>1, TextType DEF Begins
<1> QED
  BY <1>1, <1>2 DEF Honest

LEMMA EmptyHonest == ASSUME DnsmasqType, FileInv PROVE Honest(<<>>) /\ \A u \in Seq(Half) : Begins(<<>>, u)
<1>1. Begins(<<>>, TextOf(db))
  BY TextType DEF Begins, DnsmasqType
<1>2. \A u \in Seq(Half) : Begins(<<>>, u)
  BY DEF Begins
<1> QED
  BY <1>1, <1>2 DEF FileInv, Honest, DnsmasqType

(* What is honest stays so.                                                *)
LEMMA StaysHonest ==
  ASSUME granted \subseteq granted', NEW t, Honest(t) PROVE Honest(t)'
<1>1. PICK d \in Seq(Lease) : Leases(d) \subseteq granted /\ Begins(t, TextOf(d))
  BY DEF Honest
<1>2. Leases(d) \subseteq granted'
  BY <1>1
<1> QED
  BY <1>1, <1>2 DEF Honest

(* What is read next continues what has been read.                         *)
LEMMA ReadOn ==
  ASSUME NEW u \in Seq(Half), NEW t \in Seq(Half), NEW f \in Seq(Half), Begins(t, u), Begins(f, u)
  PROVE  Begins(t \o SubSeq(f, Len(t) + 1, Len(f)), u)
<1> DEFINE r == t \o SubSeq(f, Len(t) + 1, Len(f))
<1>1. CASE Len(f) <= Len(t)
  <2>1. Len(r) = Len(t) /\ \A i \in 1..Len(t) : r[i] = t[i]
    BY <1>1
  <2> HIDE DEF r
  <2> QED
    BY <2>1 DEF Begins
<1>2. CASE Len(f) > Len(t)
  <2>1. Len(r) = Len(f)
    BY <1>2
  <2>2. \A i \in 1..Len(f) : r[i] = u[i]
    <3> SUFFICES ASSUME NEW i \in 1..Len(f) PROVE r[i] = u[i]
      OBVIOUS
    <3>1. CASE i <= Len(t)
      BY <1>2, <3>1 DEF Begins
    <3>2. CASE i > Len(t)
      BY <1>2, <3>2 DEF Begins
    <3> QED
      BY <3>1, <3>2
  <2> HIDE DEF r
  <2> QED
    BY <2>1, <2>2 DEF Begins
<1> QED
  BY <1>1, <1>2

LEMMA FileStep ==
  ASSUME DnsmasqType, FileInv, Dnsmasq
  PROVE  FileInv'
<1> USE DEF DnsmasqType
<1>1. DnsmasqType'
  BY DnsmasqStep
<1>2. CASE LeaseChange
  <2>1. granted \subseteq granted' /\ Leases(db') \subseteq granted' /\ file' = file /\ writer' = "dirty"
    BY <1>2 DEF LeaseChange
  <2>2. Honest(file)'
    BY <2>1, StaysHonest DEF FileInv, Honest
  <2>3. Leases(db)' = Leases(db')
    BY DEF Leases
  <2> QED
    BY <2>1, <2>2, <2>3 DEF FileInv
<1>3. CASE Truncate
  <2>1. file' = <<>> /\ UNCHANGED <<db, granted>>
    BY <1>3 DEF Truncate
  <2>2. Honest(<<>>)'
    BY <2>1, EmptyHonest, StaysHonest
  <2>3. Leases(db)' \subseteq granted' /\ Begins(file', TextOf(db'))
    BY <1>1, <2>1, EmptyHonest, TextType DEF FileInv, Leases
  <2> QED
    BY <2>1, <2>2, <2>3 DEF FileInv, Honest
<1>4. CASE Flush
  <2>1. PICK n \in (Len(file) + 1)..Len(TextOf(db)) : file' = SubSeq(TextOf(db), 1, n)
    BY <1>4 DEF Flush
  <2>2. UNCHANGED <<db, granted>> /\ TextOf(db) \in Seq(Half)
    BY <1>4, TextType DEF Flush
  <2>3. Begins(file', TextOf(db))
    BY <2>1, <2>2 DEF Begins
  <2>4. Leases(db)' \subseteq granted' /\ TextOf(db)' = TextOf(db)
    BY <2>2 DEF FileInv, Leases, TextOf
  <2>5. Honest(file)'
    BY <1>1, <2>2, <2>3, <2>4 DEF Honest, Leases
  <2>6. Begins(file, TextOf(db))'
    BY <2>2, <2>3, <2>4
  <2> QED
    BY <2>4, <2>5, <2>6 DEF FileInv
<1> QED
  BY <1>2, <1>3, <1>4 DEF Dnsmasq

(* What dnsmasq does while a read is at it: the file goes on from what has *)
(* been read, or the read is torn.                                         *)
LEMMA TextKept ==
  ASSUME DnsmasqType, ReaderType, FileInv, TextInv, Dnsmasq, UNCHANGED believing
  PROVE  TextInv'
<1>1. UNCHANGED <<text, previous>> /\ text \in Seq(Half) /\ file \in Seq(Half) /\ file' \in Seq(Half)
  BY DnsmasqStep DEF believing, ReaderType, DnsmasqType
<1>2. granted \subseteq granted' /\ torn \subseteq torn' /\ ("last" \in torn' => "last" \in torn)
  BY DEF Dnsmasq, LeaseChange, Truncate, Flush
<1>3. "last" \notin torn' => \A i \in DOMAIN previous' : Honest(previous[i])'
  BY <1>1, <1>2, StaysHonest DEF TextInv
<1>4. ASSUME "this" \notin torn' PROVE Begins(text, file')
  <2>1. Begins(text, file)
    BY <1>2, <1>4 DEF TextInv
  <2>2. CASE LeaseChange
    BY <2>1, <2>2 DEF LeaseChange
  <2>3. CASE Truncate
    <3>1. text = <<>>
      BY <1>4, <2>3 DEF Truncate
    <3> QED
      BY <1>1, <3>1, EmptyHonest
  <2>4. CASE Flush
    <3>1. PICK n \in (Len(file) + 1)..Len(TextOf(db)) : file' = SubSeq(TextOf(db), 1, n)
      BY <2>4 DEF Flush
    <3>2. TextOf(db) \in Seq(Half) /\ Begins(file, TextOf(db))
      BY <2>4, TextType DEF Flush, FileInv, DnsmasqType
    <3>3. Begins(file, file')
      BY <1>1, <3>1, <3>2 DEF Begins
    <3> QED
      BY <1>1, <2>1, <3>3 DEF Begins
  <2> QED
    BY <2>2, <2>3, <2>4 DEF Dnsmasq
<1>5. Begins(text, file)' <=> Begins(text, file')
  BY <1>1 DEF Begins
<1> QED
  BY <1>1, <1>3, <1>4, <1>5 DEF TextInv, Honest

LEMMA TextRead ==
  ASSUME DnsmasqType, ReaderType, FileInv, TextInv, ReadSome, UNCHANGED dnsmasq
  PROVE  TextInv'
<1> DEFINE r == text \o SubSeq(file, Len(text) + 1, Len(file))
<1>1. text' = r /\ UNCHANGED <<previous, torn, file, granted>>
  BY DEF ReadSome, dnsmasq
<1>2. ASSUME "this" \notin torn PROVE Begins(r, file)
  <2>1. Begins(text, file) /\ Begins(file, file) /\ text \in Seq(Half) /\ file \in Seq(Half)
    BY <1>2 DEF TextInv, Begins, ReaderType, DnsmasqType
  <2> QED
    BY <2>1, ReadOn
<1> HIDE DEF r
<1>3. Begins(text, file)' <=> Begins(r, file)
  BY <1>1 DEF Begins
<1>4. \A i \in DOMAIN previous : Honest(previous[i])' <=> Honest(previous[i])
  BY <1>1 DEF Honest
<1> QED
  BY <1>1, <1>2, <1>3, <1>4 DEF TextInv

LEMMA TextDiffers ==
  ASSUME DnsmasqType, ReaderType, FileInv, TextInv, ReadDiffers, UNCHANGED dnsmasq
  PROVE  TextInv'
<1>1. /\ text' = <<>> /\ previous' = <<text>> /\ UNCHANGED <<file, granted>>
      /\ torn' = IF "this" \in torn THEN {"last"} ELSE {}
  BY DEF ReadDiffers, dnsmasq
<1>2. "this" \notin torn => Honest(text)
  BY BeginsHonest DEF TextInv, FileInv, DnsmasqType, ReaderType
<1>3. Honest(previous[1])' <=> Honest(text)
  BY <1>1 DEF Honest
<1>4. DOMAIN previous' = {1}
  BY <1>1
<1>5. Begins(text, file)'
  BY <1>1, EmptyHonest DEF DnsmasqType, Begins
<1> QED
  BY <1>1, <1>2, <1>3, <1>4, <1>5 DEF TextInv

(* The file and the reader are as they were, or the reader as at first.    *)
LEMMA TextElse ==
  ASSUME DnsmasqType, FileInv, TextInv, UNCHANGED dnsmasq,
         \/ UNCHANGED reader
         \/ text' = <<>> /\ previous' = <<>> /\ torn' = {}
  PROVE  TextInv'
<1>1. UNCHANGED <<file, granted>>
  BY DEF dnsmasq
<1>2. CASE UNCHANGED reader
  <2>1. UNCHANGED <<text, previous, torn>>
    BY <1>2 DEF reader, believing
  <2>2. \A i \in DOMAIN previous : Honest(previous[i])' <=> Honest(previous[i])
    BY <1>1, <2>1 DEF Honest
  <2>3. Begins(text, file)' <=> Begins(text, file)
    BY <1>1, <2>1 DEF Begins
  <2> QED
    BY <2>1, <2>2, <2>3 DEF TextInv
<1>3. CASE text' = <<>> /\ previous' = <<>> /\ torn' = {}
  <2>1. Begins(text, file)'
    BY <1>1, <1>3, EmptyHonest DEF DnsmasqType, Begins
  <2> QED
    BY <1>3, <2>1 DEF TextInv
<1> QED
  BY <1>2, <1>3

ToldInv == FileInv /\ TextInv

LEMMA ToldInit == Init => ToldInv
<1> SUFFICES ASSUME Init PROVE ToldInv
  OBVIOUS
<1>1. DnsmasqType
  BY FilesInit
<1>2. /\ file = TextOf(db) /\ granted = Leases(db) /\ writer = "clean"
      /\ text = <<>> /\ previous = <<>>
  BY DEF Init, InitDnsmasq, InitReader
<1>3. Begins(file, TextOf(db)) /\ Begins(<<>>, file)
  BY <1>1, <1>2 DEF DnsmasqType, Begins
<1> QED
  BY <1>1, <1>2, <1>3 DEF ToldInv, FileInv, TextInv, Honest, DnsmasqType

LEMMA ToldStep ==
  ASSUME DnsmasqType, ReaderType, ToldInv, [Next]_vars
  PROVE  ToldInv'
<1> USE DEF ToldInv
<1>1. CASE Dnsmasq /\ UNCHANGED <<believing, command>>
  BY <1>1, FileStep, TextKept
<1>2. ASSUME UNCHANGED dnsmasq PROVE FileInv'
  <2>1. UNCHANGED <<db, file, writer, granted>>
    BY <1>2 DEF dnsmasq
  <2>2. Honest(file)' <=> Honest(file)
    BY <2>1 DEF Honest
  <2>3. Leases(db)' = Leases(db) /\ (Begins(file, TextOf(db))' <=> Begins(file, TextOf(db)))
    BY <2>1 DEF Leases, Begins, TextOf
  <2> QED
    BY <2>1, <2>2, <2>3 DEF FileInv
<1>3. CASE LeasesRead
  BY <1>2, <1>3, TextRead DEF LeasesRead
<1>4. CASE LeasesDiffer
  BY <1>2, <1>4, TextDiffers DEF LeasesDiffer
<1>5. CASE Check \/ LeasesAgree \/ LeasesFail \/ Restart
  <2>1. UNCHANGED dnsmasq /\ text' = <<>> /\ previous' = <<>> /\ torn' = {}
    BY <1>5 DEF Check, OpenLeases, LeasesAgree, ReadAgrees, LeasesFail, ReadGivesUp, Restart, dnsmasq
  <2> QED
    BY <1>2, <2>1, TextElse
<1>6. CASE UNCHANGED vars \/ Ready \/ ReadSwitch \/ Release \/ NextSwitch \/ NothingToCheck
           \/ PortsRead \/ PortsRetry \/ PortsFail \/ Reconciled \/ EndPoll
  <2>1. UNCHANGED <<dnsmasq, reader>>
    BY <1>6 DEF vars, Ready, ReadSwitch, Release, NextSwitch, NothingToCheck, PortsRead, PortsRetry,
                PortsFail, Reconciled, EndPoll
  <2> QED
    BY <1>2, <2>1, TextElse
<1> QED
  BY <1>1, <1>3, <1>4, <1>5, <1>6 DEF Next, Command, Reading

(* What read_leases returns were leases, but for a last line cut in its    *)
(* address, in whatever pieces dnsmasq writes the file and it is read and  *)
(* whatever leases change meanwhile, unless the file was truncated in each *)
(* of the two reads that agreed.                                           *)
THEOREM ToldTruly == Spec => ToldUnlessTorn
<1>1. DnsmasqType /\ ReaderType /\ ToldInv /\ [Next]_vars => [LeasesAgree => BelievedRightly]_vars
  <2> SUFFICES ASSUME ReaderType, DnsmasqType, ToldInv, LeasesAgree, torn # {"this", "last"}
               PROVE  told' \subseteq granted \cup CutLease
    BY DEF BelievedRightly
  <2>1. told' = ParseLeases(text) /\ previous = <<text>>
    BY DEF LeasesAgree, ReadAgrees, Agrees
  <2>2. CASE "this" \notin torn
    <3>1. Honest(text)
      BY <2>2, BeginsHonest DEF ToldInv, TextInv, FileInv, DnsmasqType, ReaderType
    <3> QED
      BY <2>1, <3>1, HonestParsed
  <2>3. CASE "last" \notin torn
    <3>1. 1 \in DOMAIN previous /\ previous[1] = text
      BY <2>1
    <3>2. Honest(text)
      BY <2>3, <3>1 DEF ToldInv, TextInv
    <3> QED
      BY <2>1, <3>2, HonestParsed
  <2>4. "this" \notin torn \/ "last" \notin torn
    BY DEF ReaderType
  <2> QED
    BY <2>2, <2>3, <2>4
<1>2. ToldUnlessTorn <=> [][LeasesAgree => BelievedRightly]_vars
  BY DEF ToldUnlessTorn
<1>3. Init => DnsmasqType /\ ReaderType /\ ToldInv
  BY FilesInit, ToldInit
<1>4. DnsmasqType /\ ReaderType /\ ToldInv /\ [Next]_vars => (DnsmasqType /\ ReaderType /\ ToldInv)'
  BY FilesStep, ToldStep
<1> QED
  BY <1>1, <1>2, <1>3, <1>4, PTL DEF Spec

=============================================================================
