---------------------------- MODULE GatewayFiles ----------------------------
(***************************************************************************)
(* The gateway's lease file, as dnsmasq writes it and as                   *)
(* src/src/snmp_switch/gateway.py reads it: dnsmasq truncates the file and *)
(* writes it again whenever a lease changes, a reader may come at any      *)
(* moment of that, and read_leases believes a text it has read twice.      *)
(*                                                                         *)
(* A text is a sequence of halves of lines.  The first half of a line is   *)
(* the expiry, the hardware address and the characters with which the      *)
(* addresses begin; the second half is the rest of the address and of the  *)
(* line.  A write may end, and a read may begin, between any two.          *)
(***************************************************************************)
EXTENDS Integers, Sequences

CONSTANTS
  Address,
  NoAddress,
  CutAs,       \* the address that the first half of a line makes, or NoAddress
  READ_TRIES,
  MaxChanges   \* bounds how often dnsmasq's leases change

ASSUME AddressAssumption == NoAddress \notin Address /\ CutAs \in Address \cup {NoAddress}
ASSUME TriesAssumption   == READ_TRIES \in Nat /\ READ_TRIES >= 2
ASSUME ChangesAssumption == MaxChanges \in Nat

VARIABLES
  (* dnsmasq *)
  db,       \* its leases, the newest first
  changes,  \* how often they have changed: the time a lease is given to expires later each time
  file,     \* the text of the lease file
  writer,   \* "clean", "dirty" (the file is older than db) or "writing"
  granted,  \* history: every lease that has been in db
  (* read_leases *)
  reading,  \* "no", "open" (about to open the file) or "more" (it has read some of it)
  reads,    \* how often it has read the file without success
  text,     \* what this read has of the file
  previous, \* what the read before had: a sequence of at most one text
  told,     \* history: what it last returned
  torn      \* history: of "this" read and the "last", those in which the file was truncated

dnsmasq == <<db, changes, file, writer, granted>>
believing  == <<reading, reads, text, previous, told>>
reader  == <<believing, torn>>

Lease  == [address : Address, expires : 0..MaxChanges]
Half   == [first : {TRUE}, expires : 0..MaxChanges] \cup [first : {FALSE}, address : Address]
LeaseReads == 2 * READ_TRIES

TypeOKFiles ==
  /\ db \in Seq(Lease) /\ changes \in 0..MaxChanges
  /\ file \in Seq(Half) /\ text \in Seq(Half) /\ previous \in Seq(Seq(Half))
  /\ writer \in {"clean", "dirty", "writing"}
  /\ reading \in {"no", "open", "more"} /\ reads \in 0..(LeaseReads - 1)
  /\ granted \subseteq Lease /\ told \subseteq Lease /\ torn \subseteq {"this", "last"}

Leases(d) == {d[i] : i \in DOMAIN d}

-----------------------------------------------------------------------------
(* dnsmasq.                                                                *)

TextOf(d) ==
  [i \in 1..(2 * Len(d)) |->
     LET l == d[(i + 1) \div 2]
     IN  IF i % 2 = 1 THEN [first |-> TRUE, expires |-> l.expires]
                      ELSE [first |-> FALSE, address |-> l.address]]

InitDnsmasq ==
  /\ db \in {<<>>} \cup {<<[address |-> a, expires |-> 0]>> : a \in Address}
  /\ changes = 0 /\ file = TextOf(db) /\ writer = "clean" /\ granted = Leases(db)

(* A lease is taken, renewed where it stands, or released.                 *)
Given(a, l) ==
  IF \E i \in DOMAIN db : db[i].address = a
  THEN [i \in DOMAIN db |-> IF db[i].address = a THEN l ELSE db[i]]
  ELSE <<l>> \o db

Others(i) == SubSeq(db, 1, i - 1) \o SubSeq(db, i + 1, Len(db))

LeaseChange ==
  /\ writer # "writing" /\ changes < MaxChanges
  /\ changes' = changes + 1 /\ writer' = "dirty"
  /\ \/ \E a \in Address : db' = Given(a, [address |-> a, expires |-> changes + 1])
     \/ \E i \in DOMAIN db : db' = Others(i)
  /\ granted' = granted \cup Leases(db')
  /\ UNCHANGED <<file, torn>>

Truncate ==
  /\ writer = "dirty"
  /\ file' = <<>> /\ writer' = IF db = <<>> THEN "clean" ELSE "writing"
  /\ torn' = IF text = <<>> THEN torn ELSE torn \cup {"this"}
  /\ UNCHANGED <<db, changes, granted>>

(* As much as the buffer held goes to the file.                            *)
Flush ==
  /\ writer = "writing"
  /\ \E n \in (Len(file) + 1)..Len(TextOf(db)) :
       /\ file' = SubSeq(TextOf(db), 1, n)
       /\ writer' = IF n = Len(TextOf(db)) THEN "clean" ELSE "writing"
  /\ UNCHANGED <<db, changes, granted, torn>>

Dnsmasq == LeaseChange \/ Truncate \/ Flush

-----------------------------------------------------------------------------
(* read_leases.                                                            *)

InitReader == reading = "no" /\ reads = 0 /\ text = <<>> /\ previous = <<>>
              /\ told = {} /\ torn = {}

(* parse_leases: whatever is not a lease is passed over.                   *)
MutLeaseAt(t, i) == IF i + 2 > Len(t) THEN NoAddress ELSE t[i + 1].address  \* leaves the last line out

(* The address on the line that begins at i of the text.                   *)
AddressAt(t, i) ==
  IF i = Len(t) THEN CutAs
  ELSE IF t[i + 1].first THEN NoAddress ELSE t[i + 1].address

ParseLeases(t) ==
  {[address |-> AddressAt(t, i), expires |-> t[i].expires] :
     i \in {j \in DOMAIN t : t[j].first /\ AddressAt(t, j) # NoAddress}}

OpenLeases ==
  /\ reading' = "open" /\ reads' = 0 /\ previous' = <<>> /\ text' = <<>> /\ torn' = {}
  /\ UNCHANGED told

(* f.read(): what is there, and then what has come since, to the end.      *)
ReadSome ==
  /\ reading = "open" \/ (reading = "more" /\ Len(file) > Len(text))
  /\ reading' = "more"
  /\ text' = text \o SubSeq(file, Len(text) + 1, Len(file))
  /\ UNCHANGED <<reads, previous, told, torn>>

AtEnd == reading = "more" /\ Len(file) <= Len(text)

MutAgrees == TRUE                               \* believes the first read
Agrees    == previous = <<text>>

ReadAgrees ==
  /\ AtEnd /\ Agrees
  /\ told' = ParseLeases(text)
  /\ reading' = "no" /\ reads' = 0 /\ text' = <<>> /\ previous' = <<>> /\ torn' = {}

MutReadDiffers ==                               \* with no limit to the tries
  /\ AtEnd /\ ~Agrees
  /\ reading' = "open" /\ reads' = reads + 1 /\ previous' = <<text>> /\ text' = <<>>
  /\ torn' = IF "this" \in torn THEN {"last"} ELSE {}
  /\ UNCHANGED told

(* Once more, after a pause.                                               *)
ReadDiffers ==
  /\ AtEnd /\ ~Agrees /\ reads < LeaseReads - 1
  /\ reading' = "open" /\ reads' = reads + 1 /\ previous' = <<text>> /\ text' = <<>>
  /\ torn' = IF "this" \in torn THEN {"last"} ELSE {}
  /\ UNCHANGED told

(* GatewayFileError.                                                       *)
ReadGivesUp ==
  /\ AtEnd /\ ~Agrees /\ reads = LeaseReads - 1
  /\ reading' = "no" /\ reads' = 0 /\ text' = <<>> /\ previous' = <<>> /\ torn' = {}
  /\ UNCHANGED told

-----------------------------------------------------------------------------
(* Properties.                                                             *)

(* The lease that parse_leases makes of a last line cut in its address.    *)
CutLease ==
  IF text # <<>> /\ text[Len(text)].first /\ CutAs # NoAddress
  THEN {[address |-> CutAs, expires |-> text[Len(text)].expires]} ELSE {}

(* A lease that read_leases returns was one of dnsmasq's, with the expiry  *)
(* it had: of a text put together from two rewritings of the file two      *)
(* reads do not agree (gateway.py:91), unless the file was truncated while *)
(* each of the two was at it.  But for the lease of a cut line, which      *)
(* gateway.py:80 takes for whole.                                          *)
BelievedRightly == torn = {"this", "last"} \/ told' \subseteq granted \cup CutLease

(* Without any of these conditions: what gateway.py:73 says of parse_leases,*)
(* "a line caught half written is passed over".                            *)
ToldWasThere == told \subseteq granted

=============================================================================
