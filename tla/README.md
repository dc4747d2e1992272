# Specifications of fpgas.online-poe

TLA+ models of the program that switches the power and the links of the FPGA boards' switch ports, watches those
ports, shows them on a dashboard, and sets up the switches' VLANs. TLC checks them on small instances; TLAPS proves
the safety properties for every instance.

Paths are relative to the repository: `views.py` is `src/snmp_switch/views.py`, `plan.py` is
`src/switch_setup/plan.py`.

## The system

| Part | State it keeps | Operations | Talks to |
|------|----------------|------------|----------|
| Views (`views.py`: `toggle`, `power`, `link`, `status`) | none of their own; one worker per request | switch a port off and on, switch its power, switch its link | the hold store, the switch, the channel layer, the lease release |
| Request gate (`views.py` `poe_view`, `policy.py` `port_policy`, `switches.py` `requested_port`) | none; it reads the settings and the switches file, which others edit | let a request through or refuse it | the site's policy |
| Hold (`policy.py`) | one cache entry per port and kind (`toggle`, `link`), with a time-out | take, give back, run out | a cache that all workers share |
| Port objects (`switches.py`, `utils.py`) | none | write and read back a port | a library switch, or the legacy SNMPv3 switch |
| Lease release (`release.py`) | none | start a release, or run one and wait | the gateway's script |
| Poller (`poller.py`) | last and known readings, down counts, back-offs, all in memory | poll, publish changes, release, reconcile | switches, gateway files, MQTT |
| Poller command (`management/commands/switch_poller.py`) | none | start, poll for ever, feed the watchdog, be restarted | systemd |
| Gateway files (`gateway.py`) | none | read dnsmasq's ranges and leases | files that dnsmasq rewrites in place |
| Dashboard (`dashboard.py`) | per switch a reading and a lock, in the shared cache | serve a reading, make one | switches, the cache |
| Switch setup (`plan.py`, `apply.py`, `cli.py`) | none; the switch is the state | read, work out the actions, apply them | one switch |
| Scripts, nginx, CI | none | one SNMP call each; configuration | - |

How they meet. The views and the dashboard share a cache, and a page compares a view's `confirmed_at` with a
reading's `read_at`. The views and the poller both start lease releases. The poller and the views take the ports they
may touch from the file that switch setup works from.

What is hard here. Requests interleave at every call to the cache and the switch, and any of these calls may raise,
time out or be carried out without an answer. A worker may die with a port switched off and held. The poller
compares times of three origins (its own clock, the leases' expiry, the switches' `ifLastChange`) taken at different
moments. dnsmasq writes its lease file anew while it is read. The poller's process has to be heard of in time, however
long its calls take. The file that names the boards' ports is edited while requests are served. Readers of the dashboard look at the cache, take a lock and write the cache in separate steps. A run of
switch setup stops anywhere, and the next one starts from what is there. `PROJECT.json` lists these hazards, each at
its line, with the properties that watch over it.

What makes each part correct:

- **Views and hold.** One request at a time at work on a port; a claim given back is one's own; a port that is held
  is as its holder left it, for about as long as it says; a board that lost power loses its lease; an off is followed
  by an on; no port is held for ever.
- **Request gate.** Only a board's port, of the switch that is meant and offered by the policy, is ever written; a
  setting that is missing refuses all it could matter to.
- **Poller.** Nothing is released for a switch that was not read; a port whose leases the board took after its link
  came up keeps them; the site knows what the poller knows; a port that stays down loses its lease.
- **Gateway files.** A text is believed wrongly only where two reads cannot tell; a lease that is missed is seen later.
- **Poller command.** The watchdog is fed in time.
- **Dashboard.** One reader of a switch at a time; readings never go back; a reading that began after a confirmed
  switching shows it; the page keeps getting readings.
- **Switch setup.** No port is stranded on the way, nothing of the house is touched, no action is refused, the
  switch gets to what the file asks for from wherever earlier runs left it.

## Modules

| Module | What it is |
|--------|-----------|
| `PortHold` | What the hold promises, seen from a port: free, one request at work, held and left alone. |
| `PoeViews` | The three writing views with the hold store and the switch. Implements `PortHold`. |
| `RequestGate` | What a request has to pass before the first thing is sent; `PoeViews` is what follows. |
| `Poller` | `poll_once` and what happens around it. |
| `GatewayFiles` | dnsmasq and its lease file, and `read_leases`. |
| `PollerCommand` | Extends `GatewayFiles`: the poller's process with the time each of its calls takes. |
| `DashboardCache` | `_cached_switch` for any number of readers of one switch, and a view that writes a port. |
| `SwitchSetup` | `desired_state`, `diff` and `converge` against a switch, run after run. |
| `PoeViewsProofs`, `RequestGateProofs`, `PollerProofs`, `PollerCommandProofs`, `DashboardCacheProofs`, `SwitchSetupProofs` | Theorems about the module of that name, proved with TLAPS. |
| `PoeViewsEndProofs`, `SwitchSetupEndProofs` | The same, of how a request and how a run of switch setup ends. |
| `MCPoeViews`, `MCRequestGate`, `MCSwitchSetup` | Symmetry, the switches files and the sites for TLC. The others are run as they are. |

### PoeViews

`pc[r]` says which call request `r` makes next. One action is one call that leaves the process, with everything the
view does up to its next one: `Claim` (the `cache.add`), `Refuse` (the `cache.get` of who was beaten), `OpenPort`,
`Write` (the SET), `OffAnswered` / `OnAnswered` / `SetAnswered` (the read-back), `TellOff` / `TellOn` / `TellSet`
(`notify_dcws`), `Cycled` (the lease release after a cycle), `GiveBack` (`release_toggle_claim`). `StoreFails`,
`OpenFails`, `TellFails` and `Crash` are the ways out; a setting that `open_port` does not find is a 503 on a library
switch, and on the legacy one a `KeyError`, which toggle does not catch (`OpenError`). `off`, `got` and `tries` are toggle's `off`, `on` and
`attempt`; `claim` is the cache, `admin` the switch. `changed` and `hit` are history.

A write may be lost, taken, or refused, and its answer may be an exception, None, or what the port then is (library)
or what was asked (legacy: `snmp_set_state` returns the state that its own response echoes). So "the switch took it
and the answer was lost" and "it did not take it" are both there.

`Tick` is time: the cache's entries run out. The text, the log lines and the Retry-After are left out, and so are the
pauses inside toggle, for a Tick may fall between any two steps.

`Patience` bounds how many ticks a request is served. Nothing in the code enforces it: the switch's and the worker's
time-outs do, against the configured holds. `Prompt` says that it is below both holds. The runs and most of the
proofs assume `Prompt`.

### RequestGate

One request of any kind, from its arrival to the first thing that is sent. `pc` is how far it has come: `new`, `named`
(`requested_port` has read the switches file), `allowed` (the policy has been asked), `open` (a view may speak to the
switch), `done`. Each refusal is an action with the status it answers (`CrossSite` 403, `NoPolicy` 503, `BadBody` 400,
...), and their guards have the order of the code: each has the negation of what is checked before it. Between any two,
`EditFile` puts another switches file in place and `Register` changes what the policy offers. `ref` is the `PortRef`, and
`files` and `offered` are history. The switches file is an arbitrary sequence of specs, of which an index may be in
it twice. One request is enough: requests meet only in the claims, which are `PoeViews`.

### Poller

`pc` is where `poll_once` is: at a switch to read, at that switch's changes, at the reconciliation, at the ports
found to hold a stale lease. `doing` is a release that is being waited for; `found`, `check` and `due` are lists in
the code and sets here, taken in any order, the code's included. The fields of the `Poller` object keep
their names, but for `known_change`, which the code only compares with the port's `ifLastChange`: `moved` says whether the
two differ. Times are kept as ages in polls (0: during the poll that is running), because the code only compares
them; `early` marks a lease that was granted in the very second in which that poll began, which a whole-second expiry
cannot tell from before it. `retry_in` is `retry_at_poll - polls`, and `wait` stands for `failures`: it is the wait
`min(2 ** (failures - 1), MAX_BACKOFF_POLLS)` that the last failure made, which the next one doubles, up to the maximum.

Around it, links change (`LinkChange`, with a new `ifLastChange`), dnsmasq grants leases (`Grant`), switches reboot
(`Reboot`) or wrap their clock (`Wrap`), reads, tables and releases fail, and the process restarts. `SomeMissed` is a
reconciliation with a lease file of which only a part was seen, as `GatewayFiles` says may happen; a lease that a cut line gives to another port (`gatewayfiles_cut`) is not in `Poller`, which
would release it. A link may change
between a switch being read and its ports being released, as it may in fact.

### GatewayFiles and PollerCommand

A text of the lease file is a sequence of halves of lines, so that it can end within a line, between the characters of
an address. `Truncate` and `Flush` are dnsmasq writing it anew, a buffer at a time, and `ReadSome` is a read that takes
what is there and goes on to the end; they interleave freely. `CutAs` is what the first half of a line makes when the
file ends there: no address, or (`gatewayfiles_cut`) that of another port. `expires` tells the lease changes apart. `torn` is
history: in which of the last two reads the file was truncated after the reader had got some of it. Two texts, each put
together from two writings, may agree and be of neither; `BelievedRightly` leaves that case out, and the cut line.

`PollerCommand` is `poll_once` once more, with what `Poller` leaves out: how long each call takes. `quiet` is the time
since systemd last heard of the process, `Passes` adds to it and `Keepalive` and `EndPoll` begin it anew. How many
releases there are is left open. The unit of time is open too; `CommandAssumption` says what the time-outs have to add up to:
a period with all the switches' reads and the files', and a release with what comes after it, are each within
`WatchdogSec`. With the program's 2 s per switch, 75 s per release, 0.2 s pauses and 120 s this leaves room for some
twenty switches (75 s and the reads of all but one of them, within 120 s).

### DashboardCache

`entry` and `lock` are the two cache entries, and `cache.get`, `cache.add`, `cache.set` and the two accesses that give the
lock back are steps of their own. `Sample` is the read of the ports with or without their power (`_read_or_none`). Of a
view the model keeps `read_at`, `good_at`, `reachable` and which switching of the port's power its ports show; a
switching is a number. `Write` and `Confirm` are `power` with its `confirmed_at`. One
switch is modelled: `_concurrently` runs the switches' readings side by side and they share no entry. With `store` among the faults any of the five accesses raises: in `Get` before anything has
happened, in `LockFails` with the lock left behind or not, and in the others on the way out of the reading.

### SwitchSetup

The switch is `vlan` (each VLAN's member and untagged ports: the two bitmaps) and `pvid`. `Read` computes `Diff`, `Apply`
does one action, `Fails` ends a run with the current action not done, done, or half done (one of the two bitmaps
written), `Edit` changes the file between runs. Within a kind of action the code sorts; the model takes any order,
which includes that one. `SentUntagged` and `SentTagged` are what the dashboard's `_vlans_by_port` makes of the result.
`Creates` may leave every port in the new VLAN's untagged bitmap, as `plan.py:107` reports
of some models.

## Runs

| Run | Instance | Shows |
|-----|----------|-------|
| `poeviews_library` | 2 requests of any view, 1 port, holds 2 and 3, `Patience` 1, all faults | one request at a time (`Exclusive`), `GivesBackItsOwn`, `HeldAsAsked`, `LossReleases`, `HoldNearlyFull`, `ImplementsPortHold` |
| `poeviews_legacy` | 2 toggle or link requests, legacy switch, crashes, failing notify and open, fairness | `OffIsFollowedByOn`, `HoldsRunOut`; a link request leaves no hold (`NothingSentNothingHeld`) |
| `poeviews_noanswer` | legacy switch, no faults | **violation**: a missing answer counts as on |
| `poeviews_onceon` | library switch, no faults | **violation**: a lease is released though on was not confirmed |
| `requestgate` | 3 switches files and an unreadable one, 10 sites, every request | `SentToABoard`, `SentIfOffered`, `NoPolicyNoService`, `NotSwitchedUnheld` |
| `poller_run` | 1 port with both families, lease time 2 polls, back-off up to 2, all upsets, fairness | `NeverBlind`, `SiteAgrees`, `FreshPortKept`, `DownLeaseGoes` |
| `poller_bounce` | 1 port with both families, no upsets | **violation**: a lease granted after a poll began is taken for an old one, and a new one of the other family goes with it |
| `pollercommand` | 2 switches, 2 addresses, 3 lease changes, a cut line that makes an address, fairness | `Fed`, `ToldUnlessTorn`, `AllToldInTheEnd` |
| `gatewayfiles_cut` | the same with 2 lease changes | **violation**: a line cut within its address is believed |
| `dashboardcache_shared` | 2 readers, 1 switching, 1 crash, all faults, fairness | `OneReader`, `ReadingShowsConfirmed`, `NeverOlder`, `KeepsReading` |
| `switchsetup_runs` | 5 ports, 3 files, 2 edits, 2 failed runs, fairness | `NeverStranded`, `NothingRefused`, `Served`, `ShownAsSet`, `PathFirst`, `OnlyItsOwn`, `GetsThere` |
| `switchsetup_shrink` | 2 files, one with an access port less | **violation**: a port that leaves the access range is in no VLAN |

The passing runs finish without error. The five others each end in a counterexample to something a comment or the
README says of the code; `PROJECT.json` quotes it under "findings".

### Also seen

Counterexamples that shaped the models. They have no run of their own; each is the reason for a condition in a
property or in an instance.

- A request served for longer than its hold deletes the claim another has taken since (`policy.py:140`). Hence `Prompt`.
- `toggle` opens the port outside its try (`views.py:141`): with no community the port stays held though nothing was sent.
  Hence `NothingSentNothingHeld` leaves toggle out.
- When the channel layer raises after toggle's off (`views.py:153`), the port stays off, and held. Hence `hit` in
  `HeldAsAsked` and `OffIsFollowedByOn`.
- A lease granted in the second of the last reading before a bounce is taken for an older one (`poller.py:263`). Hence
  `early` in `MayGo`.
- The wrap of `sysUpTime`, after 497 days, is taken for a reboot (`poller.py:202`): a change in that poll is not reported.
  Nor is one across a restart. Hence `site` begins anew there in `SiteAgrees`, which is about what this process compared.
- A bounce is checked in one poll only (`poller.py:183`): when that release fails, no later poll tries again.
- Two readers may read a switch within `ttl` seconds (`dashboard.py:374`), and when the lock runs out between the look at it
  and the delete (`dashboard.py:388`), a later reader's lock is deleted. Hence `Prompt` in `DashboardCache`.
- A failed reading carries a new `read_at` and old ports (`dashboard.py:361`). Hence `ok` in `ReadingShowsConfirmed`.
- A reader looks before another's reading is stored, takes the lock after it, and finds the switch silent: it stores the
  older ports over the newer ones (`dashboard.py:384`), which `dashboard.py:398` ("keeps its last good ports") does not say.
- When only the power is not read (`dashboard.py:264`), the reading is new and reachable and shows no power: `views.py:231`
  ("a dashboard reading that started after it shows the change") does not hold of it. Hence `ports # Never` in `Shows`.
- When the cache raises at every `set`, the switch is read again and again and no page shows it. Hence `KeepsReading` says
  that it is read, not that the page is fresh. When it raises at every `get` or `add` before the reading (`dashboard.py:367`,
  `dashboard.py:374`), the switch is not read at all. Hence the third part of `Fairness`.
- The same text can be read twice from two rewritings (`gateway.py:96`): a lease is granted, released and granted again, and
  each time the file is truncated when the read has come to the same place. Hence `torn` in `BelievedRightly`.
- An unreadable switches file (`switches.py:143`) and a policy that raises (`views.py:83`) are a bare 500, which
  `views.py:54` says the view does not give; so is a missing `SNMP_SWITCH_AUTH_PROTOCOL` (`utils.py:50`) for toggle and status.
  `SHA` is mapped to MD5, and `AES` to None (`utils.py:54`, `utils.py:70`).
- `release.py:26`: `subprocess.run` may not be able to kill sudo's child at the time-out, and then waits on. The bound of a
  release is the script's own, 61 to 81 s by the comment above it, which `RELEASE_TIME` can also stand for.
- A port that leaves the access range while its VLAN is deleted falls back to PVID 1 on some switches: then `PathFirst`
  and `OnlyItsOwn` fail as `NeverStranded` does. Hence `NoFewer` in their theorems.
- A view's release runs in the background and may come to the lease after the board has booted and taken it again
  (`release.py:56`); only the times of the two keep them apart.
- A trunk port inside the access range is tagged and untagged by every run (`plan.py:103`); a switch of index 4 gets VLANs
  outside `OWN_RANGE` (`plan.py:93`); hence `TrunkApart`, `OneRole`, `InRange`, and no such file
  in the runs.
- A former trunk port stays, tagged, in the VLANs that remain (`plan.py:97`): so it does in `switchsetup_runs` from the file
  with the switches exchanged to the one with a single switch. `Converged` is about what the file asks for, and `ShownAsSet`
  about access ports; one that was a trunk in another file is `RolesKept`'s condition, and the runs have none.

### Bounds

- Two requests meet in every way two can at one claim; a third can only do to a second what the second does to the
  first, and the proofs hold for any number. One port is enough: ports share no state in the views. Holds of
  2 and 3 ticks tell the two apart and leave time to be served; `OnAttempts` 2 has a last try and one that is not.
- Ages in `Poller` stop at `Life + 1`, past which all comparisons come out the same. A lease time of 2 polls lets
  a lease be granted before, during and after the two polls that see a port down. Each port has an address of each family, as
  every board has (`gateway.py:3`). The switches meet only in the list of what is to check; the safety properties are proved
  for any number of them. Back-offs of 1 and 2 polls stand for 1 to 60: one is doubled and one is at its maximum.
- `PollerCommand`: 2 tries stand for 3, as there is a last one and one that is not; with 3 lease changes a file is rewritten
  while the first is read, between the two and while the second is, and also in both of two reads that agree. Two switches are a first and a last one. The times
  meet both sums of `CommandAssumption` exactly, so a unit more anywhere breaks `Fed`. The cut line makes
  the second address, the harder case.
- `RequestGate`: the files are one switch, two, and the two with their indexes exchanged, one of them with a trunk inside the
  access range: so an index, a host or a role that is looked up at another time is another. A site lacks one thing at
  a time, but for the two schemes that have no file; each request's fields take every value.
- `Long` in `DashboardCache` is past `Ttl` and `Patience`. One switching is enough for a reading to be from
  before or after it.
- Five ports, of which two are access ports, with two switches and a house VLAN have every role a port can have in a
  switches file. Two failed runs are one that leaves something half done and one that starts from there.

`CHECK_DEADLOCK FALSE` is said for the views and the gate only: a request is served once, and then nothing is left to do.

### Fairness

- Views: a worker that has begun a request and is not killed goes on, and time passes. No request need ever be made.
- Poller: the process keeps running, and a switch, the gateway's tables and the release script, asked again and again,
  answer at some time (strong fairness of `Read`, `Tables` and `Released` for each switch or port). The
  command's loop has no end. `DownLeaseGoes` holds once the process is not started again any more: each restart forgets
  that the port was down. Without the answers nothing could be promised, and the code promises nothing.
- Poller command: dnsmasq finishes what it has begun to write, and a file is read to its end. `AllToldInTheEnd` asks of
  the poller only that it goes on reading the leases.
- Dashboard: time passes, a reader that is not killed goes on, and the page is asked for again and again. Of the cache
  it takes that of the gets, and of the adds of a lock that is free, not all raise from some time on.
- Switch setup: a run goes on, and one that did not end well is run again, as the operator's playbook does. After `ok`
  nothing makes it run again.

## Proofs

All hold for every value of the constants: any number of requests, readers, switches and ports, any files, any times
and any choice of faults.

| Theorem | Property | Assumes |
|---------|----------|---------|
| `PoeViewsProofs!TypeCorrect` | `TypeOK` | - |
| `PoeViewsProofs!Exclusion` | `Exclusive` | `Prompt` |
| `PoeViewsProofs!GivingBack` | `GivesBackItsOwn` | `Prompt` |
| `PoeViewsProofs!NearlyFullHold` | `HoldNearlyFull` | `Prompt` |
| `PoeViewsProofs!Refinement` | `ImplementsPortHold` | `Prompt` |
| `PoeViewsEndProofs!LeasesLetGo` | `LossReleases` | - |
| `PoeViewsEndProofs!NothingHeld` | `NothingSentNothingHeld` | - |
| `PoeViewsEndProofs!LeftAsAsked` | `HeldAsAsked` | `Prompt`, a library switch |
| `RequestGateProofs!TypeCorrect` | `TypeOK` | - |
| `RequestGateProofs!BoardsOnly` | `SentToABoard` | - |
| `RequestGateProofs!OfferedOnly` | `SentIfOffered` | - |
| `RequestGateProofs!Refusal` | `NoPolicyNoService` | - |
| `RequestGateProofs!Closed` | `NotSwitchedUnheld` | - |
| `PollerProofs!TypeCorrect` | `TypeOK` | - |
| `PollerProofs!NotBlind` | `NeverBlind` | - |
| `PollerProofs!FreshKept` | `FreshPortKept` | - |
| `PollerProofs!SiteTold` | `SiteAgrees` | - |
| `PollerCommandProofs!TypeCorrect` | `TypeOK` | - |
| `PollerCommandProofs!InTime` | `Fed` | `CommandAssumption` |
| `PollerCommandProofs!ToldTruly` | `ToldUnlessTorn` | - |
| `DashboardCacheProofs!TypeCorrect` | `TypeOK` | - |
| `DashboardCacheProofs!Confirmed` | `ReadingShowsConfirmed` | - |
| `DashboardCacheProofs!Sharing` | `OneReader` | `Prompt` |
| `DashboardCacheProofs!NeverBack` | `NeverOlder` | `Prompt` |
| `SwitchSetupProofs!TypeCorrect` | `TypeOK` | - |
| `SwitchSetupProofs!NoRefusal` | `NothingRefused` | - |
| `SwitchSetupProofs!NotStranded` | `NeverStranded` | `NoFewer` |
| `SwitchSetupProofs!PathBeforeMove` | `PathFirst` | `NoFewer`, `TrunkApart` |
| `SwitchSetupProofs!NothingElse` | `OnlyItsOwn` | `NoFewer`, `InRange` |
| `SwitchSetupEndProofs!ServedWell` | `Served` | `OneRole` |
| `SwitchSetupEndProofs!ShownWell` | `ShownAsSet` | `OneRole`, `RolesKept` |

None of the properties but the types is inductive. What strengthens them:

- **Views** (`HoldInv`): a request that is at work on a port is the one named in that port's claim, and what is left of the
  claim and the request's age add up to its hold. `Prompt` says that something is left then, so `Free` is false
  for everybody else, and the only request that can delete the claim is the one it names. `Tick` keeps the sum,
  since it takes one from the claim and adds one to the age; this is why the age of a request is in the model at all.
  `HistoryInv` adds what the history says: who changed a port last still has the claim, or changed it long enough ago.
- **The end of a request**: `WayInv` and `LetInv` follow one request from its off to its release, which it comes to on
  every way that has no fault of its own, so no hold and no other request matters. `UnsentInv`: a request that answers 503
  is about to give back its claim, or has, and only a new request becomes a holder (`Holder`). `AsSaidInv` says at each place
  of a request what its port is like if the claim is its own, up to the end; by `HoldInv` a port is switched by nobody but
  the request that its claim names (`Switcher`).
- **Gate**: `NamedInv` says that once a port is named, some file there was since the request came in has it as a board's at
  the named switch and address; what follows only carries `ref` on, whatever becomes of the file. `PassedInv` and
  `OverInv` say what must have held for `pc` to be as far as it is.
- **Poller** (`AnsweredInv`): everything in `found`, `check`, `due` and `doing` is for a switch with a reading of this poll.
  A new poll makes every reading older, and begins only when the four are empty. `TimesInv`: what is reconciled
  has a time to compare with. `FreshInv`: a lease that a board took since its link came up is no older than any time its port
  may come to be compared with (the reading before a bounce, the first down reading, the `since` of a check), and a port
  that is due, with leases of any families, has one that may go (`MayGo`) or none any more; a link that has changed since its
  switch was read has lost the leases of before. `ToldInv`: what is known of a port the site was told, or the change is in
  `found`; while nothing is known of it, it was told nothing.
- **Poller command** (`FedInv`): once the process has said READY=1, `quiet` and the most that may still be spent before
  the next word to systemd (`ToGo`, by where the process is) are within `WatchdogSec`. Each step takes from the one at
  least what it adds to the other.
- **Gateway files** (`FileInv`, `TextInv`): the file is at every moment the beginning of one writing of leases there were
  (`Honest`). A read in which it was not truncated has the beginning of it, and the read before, if that one was whole, the
  beginning of one writing. Of two reads that agree one at least was whole, unless `torn` has both, so the text is such a
  beginning; and each of its lines but a last one cut in its address is a whole line of that writing (`LineParsed`).
- **Dashboard**: `LockInv` is the sum again: who is reading is the one the lock names, and what is left of the lock and
  the time it has been held make `LockSeconds`. `OrderInv`: the cached reading began no later than the one now being made.
  `ShowsInv`: a reading begun after the last confirmation shows at least that switching, from its ports' being
  read on. It needs no lock, hence no `Prompt`.
- **Switch setup**: `NeededInv`: each action still to be done has what it needs, or an action that comes before it
  will make it; by `Order`, one whose turn it is needs nothing. `MovedInv`: during a run each access
  port's PVID is its own VLAN or is yet to be set to it, and every other port's is 1; exclusions and deletions come
  after, and so find no port in what they take away. `PathInv`:
  the trunk carries each of the switch's VLANs or is yet to be tagged in it. `DoneInv` says this of all that the file
  asks for: each bit is as it should be or the action that makes it so is still to come, and no action undoes what another
  has done; with nothing left to do the switch is as asked. `AloneInv`, for what the dashboard shows: a port that is no
  trunk in any file is in no VLAN but 1 and its own, half done actions included.

The assumptions are real. `Prompt` of the views: the holds are configurable down to one second, and a
switch that does not answer takes longer. `Prompt` of the dashboard: `LOCK_SECONDS` is set against the time-outs of a
reading's calls, which nothing adds up when it runs. `NoFewer`: no edit takes a port out of the access range;
`switchsetup_shrink` shows what happens otherwise. `TrunkApart`, `InRange`: the switches file gives the gateway's trunk no
other role, and its VLANs are those the tool may delete; nothing in the program checks either. `OneRole` is the same of
every board's port, without which a run undoes what it has just done; `RolesKept` says that no file makes a board's port
of what another has as a trunk, whose tagged VLANs nobody takes away. The legacy switch is left out of
`LeftAsAsked` because the answer is an echo of what was sent, or none (`poeviews_noanswer`).

Checked by TLC only: liveness (`OffIsFollowedByOn`, `HoldsRunOut`, `DownLeaseGoes`, `AllToldInTheEnd`, `KeepsReading`,
`GetsThere`), which with fairness and `ENABLED` is out of the prover's reach.

## Not modelled

- `parse_ports_conf`, `port_of_vlan`, `_seconds`: a text is in the shape they know, or is read once more; which address
  belongs to which port is taken as given. `ports.conf` is written by the converge, not by dnsmasq.
- `_build_ports`, `rates` and `_scrub` of the dashboard: functions of one switch's answer, without state. `_concurrently`
  runs readings that share nothing.
- `status` beyond the gate, the state getters: they change nothing.
- The MQTT client: paho queues and sends in the background; `publish` is taken to be told to the site.
- The reaping of a release's child, sudo, the release script itself (another repository).
- Scripts, nginx, CI, credentials, log lines, the argument parsers, the Retry-After.

## Plan

Done: the views and their hold, the gate before them, the poller with its process and the gateway's files, the dashboard
cache, switch setup; their main safety properties proved. What is left:

1. A composition of `PoeViews` and `Poller`: both release leases, and a power cycle is seen by the poller as a link
   going down; under which times they do not take the lease that the board took as it booted.
2. `GatewayFiles` in place of `Tables` in `Poller`; `SomeMissed` stands for what it may say.
3. Proofs: all safety properties of the passing runs are proved. What would say more: which leases two torn reads that
   agree may name; a release of a port whose leases are of different ages, family by family.
4. `rates` over counters that wrap or are reset between two readings.
