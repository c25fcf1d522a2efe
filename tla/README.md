# SilentGuard XDR in TLA+

TLA+ models of SilentGuard XDR, TLC configurations that check them on small
instances, and proofs that TLAPS checks for every instance. `PROJECT.json` lists
the components, the runs, the hazards each property is for, which lines of the
source each definition translates, and the findings.

## The system

| component | state | operations | talks to |
|---|---|---|---|
| agent telemetry client (`telemetry.py`, `config.py`) | buffer in memory, spool on disk | emit, flush, recovery at start | server `/telemetry` |
| agent command loop (`main.py`, `response_handlers.py`) | commands of the last check-in | check-in, handlers, results | server `/checkin`, quarantine, isolation |
| agent quarantine (`quarantine.py`, `file_drop.py`, YARA, watchdog) | store, manifest, files seen | quarantine, restore, scans | events mirrored by the server |
| agent isolation (`isolation.py`) | a flag in memory, the host's firewall | isolate, release | level of the last check-in |
| agent monitors (ports, processes, ARP, USB, YARA, registry, Suricata, DNS) | what each has seen | one scan per turn | telemetry, quarantine |
| agent identity (`ensure_enrolled`, `tamper.py`, `update_verifier.py`) | state file with MAC, update floor | enrol, verify, set the floor | server `/enroll` |
| server agent API (`routers/agents.py`) | device row, events, quarantine items | enroll, telemetry, checkin | detection, response, hub |
| server responses (`services/response.py`, `routers/responses.py`, `admin.py`) | response actions, `pending_commands` | respond, isolate, release, restore | agent, by check-in |
| server accounts (`services/auth_service.py`, `routers/users.py`) | user, refresh sessions, single-use tokens | login, MFA, refresh, logout, reset, invite, disable | each other, through rows |
| detection (`detection/`, `services/threat_intel.py`, `core/netmatch.py`) | rules, indicators, blocklist | rule and feed edits, imports, evaluation of an event | telemetry handler, isolation |
| fleet policy (`services/policy.py`, `core/plans.py`, `routers/policies.py`) | groups, policies, plan limits | edit, assign, resolve | agent, by check-in |
| liveness monitor (`monitor.py`) | `unresponsive_alerted`, `stopped` | sweep | alerting |
| Home desktop engine (`desktop/silentguard_home`) | blocklist, active hosts, firewall | sync loop, sync threads | the host |

What is hard in it:

* **Concurrency on the server.** Synchronous handlers run in a pool of threads,
  asynchronous ones interleave at each `await`; each has a database session of
  its own with `expire_on_commit=False` and no row locks. What a handler has
  loaded may be old when it commits; SQLAlchemy writes the columns that differ
  from what was *loaded*, whatever is in the database now; a JSON list is
  rewritten as a whole.
* **Delivery.** The agent polls. A request may be lost, refused, or executed and
  its answer lost; commands are handed over at most once, events at least once.
* **Crashes.** The agent's files are truncated and then rewritten; some of its
  state is in memory only while its effects (firewall rules, moved files)
  outlive the process.
* **Partial failure.** A firewall sequence stops in the middle, a handler raises
  and ends the turn, a disk is full. The agent's turn is one `try` (`main.py:156-200`):
  whatever raises in each turn keeps all that is behind it from ever being done.

What makes each component correct is the list of properties below; the hazards
of `PROJECT.json` say where each could go wrong.

## Modules

**EventCustody** is what the telemetry pipeline promises: a log into which events
enter once, in order, and which they leave only by being stored, evicted or lost
in a crash. **TelemetryQueue** is the pipeline: the buffer (`buffer`, a bounded
deque), the spool, the batch in flight, the server's table; one action per
step of `emit()`, `save_queue()` and `flush()`, for the network and for the
server's handler. `Garbled` are the events that name a URL `urlsplit()` rejects: on
a batch that holds one the handler raises after it has committed the batch
(`ServerStoreThenRaise`), and the agent sends it again. `stuck` says that every turn
raises before it comes to the flush (`Jam`); what makes it do so is in `PolicyDelivery`.
It is shown to implement `EventCustody` under a refinement
mapping, by TLC (`ImplementsLog`) and by proof. The proofs about a module are in the
module of its name and `Proofs`, here **TelemetryQueueProofs**, unless two components
that belong together share one.

**CommandChannel** follows an order from the responder's request to the settled
`ResponseAction`: `respond()` and `_queue_command()`, the isolation endpoints,
auto-isolation by the telemetry handler, the check-in, the agent's turn, results.
Every handler that rewrites `pending_commands` loads it in one step and commits it
in another, the isolation endpoints too (`IsolationLoad`, `SetIsolation`). Between those
two only a handler in a thread of its own can come in (`respond()`, a load of the row in
`require_agent()`): the other handlers share the event loop, and there is no `await`
between the two lines (`LoopFree`; the server is deployed as one `uvicorn` process).
`turn` says whether turns of the agent pass, raise in the merge of the policy, which is
between the commands and the isolation level, or raise before the check-in.
**ActionLedger** is what this promises, without rows, lists or messages:
an action is granted, executed no more often than it was granted (again by a commit
of a stale list), reported by the agent that executed it, and its record settled once,
as one of the reports says. `CommandChannel` is shown to implement it (`ImplementsLedger`).

**AccountSessions** is one address: the account it gets by sign-up, invitation or
first single sign-on (`CreateLoad` and `CreateCommit`, `SsoVerify`), its sessions,
and its tokens for invitation, password reset and verification. The server may die
between two commits of one handler (`Die`), so that an account without its token
and an organization without its user can be told from what the code does otherwise.
The time of a token may run out before it is used (`Expire`).
**AccountLogin** is the same account's lockout and second factor. They are two
modules because they share nothing but the user row, of which they use different
columns: a login that succeeds in one is the `Login` of the other. Both model a
handler as a step per load on which it decides and a step per commit. Columns are
written as SQLAlchemy does (`Write(loaded, new, now)`).

**QuarantineStore** spans the host (files, store, manifest), the agent's thread,
the two channels, reduced to what they guarantee, and the server's mirror with
its restore requests. A quarantine is four steps (move, open, write, emit), so
that a death or a disk error falls between any two.

**HostIsolation** is the controller and the firewall it drives, one command per
step, on Linux, Windows and other systems. **PolicyDelivery** extends it with the
agent's turn that drives the controller: the server's decisions (blocklist, the
device's effective policy, the level), the check-in that merges them, add-only,
into the configuration (`apply_policy()`), the isolation that follows in the same turn,
and the hosts file of `dns_sinkhole.py`, whose rewriting may fail half-way. A policy
is free JSON: one that the merge cannot iterate over ends the turn before isolation,
and a domain that `extract_host()` cannot parse (`Garbled`), or a drop directory that is
no path, ends every later turn before its check-in, as do a hosts file that cannot be
decoded and a scan that raises (`Passes`, `Trouble`). A check-in also needs a firewall
that lets it through (`ServerReached`).

**FleetPolicy** is where that policy comes from: the groups, the policies of a group
and of the organization, the group a device is in, and the plan's limits on users,
devices and groups. Each handler is a load and a commit, on rows whose numbers SQLite
gives again; `Decides` is `resolve_effective_policy()`. Users also come by single
sign-on, which counts nothing (`ProvisionUser`).

**DeviceLife** is a host as the server sees it live and die: the agent's runs, its
identity and update floor in the state file, the device rows its requests keep
alive, and the sweep of `monitor.py`. The event that marks the start of a run may be
evicted from a full buffer (`Evict`). A request is served in two steps, the load
in `require_agent()` and the handler's commit, with the sweep between them.
**SilenceWatch** is what the docstring of `monitor.py` promises, "emitted exactly once
(until the agent checks in again)", with the one exception the code makes: a report
that comes between the load and the commit of a request masks the silence after it.
`DeviceLife` is shown to implement it (`ImplementsWatch`): at most one report for a
silence, and none missed for another reason than that, or than a stop, which is why
`KillsSurface` is there for "at least".

**HomeEngine** is the Home edition on one PC: the blocklist, the sync loop, a thread
per edit beside it, the firewall rule and the hosts file each of them writes. A write
of that file may fail after it has truncated it, which `apply_hosts()` catches.

**SigmaCondition** is the condition language of Sigma rules: the server's
recursive descent (`ParseExpr` ... `ParseFactor`) over tokens, and the meaning of
an expression as a tree (`Means`), which `Written` writes down. **DetectionEngine**
is the rest of the engine: the tables it reads (rules, indicators, blocklist), the
handlers that edit them (an import reads, then commits) and the evaluation of an
event: built-in rules, indicators, blocked domains, and any of the rules in the
table. Hosts are sequences of labels, and a value may be written in several ways, so
that normalisation is more than the identity; an address counts by its letters, and a
domain may have no host that `extract_host()` can find, on which the evaluation raises
and raises nothing for what is behind it in the batch (`Stops`). **SigmaEngine** puts the two together:
it fires the enabled Sigma rules whose condition holds, which are some of the rules in
the table, so that each of its behaviours is one of `EngineSpec`, and what is proved
of that holds of it. `MCDetectionEngine` checks `SigmaEngine`.

**EndpointMonitors** is what eight monitors have in common: a set of things, what
the last scan saw, a first scan that is silent, events for what is new, and a rule
that kills, blocks or quarantines. A behaviour picks one monitor (`kind`); its scan
(`ScanUsb`, `ScanFiles`, ...) is the action of its own. Things come, go and change
between scans, readings fail, things resist, and the agent restarts. A policy may
bring directories whose files are new to the monitor and old on the disk (`PolicyDirs`),
and of the USB devices that are blocked some leave the bus and some stay mounted.

How the modules meet: results of `CommandChannel` travel in the batches of
`TelemetryQueue`; a restore of `QuarantineStore` is a command of the channel; the
level of `HostIsolation` is the one the check-in of `CommandChannel` carries, and the
check-in of `PolicyDelivery`, which is composed with it; the effective policy of
`PolicyDelivery` is what `FleetPolicy` decides; what
`EndpointMonitors` reports enters `TelemetryQueue`, and `DetectionEngine` evaluates
what the server stores. Each is checked on its own, with the other side reduced to
what it may do: the product of all of them is beyond TLC.

Each `MC` module instantiates a module for TLC (symmetry of the threads where
all of them are alike). Definitions marked `Fault:` are not part of a model: each
is a plausible mistake in the definition after it, and `PROJECT.json` pairs it
with a property that then fails. They show that the properties can fail.

## Runs

| run | module | bounds | what it shows |
|---|---|---|---|
| `telemetry` | TelemetryQueue | buffer of 3, body limit of 2, 4 events, the last one unparsable, 1 failed flush, 1 crash, disk errors, turns that raise | order of first arrival, bounded loss in a crash, delivery, the backlog drains, if turns come to their flush, but behind what the server refuses or raises on; refinement of the log, so that nothing vanishes |
| `commands` | CommandChannel | 2 actions, 3 requests, 1 fault, turns that raise | an action is executed once but for stale commits, settled as it was executed, and, if turns pass, settled in the end; if turns pass, the agent ends up isolated as the server last decided; refinement of the ledger |
| `sessions` | AccountSessions | 2 threads, 3 sessions, 2 tokens, 1 death of the server or expiry of a token | reset, rotation, single use and disabling hold outside the overlaps named; an invitation stays good until it is accepted or expires; an account comes with its organization, and is verified when its address is |
| `login` | AccountLogin | 2 threads, 3 attempts, 2 factors | failures lock, a grant respects lock and factor, the factor in force was confirmed |
| `quarantine` | QuarantineStore | 1 path, 3 quarantines, 2 restores, 1 fault | store, manifest and dashboard agree |
| `host_isolation` | PolicyDelivery, HostIsolation | 3 decisions on the server, 2 faults, each platform, 3 domains (one built in, one unparsable), turns that raise | the server stays within reach, reports are true, the hosts file pins nothing but what was ordered and in the end all of it, the firewall follows the level |
| `release_after_restart` | HostIsolation | 2 orders, 1 restart, Linux | **violated**: a release after a restart reverts nothing |
| `fleet` | FleetPolicy | 2 threads, 5 requests, 3 plans with limits of 1 to 3 | a device is in the group it was put into and gets that group's settings, creations but by single sign-on stay within the plan, an older policy rules, outside the overlaps named |
| `device_life` | DeviceLife | 2 rows, 2 versions, 2 runs of the agent, 1 fault | a kill surfaces, outside two races; the update floor never falls while the state file lives; refinement of the watch |
| `home` | HomeEngine | 2 domains, 2 threads, 2 edits, 2 toggles, 1 fault (a failed write of the hosts file among them) | no stray rules outside the cases named, the user's hosts lines survive, the list is enforced |
| `detection` | SigmaEngine | 2 imports at a time, 3 edits, all short conditions over 3 selections, values that cannot be parsed | conditions mean what they say; indicators and blocked domains surface exactly |
| `monitors` | EndpointMonitors | 8 kinds, 3 things, 4 changes, 1 fault, a burst limit of 1 | arrivals are reported, what a silent first scan saw never is, the rule is enforced, outside the cases named |

Why the bounds are enough: each hazard is a race of two handlers or one fault
between two steps, so two threads and one or two faults reach it; three decisions
let a domain be listed, merged, and taken off again while another setting changes;
five requests are enough to make a group, put a device or a policy into it, delete it
and give its number to another; three sessions
allow a rotation of a rotated session beside a login; two tokens are the least
that can be open together; three quarantines of one path let a restored file be
taken again and a third be listed after a torn manifest; four events overflow a
buffer of three, which is itself larger than what the server accepts; three things
leave two of a burst of one unreported, and four changes let one of them leave and come
back beside the others, before and after a restart or a rule; a log of three alerts
can be rotated and be shorter, as long or longer when it is read again. Conditions go up to two
operators over two operators, or two conditions of one each: every pair of
precedences and every position of a bracket occurs. Every bound is a constant named
`Max...`, declared and described at the head of its module. `MaxBuffer`, `MaxBody`,
`MaxAttempts`, `MaxDevices` and `MaxEvents` of the monitors are parameters of the
code, made small.

Many properties have the form "X, unless H", where H is history the model records
(two refreshes held one session, a commit overtook a handler, a restore was asked
for twice). The code takes no locks, and without H the property is false; H is
the weakest condition we know under which TLC finds it true, and says which overlap
a caller has to reckon with.

The type invariants are no properties of the runs: they document what the variables
range over, and are proved as the first part of the module's inductive invariant
(`TypeCorrect` for `TelemetryQueue`, where it bounds buffer and spool). Nor is
`NoEventVanishes`, which `ImplementsLog` implies: it is proved (`NothingVanishes`).

Runs say `CHECK_DEADLOCK FALSE` because the bounds let each system stop.

## Fairness

Safety is checked under `Spec`, without fairness. Liveness assumes weak fairness
of the agent's loop (`run()` catches every exception and goes on for ever), of
the answers of a server that is reached, and of the commit of a handler that has
begun. It never assumes that a person acts, that a fault happens or that it
does not: faults are bounded instead, which states "if they stop".

Nor does it assume that a turn of the agent comes to its end. Check-in, level and flush
are steps of one `try`, and what raises before them in every turn prevents them for good:
the steps are fair only while no such thing is there, it may come and go at any time (as
one of the counted faults where there is such a count), and each property says what it needs.
`EveryEventArrives` and `BacklogDrains` (telemetry) hold if turns come to their flush
in the end (`TurnsFlush`), `TasksSettle` and `IsolationFollows` (commands) if they pass
(`TurnsPass`). `PinsFollow` and `LevelIsObeyed` (policy delivery), where the causes
themselves are modelled, hold unless the agent is left with one of them (`Passes`) or
with a firewall that keeps the server out.

Of the others, `KillsSurface` (device life) needs that the sweep is scheduled for ever and
that a silent device stays silent, and `ListIsEnforced` (Home) that a thread that has
begun goes on.

## Proofs

TLAPS proves the safety properties of the models, but for the meaning of Sigma
conditions, for every value of their constants. Each rests on an inductive invariant, a conjunction of named parts at the
end of the module it is about, and on the named assumption on the constants of that
module, which says no more than that bounds are natural numbers and parameters have
their kind. TLC checked each inductive invariant under the bounds of the run before it
was proved. The proofs have one lemma per action and, under it, a step per part.

| proofs | inductive invariant | theorems for properties of the runs |
|---|---|---|
| TelemetryQueueProofs | `IInv` | `TypeCorrect`, `NothingVanishes`, `FirstArrivalsOrdered`, `CrashLossBounded`, `PipelineImplementsLog` |
| DetectionAndResponseProofs: CommandChannel | `ChannelInv`, `ReportsCounted` | `ChannelExecutesAsRecorded`, `ChannelImplementsLedger` |
| DetectionAndResponseProofs: DetectionEngine | `EngineInv` | `EngineIndicatorsSurface`, `EngineBlockedHostsSurface` |
| AccountSessionsProofs | `AccountInv` | `AccountResetsOvertake`, `AccountSecretsServeOnce`, `AccountDisabledStayOut`, `AccountInvitationHolds`, `AccountIsMadeWhole` |
| LoginAndLifeProofs: AccountLogin | `LoginInv` | `LoginFailuresLock`, `LoginEnforcedIsConfirmed`, `LoginGrantsAreEntitled` |
| LoginAndLifeProofs: DeviceLife | `LifeInv`, `FlagIsReport` | `LifeNeverRollsBack`, `LifeImplementsWatch` |
| QuarantineStoreProofs | `StoreInv` | `StoreAlwaysMatchesManifest`, `MirrorAlwaysTellsTruth` |
| PolicyProofs: PolicyDelivery, HostIsolation | `IInv` of HostIsolation, `TurnInv` | `ServerReachable`, `ReportsAreTrue`, `PinsOrdered` |
| PolicyProofs: FleetPolicy | `FleetInv` | `FleetMembershipIsReal`, `FleetGroupPolicyIsOwn`, `FleetStaysWithinPlan`, `FleetOldestPolicyRules` |
| HomeEngineProofs | `HomeInv` | `HomeRulesRemembered`, `HomeOwnLinesSurvive` |
| EndpointMonitorsProofs | `MonitorsInv` | `MonitorsReportArrivals`, `MonitorsReplayNothing`, `MonitorsEnforceRule` |

Why the properties are not inductive by themselves, and what the invariants add:

* **Telemetry.** Every queue of events, in memory, on disk or in a request under way,
  is in the order of capture and lacks no event older than one it holds but those
  stored or dropped (`QueuesSound`); at most one request is outstanding, it carries
  the buffer as `flush()` took it, and an "ok" means that the server holds it
  (`OneOutstanding`); outside `save_queue()` the spool is the buffer unless the last
  write failed (`Mirrored`). That an acknowledged batch may be popped by counting
  needs `OneOutstanding`, and that a late duplicate of an old request cannot upset the
  order of first arrivals needs `QueuesSound` of the requests still under way.
* **Commands.** `executed[a] =< 1 + revived[a]` says nothing of a command that has
  not been executed yet. `ExecutionsCounted` counts for each action the one place a
  command waits in (the column, or the copy a check-in the agent waits for has
  loaded) and the one the agent has it in (the answer, or what is left of it); a
  check-in moves it from the first to the second, an execution takes it from the
  second. That it does not duplicate it needs that the agent waits for one check-in at a
  time and that an answer nobody waits for is never read (`OneCheckin`), that no list
  there is, in a row, a copy or an answer, holds a task twice (`ListsSound`), and that
  a command is queued once (`QueuedOnce`). Records are settled by what is in the
  outbox (`ReportsAreReal`). That each step is one of the ledger, or none, needs
  besides that an action has reported no more results than it was executed, the one the
  agent is about to report included (`ReportsCounted`).
* **Sessions.** A handler acts on what it has loaded: the invariant says what each
  kind of handler in flight holds, of which row (`References`), and which later reset,
  disabling or acceptance must have marked it (`ResetsOvertake`, `DisablingHolds`);
  and who may still spend a session or a token that no other handler holds
  (`SessionsServeOnce`, `TokensServeOnce`, `RequestsSupersede`, `OneInvitation`).
* **Login.** A login that nothing has overlapped holds the count as it stands
  (`AloneIsCurrent`), whoever is logging in to a locked account has been overtaken by
  the lock (`LockedOvertakes`), and a handler no change of the factor has overtaken
  holds it as it stands (`FactorIsCurrent`). `GrantsAreEntitled` is a property of steps.
* **Device life.** That no update installs less than was accepted before speaks of the
  state file as `load_state()` finds it: a file that names a device holds the highest
  version accepted under it, and while the agent is online there is such a file or
  `set_update_floor()` is about to write it, with the floor it has read (`FloorHolds`);
  that the device it names has a row is `Identified`. The watch counts reports, the
  code tests one flag of a row, which a commit may leave as it finds it: that the flag
  is set exactly for a device reported since it was last heard, or heard in a request
  that a report had crossed, is `FlagIsReport`, and from it each sweep is the first
  report of its silence.
* **Quarantine.** While a job is under way the manifest is behind the store: the store
  agrees with the list about to be written, and with the manifest but for the one id
  of a job that has moved its file (`StoreAgrees`); a death then puts into `cut` that id,
  and every id of the list if the manifest stands empty, and nothing more is needed.
  That the mirror tells the truth in the end needs what it tells on the way: the item,
  the commands not yet handled, the job under way and the events not yet delivered
  together make what the entry says (`EntriesMirrored`). It holds for a restore asked for
  once, which is commanded once or answered once (`AskedOnce`), so that all answers in
  the outbox say the same; with two, the last answer counts, and it may be a failure
  of a file that was restored.
* **Isolation and policy delivery.** The commands left are the end of the list of the
  method under way (`LeftIsEnd`), so that their number tells which one is next; a chain
  holds the first of its rules in their order (`FirewallSound`); and what the firewall
  holds when `n` commands of an `isolate()` in which none has failed are left
  (`Built`), or once `release()` has run its first (`Opened`). That the hook of a chain
  does not cut off the server needs the order of the rules in the chain it hooks, and
  that a report is true needs what the list of commands has built by its end.
  `TurnInv` adds that what the agent blocks was named to it and what an unfinished
  block holds was cut (`PinsExplained`).
* **Fleet.** What a request has loaded is still so when it commits, as long as no other
  request has crossed it: counts are within the limit (`CountHolds`), a group loaded by
  its number is still the group of that name (`NameHolds`), a deletion has loaded all
  that points at its group (`DeletionHolds`). `RequestsAreCounted` keeps every number
  SQLite gives within `Numbers`. `WithinPlan` and `OldestPolicyRules` are properties of
  steps.
* **Home.** A rule in the firewall is remembered, or a sync under way will remember its
  domain (`RulesAccounted`) or drop the rule (`SyncsDrop`); two syncs at once agree about
  every domain that is not stray (`SyncsAgree`); and what is about to be written to the
  hosts file holds the user's lines (`OwnLinesRead`).
* **Monitors.** The scan compares with what it remembers: what is due looks new to it
  (`OwedIsNew`), what was there before the first scan, in a directory it saw, looks known (`OldIsKnown`), and
  what it will not look at again is spared (`KnownIsSpared`). One lemma
  (`EndsKeeps`) says what a scan must tell and do to keep that, and each monitor's scan
  is shown to. That a burst is reported up to its limit needs two facts about
  cardinalities (`EventsAreAsMany`, `FirstIsBounded`).

* **Detection.** A row is live exactly as long as an indicator that was imported and
  not withdrawn is written so (`LiveIsPromised`), and what was raised is what the tables
  say now (`RaisedIsCurrent`). The rest is about names: the names a host falls under are
  the ends of its sequence of labels (`SuffixIsEnd`, `NamesOver`), a feed's value and an
  event's share a row exactly if they mean the same (`KeyOf`), and the first listed name
  is the longest (`MatchedIsLongest`). That no name has an empty label is what keeps a
  URL whose host ends in a dot apart from all of them.

Only model-checked: `SigmaRulesMean`, whose evaluator is recursive over data and out of
the prover's reach, and every liveness property, since fairness and `ENABLED` are out of
its reach too.

## Findings

The violated run `release_after_restart` is a disagreement between the code and its own
docstring, which `PROJECT.json` quotes: a host isolated before a restart of the agent
is not released (`isolation.py:75`).

Where a property has an exception, the exception is a behaviour of the code worth
knowing:

* a command overwritten by a concurrent responder (`TasksSettle`), a restore asked for
  twice (`MirrorTellsTruth`);
* a device seen before the rule that blocks it is not blocked, and on Windows a blocked
  device stays mounted until it is unplugged, though it is reported as blocked
  (`RuleEnforced`; `usb_guard.py:135` stops the next mount, and nothing sets it back);
* a directory that a policy adds is scanned from the next turn on as if all its files had
  just arrived, at every start of the agent (`NothingReplayed`);
* a feed that fails as a whole because it names an indicator twice, indicators of types
  `url` and `certificate` that no lookup asks for, and addresses, whose letters are left
  as they are written: `2001:DB8::1` in a feed does not match `2001:db8::1`
  (`ImportedIndicatorsSurface`);
* the host of a URL that ends in a dot matches no listed domain, although
  `docs/domain-blocking.md` (line 19) says a trailing dot is ignored; and one entry of the
  blocklist in which no host can be found, which `block_domain` stores unseen
  (`response.py:49`), stops the evaluation of every event that names a host
  (`BlockedHostsSurface`);
* users that come by single sign-on are not counted against the plan (`WithinPlan`);
* a full disk costs the user's lines in the hosts file of a Home PC (`OwnLinesSurvive`);
* one event with a URL that cannot be parsed stops the telemetry of its agent: it is
  stored, answered by a 500, sent again with all that follows, and stored again
  (`BacklogDrains`);
* a domain that cannot be parsed in a policy, or put on the blocklist by a
  `block_domain` response, stops the turns of the agents that receive it until they
  are restarted without it: no check-in and no flush (`PinsFollow`, `LevelIsObeyed`,
  `TasksSettle`, `IsolationFollows`, `EveryEventArrives`, `BacklogDrains`); a drop
  directory that is no path does the same;
* an entry taken off the blocklist or a policy stays in force on an agent until its
  next restart (`PinsAreOrdered`), and a newer policy of a scope has no effect while an
  older one is enabled (`OldestPolicyRules`);
* a server that dies between the two commits of an invitation, or an invitation that is
  not accepted in 7 days, leaves an account that nobody can enable, and an address that
  cannot be invited again (`InvitationHolds`);
* `mfa_begin_setup()` switches off a second factor in force without asking for a code
  (`AccountLogin`; no property speaks of it, since nothing promises otherwise);
* `isolate` and `release` sent as *response actions* (not by the isolation endpoints)
  are dropped by `_run_command()` (agent `main.py:94`), so that their records stay
  queued, although `docs/response-framework.md` (lines 21-23) lists them. They are
  among the commands of `CommandChannel` (`Kinds`); its liveness properties are about
  tasks, and about the endpoints' level.

## Plan

The fan-out of the telemetry handler (`services/integrations.py`, `ws.py`), whose
synchronous calls hold up the event loop, as a module between `TelemetryQueue` and
`DetectionEngine`.

## Not modelled

Cryptography (JWT, password hashes, TOTP codes, RSA manifests, certificate
pinning) is taken at its word: a code or a token is the secret it belongs to.
E-mail, the integrations and the live push, analytics, compliance and scoring, the AI
assistant, the SIEM formats, the dashboard and the console, migrations, configuration
and installers are left out: pure functions of stored rows, one attempt at a remote
service whose failure is logged, or user interfaces. Expiry is not a clock: a
token may expire at any time (`Expire`), and a session whose time has run out is one that
is used no more. `port_watchdog.py` (line 3) speaks of UDP; its scan sees none, and neither
does the model. The audit log is left out; it records handlers that are
modelled and decides nothing. Permissions and the scoping of queries to an
organization are data: one organization is modelled.
Regular expressions, the YAML of Sigma rules and the text tests of the built-in
rules are left out: which selections and rules match an event is part of the event.
`dry_run`, which replaces each effect by a log line, is left out everywhere.
