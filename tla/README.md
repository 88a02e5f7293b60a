# Pane, specified

Pane is a desktop HTTPS debugging proxy. A MITM engine listens on the Mac;
Android phones on USB are pointed at it through `adb reverse` and the global
`http_proxy` setting; the Mac itself can be captured too. What passes is
recorded, decrypted where the client lets it, and rewritten by rules; a command
line and scripts watch it through a control socket. This directory holds TLA+
models of those parts, TLC configurations that check them on small instances,
and TLAPS proofs of what matters most for every instance.

Paths below are relative to the repository; `crates/` holds the Rust crates.

## 1. The system

| Component | Code | State it keeps | Operations |
|---|---|---|---|
| Device port registry | `pane-engine/src/registry.rs` | serial to port, port to device | assign, release, set_port, clear_port, device_for_port |
| Device manager | `pane-devices`, `pane-android/src/lib.rs` | a lock per serial, device rows; on the phone: reverses, `http_proxy` | add, reapply, probe, remove, clear |
| Device watchdog | `pane-core/src/background.rs` | strikes per serial | one tick every 5 s: probe, re-sync, or clear |
| Proxy lifecycle | `pane-core/src/ops/proxy.rs`, `pane-engine-mitm` | `engine`, `proxy_handle`, listeners | proxy_start, proxy_stop, accept loops |
| Host capture | `pane-core/src/host_proxy.rs` | a snapshot; outside: the system proxy | enable, disable, self-heal, exit handler |
| Interception, passthrough | `proxy_loop.rs`, `client_hello.rs`, `pane-engine/src/passthrough.rs` | hosts learned per TLS stack | CONNECT, peek, handshake, tunnel, forget, reset |
| Certificate authority | `pane-ca/src/lib.rs` | keyring, certificate rows, cached material | open_or_init, rotate |
| Recording, replay | `proxy_loop.rs`, `pane-storage` | captures, headers, bodies, replay rows | the statements of an exchange, Clear, Replay |
| Rule library | `pane-storage/src/lib.rs`, `RulesView.tsx` | rule, rule_device and collection rows | switches (single, per device, bulk), edit, move, delete |
| Rule matching, patches | `rules.rs`, `patch.rs` | none | first_match; set, append, delete |
| Filter languages | `filter_dsl.rs`, `logcat_filter_dsl.rs`, `logcat-filter.ts` | none | compile, match |
| Logcat | `pane-android/src/logcat.rs`, `ops/logcat.rs`, `pane-storage/src/logcat.rs`, `LogcatView.tsx` | streams, lines, a window | start, stop, ingest, prune, page |
| Control socket | `pane-control/src/server.rs`, `events.rs` | per connection: queue, tasks, subscriptions | request, subscribe, teardown |
| Instance, discovery | `pane-core/src/lock.rs`, `discovery.rs` | lock, socket, `control.json` | open, bind, quit, attach |
| Command line, MCP | `pane-cli` | a command's progress | tail, wait, only, rm, import, export |
| Front ends, web server, release site | `src-tauri`, `pane-serve`, `src/`, `apps/` | views | forward, format |

How they interact. `proxy_start` builds an engine, stores its handle and
*spawns* `reapply_all`; `proxy_stop` takes the handle, shuts the engine down,
*awaits* `clear_all` and then `host_proxy::disable`. The watchdog runs all the
time and reads `proxy_running()` once per tick. Add and Remove clicks, sweeps
and watchdog all end in the same adb sequences on the same phones; the lock of
a serial orders the sequences, and nothing orders what the callers do around
them. The accept loops read labels from the registry; a connection is stamped
with one when it comes in, and its rule is asked for under that stamp. Every
table sits behind one SQLite connection and a mutex that is held for a method
at most, often for one statement. Events go out on a bounded broadcast channel
which the window, the subscriptions and the command line read at their own pace.

What is hard here, and what makes each part correct:

- *registry, device manager, watchdog*: a caller suspends at every adb command,
  each of which may fail, or fail late after taking effect, while the cable is
  pulled. A label must never name the wrong phone; a phone must never point at
  Pane with no tunnel under it; a removed phone must be clean; whatever raced
  or failed, a paired phone ends up wired while the proxy runs and freed
  while it is stopped.
- *lifecycle, host capture*: starts and stops overlap freely, every tool may
  fail, the process may be killed. No engine may go on with nobody to stop it,
  and the Mac must get back what it had.
- *interception, certificate*: what teaches a host may only be a client's alert,
  and only about that client's stack; a rotation is three writes to two stores
  with a crash between any two, and the phones trust one certificate.
- *recording*: Clear, replays, the rule editor and requests interleave statement
  by statement under foreign keys; what a row says must be true.
- *rules*: one question, for whom is a rule live, is written by six kinds of
  call, some in several statements, some from a copy read earlier, one set-wise in SQL.
- *filters*: three-valued logic over rows that are written piece by piece in one; in the other, a
  filter that one compiler reads for its processes and another for the rest.
- *logcat*: a table that is checked and filled in two turns, chunks of
  deletes between which lines arrive, queries that answer late.
- *control socket, instance*: a slow reader, a client that leaves, ids
  used twice; files that outlive a killed process and a client that tries
  them.
- *command line*: several calls per command, each of which may fail, while the
  window changes what was read; waiting against a deadline.

`PROJECT.json` lists each hazard at its line with the properties that cover it.

## 2. The modules

    PortRegistry <- DeviceManager <- Mishaps, Watchdog     ProxyLifecycle  HostProxy  Instance
    RuleTargets <= RuleLibrary     JsonTree <- RuleMatching, Patches      CommandLine
    Interception  Exchange  CaptureFilter  CaptureWatch     ControlConnection
    LogcatStream  LogcatStore <- LogcatView  LogcatFilter

(`<-` is extended by, `<=` is implemented by.) `MC*` modules name the constants
of a run. Eight modules hold the theorems: `DeviceManagerProofs` (registry,
device manager, Mishaps), `ProcessProofs` (ProxyLifecycle, Instance, LogcatStream, HostProxy),
`ControlConnectionProofs`, `InterceptionProofs`, `RuleLibraryProofs` (RuleLibrary, CommandLine),
`RewritingProofs` (RuleMatching, Patches), `CapturesProofs` (Exchange, CaptureFilter, CaptureWatch)
and `LogcatProofs` (LogcatStore, LogcatView, LogcatFilter). Operators marked as mutants, next to the
definition they imitate, show that a plausible bug would be noticed; no
specification uses them.

**Benches.** Parts that share no state in the code are checked in one run by a
module that extends them all and puts *one* on the bench: `MCWiring` (DeviceManager
with Mishaps, HostProxy), `MCProcess` (PortRegistry, ProxyLifecycle, Instance,
ControlConnection, LogcatStream), `MCRewriting` (RuleLibrary, RuleMatching, Patches,
CommandLine), `MCRecords` (Exchange, CaptureFilter, CaptureWatch's two commands each
for itself, LogcatStore, LogcatView, LogcatFilter). The variable `bench` is chosen in
the initial state, the others stay as they were, so the states of a run are the sum and
not the product of those of its parts. A fairness formula speaks of actions of a
component that are disabled in its initial state, so it says nothing on other benches.

**PortRegistry**. Two maps behind one mutex, so one action per method. A device
row's id is fixed by its serial (`UNIQUE(platform, serial)`), so the serial
stands for both.

**DeviceManager**. `task[t]` is what caller `t` does: operation, phone, the adb
command it is about to run, its port and whether it booked it. The model keeps
the orders that matter: the port is taken *before* the lock is awaited and given
back *after* the teardown; a failed set-up gives back only a port of its own; a
teardown always reports success. `Unplug`, `Replug`, `HelperClearsProxy` and
`Restart` are the environment; a restart loses registry, locks and callers but
neither rows nor tunnels.
Each command of a set-up or a teardown may fail (`AdbFaults`) or be given up and take effect
all the same (`LateEffects`), the last one of a set-up, `http_proxy`, included.

**Mishaps** adds a history to DeviceManager: what befell each phone that its booking may not
fit. `overlap`: two callers were at work on it together; `restart`: the registry was lost;
`stray`: a call left its tunnel behind and gave the port back (a set-up that fails with the
tunnel open, a teardown whose command fails). A set-up or teardown that goes through clears
`stray`. The properties of ports are stated over it, so nothing is cut out of a run: the
behaviours with a mishap are in it, and only the phone it befell is excepted.

**Watchdog** composes DeviceManager with the switch, the two sweeps and the
loop: a walker reads a set of phones once and visits them one at a time; the
watchdog keeps the switch as it saw it at the tick. `ReopenedInit` is the state
after an earlier process was killed.

**ProxyLifecycle**. An engine is named after the start that builds it; base ports
are fatal, spare ones best effort; `SetHandle` and `SetEngine` are two
assignments, `TakeHandle`, `Shutdown`, `DropEngine` the stop, `LoopEnds` an
accept loop that notices later.

**HostProxy**. Each networksetup call is a step with its failure; the mutex is
held for the look at the snapshot only; the route may move to another service between two
calls. `SelfHealOnStart` and `Crash` surround the life of the process: a start that finds no
active service heals nothing, a channel that cannot be read counts as not pointing at Pane, and
a channel that cannot be put off is left. `theirs` is what the user had, `lapses` a
history of the three things Pane does not make good: `tool`, a channel could not be put back;
`overlap`, an enabling and a restoring call were under way together; `route`, the default route
had moved to another service than the one that points at Pane. A start that leaves every service as the user has
it clears them.

**Instance**. The advisory lock goes with its holder; socket and `control.json`
outlive a process that is killed. The desktop app binds in a task of its own (`desktop`),
so it may be quit while it binds. A guest reads `control.json`, connects, or
goes to the database itself.

**ControlConnection**. One connection: the reader with its current line, a task
per request and per subscription, the writer behind a bounded queue, the bus
that overwrites what a subscription has not read. `Receive` takes the next
event or word of a gap, `SendEvent` waits for room. `account.known` is history:
up to which event the client knows what became of it.

**LogcatStream**. The table holds a sender; the task stops when it is told or
when its sender is dropped. A start checks and fills the table in two turns
(`Check`, `Insert`).

**Interception**. `conn` is a CONNECT on its way from the seeded list over the
peek and the learned set to a handshake or a tunnel; `rot` a rotation that
writes the key, revokes and inserts, replaces the memory and resets the set, in this
order, and ends on an error at each of them; `boot` is `open_or_init`, which goes on with what it finds,
makes a first certificate, or replaces an Ed25519 one of an older version (`legacy`) by the same
two statements. A connection keeps the certificate of the engine run it came in by.
Which stack a client has and whether it pins are constants.

**Exchange**. Every statement of a request through the plain or the decrypted
half is a step, with the foreign keys that make it fail; Clear, the rule editor
and replays beside it.

**RuleLibrary** has the rows, one action per method of Storage and, for methods
of several statements, the outcomes of one cut short (the disjuncts with `CutShort`); `copy` is the rule an
editor was opened on. **RuleTargets** is its abstract specification: only the
set of scopes a rule is live for. **RuleMatching** and **Patches** decide over
bounded inputs: a glob on characters, a template on scalars, an operation on
the JSON tree of **JsonTree**. **CommandLine** has the commands of several calls.

**CaptureFilter** evaluates the compiled clause in three values over a row that is
written piece by piece: opened as `CONNECT` and `/`, given its method, its path, its response
headers, and its end with status, size, duration, error and rule. **LogcatFilter** has the
clause SQL runs and the process ids the window learned; of the window's own compiler only the
`app:` packages are in it, since nothing else of it reaches the rows. **CaptureWatch** is tail and wait beside
captures that start, end, are cleared, with a list that is cut off and a feed that overflows; `asks` says
whether the filter describes a row from its start, at its end, or only until then. **LogcatStore** ingests,
clears and prunes chunk by chunk; **LogcatView** is the window over it: queries
are asked, answered and land, or fail, in three steps; `view.error` is the message on the screen.

Abstractions common to all: what happens between two awaits, or under one hold
of the store's mutex, is one step; texts are tokens; adb, networksetup, the
keychain and the companion app are external and modelled by what the code
relies on. Effects that no property reads are left out (pushing the CA, PAC,
the reverses of 8889 and 8890, formatting, timings).

## 3. What the runs show

| Run | Instance | Result |
|---|---|---|
| `wiring` | two benches: 2 callers, 2 phones, 1 port, every command failing, set-up commands late, 1 restart; 2 callers of host capture, 2 services, every tool failing, quits and kills | no setting without a tunnel; a wrong stamp and a removed phone that is not off Pane have one of three causes; short of three lapses the Mac is as the user had it |
| `watchdog_cable` | 1 phone, 4 callers, Add, Remove, a cable pulled | while the proxy runs, a paired phone ends up wired |
| `watchdog_switch` | 1 phone, reopened, 1 more restart, 2 toggles | once it is stopped, the phone ends up freed |
| `watchdog_labels` | 2 phones, 2 ports, reopened with arbitrary tunnels | wrong labels of a lost registry go away for good |
| `process` | five benches: 4 phones on 2 ports; 2 starts and 2 stops; 2 processes and a guest; a subscription over a bus and a queue of one place; a stream with 2 openings | labels sound, no orphan engine, ports freed, one adb per device, live sockets left alone, no event lost in silence, teardown ends |
| `rewriting` | four benches: 2 rules, 1 phone, 1 collection; short patterns, bodies and lists of patches; 2 commands with the window editing once | targets move only as meant, `RuleTargets` is implemented, the glob and the patches mean what they say, commands do what they are called |
| `records` | seven benches: a request, a replay, the editor and Clear; every token and every pair of a kind; tail, and wait, over 4 captures and a list of 2; 2 phones, 3 lines, chunks of one; a window of one row with pages of one and filters that are refused; app: terms over 2 pids | rows and events are true, no key dangles, negation splits the rows, what is listed stays, old captures are not counted; retention deletes exactly what it should, the window shows what was asked or says that it failed, app: narrows |
| `interception` | 3 TLS stacks, a mixed-case and a seeded host, 3 certificates, data of an older version, failing writes, crashes | keys are there, a restart keeps the certificate or there is one of four reasons, tunnels have a reason, sacrifices end |

Four runs have a violation as their point; each contradicts a sentence of the code's own
documentation, quoted in `PROJECT.json`:

| Run | What TLC finds |
|---|---|
| `dm_stale_port` | a set-up that waits for the lock behind a teardown wires the phone to the port that was just released; the next phone is given the same one and blamed for its traffic |
| `dm_failed_setup` | with a single caller: a set-up whose last command fails gives its port back under an open tunnel |
| `host_stop_race` | a stop between the check and the settings of `enable` leaves the Mac pointed at a proxy that is off |
| `capture_watch` | `tail --count` exits 0 with fewer captures than asked for when the instance quits, or when a notice of skipped events is counted as a capture |

**Disagreements without a run.** These formulas stand in the modules, state
what a comment or a doc says, and are violated by what the code does (name one
in a configuration to see the trace). They are left out of the runs because the
runs are kept to distinct questions:

- `RuleLibrary!TickedCanFire`: removing the last phone a rule is on for leaves
  it ticked and unable to fire.
- `Exchange!NobodyStarves`: a Clear under a request makes its next insert fail on
  a foreign key, and the answer of the server does not reach the client.
- `Interception!VerdictsAreAboutTheCurrentCa`: a handshake that began before a
  rotation teaches after the reset.
- `LogcatStream!CappedTries`, `ListedIsLive`: the counter of reconnects is
  reset when adb is spawned, not when a line is read; a stream that gave up stays
  in the table and is reported as reused.
- `LogcatStore!IdsOnlyGrow`: rowids start again when the newest rows go.
- `LogcatView!AlwaysAWindow`: a page asked for under one filter can be put
  before rows of another: of one that was typed and has landed meanwhile, or of
  the old one when the page is asked for under a typed filter whose refresh is
  still due or, while paused, never comes. `shown.mixed` remembers that it
  happened, and `ShownIsAsked` speaks of the views in which it did not.
- `ControlConnection!TeardownStopsThem`: a read error leaves the loop by `?` and
  aborts nothing. A second subscription under an id orphans the task of the first; `DrainEnds`
  is therefore stated for connections that do not reuse ids.
- `CaptureFilter!NegationKeepsTheRest`, `ValidFilterRuns`: a negated token drops
  rows whose column is NULL, `rule:` and `mime:` excepted; a value of commas
  validates and does not prepare.
- `CaptureWatch!ReadyHears`: `ready` is printed before the subscription is made.

Further facts met on the way, none of them a property here: the header of
`patch.rs` says a failed operation skips the rest, the loop goes on; a `set`
that fails half way leaves the objects it created; a body that claims JSON and
does not parse drops status and header patches too; `rules.rs` compares without
case where the window's preview does not; `import` can stop half way and a
second import duplicates; `only` that fails between its two halves leaves
everything off; a logcat dump brings back lines that were pruned or cleared.
A route that moves between two enables strands the service that was left; in a filter the window
cannot compile an `app:` term is dropped, and `AppNarrows` speaks of the others; `rm --with-rules`
deletes a rule that was taken out of the collection after the rules were listed, so `RmTakesNoOther` excepts
what the window touched; a status patch below 100 is stored as it stands; a patch on `body[0]` means
an element of the root, a condition on it a field called `body`; an event whose filter cannot be evaluated is withheld
like one that does not match (`subscription.rs`), which `NothingLostSilently` counts as withheld;
an exchange that ends on a `?` leaves its row in flight for good (`OnlyDroppedStayOpen` says that
nothing else does); a wait whose filter describes rows only until they have an answer (`!mime:`) may, when more than
2000 rows match, report one that was over before.

**Bounds.** Two ports for three or four phones is the smallest pool in which a
label, a free port, an exhausted pool and a return to a free port all occur.
One port in `wiring` keeps its two phones in competition, and two callers
are what it takes for one to overtake the other between any two commands.
Counters (`MaxRestarts`, `MaxToggles`, `MaxClicks`, `MaxUnplugs`, `MaxTorn`,
`MaxEdits`, `MaxClears`, `MaxEvents`) bound how often the *environment* acts,
and liveness is about what happens once it stops. A bus and a queue of one place make every
overflow and every wait happen with three events. One connection at a time and
one rotation suffice for interception because connections meet only in the
learned set, which outlives them, and rotations meet in the database; the
theorems lift both. Rules are two because a switch must leave the other alone; captures
four because the newest two are listed and a wait needs rows beyond them. A subscription in `process` has one id,
so its guard against reused ids says nothing there. A JA3 fingerprint keeps the order of a hello's extensions, which a
client that permutes them varies: `Stack` is a constant per client, so such a client is several. Patterns, bodies and lists of patches
are all those up to the length at which two parts of a pattern can overlap, and an array can
close a gap. Constants named in the theorems of section 4 have no bound there.

**Fairness.** `WatchdogSpec`: weak fairness of each caller's next step (a
spawned tokio task that is not blocked runs), strong fairness of taking a
serial lock for callers other than the watchdog (`tokio::sync::Mutex` is FIFO,
the watchdog alone uses `try_lock` and comes back without bound), strong
fairness of the watchdog's commands taking effect: a command retried for ever works in the end;
without it no re-sync could be shown to help. `LifecycleFairness`: a
call that has begun goes on, a signalled loop ends. `ControlFairness`: tasks
run, a client that is there reads, a semaphore that is FIFO lets a finished
request in. `StreamFairness`: the task and a start under way go on, and
`select!` picks the stop in the end. `SacrificeEnds` needs none: it says that
infinitely many sacrifices take infinitely many resets. Nothing is assumed of
the user, the switch, the cable, a client or a crash.

`CHECK_DEADLOCK FALSE` is used where the system may really stop: when the
bounded starts, commands or captures are over and everybody rests.

## 4. What is proved

With TLAPS, for every value of the constants that meets the named assumptions
of the modules. `PROJECT.json` lists each theorem with the property it states.

- **Registry**: `RegistryTypeCorrect`, `LabelsAreSound` (`AttributionSound`),
  `OnlyFallbackIsShared`, `PortsAreStable`. Labels are not inductive alone:
  they need the types, and that sharing happens on the fallback port only.
- **Device manager**: `PairingTypeCorrect`, `PairedLabelsAreSound`
  (`AttributionSound` of the registry it uses); `CallersAreDisciplined` and
  `NeverProxyWithoutTunnel` (`TunnelUnderProxy`) for any number of callers and phones
  whose cable stays in, if the command that clears the setting does not fail: its
  error is discarded in the code and the tunnel removed all the same. `PairInv`
  adds the lock discipline; a step touches one phone, whose lock its caller
  holds, and other callers hold the locks of other phones.
- **Device manager, where a stamp comes from**: `WrongStampsHaveCauses`
  (`WrongStampHasACause`) and `RemovalIsComplete` (`RemovedIsClean`), for any callers, phones,
  ports and restarts, late commands, and failures of every command but the one that clears the setting. No
  behaviour is excluded: the invariant is kept phone by phone, and what it says of a phone
  weakens with what befell that phone, `overlap`, `restart` or `stray`. It joins what
  holds of a phone and the one caller at work on it: a tunnel leads to the booked port, a removed phone
  is clean, the operation fits the row, a caller that wires has its booking, a teardown clears
  before it gives back. `dm_stale_port` and `dm_failed_setup` show that `overlap` and `stray` are
  no empty exceptions.
- **Host capture**: `HostTypeCorrect`, `HostInvariant`, `SnapshotsAreTheirs`
  (`SnapshotIsTheirs`), `NobodyStranded` (`NotStranded`) and `HostLeftClean`
  (`HostIsLeftClean`), for any callers and services, whatever is enabled or restored twice, fails, quits or is
  killed, as long as none of the three lapses happened. The invariant `HostInv` says that wherever the
  Mac differs from what the user had, somebody holds what to restore: the
  snapshot, a call that is restoring, or a process that will start again. Each lapse is one of the code's own:
  `host_stop_race` is a trace with `overlap`.
- **Lifecycle**: `LifecycleTypeCorrect`, `NoEngineIsLost` (`NoOrphanEngine`) for
  any overlap of starts and stops: each step that takes away one of an engine's
  keepers hands it to the next or signals it.
- **Instance**: `InstanceTypeCorrect`, `InstancesNeverCollide`
  (`InstancesCoexist`) for any number of processes and guests. The invariant:
  only the holder of the lock lives or has a hand on the files (`OwnersInv`), a
  process that serves has a live socket and `control.json` names it
  (`ServingInv`), and a guest that saw an instance throughout found one (`GuestInv`).
- **Control connection**: `ControlTypeCorrect`, `EveryEventIsAccountedFor`
  (`NothingLostSilently`) for any bus, queue, subscriptions and requests. The
  argument is a chain, kept while the writer is up (`ChainInv`): each queued
  line of a stream follows on those before it (`QueueFollows`), the line in the
  hands of the task on the queue (`HandFollows`), and what the task has read is
  queued, in its hands or withheld (`ReadIsTold`). To follow on means that what
  lies between is withheld or counted as lost; a filter withholds for good,
  since a cleared row does not come back. One lemma says that a step elsewhere
  leaves a chain alone, and one for each way a chain moves: read, sent, written, subscribed.
- **Logcat stream**: `StreamTypeCorrect`, `NoStreamIsLost` (`RunningIsListed`):
  a start that finds a sender in the table drops it, and a dropped sender is a stop.
- **Interception**: `InterceptionTypeCorrect`; `KeyringNeverMisses`
  (`CurrentHasKey`) and `CrashesKeepTheCa` (`RestartKeepsTheCa`) from
  what is true of the keys (`KeysInv`) and of the one current certificate; a start goes on with what was
  there unless a revocation was not followed by its insert, by a crash (`cut`) or a failing write (`failed`),
  rotations overlapped, or what it found is an Ed25519 certificate. `NoTunnelWithoutReason`
  (`TunnelsAreEarned`) from `EarnedInv`. For any clients, connections and rotations.
- **Rule library**: `RowsAreWellFormed` with `OffCarriesNoMemory`, which is
  what makes a switch mean the same after any history; `BulkSwitchIsExact`
  (`BulkIsTheSingleSwitch`); `LibraryKeepsItsPromise` (`TargetsSpec`): every
  switch, edit, deletion, cut-short write and removal is a step of `RuleTargets` or leaves
  the targets alone; `NothingElseMovesTargets` (`EditsAreMeant`). For any
  rules, collections and devices, if no rule is named like a phone.
- **Command line**: `CliTypeCorrect`; `CommandsMeanIt` (`CommandsDoWhatTheySay`)
  for any collections, rules, names and edits; `RmTakesNoOther` is the part that says what must survive. The invariant says what each call
  leaves for the next one: `OnlyInv` that everything the window left alone is off until
  the collection is switched on; `RmInv` that what the collection had is in it,
  then on the list of deletions, then gone; `RefsInv` that the collections an
  import made are distinct and hold nothing but its own rules; `MadeInv` that those are
  where the file has them. The two rest on ids being fresh: the smallest unused
  one exists (least counterexample) and no rule lies in a collection that is not there.

- **Rule matching**: `GlobIsExact` for any pattern and text: the greedy cursor
  accepts exactly what has a cut. If it accepts, the places where it stopped are a
  cut (`GreedyIsSound`); if there is a cut, the cursor is never behind it
  (`GreedyIsComplete`). `MatchingMeansIt` (`MatchingIsExact`) and `ExtrasAreAllowed`
  (`ExtrasKeepTheMock`) for any rules, requests and additions: a new key or element hangs
  below nothing that was there and keeps the body a tree, so what a rule read is still
  there and reads the same. The matcher and the splitting of a pattern are recursive
  functions: that they exist and what they compute is shown by induction on sets of
  numbers (`Induction`, `StepByStep`), which needs no operator as a parameter.
- **Patches**: `PatchInvariant` and `PatchesKeepTheirWord` (`PatchesDoWhatTheySay`)
  for any bodies, paths, values and lists of operations, failed ones included. `Tree`
  says of a body that every node hangs on its parent and that the children of an
  array are a row 0..m-1. A value put at a `Place` leaves a tree (`PutKeepsTree`), so
  does a key that is cut (`CutIsTree`); when an element goes, what stood behind it moves
  down one, and nothing lands on what stayed (`DownGoes`, `ShiftIsTree`). The walk
  to the parent of the last step (`Walking`, by induction on its length) turns a
  node into an object only where what the path spares does not run through it
  (`AsObjectKeeps`). `ApplyBodyIsSound` joins the three operations.

- **Recording**: `ExchangeTypeCorrect`; `ForeignKeys` (`ForeignKeysHold`): no row names a
  row that is gone, whatever order exchanges, replays, the editor and Clear write in;
  `RowsAreTrue` (`RowsTellTheTruth`). For any exchanges,
  replays, rules and bodies. The invariant follows an exchange statement by
  statement: which rows and bodies it counts on at each of them, unless a Clear ran beneath it.
- **Capture filter**: `NegationIsExact` (`NegationSplits`), `ListedRowsStay`
  (`ListedStaysListed`), for any filters, values, requests, responses and endings that meet the schema
  (`FilterAssumption`: which columns are NOT NULL, and which are NULL until the
  end). What is proved is a fact about each key in three-valued logic, and one about each
  step of an exchange. `Placeholders` names what the second excepts: state and size until the end,
  method and path until the request is read (`size:..1000` lists a row in flight and may drop it).
- **Waiting for captures**: `WaitsAreExact` (`WaitingIsExact`) for any captures,
  filter, feed and list limit. `FeedInv` says that what is queued is
  over, queued once and not counted yet; `PollInv` that a row which was over
  when the wait began is in its baseline or has as many newer matching rows above it as
  the list shows, so that it is never listed.
- **Log lines**: `StoreTypeCorrect`; `RetentionIsExact` (`PruneIsExact`) for any
  cap, chunk and phones: `TrimInv` says that as many lines as the cap allows lie above
  the floor of a trim until a Clear overtakes it. That a floor exists, the
  smallest id of the lines that are kept, is an induction on the naturals by least
  counterexample. `WindowIsAsked` (`ShownIsAsked`) for any filters, limits and
  pages, over a table that only grows or is cleared: `LatestInv` says that the
  latest refresh asks with the typed filter unless one is due or a message is shown (any query
  may fail, `SqlRefuses` names the filters whose queries must), `PagesInv` that each
  page in flight is a gapless window on the rows (`AnswersFit`), that an older page ends
  where the view begins as long as nothing replaced it (`OlderFits`), and the view
  itself (`ShownFits`). New rows get larger ids, so none appears inside a window.
  A query's answer in order is a rank function, shown to be a bijection by
  counting. `AppTermsNarrow` (`AppNarrows`) and `GoneAppsStay`
  (`HistoryStays`) for any filters, rows and process ids, if `APP_NO_MATCH_PID` is
  nobody's pid. That Rust's regular expressions and the window's find the same lines is not claimed: the rows
  are chosen by SQL alone.

Model-checked only: liveness (`RunningHeals`, `StoppedFrees`, `LabelsHeal`,
`StoppedFreesPorts`, `StreamsEnd`, `DrainEnds`, `SacrificeEnds`), since liveness
under fairness and ENABLED are outside the prover's reach. Every other property
of a passing run is stated by a theorem of `PROJECT.json`.

## 5. What is not modelled

- *Companion app and heartbeat*: its effect on a phone is an action of
  DeviceManager; the connection with its reconnects is not a module. A handler
  that outlives the listener goes on answering; the effect (the app notices late or never) is in
  the choice of when `HelperClearsProxy` happens.
- *iOS pairing*, the best-effort commands of a set-up, the pump that republishes
  engine events, the leaf cache, the framing of bodies and the tunnels' bytes.
- *Parsers and formatters*: the tokenisers of both filter languages, the output of the command
  line, mobileconfig, IPC types, export formats.
- *One-shot input and output and static data*: setup server, QR codes,
  pinning list, migrations, settings and sessions.
- *Web server, window, release site*: the first is a request handler over the
  same dispatch as the control socket; the lists of the window query again on every event, which
  CaptureWatch and LogcatView model for two other readers; the release site is
  deployed apart.

What would add most next: the heartbeat's connection composed with
DeviceManager in place of `HelperClearsProxy`; `Exchange` composed with `Interception` through the label of a port,
which moves while a connection lives.

## 6. Running it

    tlc -config wiring.cfg MCWiring.tla
    tlapm ControlConnectionProofs.tla

`PROJECT.json` gives the module of each configuration, the code each definition
stands for, the findings, the hazards and the theorems.
