# SurfWright, specified

SurfWright drives Chrome for agents from a command line. A command is a short
process; it may be executed by a long-lived daemon that keeps browser connections
warm, and everything it must remember lives in files that all processes share.
What is hard about the program is therefore not in any single command but between
them: commands, the daemon and maintenance workers run side by side, are killed at
any moment, and agree with each other through lock files, metadata files and
timeouts. This directory models that part of the code in TLA+, together with what the
commands themselves do in which order.

All modules are read from the source under `src/` of the repository; `PROJECT.json`
maps each definition to the lines it stands for.

## 1. Inventory

| component | state | operations | hard about it | correct means |
|---|---|---|---|---|
| Lane scheduler `core/daemon/domain/lane-scheduler.ts` | Map of lanes (queue, active flag), cursor, active count, wait timers | enqueue, schedule, wait timeout, completion | timers against dispatch; the order shifts under the cursor; wakeups through one flag | one command per lane, caps, nothing lost or run twice, no starvation |
| Lane keys `lane-key-resolver.ts` | – | argv → lane | the lane comes from the words, the session from words and state | commands of one session do not overlap |
| Runtime pool `core/session/infra/runtime-pool.ts` | Map key → entry (state, borrow count, strikes, promise, browser) | acquire, release, handleTimeout, drain | every `await` lets other commands in; entries live on after they left the Map | no browser closed under a borrower, counts right, bounded, joiners wake |
| State lock `core/state/infra/state-lock.ts` | `state.lock` | create, name, clear stale, wait, remove | check and unlink are two steps; owners die | one owner |
| State store and shards `state-store.ts`, `state-shards.ts` | `meta.json`, `sessions.json`, ... | read, updateState, allocate ids | unlocked reads, a file at a time; optimistic retries; crash between files | unique ids, no lost update |
| Daemon client `core/daemon/infra/daemon.ts`, `cli.ts` | `daemon.json`, `daemon.start.lock`, retry counter | start a daemon, send a request, fall back to local | start races, refused connections, timeouts after which the work goes on | a command runs at most once, and always ends |
| Daemon worker `worker.ts`, `worker-request-orchestrator.ts` | sockets in flight, idle timer, shutting-down flag | serve, idle shutdown, cleanup of `daemon.json` | shutdown against requests; ownership of `daemon.json` | no request abandoned, every worker retires |
| Metadata hygiene `metadata-hygiene.ts` | the same two files | sweep | judged by path, removed by path | a starting daemon is not disturbed |
| Session lifecycle `core/session/public.ts`, `core/browser.ts`, `core/target/infra/targets.ts` | session records, Chrome processes, ports | ensure, new, attach, use, clear, sessions of actions | check, await for seconds, store; browsers die, hang and restart on other ports | no Chrome runs that nobody knows of |
| Maintenance `core/state/infra/` | session records, processes, kick lock and stamp, directories | prune, park, clear, kick, disk prune | decides on a snapshot, acts later | nothing in use is dropped or removed |
| Profile locks `core/profile/infra`, `core/workspace/infra` | lock file and meta file per profile, its Chrome | open a profile, clear its lock | stale clearing; the start of a Chrome under the lock | one process at work, meta tells the truth |
| Extension registry `core/extensions/infra/registry.ts` | `extensions.json` | load, reload, uninstall, launch | unlocked read-modify-write, torn reads | a record changes only on purpose |
| Network capture `core/target/infra/network` | capture record, signal files, detached recorder | begin, record, end | start timeout while the recorder comes up; torn files; kills | reports are true, recorders end |
| Target operations `core/target` | pages in Chrome, one lease | click, fill, dialog, download, eval, ... | late checks, events awaited after the act, evaluations taken up again | the code says what happened to the page |
| Pipeline, plan lint `core/pipeline`, `core/pipeline-support` | plan, variables, target | lint, run | the linter sees text, the executor values | what passes the linter runs |
| Update manager `core/update/infra/manager.ts` | installed version, `history.json` | run, roll back | install, check, revert and record can each fail | the history says what is installed |
| Skill manager `core/skills/infra/manager.ts` | installed directory, copies beside it, lock file | install, update, doctor | a rename or removal that fails, crashes, overlapping installs | a skill stays installed, as the lock says |
| Request context, diagnostics, CLI options | – | – | – | not modelled, see section 5 |

How they meet: the CLI process (`cli.ts`) asks the daemon client for an outcome.
The client reads `daemon.json`, starts a worker under `daemon.start.lock` if there
is none, and sends one request per connection. The worker resolves a lane key and
hands the command to the lane scheduler, which runs it in the daemon's process; the
command borrows a browser from the runtime pool. If the daemon is unreachable, the
CLI process runs the command itself. Either way commands read and update the
state store, whose lock is the only thing they share with commands in other
processes. Some systems keep files of their own beside the store, with locks of
their own or none: profiles, extensions, updates, captures, maintenance.

The hazards of this code, each with its line and the property that would notice, are
listed in `PROJECT.json`.

## 2. Modules

| module | models | runs |
|---|---|---|
| `LaneService` | what the scheduler promises (abstract) | refined by `LaneScheduler` |
| `LaneScheduler` | `lane-scheduler.ts` | `lanes` |
| `RuntimePool` | `runtime-pool.ts` | `pool_safety`, `pool_double_warm` |
| `StateStore` | `state-lock.ts`, `state-shards.ts`, `state-store.ts` | `store_safety`, `store_lost_update` |
| `DaemonLifecycle` | `daemon.ts`, `daemon-meta.ts`, `daemon-transport.ts`, `worker.ts`, `metadata-hygiene.ts`, `cli.ts` | `daemon_safety`, `daemon_liveness`, `daemon_session_serial` |
| `SessionLifecycle` | `session/public.ts`, `browser.ts`, session part of `targets.ts`, session clear, prune, idle parking | `session` |
| `ProfileSession` | `profile-session.ts`, `profile-locks.ts` | `side_files` |
| `ExtensionRegistry` | `registry.ts` | `side_files` |
| `UpdateManager` | `update/infra/manager.ts` | `side_files` |
| `SkillInstall` | `skills/infra/manager.ts` | `side_files`, `skill_swap_restores` |
| `MaintenanceKick` | `opportunistic-maintenance.ts` | `side_files` |
| `DiskPrune` | `disk-prune.ts` | `side_files` |
| `NetworkCapture` | `target-network-capture.ts`, `network-capture-repo.ts` | `commands` |
| `TargetFlows`, `TargetActions` | the handlers of `core/target`, and `open` | `commands` |
| `PipelineRun` | `core/pipeline`, `core/pipeline-support` | `commands` |
| `LaneKeys` | `lane-key-resolver.ts`, and how the handlers find their session | `commands` |
| `*Proofs` | theorems about all of them but `TargetFlows`, which has no state | – |
| `MC*` | the finite instances; `MCSideFiles` and `MCCommands` put several modules into one run | |

Definitions under a comment `MUTANT` are plausible bugs; no action uses them. For
each property of each passing run `PROJECT.json` names one that breaks it.
Variables called history (`stolen`, `seized`, `mixed`, `torn`, `drifted`, `behind`, `misread`, `misses`,
`excused`, ...) are not in the program: they record that one of the known races
happened, and are what a property excepts. `PROJECT.json` maps each definition to the
lines it stands for.

### LaneScheduler

State: `laneOrder` (the keys of the Map in insertion order), `queue`, `active`,
`activeLaneCount`, `cursor`, the reentrancy flag `scheduling`, `tasks` (dispatched,
their `finally` still to come) and `phase`, what a caller knows of its request.
JavaScript runs a callback to completion, so a callback is one action; only the loop
in `schedule` is one action per iteration (`Dispatch`, `StopScheduling`), during which
nothing else is enabled. A wait timer may fire at any moment at which its task is
queued. `compactLane` is part of the callbacks that call it (`Compact`).

The scheduler is not a strict round robin. Deleting a lane shifts the ones behind it
under the cursor, so that a waiting lane can be passed by the same other lane more
than once. It is still starvation free, which is what `cli-and-daemon.md` says and
`lanes` checks.

### RuntimePool

Entries are heap objects, named by key and number, since a command may hold one
that has left the Map. An action is a callback with the promise continuations due
after it (the joiners of a warm-up continue together with the command that started
it). `connectOverCDP`, `browser.close()` and the cancellation callback are awaits, and what
follows them is an action of its own. A transition the code does not allow is an
exception: the command ends in `crashed`. `handleTimeout` and
`drainColdEntriesOnMemoryPressure` are called only by tests today; the processes in
`Keepers` stand for a caller of them, and `Suspects` are the sessions it signals. The
pool's keys in production are derived from the browser's origin, so `AcquireMismatch`
needs the pool's own interface, as its tests use it.

`PoolIsBounded` is weaker than one expects. `finalizeClosedEntry` deletes the key of
its entry whatever the Map holds there. Say two commands evict, and the first, back
from its await, puts an entry over the victim of the second. If that entry fails to
warm, its key goes and the pool may be filled up by others before the second eviction
ends, which then adds its entry without looking. So `maxEntries` can be exceeded, but
by less than one entry per command.

### StateStore

One action per file operation. A process makes one `updateState`: it reads the
revision and the shards, mutates its copy, takes the lock, compares the revision and
writes meta, sessions and targets, in this order. Two shards stand for five:
captures and artifacts are read and written between them in the same way. A crash may
come between any two operations; the process does not come back, and its lock is
stale. `stolen` is history: somebody unlinked the lock of a live process. That takes
a crash and two waiters which both saw the dead lock. What the lock protects is
claimed as long as this has not happened, and `OneWriter` shows that nothing else
can take a lock from a live process.

### DaemonLifecycle

Clients run one command each, all of one session and so of one lane. `site` is the
call of `readAliveDaemonMeta` a client is in, `seen` the metadata it holds, `request`
its request as the worker sees it. `daemon.json` is written in two steps, as
`writeFileSync` does; a reader in between finds it `Torn` and removes it. `Faults`
says what may go wrong: `start` (spawn, listen, readiness), `timeout` (of a request),
`idle` (the worker's idle shutdown), `crash` (of clients and workers), `sweep` (a maintenance
worker removes metadata and start locks that it judged dead before). `excused` are the
clients of which nothing better can be promised: their request timed out, or their
worker was killed while it had the command.

Left out: request contents, frames with a bad token, `shutdown` requests (nothing in
`src/` sends one but `stopDaemonIfRunning`, which has no caller), half-open sockets,
and a lock file whose creator died before writing its pid.

### SessionLifecycle

A command reads the state file, awaits browsers for seconds, and then changes the
state in one `mutateState`; an action is what happens between two awaits. `sessions`
and `active` are the state file, `proc` the Chrome processes with the port each was
first started on, `cmd` what each command holds in memory: the snapshot `snap` it
decided on, the `pid` it started, the processes it is to `stop`. Chrome is external:
it may come up late, hang, crash or never answer. The steps inside a mutation are
`StateStore`'s concern, and a mutation here is one step. `misses` counts the prunes
that found a session silent. Not in the model: the window between the probe of a free
port and its use, and the reuse of a pid.

### Systems on files of their own

`ProfileSession`: one profile, its lock file (created, then written), its meta file and
its Chromes. An action is one system call on a shared file or what happens between two
awaits. `seized` says that somebody removed a lock that was not its to remove: by
`--force`, or because a judged lock had been replaced before it was removed by path.

`ExtensionRegistry`: `extensions.json` is read whole, changed and written in two steps
(truncate, write). A torn file reads as an empty registry. `build` stands for what a
directory holds (manifest, files, fingerprint).

`UpdateManager`: npm, doctor and the history file, one step each; `mixed` says that two
commands overlapped or one ended half way.

`SkillInstall`: one destination and the lock file that records what should be there.
One step per call on the file system; a skill is what its directory holds, and `Scrap`
what a removal that failed half way leaves. Any call may fail, and any installer may die.
`torn` says that an installer died or could not put back what it had moved away;
`drifted`, that two overlapped, that a source changed while it was read, or that a command
ended between the swap and the lock file.

`MaintenanceKick`: the lock file with its age, the stamp file, a clock of a few ticks.

`DiskPrune`: the artifacts of one directory with time and size; profile directories with
an age of two values; the snapshot of the sessions; commands that launch and record
sessions meanwhile. `KeptBytes` is the running total of the loop over the artifacts.

### Commands

`NetworkCapture`: the record in the store, the four files, `network-begin`, the detached
recorder and any number of `network-end`s. Files are written in two steps, of which the
first leaves them torn. Any process may be killed anywhere.

`TargetFlows` gives each handler as the sequence of its stages in the order of its code,
and `TargetActions` says what a stage can do: pass with or without effects on the page,
or end the command with a code. An effect is one input the page has received. Commands
run in the worker, which all of them share, or in a process of their own. A waiter armed
before an act (dialog, new page, download) can be rejected while nobody listens, which
takes the process down.

`PipelineRun`: plans of one or two steps, with every step kind and every shape of the
field of interest, in the linter (text) and in the executor (values, after templates).
`LintCommon` ... and `RunLoop`, `ExecuteQuery` ... are the two tables of accepted shapes.

`LaneKeys`: a command's words are a record, from which `LaneKey` derives the lane;
dispatch lets one command per lane in (what `LaneService` promises), and the handler
finds its session from the words and the state.

## 3. Runs

| run | instance | states | shows |
|---|---|---|---|
| `lanes` | 3 callers, 3 lanes of which `a` may stall, 2 active, depth 2 | 122 k | types, serial lanes, one place per request, no lost wakeup, refinement of `LaneService`, no starvation |
| `pool_safety` | 2 commands, 1 keeper, 4 sessions (one at two origins, timeouts on two), 2 entries | 2.0 M | counts, open browsers, right browser and session, bound, joiners |
| `pool_double_warm` | the same without keeper | – | **violated**: `NoSameKeyDoubleWarm` |
| `store_safety` | 3 processes, 2 attempts, 1 crash | 106 k | lock, ids, retries |
| `store_lost_update` | 2 processes, no crash | – | **violated**: `NoLostUpdates` |
| `daemon_safety` | 3 clients, 1 worker, every fault, 1 client crash, the sweep | 2.9 M | exclusive starts, at most once, true outcomes, no abandoned request |
| `daemon_liveness` | 2 clients, 2 workers, faults but crashes and sweeps | 292 k | every command ends, every worker retires |
| `daemon_session_serial` | 2 clients, 1 worker, no fault | – | **violated**: `SameSessionIsSerialized` |
| `session` | 2 commands at a time, 3 in all, 2 sessions, 3 Chromes, 2 heartbeats, 1 event | 3.1 M | types, with the active session among the records, leaks have known causes, prune is patient |
| `side_files` | 3 processes on one profile, on two extensions of one name, on the kick; 2 updates with histories up to 3; prune of 3 artifacts and 2 profiles; 2 installers of 2 skills | 3.0 M | exclusive profile, true meta, records change on purpose, true history, a skill stays installed, spaced kicks, prune removes garbage and no profile in use |
| `skill_swap_restores` | 1 installer, 2 skills | – | **violated**: `FailedSwapsAreUndone` |
| `commands` | 1 capture with 2 ends; 2 commands on pages; plans of 1–2 steps; 2 clients on lanes | 1.3 M | true reports, outcomes describe effects, quiet ends, sound linter, lanes keep sessions apart, recorders answer |

Why the bounds are enough to be interesting:

* Lanes: three lanes for two places make one wait, and a deletion shifts a waiting lane.
  With three callers a lane can have a command whose `finally` is still to come, a full
  queue and a refused caller.
* Pool: two entries for four sessions force evictions, and let the pool fill up behind
  an eviction whose victim is gone (three sessions do not); one session at two origins
  makes mismatches. Two commands and the keeper race for one entry. `MaxCopies` is a
  bound of the model: an assumption makes it large enough never to be felt. A
  threshold of two strikes, two keepers and three commands were explored by
  simulation, without a new result.
* Store: two attempts let a process be spoilt once and try again, or fail. Three
  processes are what clearing a stale lock twice takes.
* Daemon: with three clients two wait while the third dies with the start lock. Two
  workers are enough for one that nobody names and one that is current.
  `MaxRetries = 1` (code: 2) has a retry and an exhausted budget. Three clients with
  two workers and no retries were explored as well, and for liveness two clients with one
  worker and every fault, and with two workers and the sweep: no error.
* Sessions: `Ids = {d, s}` has the default session and another. Two commands race on
  one record, and the third operation comes before or after them; `MaxPid = 3` allows
  two starts at once and a restart; `MaxClock = 2` two heartbeats that differ;
  `MaxEvents = 1` one crash, hang or expiry; `SweepCap = 1` a parking run that leaves
  one session to the next. Three commands were explored by simulation.
* Side files: of three processes one leaves a lock behind and two judge it. Three
  versions, of which one fails `doctor`, and three entries let a rollback follow an
  update that was undone. Two skills let the lock differ from what is installed, and two
  installers overlap at every step. Two extensions with one name make the lookup by name
  ambiguous.
* Commands: one command of every kind beside one of the kinds that can disturb another
  (click, dialog, download, eval). A plan of a step of any shape, alone or after one
  that succeeds, reaches every check of linter and executor; three attempts of a
  repeat-until are a first, a middle and a last one. Two network-ends race for one
  capture. Two clients on lanes suffice for a property of pairs; the theorem is for any
  number.

`CHECK_DEADLOCK FALSE` stands in the runs of the store, the daemon, sessions, side files
and commands: there every process ends after what it has to do, or a bound is reached.
The scheduler and the pool run for ever. Symmetry is used in safety runs only.

`MCSideFiles` and `MCCommands` put systems that share nothing into one state space:
`system` says which of them a behavior is about, and the others stand still.

### Disagreements found

1. **Double warm-up** (`runtime-pool.ts:304`). `acquire` looks up the key, awaits an
   eviction, and stores a new entry without looking again. Two acquires of one session
   that both evict warm two entries; `cli-and-daemon.md:125` promises "no same-key
   double warm". For the same reason, and because a finalized entry deletes its key
   whatever the Map holds there (`runtime-pool.ts:109`), the pool can exceed
   `maxEntries` (`cli-and-daemon.md:115`); `PoolIsBounded` says by how much.
2. **Lost update** (`state-shards.ts:208`, `state-store.ts:126-127`). The meta shard,
   with the new revision, is written first, and readers take no lock. A process that reads
   between this write and the next ones has the new revision and the old sessions; its
   revision check passes and its commit removes the other's session.
3. **Same session twice at once** (`daemon.ts:236`, `daemon.ts:411`). `daemon.json` names a
   worker before it listens. A second command is refused, removes the file and runs
   locally; the first finds no file after its worker became ready, and runs locally
   too. No fault is needed. `cli-and-daemon.md:94` promises that the same session stays
   serialized across processes.
4. **Failed swap that is not undone** (`skills/infra/manager.ts:241`). The removal of the
   old skill is in the same `try` as the renames. If it fails, the command reports a
   failed swap while the new skill is in place and the lock still names the old one;
   `skills-lifecycle.md:36` says that the previous install is restored.

Several properties state what holds together with what does not: their exceptions are
the known gaps. `LanesKeepSessionsApart` excepts commands that come to one session in
different ways, since lanes are derived from words and not from sessions
(`lane-key-resolver.ts:146`); `LeaksHaveKnownCauses` lists the ways in which a Chrome is
forgotten; `LintIsSound` the shapes that pass the linter and fail in the run;
`OutcomesDescribeEffects` the checks made after the first effect; `EndedCommandsAreQuiet`
the waiters nobody attends; `HoldersAreExclusive`, `KicksAreSpaced`, `StartsAreExclusive`
and `OneWriter` the locks removed by path after they were judged.

### Fairness

* `lanes`: the loop in `schedule` goes on (weak fairness). Due callbacks run
  eventually; other callbacks may come first and `schedule` disables them meanwhile,
  hence strong fairness for `finally` and for the end of commands, except in
  `Stallable` lanes. Wait timers get no fairness, although they always fire, so
  that progress is owed to the scheduler and not to timeouts.
* `daemon_liveness`: processes that can take a step take one; the deadline for
  the start lock expires (strong: the waiting client is in and out of the step where
  the deadline is checked); idle timers expire; commands end (each has its own
  timeout). Faults are never fair, and a retired worker need not exit: the
  code closes no pooled browser connection on shutdown, so its process may live on.
* `commands`: the recorder of a capture takes its next step (`CaptureFairness`): it runs
  on its own and all its waits have deadlines. No command is fair: one that goes no
  further has been killed.

## 4. Proofs

Eight modules hold proofs, two of them for several components. Every safety property of
every passing run is proved. Each component has one inductive invariant, one lemma per action (or per group of actions
that disturb the same parts), and theorems that follow from it.
Constants are only restricted by the named assumptions of the modules: limits are
positive numbers, as the constants in the code are; the sets of processes are finite
where something is counted (`CallersAssumption`, `FiniteAssumption`); values such as
`None` differ from what they stand beside; `CopiesAssumption` gives the pool a name for
each new object; `KeysAssumption` keeps the ids of clients and of named sessions apart.

| module | theorems | properties |
|---|---|---|
| `LaneSchedulerProofs` | `TypeCorrect`, `Serialized`, `OnePlace`, `WakeupsAreKept`, `Implements` | all of `lanes` but `UnrelatedLanesAreServed` |
| `StateStoreProofs` | `TypeCorrect`, `LockExcludes`, `IdsUnique`, `ConflictsCommit`, `OrdinalsCover`, `RevisionsRise` | all of `store_safety`; the last two in addition |
| `RuntimePoolProofs` | `PoolTypeCorrect`, `LoansAreSafe`, `LeasesAreRight`, `WarmUpsWakeAll`, `PoolStaysBounded` | all of `pool_safety` |
| `DaemonLifecycleProofs` | `DaemonTypeCorrect`, `StartersExcluded`, `RunsAtMostOnce`, `ReportsAreTrue`, `RequestsAreServed` | all of `daemon_safety` |
| `ProfileSessionProofs` | `ProfileLockExcludes`, `MetaIsNotStale` | `HoldersAreExclusive`, `MetaNamesLastChrome` |
| `SessionLifecycleProofs` | `SessionTypeCorrect`, `PruneWaits`, `LeaksAreKnown` | all of `session` |
| `ProfileSessionProofs` | `ProfileLockExcludes`, `MetaIsNotStale` | `HoldersAreExclusive`, `MetaNamesLastChrome` |
| `SideFileProofs` | `Spaced`, `SkillStays`, `HistoryStaysTrue`, `PurposeOnly`, `OnlyGarbageGoes`, `SideTypeCorrect` | all others of `side_files` |
| `CommandProofs` | `ReportsAreTrue`, `SessionsKeptApart`, `LintedPlansRun`, `OutcomesTellTheTruth`, `EndedStaysQuiet`, `CommandsTypeCorrect` | all of `commands` but `RecordersAnswer` |

**Lanes.** The invariant is the four properties together and the finiteness of `tasks`.
None is inductive alone. That a lane has one task needs that
`active` tells the truth; that a caller has one running task needs that it is queued
in one place only; that a deleted lane is not needed again needs that the Map holds
exactly the busy lanes; that the caps hold needs the count to be the number of tasks.
Under it are lemmas about sequences without repetition (`RemoveAtOne`, `AppendNew`,
`ShiftFirst`), about the scan (`ScanPositionInRange`) and about compaction
(`CompactProperties`). The refinement maps each action to the service's action of the
same meaning; `StopScheduling` and `Release` are stutters; that the service's limit on
running commands is kept needs `LanesAreSerialized`.

**Store.** The invariant adds what a process has in memory. If the revision on disk is
still the one it read (`ReadsAreFresh`), its ordinal is the one on disk and its sessions
are below it, since the meta shard, with a new revision, is written before the
sessions: exactly the order that loses updates keeps the ids unique. Bases are never
newer than the disk, and equal to it before the first write (`BasesAreOld`); ids that
are in `meta.json` are below its ordinal and differ (`IdsAreTaken`,
`TakenIdsDiffer`). `AllocatedIsFree` shows that the
search for an id ends in the range it looks at (pigeonhole, and the least free number).
`OneWriter` rests on itself alone: a lock is created when there is none, and unlinked by
its owner, for a dead owner, or with `stolen` set.

**Pool.** `PoolInv` says what each await refers to (`Shapes`), that an entry is warming
exactly while one command connects it, for the origin its joiners asked for (`WarmUps`),
and that `borrowCount` is the number of holders (`Counts`). An idle entry therefore has
no holder, and closing its browser is seen by nobody (`CloseIsUnseen`). That a new object
always has a name is a pigeonhole argument (`NameIsLeft`). For the bound of the size the
invariant counts *claims* (`Claims`): the keys of the Map, and the evictors whose victim
has left it. A deleted key turns into the claim of the one command that evicts what was
there (`DeletedKey`, `Evictions`); an eviction that ends trades its claim for a key
(`EvictDoneKeepsSize`); only a warm-up adds a claim, and then the pool is not full and
the other commands have one claim each (`AcquireWarmKeepsSize`).

**Daemon.** `DaemonInv` says who holds the start lock (`LockOK`), ties where a client is
to the state of its request and to how often its command ran (`LifeOK`: a relation per
client, since a client's commands are run by itself or for it), and that whoever waits
has a worker that still serves (`ServedOK`).

**Sessions.** `Shape` says what a command holds at each of its places: which of
snapshot, pid, findings and processes to stop are set. A Chrome that anybody names was
started (`BornPart`), and one that a clear has stopped does not come back (`StoppedPart`).
Heartbeats are given out once: the one that a command is about to record is ahead of the
records and unknown to every prune (`SeenPart`, `StampsPart`), so that an unchanged
heartbeat means that nobody has reached the session meanwhile. `MissesPart` relates the
count in a record to the prunes that found the session silent, those under way included.
A Chrome that is forgotten is forgotten by one of the steps that the property names, or
had been stopped before.

**Profile.** Unless a lock was seized, whoever is at work owns the lock and whoever was
judged is gone (`LockPart`); then the holder may count on what it saw between two of
its steps: its probe saw the meta file there is, and the Chrome it started is the last
(`ChromePart`).

**Kick.** Whoever goes on to write the stamp owns the lock and has seen the slot before
long enough ago (`LockIsHeld`, `SlotIsFree`).

**Skill.** If nothing is installed any more, some installer has the old skill as a backup
and is on its way to one of the two renames (`KeptPart`, `CopiesPart`); for a command
that runs alone each step says where the recorded skill is (`SerialPart`).

**Updates.** As long as commands run to their end and one at a time (`OneUpdater`), an
entry starts from the version that the one before ended with, unless it undoes a version
that failed `doctor` (`Chained`), and what an update replaced had passed
(`ReplacedSound`). Each step of a command says what is installed and how the history ends
there (`InItsPlace`); when nobody works, a version that passed is installed, and it is the
one of the last entry (`AtRest`). `EntryFollows` shows that the entry that a command
appends keeps the chain. The last update, which a rollback looks for, exists if there is
any: `LeastNumber` turns the library's theorem on well-founded orders into the principle of
the least number, and takes the update nearest to the end (`LastUpdatedFound`).

**Registry.** A file that parses holds what was last written whole, and so does what a
command goes by, if it read it so and no other command has written since (`WholeIsRead`);
a command changes only its own record of that.

**Prune.** For the profiles: while a prune is between its snapshot and its listing, the
directory of a session that it does not know is young (`InUseIsYoung`), so that what it
dooms is unused or was launched later (`DoomedIsUnused`). For the artifacts the running
total of the loop has to be the size of what stays (`KeptBytesAreKept`), a fact about two
recursive functions. Both recursions are shown to define a function (`SumExists`,
`KeptBytesUnfold`); then a sum does not depend on the order in which it is taken
(`BytesWithout`), and the totals agree tick by tick. Each induction is an argument by a
smallest counterexample (`LeastNumber`, `SmallestSet`).

**Capture.** Files start clean, readiness is written after listening, done after the
result, and what a network-end read is still there (`FilesStartClean`,
`ReadinessIsEarned`, `DoneIsLast`, `AnswersAreKept`).

**Pages.** `ActionsInv` has a clause per command: it is at a stage of its kind's flow
(`InPlace`); it has sent no more inputs than the stages so far ask for (`WithinPlan`), or
it has repeated one, once, which only a click and an evaluation do (`RepeatsOnce`); past
its act it has sent at least one (`HasActed`); a waiter is armed by the stage that arms
it and pending up to the await (`WaiterPart`); and a command that refuses has sent nothing
yet, but for the stages that check late (`RefusalPart`). `FlowsAreSound` looks at the 51
flows once, for what these clauses need of a sequence of stages; the steps then need no
case per kind.

**Plans.** What runs has passed the linter (`RunsLinted`), and the field of the step that
runs is the one of the plan, its template resolved (`FieldIsWritten`). `LintedExecutes`
compares the tables of the linter and of the executor: a value that the linter has looked
at and accepted is one that the executor takes, but for the shapes in `Gaps`.

**Lanes and sessions.** Commands at work have different lanes
(`LanesDiffer`), what a command makes is its own (`FreshIsOwn`), and what it asks for
never changes.

**Side by side.** `EachOnItsOwn` and `SideBySide` show that a behavior of `MCCommands` or
`MCSideFiles` is a behavior of each system in it. What is proved of the systems holds
there too, and the type invariants of the two instances follow from those of the parts.

Checked by TLC only: liveness (`UnrelatedLanesAreServed`, `CommandsEnd`, `WorkersRetire`,
`RecordersAnswer`), because fairness and ENABLED are beyond the proof system.

## 5. Not modelled

* What the manifest of a skill must say, and two skill installs in one millisecond, which
  would share the name of their backup.
* Request context and diagnostics: settings carried along, and best-effort logs.
* Declarations of CLI options, help, printing, the wording of reports.
* Parsing and normalising of stored records, and repositories that only map them.
* Target prune and state reconcile drop records in one mutation of one copy.
* `run --doctor`, plan recording and the run log.
* What a command reads from a page: selectors, extraction, snapshots. A page does what a
  stage asks for, or not.
* Time: a deadline may pass at any moment, an age has two or three values, and intervals
  of the kick are ticks.
* In the state store: captures, artifacts and the split of targets by session, which are
  read and written between the shards of the model; reset and snapshots.
* In the daemon: `shutdown` requests, bad tokens and half-open sockets.
* Benchmarks, scripts and tests of the repository.
