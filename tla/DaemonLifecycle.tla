--------------------------- MODULE DaemonLifecycle ---------------------------
(****************************************************************************)
(* CLI commands and the daemon: runViaDaemon and startDaemon                *)
(* (core/daemon/infra/daemon.ts), the files daemon.json (daemon-meta.ts)    *)
(* and daemon.start.lock, the worker process (worker.ts) and the fallback   *)
(* to local execution (cli.ts).                                             *)
(*                                                                          *)
(* A client is a CLI process that runs one command; all commands are for    *)
(* one session, hence one lane of every worker.  A worker is identified     *)
(* with its pid, port and token.  Every file operation, every message and   *)
(* every turn of a worker's event loop that matters is one action.          *)
(*                                                                          *)
(* Left out: the contents of requests and responses, and what the worker    *)
(* answers to requests no client sends (bad tokens, shutdown, half-open     *)
(* connections); the limits of the lane (LaneScheduler: a queued request    *)
(* may fail at any time here); commands that bypass the daemon; a lock file *)
(* left without a pid.  A worker's idle timer may fire at any time.  The    *)
(* maintenance worker sweeps the same two files (metadata-hygiene.ts).      *)
(*                                                                          *)
(* Definitions marked MUTANT are defects a change could introduce; no action *)
(* uses them.                                                               *)
(****************************************************************************)
EXTENDS Integers, FiniteSets

CONSTANTS
  Clients,
  Workers,
  MaxRetries,    \* DAEMON_QUEUE_RETRY_MAX_ATTEMPTS
  Faults,        \* what may go wrong: a subset of AllFaults
  MaxCrashes,    \* clients that may crash; bounds the model
  None,          \* no file; no worker
  Torn           \* daemon.json between its truncation and its write

AllFaults == {"start", "timeout", "crash", "idle", "sweep"}

ASSUME ParametersAssumption ==
  /\ MaxRetries \in Nat /\ MaxCrashes \in Nat
  /\ Faults \subseteq AllFaults
  /\ None # Torn /\ {None, Torn} \cap (Clients \cup Workers) = {}

VARIABLES
  meta,        \* daemon.json: None, Torn or the worker it names
  startLock,   \* daemon.start.lock: None or the client that created it
  worker,      \* per worker: its state
  pc,          \* per client: its next step
  site,        \* per client: which call of readAliveDaemonMeta it is in
  seen,        \* per client: `meta` in memory, the worker it deals with
  request,     \* per client: its request, as the worker sees it
  retries,     \* per client: `attempt` of runViaDaemon
  sweeper,     \* the file that a maintenance worker is about to unlink
  runs,        \* per client: how often its command was started
  excused,     \* clients whose request timed out or whose worker was killed
  stolen       \* some client has unlinked the start lock of a live one

files == <<meta, startLock>>
history == <<runs, excused, stolen>>
vars == <<files, worker, pc, site, seen, request, retries, sweeper, history>>

Serving == {"listening", "closing"}
Alive == {"starting", "cleanup", "unlinking", "exiting"} \cup Serving
InFlight == {"queued", "running", "answered", "overloaded"}
Ended == {"done", "overloaded", "dead"}

\* from creating the start lock to removing it
StartSteps == {"spawn", "truncate", "fill", "ping", "give_up", "release",
               "release_failed"}

-----------------------------------------------------------------------------
(* Helpers *)

GoTo(p, step) == pc' = [pc EXCEPT ![p] = step]
Request(p, state) == request' = [request EXCEPT ![p] = state]
StartCommand(p) == runs' = [runs EXCEPT ![p] = @ + 1]

ReadAt(p, call) ==
  /\ GoTo(p, "read")
  /\ site' = [site EXCEPT ![p] = call]

\* the worker's sockets: clients that wait for its response
Sockets(w) == {p \in Clients : pc[p] = "waiting" /\ seen[p] = w
                               /\ request[p] \in InFlight \cup {"connected"}}

\* the requests a worker still has to execute
Pending(w) == {p \in Clients : seen[p] = w /\ request[p] \in {"queued", "running"}}

\* a start lock whose owner has died (clearStaleDaemonStartLock's tests)
Stale(owner) == owner # None /\ pc[owner] = "dead"

-----------------------------------------------------------------------------
(* readAliveDaemonMeta, and where its five calls continue:                  *)
(*   probe    runViaDaemon, at the start                                    *)
(*   loop     startDaemon, before it tries to create the lock               *)
(*   recheck  startDaemon, holding the lock                                 *)
(*   last     startDaemon, after the deadline                               *)
(*   after    runViaDaemon, after startDaemon returned true                 *)

OnMeta(p) ==
  CASE site[p] \in {"probe", "after"} -> GoTo(p, "send") /\ UNCHANGED site
    [] site[p] \in {"loop", "last"}   -> ReadAt(p, "after")
    [] site[p] = "recheck"            -> GoTo(p, "release") /\ UNCHANGED site

OnNoMeta(p) ==
  CASE site[p] = "probe"              -> ReadAt(p, "loop")
    [] site[p] = "loop"               -> GoTo(p, "lock") /\ UNCHANGED site
    [] site[p] = "recheck"            -> GoTo(p, "spawn") /\ UNCHANGED site
    [] site[p] \in {"last", "after"}  -> GoTo(p, "local") /\ UNCHANGED site

\* the file names a live process, or there is none, or it has to be removed
ReadMeta(p) ==
  /\ pc[p] = "read"
  /\ \/ /\ meta \in {w \in Workers : worker[w] \in Alive}
        /\ seen' = [seen EXCEPT ![p] = meta]
        /\ OnMeta(p)
     \/ /\ meta = None
        /\ OnNoMeta(p)
        /\ UNCHANGED seen
     \/ /\ meta = Torn \/ meta \in {w \in Workers : worker[w] \notin Alive}
        /\ GoTo(p, "drop")
        /\ UNCHANGED <<site, seen>>
  /\ UNCHANGED <<files, worker, request, retries, history, sweeper>>

\* removeDaemonMeta unlinks whatever file is there by now
DropMeta(p) ==
  /\ pc[p] = "drop"
  /\ meta' = None
  /\ OnNoMeta(p)
  /\ UNCHANGED <<startLock, worker, seen, request, retries, history, sweeper>>

-----------------------------------------------------------------------------
(* startDaemon: the start lock *)

CreateLock(p) ==
  /\ pc[p] = "lock"
  /\ startLock = None
  /\ startLock' = p
  /\ ReadAt(p, "recheck")
  /\ UNCHANGED <<meta, worker, seen, request, retries, history, sweeper>>

\* the lock is held: wait and try again, reading daemon.json first
LockRetry(p) ==
  /\ pc[p] = "lock"
  /\ startLock # None /\ ~Stale(startLock)
  /\ ReadAt(p, "loop")
  /\ UNCHANGED <<files, worker, seen, request, retries, history, sweeper>>

\* DAEMON_START_LOCK_TIMEOUT_MS is over
LockDeadline(p) ==
  /\ pc[p] = "lock"
  /\ startLock # None
  /\ ReadAt(p, "last")
  /\ UNCHANGED <<files, worker, seen, request, retries, history, sweeper>>

\* clearStaleDaemonStartLock reads the lock and decides to unlink it
InspectLock(p) ==
  /\ pc[p] = "lock"
  /\ Stale(startLock)
  /\ GoTo(p, "unlink_lock")
  /\ UNCHANGED <<files, worker, site, seen, request, retries, history, sweeper>>

\* ... and unlinks whatever lock is there by now
UnlinkLock(p) ==
  /\ pc[p] = "unlink_lock"
  /\ startLock' = None
  /\ stolen' = (stolen \/ (startLock # None /\ ~Stale(startLock)))
  /\ ReadAt(p, "loop")
  /\ UNCHANGED <<meta, worker, seen, request, retries, runs, excused, sweeper>>

\* MUTANT
ReleaseLockEarly(p) ==
  /\ pc[p] \in {"release", "release_failed", "spawn"}
  /\ startLock' = None
  /\ IF pc[p] = "release" THEN ReadAt(p, "after")
     ELSE GoTo(p, IF pc[p] = "spawn" THEN "spawn" ELSE "local") /\ UNCHANGED site
  /\ UNCHANGED <<meta, worker, seen, request, retries, history, sweeper>>

\* releaseDaemonStartLock, in the finally: unlinks the file whoever created it
ReleaseLock(p) ==
  /\ pc[p] \in {"release", "release_failed"}
  /\ startLock' = None
  /\ stolen' = (stolen \/ (startLock \notin {None, p} /\ ~Stale(startLock)))
  /\ IF pc[p] = "release" THEN ReadAt(p, "after")
                          ELSE GoTo(p, "local") /\ UNCHANGED site
  /\ UNCHANGED <<meta, worker, seen, request, retries, runs, excused, sweeper>>

-----------------------------------------------------------------------------
(* startDaemon: spawning a worker *)

Spawn(p) ==
  /\ pc[p] = "spawn"
  /\ \E w \in Workers :
       /\ worker[w] = "none"
       /\ worker' = [worker EXCEPT ![w] = "starting"]
       /\ seen' = [seen EXCEPT ![p] = w]
  /\ GoTo(p, "truncate")
  /\ UNCHANGED <<files, site, request, retries, history, sweeper>>

\* spawn yields no pid; also when the model has no worker left
SpawnFails(p) ==
  /\ pc[p] = "spawn"
  /\ "start" \in Faults \/ \A w \in Workers : worker[w] # "none"
  /\ GoTo(p, "release_failed")
  /\ UNCHANGED <<files, worker, site, seen, request, retries, history, sweeper>>

\* writeDaemonMeta opens (truncates or creates) the file
TruncateMeta(p) ==
  /\ pc[p] = "truncate"
  /\ meta' = Torn
  /\ GoTo(p, "fill")
  /\ UNCHANGED <<startLock, worker, site, seen, request, retries, history, sweeper>>

\* ... and writes it, to no effect if the file was unlinked meanwhile (unless
\* another client created it again, which takes a stolen start lock)
FillMeta(p) ==
  /\ pc[p] = "fill"
  /\ meta' = IF meta = None THEN None ELSE seen[p]
  /\ GoTo(p, "ping")
  /\ UNCHANGED <<startLock, worker, site, seen, request, retries, history, sweeper>>

\* waitForDaemonReady gets its pong
Ready(p) ==
  /\ pc[p] = "ping"
  /\ worker[seen[p]] = "listening"
  /\ GoTo(p, "release")
  /\ UNCHANGED <<files, worker, site, seen, request, retries, history, sweeper>>

\* the worker is gone: a waiting client notices, and nothing more happens to
\* the requests it had
Kill(w) ==
  /\ worker' = [worker EXCEPT ![w] = "dead"]
  /\ request' = [p \in Clients |->
       IF seen[p] # w \/ request[p] = "none" THEN request[p]
       ELSE IF pc[p] = "waiting" THEN "closed" ELSE "none"]
  /\ excused' = excused \cup {p \in Clients :
       seen[p] = w /\ request[p] \in {"running", "answered"}}

\* MUTANT
NotReadyWhileStarting(p) ==
  /\ pc[p] = "ping"
  /\ "start" \in Faults
  /\ worker[seen[p]] = "starting"
  /\ Kill(seen[p])
  /\ GoTo(p, "give_up")
  /\ UNCHANGED <<files, site, seen, retries, runs, stolen, sweeper>>

\* it gets none for DAEMON_STARTUP_TIMEOUT_MS and kills the worker
NotReady(p) ==
  /\ pc[p] = "ping"
  /\ "start" \in Faults \/ worker[seen[p]] \notin {"starting", "listening"}
  /\ IF worker[seen[p]] \in Alive
     THEN Kill(seen[p])
     ELSE UNCHANGED <<worker, request, excused>>
  /\ GoTo(p, "give_up")
  /\ UNCHANGED <<files, site, seen, retries, runs, stolen, sweeper>>

GiveUp(p) ==
  /\ pc[p] = "give_up"
  /\ meta' = None
  /\ GoTo(p, "release_failed")
  /\ UNCHANGED <<startLock, worker, site, seen, request, retries, history, sweeper>>

-----------------------------------------------------------------------------
(* runViaDaemon: the request, and the outcomes *)

Connect(p) ==
  /\ pc[p] = "send"
  /\ worker[seen[p]] = "listening"
  /\ Request(p, "connected")
  /\ GoTo(p, "waiting")
  /\ UNCHANGED <<files, worker, site, seen, retries, history, sweeper>>

\* nobody listens on the port (yet, or any more)
Refused(p) ==
  /\ pc[p] = "send"
  /\ worker[seen[p]] # "listening"
  /\ GoTo(p, "catch")
  /\ UNCHANGED <<files, worker, site, seen, request, retries, history, sweeper>>

Answered(p) ==
  /\ pc[p] = "waiting"
  /\ request[p] = "answered"
  /\ Request(p, "none")
  /\ GoTo(p, "done")
  /\ UNCHANGED <<files, worker, site, seen, retries, history, sweeper>>

\* MUTANT
OverloadedOnceMore(p) ==
  /\ pc[p] = "waiting"
  /\ request[p] = "overloaded"
  /\ Request(p, "none")
  /\ IF retries[p] <= MaxRetries
     THEN GoTo(p, "send") /\ retries' = [retries EXCEPT ![p] = @ + 1]
     ELSE GoTo(p, "overloaded") /\ UNCHANGED retries
  /\ UNCHANGED <<files, worker, site, seen, history, sweeper>>

\* E_DAEMON_QUEUE_TIMEOUT or E_DAEMON_QUEUE_SATURATED
Overloaded(p) ==
  /\ pc[p] = "waiting"
  /\ request[p] = "overloaded"
  /\ Request(p, "none")
  /\ IF retries[p] < MaxRetries
     THEN GoTo(p, "send") /\ retries' = [retries EXCEPT ![p] = @ + 1]
     ELSE GoTo(p, "overloaded") /\ UNCHANGED retries
  /\ UNCHANGED <<files, worker, site, seen, history, sweeper>>

\* the socket is closed before a response
Closed(p) ==
  /\ pc[p] = "waiting"
  /\ request[p] = "closed"
  /\ Request(p, "none")
  /\ GoTo(p, "catch")
  /\ UNCHANGED <<files, worker, site, seen, retries, history, sweeper>>

\* DAEMON_REQUEST_TIMEOUT_MS: the client hangs up, the worker goes on.  Only a
\* running request lives that long, the queue wait is 2 s.
RequestTimeout(p) ==
  /\ "timeout" \in Faults
  /\ pc[p] = "waiting"
  /\ request[p] = "running"
  /\ excused' = excused \cup {p}
  /\ GoTo(p, "catch")
  /\ UNCHANGED <<files, worker, site, seen, request, retries, runs, stolen, sweeper>>

\* the catch: daemon.json is removed, whichever worker it names by now
Catch(p) ==
  /\ pc[p] = "catch"
  /\ meta' = None
  /\ GoTo(p, "local")
  /\ UNCHANGED <<startLock, worker, site, seen, request, retries, history, sweeper>>

\* cli.ts: every "unreachable" outcome ends in runLocalCommand
RunLocally(p) ==
  /\ pc[p] = "local"
  /\ StartCommand(p)
  /\ GoTo(p, "local_running")
  /\ UNCHANGED <<files, worker, site, seen, request, retries, excused, stolen, sweeper>>

EndLocally(p) ==
  /\ pc[p] = "local_running"
  /\ GoTo(p, "done")
  /\ UNCHANGED <<files, worker, site, seen, request, retries, history, sweeper>>

\* the client process is killed
ClientCrash(p) ==
  /\ "crash" \in Faults
  /\ Cardinality({q \in Clients : pc[q] = "dead"}) < MaxCrashes
  /\ pc[p] \notin Ended
  /\ GoTo(p, "dead")
  /\ UNCHANGED <<files, worker, site, seen, request, retries, history, sweeper>>

-----------------------------------------------------------------------------
(* The worker: requests *)

\* the request line arrives and is put into the session's lane
Enqueue(p) ==
  /\ request[p] = "connected"
  /\ worker[seen[p]] = "listening"
  /\ Request(p, "queued")
  /\ UNCHANGED <<files, worker, pc, site, seen, retries, history, sweeper>>

\* the lane serves one request at a time
Start(p) ==
  /\ request[p] = "queued"
  /\ worker[seen[p]] \in Alive
  /\ \A q \in Pending(seen[p]) : request[q] = "queued"
  /\ Request(p, "running")
  /\ StartCommand(p)
  /\ UNCHANGED <<files, worker, pc, site, seen, retries, excused, stolen, sweeper>>

Finish(p) ==
  /\ request[p] = "running"
  /\ worker[seen[p]] \in Alive
  /\ Request(p, "answered")
  /\ UNCHANGED <<files, worker, pc, site, seen, retries, history, sweeper>>

\* MUTANT
QueueFailsWhileRunning(p) ==
  /\ request[p] \in {"queued", "running"}
  /\ worker[seen[p]] \in Alive
  /\ Request(p, "overloaded")
  /\ UNCHANGED <<files, worker, pc, site, seen, retries, history, sweeper>>

\* the lane rejects the request, or its queue wait is over
QueueFails(p) ==
  /\ request[p] = "queued"
  /\ worker[seen[p]] \in Alive
  /\ Request(p, "overloaded")
  /\ UNCHANGED <<files, worker, pc, site, seen, retries, history, sweeper>>

-----------------------------------------------------------------------------
(* The worker: its life *)

Listen(w) ==
  /\ worker[w] = "starting"
  /\ worker' = [worker EXCEPT ![w] = "listening"]
  /\ UNCHANGED <<files, pc, site, seen, request, retries, history, sweeper>>

\* server.listen fails
ListenFails(w) ==
  /\ "start" \in Faults
  /\ worker[w] = "starting"
  /\ worker' = [worker EXCEPT ![w] = "cleanup"]
  /\ UNCHANGED <<files, pc, site, seen, request, retries, history, sweeper>>

\* MUTANT
BeginShutdownClosingAll(w) ==
  /\ "idle" \in Faults
  /\ worker[w] = "listening"
  /\ worker' = [worker EXCEPT ![w] = "closing"]
  /\ request' = [p \in Clients |-> IF p \in Sockets(w) THEN "closed" ELSE request[p]]
  /\ UNCHANGED <<files, pc, site, seen, retries, history, sweeper>>

\* MUTANT
BeginShutdownIfNamed(w) ==
  /\ "idle" \in Faults
  /\ worker[w] = "listening"
  /\ meta = w
  /\ worker' = [worker EXCEPT ![w] = "closing"]
  /\ request' = [p \in Clients |->
       IF seen[p] # w \/ request[p] # "connected" THEN request[p]
       ELSE IF pc[p] = "waiting" THEN "closed" ELSE "none"]
  /\ UNCHANGED <<files, pc, site, seen, retries, history, sweeper>>

\* the idle timer fires: stop listening, destroy the sockets not in flight
BeginShutdown(w) ==
  /\ "idle" \in Faults
  /\ worker[w] = "listening"
  /\ worker' = [worker EXCEPT ![w] = "closing"]
  /\ request' = [p \in Clients |->
       IF seen[p] # w \/ request[p] # "connected" THEN request[p]
       ELSE IF pc[p] = "waiting" THEN "closed" ELSE "none"]
  /\ UNCHANGED <<files, pc, site, seen, retries, history, sweeper>>

\* MUTANT
CloseServerAtOnce(w) ==
  /\ worker[w] = "closing"
  /\ worker' = [worker EXCEPT ![w] = "cleanup"]
  /\ UNCHANGED <<files, pc, site, seen, request, retries, history, sweeper>>

\* the server's "close" event, after the last socket is gone
CloseServer(w) ==
  /\ worker[w] = "closing"
  /\ Sockets(w) = {}
  /\ worker' = [worker EXCEPT ![w] = "cleanup"]
  /\ UNCHANGED <<files, pc, site, seen, request, retries, history, sweeper>>

\* cleanupOwnedDaemonMeta: the file must name this worker (readDaemonMeta
\* removes a torn one)
CleanupMeta(w) ==
  /\ worker[w] = "cleanup"
  /\ worker' = [worker EXCEPT ![w] = IF meta \in {w, Torn} THEN "unlinking" ELSE "exiting"]
  /\ UNCHANGED <<files, pc, site, seen, request, retries, history, sweeper>>

UnlinkMeta(w) ==
  /\ worker[w] = "unlinking"
  /\ meta' = None
  /\ worker' = [worker EXCEPT ![w] = "exiting"]
  /\ UNCHANGED <<startLock, pc, site, seen, request, retries, history, sweeper>>

\* the process ends once it has nothing left to execute
Exit(w) ==
  /\ worker[w] = "exiting"
  /\ Pending(w) = {}
  /\ worker' = [worker EXCEPT ![w] = "dead"]
  /\ UNCHANGED <<files, pc, site, seen, request, retries, history, sweeper>>

WorkerCrash(w) ==
  /\ "crash" \in Faults
  /\ worker[w] \in Alive
  /\ Kill(w)
  /\ UNCHANGED <<files, pc, site, seen, retries, runs, stolen, sweeper>>

-----------------------------------------------------------------------------
(* sweepDaemonMetadata, of a maintenance worker                             *)

\* it has read the file, which is torn or names a dead process
SweepMeta ==
  /\ "sweep" \in Faults
  /\ sweeper = "off"
  /\ meta = Torn \/ meta \in {w \in Workers : worker[w] \notin Alive}
  /\ sweeper' = "meta"
  /\ UNCHANGED <<files, worker, pc, site, seen, request, retries, history>>

\* shouldRemoveStartLock: its owner has died, however young it is
SweepLock ==
  /\ "sweep" \in Faults
  /\ sweeper = "off"
  /\ Stale(startLock)
  /\ sweeper' = "lock"
  /\ UNCHANGED <<files, worker, pc, site, seen, request, retries, history>>

\* removeFileIfPresent, whatever file is there by now
SweepUnlink ==
  /\ sweeper # "off"
  /\ meta' = IF sweeper = "meta" THEN None ELSE meta
  /\ startLock' = IF sweeper = "lock" THEN None ELSE startLock
  /\ stolen' = (stolen \/ (startLock' # startLock /\ ~Stale(startLock)))
  /\ sweeper' = "off"
  /\ UNCHANGED <<worker, pc, site, seen, request, retries, runs, excused>>

-----------------------------------------------------------------------------
(* Specification *)

Init ==
  /\ meta = None
  /\ startLock = None
  /\ worker = [w \in Workers |-> "none"]
  /\ pc = [p \in Clients |-> "read"]
  /\ site = [p \in Clients |-> "probe"]
  /\ seen = [p \in Clients |-> None]
  /\ request = [p \in Clients |-> "none"]
  /\ retries = [p \in Clients |-> 0]
  /\ sweeper = "off"
  /\ runs = [p \in Clients |-> 0]
  /\ excused = {}
  /\ stolen = FALSE

StartDaemon(p) ==
  \/ CreateLock(p)
  \/ LockRetry(p)
  \/ LockDeadline(p)
  \/ InspectLock(p)
  \/ UnlinkLock(p)
  \/ Spawn(p)
  \/ SpawnFails(p)
  \/ TruncateMeta(p)
  \/ FillMeta(p)
  \/ Ready(p)
  \/ NotReady(p)
  \/ GiveUp(p)
  \/ ReleaseLock(p)

RunViaDaemon(p) ==
  \/ ReadMeta(p)
  \/ DropMeta(p)
  \/ Connect(p)
  \/ Refused(p)
  \/ Answered(p)
  \/ Overloaded(p)
  \/ Closed(p)
  \/ Catch(p)
  \/ RunLocally(p)
  \/ EndLocally(p)

Serve(p) ==
  \/ Enqueue(p)
  \/ Start(p)
  \/ Finish(p)
  \/ QueueFails(p)

RetireWorker(w) ==
  \/ Listen(w)
  \/ BeginShutdown(w)
  \/ CloseServer(w)
  \/ CleanupMeta(w)
  \/ UnlinkMeta(w)

Next ==
  \/ \E p \in Clients : \/ StartDaemon(p)
                        \/ RunViaDaemon(p)
                        \/ RequestTimeout(p)
                        \/ ClientCrash(p)
                        \/ Serve(p)
  \/ \E w \in Workers : \/ RetireWorker(w)
                        \/ ListenFails(w)
                        \/ Exit(w)
                        \/ WorkerCrash(w)
  \/ SweepMeta
  \/ SweepLock
  \/ SweepUnlink

Spec == Init /\ [][Next]_vars

\* Clients and workers do not stand still; the deadline for the start lock and
\* the idle timer are timers that expire; commands end.  Nothing that may go
\* wrong has to, and a retired worker need not exit.
FairSpec ==
  /\ Spec
  /\ \A p \in Clients : /\ WF_vars(StartDaemon(p) \/ RunViaDaemon(p))
                        /\ SF_vars(LockDeadline(p))
                        /\ WF_vars(Serve(p))
  /\ \A w \in Workers : WF_vars(RetireWorker(w))

-----------------------------------------------------------------------------
(* Properties *)

\* Type invariant.
TypeOK ==
  /\ meta \in Workers \cup {None, Torn}
  /\ startLock \in Clients \cup {None}
  /\ worker \in [Workers -> Alive \cup {"none", "dead"}]
  /\ pc \in [Clients -> Ended \cup StartSteps \cup
       {"read", "drop", "lock", "unlink_lock", "send", "waiting", "catch",
        "local", "local_running"}]
  /\ site \in [Clients -> {"probe", "loop", "recheck", "last", "after"}]
  /\ seen \in [Clients -> Workers \cup {None}]
  /\ request \in [Clients -> InFlight \cup {"none", "connected", "closed"}]
  /\ retries \in [Clients -> 0..MaxRetries]
  /\ sweeper \in {"off", "meta", "lock"}
  /\ runs \in [Clients -> 0..2]
  /\ excused \subseteq Clients
  /\ stolen \in BOOLEAN

\* Only the client that owns the start lock spawns a worker and writes its
\* daemon.json, unless a stale lock was cleared twice: also while maintenance
\* sweeps the locks of the dead.
StartsAreExclusive ==
  ~stolen => \A p \in Clients : pc[p] \in StartSteps => startLock = p

\* The fallback executes a command a second time only if its request timed out
\* or its worker was killed: idle shutdowns, refused connections, destroyed
\* sockets and queue retries never make it run twice.
AtMostOnce == \A p \in Clients : runs[p] > 1 => p \in excused

\* A command that is reported done was executed, one that is reported as
\* overloaded was not and will not be, although its client sent it several times.
OutcomesAreTrue ==
  \A p \in Clients :
    /\ pc[p] = "done" => runs[p] > 0
    /\ pc[p] = "overloaded" => runs[p] = 0 /\ request[p] = "none"

\* A worker that shuts down waits for the requests in flight: a client that
\* waits for one has a worker that serves it.
NoRequestIsAbandoned ==
  \A p \in Clients :
    pc[p] = "waiting" /\ request[p] # "closed" => worker[seen[p]] \in Serving

\* "Daemon is optional and must not wedge": every command ends, whatever
\* happens to the daemon, the files and the other clients.
CommandsEnd == \A p \in Clients : <>(pc[p] \in Ended)

\* Every worker that was spawned stops serving some day, also one that no
\* daemon.json names any more.
WorkersRetire ==
  \A w \in Workers : worker[w] = "starting" ~> worker[w] \in {"exiting", "dead"}

\* cli-and-daemon.md:94 says "per-session lane concurrency: `1` (same session
\* stays serialized cross-process)".
SameSessionIsSerialized ==
  \A p, q \in Clients :
    /\ pc[p] = "local_running" \/ request[p] = "running"
    /\ pc[q] = "local_running" \/ request[q] = "running"
    => p = q
=============================================================================
