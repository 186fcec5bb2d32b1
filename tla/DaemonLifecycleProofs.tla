------------------------- MODULE DaemonLifecycleProofs --------------------------
(****************************************************************************)
(* Theorems about CLI commands and the daemon, for every number of clients  *)
(* and workers, every limit of retries and everything that may go wrong.    *)
(****************************************************************************)
EXTENDS DaemonLifecycle, TLAPS

Steps ==
  Ended \cup StartSteps \cup
    {"read", "drop", "lock", "unlink_lock", "send", "waiting", "catch",
     "local", "local_running"}
Sites == {"probe", "loop", "recheck", "last", "after"}
Requests == InFlight \cup {"none", "connected", "closed"}
Lives == Alive \cup {"none", "dead"}

\* The types, but for the bound of runs, which LifeOK gives.
FileTypes == meta \in Workers \cup {None, Torn} /\ startLock \in Clients \cup {None}
WorkerTypes == worker \in [Workers -> Lives]
StepTypes == pc \in [Clients -> Steps] /\ site \in [Clients -> Sites]
SeenTypes == seen \in [Clients -> Workers \cup {None}]
RequestTypes == request \in [Clients -> Requests] /\ retries \in [Clients -> 0..MaxRetries]
HistoryTypes ==
  /\ sweeper \in {"off", "meta", "lock"} /\ runs \in [Clients -> Nat]
  /\ excused \subseteq Clients
StolenType == stolen \in BOOLEAN

Types ==
  /\ FileTypes /\ WorkerTypes /\ StepTypes /\ SeenTypes /\ RequestTypes /\ HistoryTypes
  /\ StolenType

\* from creating the start lock to removing it, the reading in between included
Owner(p) == pc[p] \in StartSteps \/ (pc[p] \in {"read", "drop"} /\ site[p] = "recheck")

LockOK == ~stolen => \A p \in Clients : Owner(p) => startLock = p

Before == {"read", "drop", "lock", "unlink_lock", "send"} \cup StartSteps

\* How often the command of a client at step `at` was started, whose request is
\* in state req: a request that may still be executed, and a client that may
\* still run it locally, have never run it, but for the excused.
Life(at, req, n, late) ==
  /\ at \in Before => n = 0 /\ req = "none"
  /\ at = "waiting" =>
       /\ req # "none"
       /\ req \in {"running", "answered"} => n = 1
       /\ req \in {"connected", "queued", "overloaded"} => n = 0
       /\ req = "closed" => n = 0 \/ (n = 1 /\ late)
  /\ at \in {"catch", "local"} =>
       \/ n = 0 /\ req = "none"
       \/ n = 1 /\ late /\ req \in {"none", "running", "answered"}
  /\ at \in {"local_running", "done"} =>
       /\ n = 1 \/ (n = 2 /\ late)
       /\ req \in {"none", "running", "answered"}
  /\ at = "overloaded" => n = 0 /\ req = "none"
  /\ at = "dead" =>
       /\ n \in {0, 1} \/ (n = 2 /\ late)
       /\ req \in {"connected", "queued"} => n = 0

LifeOK == \A p \in Clients : Life(pc[p], request[p], runs[p], p \in excused)

\* who deals with a worker, and what for
ServedOK ==
  \A p \in Clients :
    /\ pc[p] \in {"send", "waiting"} => seen[p] \in Workers
    /\ pc[p] = "waiting" /\ request[p] # "closed" => worker[seen[p]] \in Serving

DaemonInv == Types /\ LockOK /\ LifeOK /\ ServedOK

LEMMA InitDaemonInv ==
  ASSUME Init
  PROVE  DaemonInv
<1> USE DEF Init
<1>1. FileTypes /\ WorkerTypes /\ SeenTypes
  BY DEF FileTypes, WorkerTypes, SeenTypes, Lives
<1>4. StepTypes
  BY DEF StepTypes, Steps, Sites
<1>5. RequestTypes
  BY ParametersAssumption DEF RequestTypes, Requests
<1>6. HistoryTypes /\ StolenType
  BY DEF HistoryTypes, StolenType
<1>2. LockOK /\ ServedOK
  BY DEF LockOK, ServedOK, Owner, StartSteps
<1>3. LifeOK
  BY DEF LifeOK, Life, Before, StartSteps
<1> QED
  BY <1>1, <1>2, <1>3, <1>4, <1>5, <1>6 DEF DaemonInv, Types

-----------------------------------------------------------------------------
(* Types                                                                    *)


LEMMA GoToTypes ==
  ASSUME StepTypes, NEW p \in Clients, NEW step \in Steps, GoTo(p, step), UNCHANGED site
  PROVE  StepTypes'
BY DEF StepTypes, GoTo

LEMMA ReadAtTypes ==
  ASSUME StepTypes, NEW p \in Clients, NEW call \in Sites, ReadAt(p, call)
  PROVE  StepTypes'
BY DEF StepTypes, ReadAt, GoTo, Steps

LEMMA StepsAreTyped ==
  ASSUME Types, Next
  PROVE  StepTypes'
<1> USE DEF Types
<1>u. "read" \in Steps /\ "drop" \in Steps /\ "lock" \in Steps /\ "send" \in Steps
      /\ "local" \in Steps /\ "release" \in Steps /\ "spawn" \in Steps
      /\ "overloaded" \in Steps
  BY DEF Steps, StartSteps, Ended
<1>v. \A call \in {"probe", "loop", "recheck", "last", "after"} : call \in Sites
  BY DEF Sites
<1>1. ASSUME NEW p \in Clients, OnMeta(p)
      PROVE  StepTypes'
  BY <1>1, <1>u, <1>v, GoToTypes, ReadAtTypes DEF OnMeta, StepTypes, Sites
<1>2. ASSUME NEW p \in Clients, OnNoMeta(p)
      PROVE  StepTypes'
  BY <1>2, <1>u, <1>v, GoToTypes, ReadAtTypes DEF OnNoMeta, StepTypes, Sites
<1>3. ASSUME NEW p \in Clients, StartDaemon(p)
      PROVE  StepTypes'
  <2>1. CASE CreateLock(p) \/ LockRetry(p) \/ LockDeadline(p) \/ UnlinkLock(p)
    BY <1>v, <2>1, ReadAtTypes DEF CreateLock, LockRetry, LockDeadline, UnlinkLock
  <2>2. CASE ReleaseLock(p)
    BY <1>u, <1>v, <2>2, ReadAtTypes, GoToTypes DEF ReleaseLock
  <2>3. CASE \/ InspectLock(p) \/ Spawn(p) \/ SpawnFails(p) \/ TruncateMeta(p) \/ FillMeta(p)
             \/ Ready(p) \/ NotReady(p) \/ GiveUp(p)
    <3>1. PICK step \in {"unlink_lock", "truncate", "release_failed", "fill", "ping",
                         "release", "give_up"} : GoTo(p, step) /\ UNCHANGED site
      BY <2>3 DEF InspectLock, Spawn, SpawnFails, TruncateMeta, FillMeta, Ready, NotReady, GiveUp
    <3>2. step \in Steps
      BY DEF Steps, StartSteps
    <3> QED
      BY <3>1, <3>2, GoToTypes
  <2> QED
    BY <1>3, <2>1, <2>2, <2>3 DEF StartDaemon
<1>4. ASSUME NEW p \in Clients, RunViaDaemon(p)
      PROVE  StepTypes'
  <2>1. CASE ReadMeta(p) \/ DropMeta(p)
    BY <1>1, <1>2, <1>u, <2>1, GoToTypes DEF ReadMeta, DropMeta
  <2>2. CASE Connect(p) \/ Refused(p) \/ Answered(p) \/ Overloaded(p) \/ Closed(p)
             \/ Catch(p) \/ RunLocally(p) \/ EndLocally(p)
    <3>1. PICK step \in {"waiting", "catch", "done", "send", "overloaded", "local",
                         "local_running"} : GoTo(p, step) /\ UNCHANGED site
      BY <2>2 DEF Connect, Refused, Answered, Overloaded, Closed, Catch, RunLocally, EndLocally
    <3>2. step \in Steps
      BY DEF Steps, Ended
    <3> QED
      BY <3>1, <3>2, GoToTypes
  <2> QED
    BY <1>4, <2>1, <2>2 DEF RunViaDaemon
<1>5. ASSUME NEW p \in Clients, RequestTimeout(p) \/ ClientCrash(p)
      PROVE  StepTypes'
  <2>1. "catch" \in Steps /\ "dead" \in Steps
    BY DEF Steps, Ended
  <2> QED
    BY <1>5, <2>1, GoToTypes DEF RequestTimeout, ClientCrash
<1>6. CASE UNCHANGED <<pc, site>>
  BY <1>6 DEF StepTypes
<1>7. ASSUME NEW p \in Clients, Serve(p)
      PROVE  UNCHANGED <<pc, site>>
  BY <1>7 DEF Serve, Enqueue, Start, Finish, QueueFails
<1>8. ASSUME NEW w \in Workers, RetireWorker(w) \/ ListenFails(w) \/ Exit(w) \/ WorkerCrash(w)
      PROVE  UNCHANGED <<pc, site>>
  BY <1>8 DEF RetireWorker, Listen, BeginShutdown, CloseServer, CleanupMeta, UnlinkMeta,
    ListenFails, Exit, WorkerCrash
<1>9. SweepMeta \/ SweepLock \/ SweepUnlink => UNCHANGED <<pc, site>>
  BY DEF SweepMeta, SweepLock, SweepUnlink
<1> QED
  BY <1>3, <1>4, <1>5, <1>6, <1>7, <1>8, <1>9 DEF Next

LEMMA FilesAreTyped ==
  ASSUME Types, Next
  PROVE  FileTypes'
<1> USE DEF Types, FileTypes
<1>1. ASSUME NEW p \in Clients, StartDaemon(p)
      PROVE  FileTypes'
  <2>1. CASE CreateLock(p) \/ UnlinkLock(p) \/ ReleaseLock(p)
    BY <2>1 DEF CreateLock, UnlinkLock, ReleaseLock
  <2>2. CASE \/ LockRetry(p) \/ LockDeadline(p) \/ InspectLock(p) \/ Spawn(p) \/ SpawnFails(p)
             \/ Ready(p) \/ NotReady(p)
    BY <2>2 DEF LockRetry, LockDeadline, InspectLock, Spawn, SpawnFails, Ready, NotReady, files
  <2>3. CASE TruncateMeta(p) \/ FillMeta(p) \/ GiveUp(p)
    BY <2>3 DEF TruncateMeta, FillMeta, GiveUp, SeenTypes
  <2> QED
    BY <1>1, <2>1, <2>2, <2>3 DEF StartDaemon
<1>2. ASSUME NEW p \in Clients, RunViaDaemon(p)
      PROVE  FileTypes'
  BY <1>2 DEF RunViaDaemon, ReadMeta, DropMeta, Connect, Refused, Answered, Overloaded, Closed,
    Catch, RunLocally, EndLocally, files
<1>3. ASSUME NEW p \in Clients, RequestTimeout(p) \/ ClientCrash(p) \/ Serve(p)
      PROVE  FileTypes'
  BY <1>3 DEF RequestTimeout, ClientCrash, Serve, Enqueue, Start, Finish, QueueFails, files
<1>4. ASSUME NEW w \in Workers, RetireWorker(w) \/ ListenFails(w) \/ Exit(w) \/ WorkerCrash(w)
      PROVE  FileTypes'
  BY <1>4 DEF RetireWorker, Listen, BeginShutdown, CloseServer, CleanupMeta, UnlinkMeta,
    ListenFails, Exit, WorkerCrash, files
<1>5. CASE SweepMeta \/ SweepLock \/ SweepUnlink
  BY <1>5 DEF SweepMeta, SweepLock, SweepUnlink, files
<1> QED
  BY <1>1, <1>2, <1>3, <1>4, <1>5 DEF Next

LEMMA WorkersAreTyped ==
  ASSUME Types, Next
  PROVE  WorkerTypes'
<1> USE DEF Types, WorkerTypes
<1>1. \A state \in {"starting", "listening", "closing", "cleanup", "unlinking", "exiting",
                    "dead"} : state \in Lives
  BY DEF Lives, Alive, Serving
<1>2. ASSUME NEW w, Kill(w)
      PROVE  WorkerTypes'
  BY <1>1, <1>2 DEF Kill
<1>3. ASSUME NEW p \in Clients, StartDaemon(p)
      PROVE  WorkerTypes'
  BY <1>1, <1>2, <1>3 DEF StartDaemon, CreateLock, LockRetry, LockDeadline, InspectLock,
    UnlinkLock, Spawn, SpawnFails, TruncateMeta, FillMeta, Ready, NotReady, GiveUp, ReleaseLock
<1>4. ASSUME NEW p \in Clients,
             RunViaDaemon(p) \/ RequestTimeout(p) \/ ClientCrash(p) \/ Serve(p)
      PROVE  WorkerTypes'
  BY <1>4 DEF RunViaDaemon, ReadMeta, DropMeta, Connect, Refused, Answered, Overloaded, Closed,
    Catch, RunLocally, EndLocally, RequestTimeout, ClientCrash, Serve, Enqueue, Start, Finish,
    QueueFails
<1>5. ASSUME NEW w \in Workers, RetireWorker(w) \/ ListenFails(w) \/ Exit(w) \/ WorkerCrash(w)
      PROVE  WorkerTypes'
  <2>1. CASE WorkerCrash(w)
    BY <1>2, <2>1 DEF WorkerCrash
  <2>2. CASE RetireWorker(w) \/ ListenFails(w) \/ Exit(w)
    <3>1. PICK state \in {"listening", "closing", "cleanup", "unlinking", "exiting", "dead"} :
            worker' = [worker EXCEPT ![w] = state]
      BY <2>2 DEF RetireWorker, Listen, BeginShutdown, CloseServer, CleanupMeta, UnlinkMeta,
        ListenFails, Exit
    <3> QED
      BY <1>1, <3>1
  <2> QED
    BY <1>5, <2>1, <2>2
<1>6. CASE SweepMeta \/ SweepLock \/ SweepUnlink
  BY <1>6 DEF SweepMeta, SweepLock, SweepUnlink
<1> QED
  BY <1>3, <1>4, <1>5, <1>6 DEF Next

LEMMA SeenAreTyped ==
  ASSUME Types, Next
  PROVE  SeenTypes'
<1> USE DEF Types, SeenTypes
<1>1. ASSUME NEW p \in Clients, StartDaemon(p)
      PROVE  SeenTypes'
  BY <1>1 DEF StartDaemon, CreateLock, LockRetry, LockDeadline, InspectLock,
    UnlinkLock, Spawn, SpawnFails, TruncateMeta, FillMeta, Ready, NotReady, GiveUp, ReleaseLock
<1>2. ASSUME NEW p \in Clients,
             RunViaDaemon(p) \/ RequestTimeout(p) \/ ClientCrash(p) \/ Serve(p)
      PROVE  SeenTypes'
  BY <1>2 DEF RunViaDaemon, ReadMeta, DropMeta, Connect, Refused, Answered, Overloaded, Closed,
    Catch, RunLocally, EndLocally, RequestTimeout, ClientCrash, Serve, Enqueue, Start, Finish,
    QueueFails
<1>3. ASSUME NEW w \in Workers, RetireWorker(w) \/ ListenFails(w) \/ Exit(w) \/ WorkerCrash(w)
      PROVE  SeenTypes'
  BY <1>3 DEF RetireWorker, Listen, BeginShutdown, CloseServer, CleanupMeta, UnlinkMeta,
    ListenFails, Exit, WorkerCrash
<1>4. CASE SweepMeta \/ SweepLock \/ SweepUnlink
  BY <1>4 DEF SweepMeta, SweepLock, SweepUnlink
<1> QED
  BY <1>1, <1>2, <1>3, <1>4 DEF Next

LEMMA HistoryIsTyped ==
  ASSUME Types, Next
  PROVE  HistoryTypes' /\ StolenType'
<1>1. HistoryTypes'
  <2> USE DEF Types, HistoryTypes, history
  <2>1. ASSUME NEW w, Kill(w)
        PROVE  excused' \subseteq Clients
    BY <2>1 DEF Kill
  <2>2. ASSUME NEW p \in Clients, StartDaemon(p)
        PROVE  HistoryTypes'
    BY <2>1, <2>2 DEF StartDaemon, CreateLock, LockRetry, LockDeadline, InspectLock,
      UnlinkLock, Spawn, SpawnFails, TruncateMeta, FillMeta, Ready, NotReady, GiveUp, ReleaseLock
  <2>3. ASSUME NEW p \in Clients, RunViaDaemon(p)
        PROVE  HistoryTypes'
    BY <2>3 DEF RunViaDaemon, ReadMeta, DropMeta, Connect, Refused, Answered, Overloaded,
      Closed, Catch, RunLocally, StartCommand, EndLocally
  <2>4. ASSUME NEW p \in Clients, RequestTimeout(p) \/ ClientCrash(p) \/ Serve(p)
        PROVE  HistoryTypes'
    BY <2>4 DEF RequestTimeout, ClientCrash, Serve, Enqueue, Start, StartCommand, Finish,
      QueueFails
  <2>5. ASSUME NEW w \in Workers, RetireWorker(w) \/ ListenFails(w) \/ Exit(w) \/ WorkerCrash(w)
        PROVE  HistoryTypes'
    BY <2>1, <2>5 DEF RetireWorker, Listen, BeginShutdown, CloseServer, CleanupMeta,
      UnlinkMeta, ListenFails, Exit, WorkerCrash
  <2>6. CASE SweepMeta \/ SweepLock \/ SweepUnlink
    BY <2>6 DEF SweepMeta, SweepLock, SweepUnlink
  <2> QED
    BY <2>2, <2>3, <2>4, <2>5, <2>6 DEF Next
<1>2. StolenType'
  <2> USE DEF Types, StolenType, history
  <2>1. ASSUME NEW p \in Clients, UnlinkLock(p) \/ ReleaseLock(p)
        PROVE  StolenType'
    BY <2>1 DEF UnlinkLock, ReleaseLock
  <2>2. ASSUME NEW p \in Clients, StartDaemon(p), ~UnlinkLock(p), ~ReleaseLock(p)
        PROVE  StolenType'
    BY <2>2 DEF StartDaemon, CreateLock, LockRetry, LockDeadline, InspectLock,
      Spawn, SpawnFails, TruncateMeta, FillMeta, Ready, NotReady, GiveUp
  <2>3. ASSUME NEW p \in Clients, RunViaDaemon(p)
        PROVE  StolenType'
    BY <2>3 DEF RunViaDaemon, ReadMeta, DropMeta, Connect, Refused, Answered, Overloaded,
      Closed, Catch, RunLocally, EndLocally
  <2>4. ASSUME NEW p \in Clients, RequestTimeout(p) \/ ClientCrash(p) \/ Serve(p)
        PROVE  StolenType'
    BY <2>4 DEF RequestTimeout, ClientCrash, Serve, Enqueue, Start, Finish, QueueFails
  <2>5. ASSUME NEW w \in Workers, RetireWorker(w) \/ ListenFails(w) \/ Exit(w) \/ WorkerCrash(w)
        PROVE  StolenType'
    BY <2>5 DEF RetireWorker, Listen, BeginShutdown, CloseServer, CleanupMeta,
      UnlinkMeta, ListenFails, Exit, WorkerCrash
  <2>6. CASE SweepMeta \/ SweepLock
    BY <2>6 DEF SweepMeta, SweepLock
  <2>7. CASE SweepUnlink
    BY <2>7 DEF SweepUnlink
  <2> QED
    BY <2>1, <2>2, <2>3, <2>4, <2>5, <2>6, <2>7 DEF Next
<1> QED
  BY <1>1, <1>2

LEMMA RequestsAreTyped ==
  ASSUME Types, Next
  PROVE  RequestTypes'
<1> USE ParametersAssumption DEF Types, RequestTypes
<1>1. \A state \in {"none", "connected", "closed", "queued", "running", "answered",
                    "overloaded"} : state \in Requests
  BY DEF Requests, InFlight
<1>2. ASSUME NEW w, Kill(w)
      PROVE  request' \in [Clients -> Requests]
  BY <1>1, <1>2 DEF Kill
<1>3. ASSUME NEW p \in Clients, StartDaemon(p)
      PROVE  RequestTypes'
  BY <1>2, <1>3 DEF StartDaemon, CreateLock, LockRetry, LockDeadline, InspectLock,
    UnlinkLock, Spawn, SpawnFails, TruncateMeta, FillMeta, Ready, NotReady, GiveUp, ReleaseLock
<1>4. ASSUME NEW p \in Clients, NEW state \in {"none", "connected", "queued", "running",
                                               "answered", "overloaded"},
             Request(p, state)
      PROVE  request' \in [Clients -> Requests]
  BY <1>1, <1>4 DEF Request
<1>5. ASSUME NEW p \in Clients, RunViaDaemon(p)
      PROVE  RequestTypes'
  <2>1. CASE Connect(p) \/ Answered(p) \/ Closed(p)
    BY <1>4, <2>1 DEF Connect, Answered, Closed
  <2>2. CASE Overloaded(p)
    BY <1>4, <2>2 DEF Overloaded
  <2>3. CASE ReadMeta(p) \/ DropMeta(p) \/ Refused(p) \/ Catch(p) \/ RunLocally(p) \/ EndLocally(p)
    BY <2>3 DEF ReadMeta, DropMeta, Refused, Catch, RunLocally, EndLocally
  <2> QED
    BY <1>5, <2>1, <2>2, <2>3 DEF RunViaDaemon
<1>6. ASSUME NEW p \in Clients, RequestTimeout(p) \/ ClientCrash(p) \/ Serve(p)
      PROVE  RequestTypes'
  BY <1>4, <1>6 DEF RequestTimeout, ClientCrash, Serve, Enqueue, Start, Finish, QueueFails
<1>7. ASSUME NEW w \in Workers, RetireWorker(w) \/ ListenFails(w) \/ Exit(w) \/ WorkerCrash(w)
      PROVE  RequestTypes'
  BY <1>1, <1>2, <1>7 DEF RetireWorker, Listen, BeginShutdown, CloseServer, CleanupMeta,
    UnlinkMeta, ListenFails, Exit, WorkerCrash
<1>8. CASE SweepMeta \/ SweepLock \/ SweepUnlink
  BY <1>8 DEF SweepMeta, SweepLock, SweepUnlink
<1> QED
  BY <1>3, <1>5, <1>6, <1>7, <1>8 DEF Next

LEMMA NextKeepsTypes ==
  ASSUME Types, Next
  PROVE  Types'
BY StepsAreTyped, FilesAreTyped, WorkersAreTyped, SeenAreTyped, RequestsAreTyped, HistoryIsTyped
   DEF Types

-----------------------------------------------------------------------------
(* The start lock                                                           *)

LEMMA NoNewOwner ==
  ASSUME LockOK, UNCHANGED startLock, stolen => stolen',
         \A p \in Clients : Owner(p)' => Owner(p)
  PROVE  LockOK'
BY DEF LockOK

LEMMA ReadingIsPrivate ==
  ASSUME Types, NEW p \in Clients, ReadMeta(p) \/ DropMeta(p), NEW q \in Clients \ {p}
  PROVE  pc'[q] = pc[q] /\ site'[q] = site[q]
<1> USE DEF Types, StepTypes
<1>1. ASSUME NEW step, GoTo(p, step)
      PROVE  pc'[q] = pc[q]
  BY <1>1 DEF GoTo
<1>2. ASSUME NEW call, ReadAt(p, call)
      PROVE  pc'[q] = pc[q] /\ site'[q] = site[q]
  BY <1>2 DEF ReadAt, GoTo
<1>3. site[p] \in Sites
  OBVIOUS
<1>4. CASE OnMeta(p)
  BY <1>1, <1>2, <1>3, <1>4 DEF OnMeta, Sites
<1>5. CASE OnNoMeta(p)
  BY <1>1, <1>2, <1>3, <1>5 DEF OnNoMeta, Sites
<1> QED
  BY <1>1, <1>4, <1>5 DEF ReadMeta, DropMeta

LEMMA NextKeepsLock ==
  ASSUME Types, LockOK, Next
  PROVE  LockOK'
<1> USE DEF Types, StepTypes
\* the steps that touch the lock
<1>1. ASSUME NEW p \in Clients, CreateLock(p)
      PROVE  LockOK'
  <2>1. \A q \in Clients \ {p} : Owner(q)' => Owner(q)
    BY <1>1 DEF CreateLock, ReadAt, GoTo, Owner
  <2> QED
    BY <1>1, <2>1, ParametersAssumption DEF CreateLock, LockOK, history
<1>2. ASSUME NEW p \in Clients, UnlinkLock(p)
      PROVE  LockOK'
  <2> SUFFICES ASSUME ~stolen'
               PROVE  \A q \in Clients : ~Owner(q)'
    BY DEF LockOK
  <2>1. ~stolen /\ (startLock = None \/ Stale(startLock))
    BY <1>2 DEF UnlinkLock
  <2>2. \A q \in Clients : ~Owner(q)
    BY <2>1, ParametersAssumption DEF LockOK, Stale, Owner, StartSteps
  <2> QED
    BY <1>2, <2>2 DEF UnlinkLock, ReadAt, GoTo, Owner, StartSteps
<1>3. ASSUME NEW p \in Clients, ReleaseLock(p)
      PROVE  LockOK'
  <2> SUFFICES ASSUME ~stolen'
               PROVE  \A q \in Clients : ~Owner(q)'
    BY DEF LockOK
  <2>1. ~stolen /\ (startLock \in {None, p} \/ Stale(startLock))
    BY <1>3 DEF ReleaseLock
  <2>2. \A q \in Clients \ {p} : ~Owner(q)
    BY <2>1, ParametersAssumption DEF LockOK, Stale, Owner, StartSteps
  <2> QED
    BY <1>3, <2>2 DEF ReleaseLock, ReadAt, GoTo, Owner, StartSteps
<1>4. CASE SweepUnlink
  <2>1. UNCHANGED <<pc, site>> /\ (stolen => stolen')
    BY <1>4 DEF SweepUnlink
  <2>2. CASE startLock' = startLock
    BY <2>1, <2>2, NoNewOwner DEF Owner
  <2>3. CASE startLock' # startLock /\ ~stolen'
    <3>1. ~stolen /\ Stale(startLock)
      BY <1>4, <2>3 DEF SweepUnlink
    <3>2. \A q \in Clients : ~Owner(q)
      BY <3>1, ParametersAssumption DEF LockOK, Stale, Owner, StartSteps
    <3> QED
      BY <2>1, <3>2 DEF LockOK, Owner
  <2> QED
    BY <2>2, <2>3 DEF LockOK
\* the others give it to nobody
<1>5. ASSUME NEW p \in Clients, StartDaemon(p), ~CreateLock(p), ~UnlinkLock(p), ~ReleaseLock(p)
      PROVE  LockOK'
  <2>1. CASE LockRetry(p) \/ LockDeadline(p) \/ InspectLock(p)
    <3>1. \A q \in Clients : Owner(q)' => Owner(q)
      BY <2>1 DEF LockRetry, LockDeadline, InspectLock, ReadAt, GoTo, Owner, StartSteps
    <3> QED
      BY <2>1, <3>1, NoNewOwner DEF LockRetry, LockDeadline, InspectLock, files, history
  <2>2. CASE Spawn(p) \/ SpawnFails(p) \/ TruncateMeta(p) \/ FillMeta(p) \/ Ready(p)
             \/ NotReady(p) \/ GiveUp(p)
    <3>1. \A q \in Clients : Owner(q)' => Owner(q)
      BY <2>2 DEF Spawn, SpawnFails, TruncateMeta, FillMeta, Ready, NotReady, GiveUp, GoTo,
        Owner, StartSteps
    <3> QED
      BY <2>2, <3>1, NoNewOwner DEF Spawn, SpawnFails, TruncateMeta, FillMeta, Ready, NotReady,
        GiveUp, files, history
  <2> QED
    BY <1>5, <2>1, <2>2 DEF StartDaemon
<1>6. ASSUME NEW p \in Clients, ReadMeta(p) \/ DropMeta(p)
      PROVE  LockOK'
  <2>1. \A q \in Clients \ {p} : Owner(q)' => Owner(q)
    BY <1>6, ReadingIsPrivate DEF Owner
  <2>2. Owner(p)' => Owner(p)
    <3>1. pc[p] \in {"read", "drop"}
      BY <1>6 DEF ReadMeta, DropMeta
    <3>2. CASE site[p] = "recheck"
      BY <3>1, <3>2 DEF Owner
    <3>3. CASE site[p] # "recheck"
      BY <1>6, <3>3 DEF ReadMeta, DropMeta, OnMeta, OnNoMeta, ReadAt, GoTo, Owner, StartSteps,
        Sites
    <3> QED
      BY <3>2, <3>3
  <2> QED
    BY <1>6, <2>1, <2>2, NoNewOwner DEF ReadMeta, DropMeta, files, history
<1>7. ASSUME NEW p \in Clients,
             \/ Connect(p) \/ Refused(p) \/ Answered(p) \/ Overloaded(p) \/ Closed(p)
             \/ Catch(p) \/ RunLocally(p) \/ EndLocally(p) \/ RequestTimeout(p) \/ ClientCrash(p)
      PROVE  LockOK'
  <2>1. PICK step \in {"waiting", "catch", "done", "send", "overloaded", "local",
                       "local_running", "dead"} : GoTo(p, step) /\ UNCHANGED site
    BY <1>7 DEF Connect, Refused, Answered, Overloaded, Closed, Catch, RunLocally, EndLocally,
      RequestTimeout, ClientCrash
  <2>2. \A q \in Clients : Owner(q)' => Owner(q)
    BY <2>1 DEF GoTo, Owner, StartSteps
  <2> QED
    BY <1>7, <2>2, NoNewOwner DEF Connect, Refused, Answered, Overloaded, Closed, Catch,
      RunLocally, EndLocally, RequestTimeout, ClientCrash, files, history
<1>8. ASSUME NEW p \in Clients, Serve(p)
      PROVE  LockOK'
  BY <1>8, NoNewOwner DEF Serve, Enqueue, Start, Finish, QueueFails, files, history, Owner
<1>9. ASSUME NEW w \in Workers, RetireWorker(w) \/ ListenFails(w) \/ Exit(w) \/ WorkerCrash(w)
      PROVE  LockOK'
  BY <1>9, NoNewOwner DEF RetireWorker, Listen, BeginShutdown, CloseServer, CleanupMeta,
    UnlinkMeta, ListenFails, Exit, WorkerCrash, files, history, Owner
<1>10. CASE SweepMeta \/ SweepLock
  BY <1>10, NoNewOwner DEF SweepMeta, SweepLock, files, history, Owner
<1> QED
  BY <1>1, <1>2, <1>3, <1>4, <1>5, <1>6, <1>7, <1>8, <1>9, <1>10 DEF Next, RunViaDaemon

-----------------------------------------------------------------------------
(* How often a command runs                                                 *)

LiveOf(p) == Life(pc[p], request[p], runs[p], p \in excused)

\* a step about one client
LEMMA OneLives ==
  ASSUME LifeOK, NEW p \in Clients, LiveOf(p)',
         \A q \in Clients \ {p} :
           pc'[q] = pc[q] /\ request'[q] = request[q] /\ runs'[q] = runs[q],
         excused \subseteq excused'
  PROVE  LifeOK'
<1> SUFFICES ASSUME NEW q \in Clients \ {p}
             PROVE  LiveOf(q)'
  BY DEF LifeOK, LiveOf
<1>1. LiveOf(q)
  BY DEF LifeOK, LiveOf
<1> QED
  BY <1>1 DEF LiveOf, Life

\* a client that goes on before its request
LEMMA StillBefore ==
  ASSUME Types, LifeOK, NEW p \in Clients, pc[p] \in Before, pc'[p] \in Before \cup {"local"},
         \A q \in Clients \ {p} : pc'[q] = pc[q],
         UNCHANGED <<request, runs, excused>>
  PROVE  LifeOK'
<1>1. runs[p] = 0 /\ request[p] = "none"
  BY DEF LifeOK, Life
<1>2. LiveOf(p)'
  BY <1>1 DEF LiveOf, Life, Before, StartSteps
<1> QED
  BY <1>2, OneLives

\* a worker that is killed
LEMMA KilledLive ==
  ASSUME Types, LifeOK, NEW w, Kill(w), NEW p \in Clients, pc'[p] = pc[p], runs'[p] = runs[p]
  PROVE  LiveOf(p)'
<1>1. LiveOf(p)
  BY DEF LifeOK, LiveOf
<1>2. /\ request'[p] \in {request[p], "none", "closed"}
      /\ request'[p] = "closed" /\ request[p] # "closed" => pc[p] = "waiting"
      /\ request'[p] = "none" /\ request[p] # "none" => pc[p] # "waiting"
      /\ request'[p] # request[p] /\ request[p] \in {"running", "answered"} => p \in excused'
      /\ p \in excused => p \in excused'
  BY DEF Kill
<1>3. request[p] \in Requests
  BY DEF Types, RequestTypes
<1>4. CASE request'[p] = request[p]
  BY <1>1, <1>2, <1>4 DEF LiveOf, Life
<1>5. CASE request'[p] # request[p] /\ pc[p] = "waiting"
  <2>1. request'[p] = "closed"
    BY <1>2, <1>5
  <2>2. runs[p] = 0 \/ (runs[p] = 1 /\ p \in excused')
    <3>1. request[p] \in {"connected", "queued", "overloaded", "running", "answered"}
      BY <1>1, <1>3, <1>5, <2>1 DEF LiveOf, Life, Requests, InFlight
    <3>2. CASE request[p] \in {"connected", "queued", "overloaded"}
      BY <1>1, <1>5, <3>2 DEF LiveOf, Life
    <3>3. CASE request[p] \in {"running", "answered"}
      BY <1>1, <1>2, <1>5, <3>3 DEF LiveOf, Life
    <3> QED
      BY <3>1, <3>2, <3>3
  <2> QED
    BY <1>5, <2>1, <2>2 DEF LiveOf, Life, Before, StartSteps
<1>6. CASE request'[p] # request[p] /\ pc[p] # "waiting"
  BY <1>1, <1>2, <1>6 DEF LiveOf, Life
<1> QED
  BY <1>4, <1>5, <1>6

LEMMA NextKeepsLife ==
  ASSUME Types, LifeOK, Next
  PROVE  LifeOK'
<1> USE DEF Types, StepTypes, RequestTypes, HistoryTypes
<1>1. ASSUME NEW p \in Clients, StartDaemon(p)
      PROVE  LifeOK'
  <2>1. CASE CreateLock(p) \/ LockRetry(p) \/ LockDeadline(p) \/ InspectLock(p) \/ UnlinkLock(p)
             \/ ReleaseLock(p)
    <3>1. pc[p] \in Before /\ pc'[p] \in Before \cup {"local"}
      BY <2>1 DEF CreateLock, LockRetry, LockDeadline, InspectLock, UnlinkLock, ReleaseLock,
        ReadAt, GoTo, Before, StartSteps
    <3>2. \A q \in Clients \ {p} : pc'[q] = pc[q]
      BY <2>1 DEF CreateLock, LockRetry, LockDeadline, InspectLock, UnlinkLock, ReleaseLock,
        ReadAt, GoTo
    <3> QED
      BY <2>1, <3>1, <3>2, StillBefore DEF CreateLock, LockRetry, LockDeadline, InspectLock,
        UnlinkLock, ReleaseLock, history
  <2>2. CASE Spawn(p) \/ SpawnFails(p) \/ TruncateMeta(p) \/ FillMeta(p) \/ Ready(p) \/ GiveUp(p)
    <3>1. pc[p] \in Before /\ pc'[p] \in Before
      BY <2>2 DEF Spawn, SpawnFails, TruncateMeta, FillMeta, Ready, GiveUp, GoTo, Before,
        StartSteps
    <3>2. \A q \in Clients \ {p} : pc'[q] = pc[q]
      BY <2>2 DEF Spawn, SpawnFails, TruncateMeta, FillMeta, Ready, GiveUp, GoTo
    <3> QED
      BY <2>2, <3>1, <3>2, StillBefore DEF Spawn, SpawnFails, TruncateMeta, FillMeta, Ready,
        GiveUp, history
  <2>3. CASE NotReady(p)
    <3>1. /\ pc[p] \in Before /\ pc[p] # "waiting" /\ pc'[p] = "give_up" /\ runs' = runs
          /\ \A q \in Clients \ {p} : pc'[q] = pc[q]
      BY <2>3 DEF NotReady, GoTo, Before, StartSteps
    <3>2. CASE UNCHANGED <<request, excused>>
      BY <3>1, <3>2, StillBefore DEF Before, StartSteps
    <3>3. CASE Kill(seen[p])
      <4>1. runs[p] = 0 /\ request[p] = "none"
        BY <3>1 DEF LifeOK, Life
      <4>2. request'[p] = "none"
        BY <3>3, <4>1 DEF Kill
      <4>3. LiveOf(p)'
        BY <3>1, <4>1, <4>2 DEF LiveOf, Life
      <4>4. ASSUME NEW q \in Clients \ {p}
            PROVE  LiveOf(q)'
        BY <3>1, <3>3, KilledLive
      <4> QED
        BY <4>3, <4>4 DEF LifeOK, LiveOf
    <3> QED
      BY <2>3, <3>2, <3>3 DEF NotReady
  <2> QED
    BY <1>1, <2>1, <2>2, <2>3 DEF StartDaemon
<1>2. ASSUME NEW p \in Clients, ReadMeta(p) \/ DropMeta(p)
      PROVE  LifeOK'
  <2>1. pc[p] \in Before
    BY <1>2 DEF ReadMeta, DropMeta, Before
  <2>2. pc'[p] \in Before \cup {"local"}
    BY <1>2 DEF ReadMeta, DropMeta, OnMeta, OnNoMeta, ReadAt, GoTo, Before, StartSteps, Sites
  <2>3. \A q \in Clients \ {p} : pc'[q] = pc[q]
    BY <1>2, ReadingIsPrivate
  <2> QED
    BY <1>2, <2>1, <2>2, <2>3, StillBefore DEF ReadMeta, DropMeta, history
\* the client's steps, from `send` on
<1>3. ASSUME NEW p \in Clients,
             Connect(p) \/ Refused(p) \/ Answered(p) \/ Overloaded(p) \/ Closed(p) \/ Catch(p)
      PROVE  LifeOK'
  <2>1. LiveOf(p)
    BY DEF LifeOK, LiveOf
  <2>2. UNCHANGED <<runs, excused>>
    BY <1>3 DEF Connect, Refused, Answered, Overloaded, Closed, Catch, history
  <2>3. \A q \in Clients \ {p} : pc'[q] = pc[q] /\ request'[q] = request[q]
    BY <1>3 DEF Connect, Refused, Answered, Overloaded, Closed, Catch, GoTo, Request
  <2>4. LiveOf(p)'
    <3>1. CASE Connect(p)
      BY <2>1, <2>2, <3>1 DEF Connect, GoTo, Request, LiveOf, Life, Before, StartSteps
    <3>2. CASE Refused(p)
      BY <2>1, <2>2, <3>2 DEF Refused, GoTo, LiveOf, Life, Before, StartSteps
    <3>3. CASE Answered(p)
      <4>1. runs[p] = 1
        BY <2>1, <3>3 DEF Answered, LiveOf, Life
      <4>2. pc'[p] = "done" /\ request'[p] = "none"
        BY <3>3 DEF Answered, GoTo, Request
      <4> QED
        BY <2>2, <4>1, <4>2 DEF LiveOf, Life, Before, StartSteps
    <3>4. CASE Overloaded(p)
      BY <2>1, <2>2, <3>4 DEF Overloaded, GoTo, Request, LiveOf, Life, Before, StartSteps
    <3>5. CASE Closed(p)
      BY <2>1, <2>2, <3>5 DEF Closed, GoTo, Request, LiveOf, Life, Before, StartSteps
    <3>6. CASE Catch(p)
      BY <2>1, <2>2, <3>6 DEF Catch, GoTo, LiveOf, Life, Before, StartSteps
    <3> QED
      BY <1>3, <3>1, <3>2, <3>3, <3>4, <3>5, <3>6
  <2> QED
    BY <2>2, <2>3, <2>4, OneLives
<1>4. ASSUME NEW p \in Clients,
             RunLocally(p) \/ EndLocally(p) \/ RequestTimeout(p) \/ ClientCrash(p)
      PROVE  LifeOK'
  <2>1. LiveOf(p)
    BY DEF LifeOK, LiveOf
  <2>2. excused \subseteq excused' /\ request' = request
    BY <1>4 DEF RunLocally, EndLocally, RequestTimeout, ClientCrash, history
  <2>3. \A q \in Clients \ {p} : pc'[q] = pc[q] /\ runs'[q] = runs[q]
    BY <1>4 DEF RunLocally, EndLocally, RequestTimeout, ClientCrash, GoTo, StartCommand, history
  <2>4. LiveOf(p)'
    <3>1. CASE RunLocally(p)
      <4>1. \/ runs[p] = 0 /\ request[p] = "none"
            \/ runs[p] = 1 /\ p \in excused /\ request[p] \in {"none", "running", "answered"}
        BY <2>1, <3>1 DEF RunLocally, LiveOf, Life
      <4>2. pc'[p] = "local_running" /\ runs'[p] = runs[p] + 1 /\ excused' = excused
        BY <3>1 DEF RunLocally, GoTo, StartCommand
      <4> QED
        BY <2>2, <4>1, <4>2 DEF LiveOf, Life, Before, StartSteps
    <3>2. CASE EndLocally(p)
      BY <2>1, <2>2, <3>2 DEF EndLocally, GoTo, history, LiveOf, Life, Before, StartSteps
    <3>3. CASE RequestTimeout(p)
      BY <2>1, <2>2, <3>3 DEF RequestTimeout, GoTo, LiveOf, Life, Before, StartSteps
    <3>4. CASE ClientCrash(p)
      <4>1. pc[p] \in Before \cup {"waiting", "catch", "local", "local_running"}
        BY <3>4 DEF ClientCrash, Steps, Ended, Before
      <4>2. pc'[p] = "dead" /\ UNCHANGED <<request, runs, excused>>
        BY <3>4 DEF ClientCrash, GoTo, history
      <4>3. request[p] \in Requests
        OBVIOUS
      <4>4. /\ runs[p] \in {0, 1} \/ (runs[p] = 2 /\ p \in excused)
            /\ request[p] \in {"connected", "queued"} => runs[p] = 0
        <5>1. CASE pc[p] \in Before
          BY <2>1, <5>1 DEF LiveOf, Life
        <5>2. CASE pc[p] = "waiting"
          BY <2>1, <4>3, <5>2 DEF LiveOf, Life, Requests, InFlight
        <5>3. CASE pc[p] \in {"catch", "local"}
          BY <2>1, <5>3 DEF LiveOf, Life
        <5>4. CASE pc[p] = "local_running"
          BY <2>1, <5>4 DEF LiveOf, Life
        <5> QED
          BY <4>1, <5>1, <5>2, <5>3, <5>4
      <4> QED
        BY <4>2, <4>4 DEF LiveOf, Life, Before, StartSteps
    <3> QED
      BY <1>4, <3>1, <3>2, <3>3, <3>4
  <2> QED
    BY <2>2, <2>3, <2>4, OneLives
\* the worker's steps about one request
<1>5. ASSUME NEW p \in Clients, Serve(p)
      PROVE  LifeOK'
  <2>1. LiveOf(p)
    BY DEF LifeOK, LiveOf
  <2>2. UNCHANGED <<pc, excused>>
    BY <1>5 DEF Serve, Enqueue, Start, Finish, QueueFails, history
  <2>3. \A q \in Clients \ {p} : request'[q] = request[q] /\ runs'[q] = runs[q]
    BY <1>5 DEF Serve, Enqueue, Start, Finish, QueueFails, Request, StartCommand, history
  <2>4. LiveOf(p)'
    <3>1. CASE Enqueue(p)
      BY <2>1, <2>2, <3>1 DEF Enqueue, Request, history, LiveOf, Life
    <3>2. CASE Start(p)
      BY <2>1, <2>2, <3>2 DEF Start, Request, StartCommand, LiveOf, Life
    <3>3. CASE Finish(p)
      BY <2>1, <2>2, <3>3 DEF Finish, Request, history, LiveOf, Life
    <3>4. CASE QueueFails(p)
      BY <2>1, <2>2, <3>4 DEF QueueFails, Request, history, LiveOf, Life
    <3> QED
      BY <1>5, <3>1, <3>2, <3>3, <3>4 DEF Serve
  <2> QED
    BY <2>2, <2>3, <2>4, OneLives
<1>6. ASSUME NEW w \in Workers, WorkerCrash(w)
      PROVE  LifeOK'
  BY <1>6, KilledLive DEF WorkerCrash, LifeOK, LiveOf
<1>7. ASSUME NEW w \in Workers, BeginShutdown(w)
      PROVE  LifeOK'
  <2> SUFFICES ASSUME NEW p \in Clients
               PROVE  LiveOf(p)'
    BY DEF LifeOK, LiveOf
  <2>1. LiveOf(p) /\ UNCHANGED <<pc, runs, excused>>
    BY <1>7 DEF LifeOK, LiveOf, BeginShutdown, history
  <2>2. request'[p] = request[p] \/ /\ request[p] = "connected"
                                    /\ request'[p] = IF pc[p] = "waiting" THEN "closed" ELSE "none"
    BY <1>7 DEF BeginShutdown
  <2>3. CASE request'[p] = request[p]
    BY <2>1, <2>3 DEF LiveOf, Life
  <2>4. CASE request[p] = "connected" /\ pc[p] = "waiting" /\ request'[p] = "closed"
    <3>1. runs[p] = 0
      BY <2>1, <2>4 DEF LiveOf, Life
    <3> QED
      BY <2>1, <2>4, <3>1 DEF LiveOf, Life, Before, StartSteps
  <2>5. CASE request[p] = "connected" /\ pc[p] # "waiting" /\ request'[p] = "none"
    BY <2>1, <2>5 DEF LiveOf, Life
  <2> QED
    BY <2>2, <2>3, <2>4, <2>5
<1>8. ASSUME NEW w \in Workers,
             \/ Listen(w) \/ CloseServer(w) \/ CleanupMeta(w) \/ UnlinkMeta(w)
             \/ ListenFails(w) \/ Exit(w)
      PROVE  LifeOK'
  BY <1>8 DEF Listen, CloseServer, CleanupMeta, UnlinkMeta, ListenFails, Exit, history, LifeOK
<1>9. CASE SweepMeta \/ SweepLock \/ SweepUnlink
  BY <1>9 DEF SweepMeta, SweepLock, SweepUnlink, history, LifeOK
<1> QED
  BY <1>1, <1>2, <1>3, <1>4, <1>5, <1>6, <1>7, <1>8, <1>9 DEF Next, RunViaDaemon, RetireWorker

-----------------------------------------------------------------------------
(* Who serves a request                                                     *)

ServedAt(p) ==
  /\ pc[p] \in {"send", "waiting"} => seen[p] \in Workers
  /\ pc[p] = "waiting" /\ request[p] # "closed" => worker[seen[p]] \in Serving

\* a step of one client that leaves the workers alone
LEMMA OneServed ==
  ASSUME ServedOK, NEW p \in Clients, ServedAt(p)', UNCHANGED worker,
         \A q \in Clients \ {p} :
           pc'[q] = pc[q] /\ seen'[q] = seen[q] /\ request'[q] = request[q]
  PROVE  ServedOK'
<1> SUFFICES ASSUME NEW q \in Clients \ {p}
             PROVE  ServedAt(q)'
  BY DEF ServedOK, ServedAt
<1> QED
  BY DEF ServedOK, ServedAt

\* a worker that is killed
LEMMA KilledServed ==
  ASSUME Types, LifeOK, ServedOK, NEW w, Kill(w), NEW p \in Clients,
         pc'[p] = pc[p], seen' = seen
  PROVE  ServedAt(p)'
<1>1. pc[p] = "waiting" => request[p] # "none"
  BY DEF LifeOK, Life
<1>2. CASE pc[p] = "waiting" /\ seen[p] = w
  BY <1>1, <1>2 DEF Kill, ServedAt, ServedOK
<1>3. CASE pc[p] = "waiting" /\ seen[p] # w
  <2>1. request'[p] = request[p] /\ seen[p] \in Workers
    BY <1>3 DEF Kill, ServedOK
  <2>2. worker'[seen[p]] = worker[seen[p]]
    BY <1>3, <2>1 DEF Kill, Types, WorkerTypes
  <2> QED
    BY <1>3, <2>1, <2>2 DEF ServedAt, ServedOK
<1>4. CASE pc[p] # "waiting"
  BY <1>4 DEF ServedAt, ServedOK
<1> QED
  BY <1>2, <1>3, <1>4

LEMMA NextKeepsServed ==
  ASSUME Types, LifeOK, ServedOK, Next
  PROVE  ServedOK'
<1> USE DEF Types, StepTypes, SeenTypes, RequestTypes, WorkerTypes
<1>1. ASSUME NEW p \in Clients, StartDaemon(p)
      PROVE  ServedOK'
  <2>1. CASE \/ CreateLock(p) \/ LockRetry(p) \/ LockDeadline(p) \/ InspectLock(p)
             \/ UnlinkLock(p) \/ ReleaseLock(p)
    <3>1. pc'[p] \notin {"send", "waiting"}
      BY <2>1 DEF CreateLock, LockRetry, LockDeadline, InspectLock, UnlinkLock, ReleaseLock,
        ReadAt, GoTo
    <3>2. \A q \in Clients \ {p} : pc'[q] = pc[q]
      BY <2>1 DEF CreateLock, LockRetry, LockDeadline, InspectLock, UnlinkLock, ReleaseLock,
        ReadAt, GoTo
    <3>3. UNCHANGED <<worker, seen, request>>
      BY <2>1 DEF CreateLock, LockRetry, LockDeadline, InspectLock, UnlinkLock, ReleaseLock
    <3> QED
      BY <3>1, <3>2, <3>3, OneServed DEF ServedAt
  <2>2. CASE SpawnFails(p) \/ TruncateMeta(p) \/ FillMeta(p) \/ Ready(p) \/ GiveUp(p)
    <3>1. pc'[p] \notin {"send", "waiting"}
      BY <2>2 DEF SpawnFails, TruncateMeta, FillMeta, Ready, GiveUp, GoTo
    <3>2. \A q \in Clients \ {p} : pc'[q] = pc[q]
      BY <2>2 DEF SpawnFails, TruncateMeta, FillMeta, Ready, GiveUp, GoTo
    <3>3. UNCHANGED <<worker, seen, request>>
      BY <2>2 DEF SpawnFails, TruncateMeta, FillMeta, Ready, GiveUp
    <3> QED
      BY <3>1, <3>2, <3>3, OneServed DEF ServedAt
  <2>3. CASE Spawn(p)
    <3>1. PICK w \in Workers :
            /\ worker[w] = "none" /\ worker' = [worker EXCEPT ![w] = "starting"]
            /\ seen' = [seen EXCEPT ![p] = w]
      BY <2>3 DEF Spawn
    <3>2. pc' = [pc EXCEPT ![p] = "truncate"] /\ request' = request
      BY <2>3 DEF Spawn, GoTo
    <3>3. ServedAt(p)'
      BY <3>2 DEF ServedAt
    <3>4. ASSUME NEW q \in Clients \ {p}
          PROVE  ServedAt(q)'
      <4>1. pc'[q] = pc[q] /\ seen'[q] = seen[q] /\ request'[q] = request[q]
        BY <3>1, <3>2
      <4>2. CASE seen[q] = w
        BY <3>1, <4>1, <4>2 DEF ServedAt, ServedOK, Serving
      <4>3. CASE seen[q] \in Workers /\ seen[q] # w
        BY <3>1, <4>1, <4>3 DEF ServedAt, ServedOK
      <4>4. CASE seen[q] \notin Workers
        BY <4>1, <4>4 DEF ServedAt, ServedOK
      <4> QED
        BY <4>2, <4>3, <4>4
    <3> QED
      BY <3>3, <3>4 DEF ServedAt, ServedOK
  <2>4. CASE NotReady(p)
    <3>1. /\ pc'[p] = "give_up" /\ seen' = seen
          /\ \A q \in Clients \ {p} : pc'[q] = pc[q]
      BY <2>4 DEF NotReady, GoTo
    <3>2. CASE UNCHANGED <<worker, request, excused>>
      BY <3>1, <3>2, OneServed DEF ServedAt
    <3>3. CASE Kill(seen[p])
      <4>1. ServedAt(p)'
        BY <3>1 DEF ServedAt
      <4>2. ASSUME NEW q \in Clients \ {p}
            PROVE  ServedAt(q)'
        BY <3>1, <3>3, KilledServed
      <4> QED
        BY <4>1, <4>2 DEF ServedAt, ServedOK
    <3> QED
      BY <2>4, <3>2, <3>3 DEF NotReady
  <2> QED
    BY <1>1, <2>1, <2>2, <2>3, <2>4 DEF StartDaemon
<1>2. ASSUME NEW p \in Clients, ReadMeta(p) \/ DropMeta(p)
      PROVE  ServedOK'
  <2>1. UNCHANGED <<worker, request>>
    BY <1>2 DEF ReadMeta, DropMeta
  <2>2. \A q \in Clients \ {p} : pc'[q] = pc[q] /\ seen'[q] = seen[q]
    <3>1. \A q \in Clients \ {p} : seen'[q] = seen[q]
      BY <1>2 DEF ReadMeta, DropMeta
    <3> QED
      BY <1>2, <3>1, ReadingIsPrivate
  <2>3. site[p] \in Sites
    OBVIOUS
  <2>4. OnMeta(p) => pc'[p] # "waiting"
    BY <2>3 DEF OnMeta, ReadAt, GoTo, Sites
  <2>5. OnNoMeta(p) => pc'[p] \notin {"send", "waiting"}
    BY <2>3 DEF OnNoMeta, ReadAt, GoTo, Sites
  <2>6. ServedAt(p)'
    <3>1. CASE OnNoMeta(p)
      BY <2>5, <3>1 DEF ServedAt
    <3>2. CASE ReadMeta(p) /\ ~OnNoMeta(p)
      <4>1. CASE OnMeta(p) /\ seen'[p] \in Workers
        BY <2>4, <4>1 DEF ServedAt
      <4>2. CASE GoTo(p, "drop")
        BY <4>2 DEF GoTo, ServedAt
      <4> QED
        BY <3>2, <4>1, <4>2 DEF ReadMeta
    <3> QED
      BY <1>2, <3>1, <3>2 DEF DropMeta
  <2> QED
    BY <2>1, <2>2, <2>6, OneServed
<1>3. ASSUME NEW p \in Clients,
             \/ Connect(p) \/ Refused(p) \/ Answered(p) \/ Overloaded(p) \/ Closed(p)
             \/ Catch(p) \/ RunLocally(p) \/ EndLocally(p) \/ RequestTimeout(p) \/ ClientCrash(p)
      PROVE  ServedOK'
  <2>1. UNCHANGED <<worker, seen>>
    BY <1>3 DEF Connect, Refused, Answered, Overloaded, Closed, Catch, RunLocally, EndLocally,
      RequestTimeout, ClientCrash
  <2>2. \A q \in Clients \ {p} : pc'[q] = pc[q] /\ request'[q] = request[q]
    BY <1>3 DEF Connect, Refused, Answered, Overloaded, Closed, Catch, RunLocally, EndLocally,
      RequestTimeout, ClientCrash, GoTo, Request
  <2>3. ServedAt(p)'
    <3>1. CASE Connect(p)
      BY <2>1, <3>1 DEF Connect, GoTo, Request, ServedAt, ServedOK, Serving
    <3>2. CASE Overloaded(p)
      BY <2>1, <3>2 DEF Overloaded, GoTo, ServedAt, ServedOK
    <3>3. CASE \/ Refused(p) \/ Answered(p) \/ Closed(p) \/ Catch(p) \/ RunLocally(p)
               \/ EndLocally(p) \/ RequestTimeout(p) \/ ClientCrash(p)
      <4>1. pc'[p] \notin {"send", "waiting"}
        BY <3>3 DEF Refused, Answered, Closed, Catch, RunLocally, EndLocally, RequestTimeout,
          ClientCrash, GoTo
      <4> QED
        BY <4>1 DEF ServedAt
    <3> QED
      BY <1>3, <3>1, <3>2, <3>3
  <2> QED
    BY <2>1, <2>2, <2>3, OneServed
<1>4. ASSUME NEW p \in Clients, Serve(p)
      PROVE  ServedOK'
  <2>1. UNCHANGED <<worker, seen, pc>>
    BY <1>4 DEF Serve, Enqueue, Start, Finish, QueueFails
  <2>2. \A q \in Clients \ {p} : request'[q] = request[q]
    BY <1>4 DEF Serve, Enqueue, Start, Finish, QueueFails, Request
  <2>3. request[p] # "closed"
    BY <1>4 DEF Serve, Enqueue, Start, Finish, QueueFails
  <2> QED
    BY <2>1, <2>2, <2>3, OneServed DEF ServedAt, ServedOK
<1>5. ASSUME NEW w \in Workers, WorkerCrash(w)
      PROVE  ServedOK'
  BY <1>5, KilledServed DEF WorkerCrash, ServedOK, ServedAt
<1>6. ASSUME NEW w \in Workers, RetireWorker(w) \/ ListenFails(w) \/ Exit(w)
      PROVE  ServedOK'
  <2> SUFFICES ASSUME NEW p \in Clients, pc[p] = "waiting", request'[p] # "closed"
               PROVE  worker'[seen[p]] \in Serving
    BY <1>6 DEF RetireWorker, Listen, BeginShutdown, CloseServer, CleanupMeta, UnlinkMeta,
      ListenFails, Exit, ServedOK
  <2>1. request[p] # "closed" /\ seen[p] \in Workers /\ worker[seen[p]] \in Serving
    <3>1. request[p] # "closed"
      BY <1>6 DEF RetireWorker, Listen, BeginShutdown, CloseServer, CleanupMeta, UnlinkMeta,
        ListenFails, Exit
    <3> QED
      BY <3>1 DEF ServedOK
  <2>2. CASE seen[p] # w
    BY <1>6, <2>1, <2>2 DEF RetireWorker, Listen, BeginShutdown, CloseServer, CleanupMeta,
      UnlinkMeta, ListenFails, Exit
  <2>3. CASE seen[p] = w /\ CloseServer(w)
    <3>1. request[p] # "none" /\ request[p] \in Requests
      BY DEF LifeOK, Life
    <3>2. p \in Sockets(w)
      BY <2>1, <2>3, <3>1 DEF Sockets, Requests
    <3> QED
      BY <2>3, <3>2 DEF CloseServer
  <2>4. CASE seen[p] = w /\ ~CloseServer(w)
    BY <1>6, <2>1, <2>4 DEF RetireWorker, Listen, BeginShutdown, CleanupMeta, UnlinkMeta,
      ListenFails, Exit, Serving
  <2> QED
    BY <2>2, <2>3, <2>4
<1>7. CASE SweepMeta \/ SweepLock \/ SweepUnlink
  BY <1>7 DEF SweepMeta, SweepLock, SweepUnlink, ServedOK
<1> QED
  BY <1>1, <1>2, <1>3, <1>4, <1>5, <1>6, <1>7 DEF Next, RunViaDaemon

-----------------------------------------------------------------------------
(* The theorems                                                             *)

\* The inductive invariant holds in every reachable state.
THEOREM DaemonInvariance == Spec => []DaemonInv
<1>1. Init => DaemonInv
  BY InitDaemonInv
<1>2. DaemonInv /\ [Next]_vars => DaemonInv'
  <2>1. DaemonInv /\ Next => DaemonInv'
    BY NextKeepsTypes, NextKeepsLock, NextKeepsLife, NextKeepsServed DEF DaemonInv
  <2>2. DaemonInv /\ UNCHANGED vars => DaemonInv'
    <3> SUFFICES ASSUME DaemonInv, UNCHANGED vars
                 PROVE  DaemonInv'
      OBVIOUS
    <3>1. Types'
      BY DEF vars, files, history, DaemonInv, Types, FileTypes, WorkerTypes, StepTypes,
        SeenTypes, RequestTypes, HistoryTypes, StolenType
    <3>2. LockOK' /\ ServedOK'
      BY DEF vars, files, history, DaemonInv, LockOK, Owner, ServedOK
    <3>3. LifeOK'
      BY DEF vars, files, history, DaemonInv, LifeOK
    <3> QED
      BY <3>1, <3>2, <3>3 DEF DaemonInv
  <2> QED
    BY <2>1, <2>2
<1> QED
  BY <1>1, <1>2, PTL DEF Spec

\* The files, workers, clients and requests are well typed; no command is ever
\* started a third time.
THEOREM DaemonTypeCorrect == Spec => []TypeOK
<1>1. DaemonInv => TypeOK
  <2> SUFFICES ASSUME DaemonInv
               PROVE  TypeOK
    OBVIOUS
  <2>1. runs \in [Clients -> 0..2]
    <3>1. \A p \in Clients : runs[p] \in 0..2
      <4> SUFFICES ASSUME NEW p \in Clients
                   PROVE  runs[p] \in 0..2
        OBVIOUS
      <4>1. pc[p] \in Steps /\ request[p] \in Requests /\ Life(pc[p], request[p], runs[p], p \in excused)
        BY DEF DaemonInv, Types, StepTypes, RequestTypes, LifeOK
      <4> QED
        BY <4>1 DEF Life, Before, Steps, Ended, Requests, InFlight
    <3>2. runs \in [Clients -> Nat]
      BY DEF DaemonInv, Types, HistoryTypes
    <3> QED
      BY <3>1, <3>2
  <2>2. pc \in [Clients -> Ended \cup StartSteps \cup
       {"read", "drop", "lock", "unlink_lock", "send", "waiting", "catch",
        "local", "local_running"}]
    BY DEF DaemonInv, Types, StepTypes, Steps
  <2>3. /\ site \in [Clients -> {"probe", "loop", "recheck", "last", "after"}]
        /\ request \in [Clients -> InFlight \cup {"none", "connected", "closed"}]
        /\ worker \in [Workers -> Alive \cup {"none", "dead"}]
    BY DEF DaemonInv, Types, StepTypes, Sites, RequestTypes, Requests, WorkerTypes, Lives
  <2> QED
    BY <2>1, <2>2, <2>3 DEF DaemonInv, Types, FileTypes, SeenTypes, RequestTypes, HistoryTypes,
      StolenType, TypeOK
<1> QED
  BY <1>1, DaemonInvariance, PTL

\* Until a stale lock is cleared twice, the owner of the start lock is the only
\* one who spawns a worker and writes daemon.json, whatever dies and whatever
\* maintenance sweeps.
THEOREM StartersExcluded == Spec => []StartsAreExclusive
<1>1. DaemonInv => StartsAreExclusive
  BY DEF DaemonInv, LockOK, Owner, StartsAreExclusive
<1> QED
  BY <1>1, DaemonInvariance, PTL

\* The fallback to local execution repeats no command but one whose request timed
\* out or whose worker was killed.
THEOREM RunsAtMostOnce == Spec => []AtMostOnce
<1>1. DaemonInv => AtMostOnce
  <2> SUFFICES ASSUME DaemonInv, NEW p \in Clients, runs[p] > 1
               PROVE  p \in excused
    BY DEF AtMostOnce
  <2>1. pc[p] \in Steps /\ request[p] \in Requests /\ Life(pc[p], request[p], runs[p], p \in excused)
    BY DEF DaemonInv, Types, StepTypes, RequestTypes, LifeOK
  <2> QED
    BY <2>1 DEF Life, Before, Steps, Ended, Requests, InFlight
<1> QED
  BY <1>1, DaemonInvariance, PTL

\* What a client reports of its command is so.
THEOREM ReportsAreTrue == Spec => []OutcomesAreTrue
<1>1. DaemonInv => OutcomesAreTrue
  BY DEF DaemonInv, LifeOK, Life, OutcomesAreTrue
<1> QED
  BY <1>1, DaemonInvariance, PTL

\* A request in flight has a worker that serves it, through any shutdown.
THEOREM RequestsAreServed == Spec => []NoRequestIsAbandoned
<1>1. DaemonInv => NoRequestIsAbandoned
  BY DEF DaemonInv, ServedOK, NoRequestIsAbandoned
<1> QED
  BY <1>1, DaemonInvariance, PTL
=============================================================================
