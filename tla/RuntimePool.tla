------------------------------ MODULE RuntimePool ------------------------------
(****************************************************************************)
(* The daemon's pool of browser connections                                 *)
(* (core/session/infra/runtime-pool.ts), one Chrome DevTools connection per *)
(* session authority, lent to commands.                                     *)
(*                                                                          *)
(* Entries are heap objects: several commands refer to one entry across an  *)
(* await, and it may have left the Map `pool` (the code's `entries`) by     *)
(* then.  An action is a callback together with the promise continuations   *)
(* that are due after it; what waits for I/O (connectOverCDP,               *)
(* browser.close(), the cancellation callback of handleTimeout) ends in an  *)
(* action of its own, so that everything else can happen in between.        *)
(*                                                                          *)
(* lastUsedAt is left out: any idle entry may be the least recently used.   *)
(* Metrics are left out.  handleTimeout and drainColdEntriesOnMemoryPressure *)
(* belong to the pool's interface but only its tests call them: Keepers are *)
(* the processes that do, and an empty set of them is today's program.      *)
(*                                                                          *)
(* Definitions marked MUTANT are defects a change could introduce; no action *)
(* uses them.                                                               *)
(****************************************************************************)
EXTENDS Integers, FiniteSets

CONSTANTS
  Commands,            \* processes that acquire and release
  Keepers,             \* processes that signal timeouts or memory pressure
  Sessions,            \* session authorities, which are the keys of the Map
  Suspects,            \* sessions whose commands may time out
  Requests,            \* what may be asked for: [session, origin]
  MaxCopies,           \* RuntimeEntry objects per key alive at once
  MaxEntries,          \* maxEntries
  HardCloseThreshold,  \* timeoutHardCloseThreshold
  None

ASSUME SuspectsAssumption == Suspects \subseteq Sessions

ASSUME RequestsAssumption == \A r \in Requests : r.session \in Sessions

ASSUME LimitsAssumption ==
  /\ MaxEntries \in Nat \ {0}
  /\ HardCloseThreshold \in Nat \ {0}

ASSUME FiniteAssumption ==
  IsFiniteSet(Commands) /\ IsFiniteSet(Keepers) /\ IsFiniteSet(Sessions)

\* the Map, each command and each keeper refer to one object at most, so that
\* there always is one for a new entry
ASSUME CopiesAssumption ==
  /\ MaxCopies \in Nat
  /\ MaxCopies > Cardinality(Commands) + Cardinality(Keepers)

\* the name of a RuntimeEntry object: its sessionId and a number
Entry == Sessions \X (1..MaxCopies)
SessionOf(e) == e[1]

ASSUME NoneAssumption == None \notin Entry

VARIABLES
  pool,     \* the Map `entries`: session -> entry or None
  entry,    \* the fields of each RuntimeEntry
  cmd,      \* per command: the await it is in or how its acquire ended (at),
            \* its argument, the entry it refers to (None: none, or an
            \* uncached lease), the origin of the browser it was lent and
            \* what became of that browser
  keeper    \* per keeper: the await it is in and the entry it refers to

vars == <<pool, entry, cmd, keeper>>

States == {"absent", "warming", "ready", "degraded", "draining"}

\* "idle" also after a SessionRuntimePoolError or a failed connection,
\* "crashed" after the exception of a transition that is not allowed
Ended == {"idle", "crashed"}
Waiting == {"evicting", "warming", "reconnecting", "joining", "connecting"}

-----------------------------------------------------------------------------
(* Helpers *)

Pooled == {k \in Sessions : pool[k] # None}

\* a command whose acquire or release ended, in the way `how`
End(how) == [at |-> how, arg |-> None, ref |-> None, lease |-> "none",
             origin |-> None]
AwaitWith(at, r, e) == [at |-> at, arg |-> r, ref |-> e, lease |-> "none",
                        origin |-> None]
LeaseOf(r, e, origin) == [at |-> "holding", arg |-> r, ref |-> e,
                          lease |-> "current", origin |-> origin]

AtRest == [at |-> "idle", ref |-> None]

\* an object nothing refers to
Garbage == [state |-> "absent", origin |-> None, borrowCount |-> 0, strikes |-> 0]

\* the object acquire creates, as ensureWarmEntry leaves it
Fresh(origin) == [state |-> "warming", origin |-> origin, borrowCount |-> 0,
                  strikes |-> 0]

\* neither the Map nor a closure nor a pending promise refers to object e
Unreferenced(e) ==
  /\ pool[SessionOf(e)] # e
  /\ \A c \in Commands : cmd[c].ref # e
  /\ \A p \in Keepers : keeper[p].ref # e

\* names for a new object under key k: the lowest that is free
NewEntry(k) ==
  <<k, CHOOSE n \in 1..MaxCopies :
         /\ Unreferenced(<<k, n>>)
         /\ \A m \in 1..(n - 1) : ~Unreferenced(<<k, m>>)>>

\* MUTANT
IdleEntriesIgnoringBorrows ==
  {pool[k] : k \in {j \in Pooled : entry[pool[j]].state = "ready"}}

\* chooseIdleLruEvictionCandidate, whichever entry is the oldest
IdleEntries ==
  {pool[k] : k \in {j \in Pooled : /\ entry[pool[j]].state = "ready"
                                   /\ entry[pool[j]].borrowCount = 0}}

\* closeDrainingEntryIfIdle calls browser.close() (state and count as the
\* caller just left them)
ClosesNow(state, borrowed) == state = "draining" /\ borrowed = 0

\* what close() on e's browser does to those who were lent that browser
AfterClose(e) ==
  [c \in Commands |->
     IF cmd[c].ref = e /\ cmd[c].lease = "current"
     THEN [cmd[c] EXCEPT !.lease = "closed"] ELSE cmd[c]]

\* finalizeClosedEntry: its transition to closed is allowed from these states
\* and throws in any other; then e goes absent and its key is deleted,
\* whichever entry the Map holds there
Finalizable(e) == entry[e].state \in {"draining", "degraded"}

\* MUTANT
AbsentStuckInClosed(e) ==
  [entry EXCEPT ![e] = [Garbage EXCEPT !.state = "closed",
                                       !.borrowCount = entry[e].borrowCount]]

\* of an absent entry only the count of late borrowers is used again
Absent(e) ==
  [entry EXCEPT ![e] = [Garbage EXCEPT !.borrowCount = entry[e].borrowCount]]

\* MUTANT
KeepingKeyOf(e) == pool

WithoutKeyOf(e) == [pool EXCEPT ![SessionOf(e)] = None]

-----------------------------------------------------------------------------
(* acquire: the part before its first await *)

Found(r) == pool[r.session] # None
Cached(r) == entry[pool[r.session]]

\* MUTANT
MatchesAnyOrigin(r) == Found(r)

\* the cached entry is for the browser asked for (the other half of the code's
\* comparison, the session id, is the key itself)
Matches(r) == Found(r) /\ Cached(r).origin = r.origin

AcquireMismatch(c, r) ==
  /\ cmd[c].at \in Ended
  /\ Found(r)
  /\ ~Matches(r)
  /\ cmd' = [cmd EXCEPT ![c] = End("idle")]
  /\ UNCHANGED <<pool, entry, keeper>>

\* a ready entry is lent at once (entryLease)
AcquireHit(c, r) ==
  /\ cmd[c].at \in Ended
  /\ Matches(r)
  /\ Cached(r).state = "ready"
  /\ cmd' = [cmd EXCEPT ![c] = LeaseOf(r, pool[r.session], Cached(r).origin)]
  /\ entry' = [entry EXCEPT ![pool[r.session]].borrowCount = @ + 1]
  /\ UNCHANGED <<pool, keeper>>

\* await the warmingPromise of another command
AcquireJoin(c, r) ==
  /\ cmd[c].at \in Ended
  /\ Matches(r)
  /\ Cached(r).state = "warming"
  /\ cmd' = [cmd EXCEPT ![c] = AwaitWith("joining", r, pool[r.session])]
  /\ UNCHANGED <<pool, entry, keeper>>

AcquireReconnect(c, r) ==
  /\ cmd[c].at \in Ended
  /\ Matches(r)
  /\ Cached(r).state = "degraded"
  /\ cmd' = [cmd EXCEPT ![c] = AwaitWith("reconnecting", r, pool[r.session])]
  /\ entry' = [entry EXCEPT ![pool[r.session]].state = "warming"]
  /\ UNCHANGED <<pool, keeper>>

\* uncachedLease: the entry is draining, or the pool is full of busy entries
AcquireUncached(c, r) ==
  /\ cmd[c].at \in Ended
  /\ \/ Matches(r) /\ Cached(r).state = "draining"
     \/ ~Found(r) /\ Cardinality(Pooled) >= MaxEntries /\ IdleEntries = {}
  /\ cmd' = [cmd EXCEPT ![c] = AwaitWith("connecting", r, None)]
  /\ UNCHANGED <<pool, entry, keeper>>

\* evictIdleLruEntry up to its await of browser.close()
AcquireEvict(c, r) ==
  /\ cmd[c].at \in Ended
  /\ ~Found(r)
  /\ Cardinality(Pooled) >= MaxEntries
  /\ \E victim \in IdleEntries :
       /\ entry' = [entry EXCEPT ![victim].state = "draining"]
       /\ cmd' = [AfterClose(victim) EXCEPT
                    ![c] = AwaitWith("evicting", r, victim)]
  /\ UNCHANGED <<pool, keeper>>

\* a new entry is put under the key and warms up
AcquireWarm(c, r) ==
  /\ cmd[c].at \in Ended
  /\ ~Found(r)
  /\ Cardinality(Pooled) < MaxEntries
  /\ entry' = [entry EXCEPT ![NewEntry(r.session)] = Fresh(r.origin)]
  /\ pool' = [pool EXCEPT ![r.session] = NewEntry(r.session)]
  /\ cmd' = [cmd EXCEPT ![c] = AwaitWith("warming", r, NewEntry(r.session))]
  /\ UNCHANGED keeper

-----------------------------------------------------------------------------
(* acquire: after an await *)

\* browser.close() of the evicted entry returned: finalize it, then put a new
\* entry under the key, without looking at the Map again
EvictDone(c) ==
  /\ cmd[c].at = "evicting"
  /\ Finalizable(cmd[c].ref)
  /\ LET r == cmd[c].arg
         victim == cmd[c].ref
         e == NewEntry(r.session)
     IN  /\ entry' = [Absent(victim) EXCEPT ![e] = Fresh(r.origin)]
         /\ pool' = [WithoutKeyOf(victim) EXCEPT ![r.session] = e]
         /\ cmd' = [cmd EXCEPT ![c] = AwaitWith("warming", r, e)]
  /\ UNCHANGED keeper

\* somebody else finalized the evicted entry meanwhile: finalize throws
EvictThrows(c) ==
  /\ cmd[c].at = "evicting"
  /\ ~Finalizable(cmd[c].ref)
  /\ cmd' = [cmd EXCEPT ![c] = End("crashed")]
  /\ UNCHANGED <<pool, entry, keeper>>

\* those whose await ends when c's connectOverCDP does
Party(c) ==
  {c} \cup {d \in Commands : cmd[d].at = "joining" /\ cmd[d].ref = cmd[c].ref}

\* entryLease for each of the party; a browser that a reconnect replaced is
\* neither closed nor forgotten by those who hold it
LentAfterWarm(c) ==
  [d \in Commands |->
     IF d \in Party(c) THEN LeaseOf(cmd[d].arg, cmd[d].ref, entry[cmd[d].ref].origin)
     ELSE IF cmd[d].ref = cmd[c].ref /\ cmd[d].lease = "current"
          THEN [cmd[d] EXCEPT !.lease = "replaced"] ELSE cmd[d]]

\* connectOverCDP succeeded: the entry gets the new browser, and its initiator
\* and all joiners take a lease
WarmOk(c) ==
  /\ cmd[c].at \in {"warming", "reconnecting"}
  /\ entry' = [entry EXCEPT ![cmd[c].ref].state = "ready",
                            ![cmd[c].ref].strikes = 0,
                            ![cmd[c].ref].borrowCount = @ + Cardinality(Party(c))]
  /\ cmd' = LentAfterWarm(c)
  /\ UNCHANGED <<pool, keeper>>

\* MUTANT
WarmFailForgettingJoiners(c) ==
  /\ cmd[c].at \in {"warming", "reconnecting"}
  /\ entry' = Absent(cmd[c].ref)
  /\ pool' = WithoutKeyOf(cmd[c].ref)
  /\ cmd' = [cmd EXCEPT ![c] = End("idle")]
  /\ UNCHANGED keeper

\* connectOverCDP failed: the entry goes absent and its key is deleted.
\* Joiners get E_RUNTIME_POOL_WARM_FAILED; so does the initiator, unless it was
\* reconnecting: then the catch in acquire tries absent -> closed, which throws
WarmFail(c) ==
  /\ cmd[c].at \in {"warming", "reconnecting"}
  /\ entry' = Absent(cmd[c].ref)
  /\ pool' = WithoutKeyOf(cmd[c].ref)
  /\ cmd' = [d \in Commands |->
               IF d = c /\ cmd[c].at = "reconnecting" THEN End("crashed")
               ELSE IF d \in Party(c) THEN End("idle") ELSE cmd[d]]
  /\ UNCHANGED keeper

\* the connection of an uncached lease
UncachedOk(c) ==
  /\ cmd[c].at = "connecting"
  /\ cmd' = [cmd EXCEPT ![c] = LeaseOf(cmd[c].arg, None, cmd[c].arg.origin)]
  /\ UNCHANGED <<pool, entry, keeper>>

UncachedFail(c) ==
  /\ cmd[c].at = "connecting"
  /\ cmd' = [cmd EXCEPT ![c] = End("idle")]
  /\ UNCHANGED <<pool, entry, keeper>>

-----------------------------------------------------------------------------
(* release *)

\* an uncached lease closes its own browser
ReleaseUncached(c) ==
  /\ cmd[c].at = "holding"
  /\ cmd[c].ref = None
  /\ cmd' = [cmd EXCEPT ![c] = End("idle")]
  /\ UNCHANGED <<pool, entry, keeper>>

\* the last borrower of a draining entry closes it, others are done
Release(c) ==
  /\ cmd[c].at = "holding"
  /\ cmd[c].ref # None
  /\ LET e == cmd[c].ref
         left == IF entry[e].borrowCount > 0 THEN entry[e].borrowCount - 1 ELSE 0
     IN  /\ entry' = [entry EXCEPT ![e].borrowCount = left]
         /\ cmd' = IF ClosesNow(entry[e].state, left)
                   THEN [AfterClose(e) EXCEPT
                           ![c] = AwaitWith("releasing", None, e)]
                   ELSE [cmd EXCEPT ![c] = End("idle")]
  /\ UNCHANGED <<pool, keeper>>

\* browser.close() returned: finalizeClosedEntry, or its exception
ReleaseDone(c) ==
  /\ cmd[c].at = "releasing"
  /\ IF Finalizable(cmd[c].ref)
     THEN /\ entry' = Absent(cmd[c].ref)
          /\ pool' = WithoutKeyOf(cmd[c].ref)
          /\ cmd' = [cmd EXCEPT ![c] = End("idle")]
     ELSE /\ cmd' = [cmd EXCEPT ![c] = End("crashed")]
          /\ UNCHANGED <<pool, entry>>
  /\ UNCHANGED keeper

-----------------------------------------------------------------------------
(* handleTimeout and drainColdEntriesOnMemoryPressure (maxToDrain = 1) *)

\* handleTimeout up to its await of bestEffortCancel().  Strikes beyond the
\* threshold make no difference.
SignalTimeout(p, k) ==
  /\ keeper[p].at = "idle"
  /\ pool[k] # None
  /\ entry' = [entry EXCEPT
       ![pool[k]].state = IF @ = "ready" THEN "degraded" ELSE @,
       ![pool[k]].strikes = IF @ < HardCloseThreshold THEN @ + 1 ELSE @]
  /\ keeper' = [keeper EXCEPT ![p] = [at |-> "cancelling", ref |-> pool[k]]]
  /\ UNCHANGED <<pool, cmd>>

\* the cancellation resolved or not: an unresolved one drains the entry, and
\* from the threshold on a degraded entry is dropped, with borrowers or not
CancelReturns(p, cancelled) ==
  /\ keeper[p].at = "cancelling"
  /\ LET e == keeper[p].ref
         before == entry[e].state
         hard == entry[e].strikes >= HardCloseThreshold
         after == IF \/ ~cancelled /\ before \in {"ready", "degraded"}
                     \/ hard /\ before = "ready"
                  THEN "draining" ELSE before
         drops == hard /\ after = "degraded"
         closes == (~cancelled \/ hard) /\ ClosesNow(after, entry[e].borrowCount)
     IN  /\ entry' = IF drops THEN Absent(e) ELSE [entry EXCEPT ![e].state = after]
         /\ pool' = IF drops THEN WithoutKeyOf(e) ELSE pool
         /\ cmd' = IF closes THEN AfterClose(e) ELSE cmd
         /\ keeper' = [keeper EXCEPT
                         ![p] = IF closes THEN [@ EXCEPT !.at = "closing"] ELSE AtRest]

DrainCold(p) ==
  /\ keeper[p].at = "idle"
  /\ \E e \in IdleEntries :
       /\ entry' = [entry EXCEPT ![e].state = "draining"]
       /\ cmd' = AfterClose(e)
       /\ keeper' = [keeper EXCEPT ![p] = [at |-> "closing", ref |-> e]]
  /\ UNCHANGED pool

\* browser.close() returned: finalizeClosedEntry, or its exception
KeeperCloseDone(p) ==
  /\ keeper[p].at = "closing"
  /\ IF Finalizable(keeper[p].ref)
     THEN /\ entry' = Absent(keeper[p].ref)
          /\ pool' = WithoutKeyOf(keeper[p].ref)
     ELSE UNCHANGED <<pool, entry>>
  /\ keeper' = [keeper EXCEPT ![p] = AtRest]
  /\ UNCHANGED cmd

-----------------------------------------------------------------------------
(* Specification *)

Init ==
  /\ pool = [k \in Sessions |-> None]
  /\ entry = [e \in Entry |-> Garbage]
  /\ cmd = [c \in Commands |-> End("idle")]
  /\ keeper = [p \in Keepers |-> AtRest]

Acquire(c) ==
  \E r \in Requests :
    \/ AcquireMismatch(c, r)
    \/ AcquireHit(c, r)
    \/ AcquireJoin(c, r)
    \/ AcquireReconnect(c, r)
    \/ AcquireUncached(c, r)
    \/ AcquireEvict(c, r)
    \/ AcquireWarm(c, r)

\* the I/O an acquire waits for ends, well or badly
Progress(c) ==
  \/ EvictDone(c)
  \/ EvictThrows(c)
  \/ WarmOk(c)
  \/ WarmFail(c)
  \/ UncachedOk(c)
  \/ UncachedFail(c)

Keep(p) ==
  \/ \E k \in Suspects : SignalTimeout(p, k)
  \/ \E cancelled \in BOOLEAN : CancelReturns(p, cancelled)
  \/ DrainCold(p)
  \/ KeeperCloseDone(p)

Next ==
  \/ \E c \in Commands :
       \/ Acquire(c)
       \/ Progress(c)
       \/ ReleaseUncached(c)
       \/ Release(c)
       \/ ReleaseDone(c)
  \/ \E p \in Keepers : Keep(p)

Spec == Init /\ [][Next]_vars

-----------------------------------------------------------------------------
(* Properties *)

\* Type invariant.  Between callbacks no entry is ever seen in state closed, so
\* the branches for that state in acquire and ensureWarmEntry never run.
TypeOK ==
  /\ pool \in [Sessions -> Entry \cup {None}]
  /\ \A k \in Pooled : SessionOf(pool[k]) = k
  /\ entry \in [Entry ->
       [state : States, origin : {r.origin : r \in Requests} \cup {None},
        borrowCount : 0..Cardinality(Commands), strikes : 0..HardCloseThreshold]]
  /\ cmd \in [Commands ->
       [at : Ended \cup Waiting \cup {"holding", "releasing"},
        arg : Requests \cup {None}, ref : Entry \cup {None},
        lease : {"none", "current", "replaced", "closed"},
        origin : {r.origin : r \in Requests} \cup {None}]]
  /\ keeper \in [Keepers -> [at : {"idle", "cancelling", "closing"},
                             ref : Entry \cup {None}]]

Holding(e) == {c \in Commands : cmd[c].at = "holding" /\ cmd[c].ref = e}

\* The pool never closes a browser under a command it lent it to, although it
\* looks at borrowCount before it awaits browser.close(); and borrowCount is the
\* number of commands that hold a lease on the entry, through joins, reconnects,
\* evictions, drops and failed connections.
LentBrowsersStayOpen ==
  /\ \A c \in Commands : cmd[c].lease # "closed"
  /\ \A e \in Entry : entry[e].borrowCount = Cardinality(Holding(e))

\* A lease is for the session and the browser asked for, also when it comes from
\* joining somebody else's warm-up, and when other entries were put under the key
\* meanwhile (no cross-session borrowing, fail closed).
LeasesMatchRequests ==
  \A c \in Commands : cmd[c].at = "holding" =>
    /\ cmd[c].origin = cmd[c].arg.origin
    /\ cmd[c].ref # None => SessionOf(cmd[c].ref) = cmd[c].arg.session

\* An acquire that evicts looks at the pool's size before it awaits the close and
\* adds its entry after it, and its victim can have left the Map by then (a
\* second entry was put over it, and failed): MaxEntries can be exceeded, by one
\* entry for each other command at most.
PoolIsBounded ==
  Cardinality(Pooled) <= MaxEntries + Cardinality(Commands) - 1

Connecting(c) == cmd[c].at \in {"warming", "reconnecting"}

\* An acquire that waits for somebody else's warm-up waits for one that is under
\* way, even if the entry has left the Map: whoever settles it wakes them all.
JoinersAreWoken ==
  \A c \in Commands : cmd[c].at = "joining" =>
    \E d \in Commands : Connecting(d) /\ cmd[d].ref = cmd[c].ref

\* cli-and-daemon.md:125: "no same-key double warm".
NoSameKeyDoubleWarm ==
  \A c, d \in Commands :
    Connecting(c) /\ Connecting(d) /\ cmd[c].arg.session = cmd[d].arg.session
      => c = d
=============================================================================
