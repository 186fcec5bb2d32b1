-------------------------- MODULE RuntimePoolProofs --------------------------
(****************************************************************************)
(* Theorems about the pool of browser connections, for any number of        *)
(* commands, keepers and sessions and any limits.                           *)
(****************************************************************************)
EXTENDS RuntimePool, FiniteSetTheorems, WellFoundedInduction, TLAPS

-----------------------------------------------------------------------------
(* Names of objects *)

\* A set of natural numbers that is not empty has a least element.
LEMMA HasLeast ==
  ASSUME NEW T, T \subseteq Nat, T # {}
  PROVE  \E x \in T : \A y \in T : x <= y
<1>1. PICK R : /\ IsWellFoundedOn(R, Nat)
               /\ \A x, y \in Nat : x < y => <<x, y>> \in R
  <2>1. \A x, y \in Nat : x < y => <<x, y>> \in OpToRel(<, Nat)
    BY DEF OpToRel
  <2> QED
    BY <2>1, NatLessThanWellFounded, Zenon
<1>2. IsWellFoundedOn(R, Nat)
  BY <1>1
<1>3. PICK x \in T : \A y \in T : <<y, x>> \notin R
  BY <1>2, WFMin
<1>4. \A y \in T : ~(y < x)
  BY <1>1, <1>3
<1> QED
  BY <1>4

\* The values of a function on a finite set are no more than its arguments.
LEMMA ImageIsSmall ==
  ASSUME NEW S, IsFiniteSet(S), NEW f, DOMAIN f = S
  PROVE  /\ IsFiniteSet({f[x] : x \in S})
         /\ Cardinality({f[x] : x \in S}) <= Cardinality(S)
<1> DEFINE g == [x \in S |-> f[x]]
<1>1. g \in Surjection(S, {f[x] : x \in S})
  BY DEF Surjection
<1> QED
  BY <1>1, FS_Surjection

LEMMA UnionIsSmall ==
  ASSUME NEW S, IsFiniteSet(S), NEW T, IsFiniteSet(T)
  PROVE  /\ IsFiniteSet(S \cup T)
         /\ Cardinality(S \cup T) <= Cardinality(S) + Cardinality(T)
<1>1. IsFiniteSet(S \cap T)
  BY FS_Subset
<1>2. Cardinality(S) \in Nat /\ Cardinality(T) \in Nat /\ Cardinality(S \cap T) \in Nat
  BY <1>1, FS_CardinalityType
<1>3. IsFiniteSet(S \cup T)
      /\ Cardinality(S \cup T) = Cardinality(S) + Cardinality(T) - Cardinality(S \cap T)
  BY FS_Union
<1> QED
  BY <1>2, <1>3

\* The objects of key k.
Copies(k) == {<<k, n>> : n \in 1..MaxCopies}

\* There is a name for a new object under key k while one command refers to
\* none of that key: the Map and the others refer to one each.
LEMMA NameIsLeft ==
  ASSUME NEW k \in Sessions, NEW c0 \in Commands, cmd[c0].ref \notin Copies(k)
  PROVE  \E n \in 1..MaxCopies : Unreferenced(<<k, n>>)
<1> DEFINE rest == Commands \ {c0}
           refs == [c \in rest |-> cmd[c].ref]
           held == [p \in Keepers |-> keeper[p].ref]
           S1 == {pool[k]}
           S2 == {refs[c] : c \in rest}
           S3 == {held[p] : p \in Keepers}
           f == [n \in 1..MaxCopies |-> <<k, n>>]
<1>1. IsFiniteSet(rest) /\ Cardinality(rest) = Cardinality(Commands) - 1
  BY FiniteAssumption, FS_RemoveElement
<1>2. IsFiniteSet(S1) /\ Cardinality(S1) = 1
  BY FS_Singleton
<1>3. IsFiniteSet(S2) /\ Cardinality(S2) <= Cardinality(rest)
  <2>1. DOMAIN refs = rest
    OBVIOUS
  <2> HIDE DEF refs, rest
  <2> QED
    BY <1>1, <2>1, ImageIsSmall
<1>4. IsFiniteSet(S3) /\ Cardinality(S3) <= Cardinality(Keepers)
  <2>1. DOMAIN held = Keepers
    OBVIOUS
  <2> HIDE DEF held
  <2> QED
    BY <2>1, FiniteAssumption, ImageIsSmall
<1> HIDE DEF S1, S2, S3
<1>5. IsFiniteSet(S1 \cup S2) /\ Cardinality(S1 \cup S2) <= Cardinality(S1) + Cardinality(S2)
  BY <1>2, <1>3, UnionIsSmall
<1>6. /\ IsFiniteSet((S1 \cup S2) \cup S3)
      /\ Cardinality((S1 \cup S2) \cup S3) <= Cardinality(S1 \cup S2) + Cardinality(S3)
  BY <1>4, <1>5, UnionIsSmall
<1>7. SUFFICES ASSUME \A n \in 1..MaxCopies : ~Unreferenced(<<k, n>>)
               PROVE  FALSE
  OBVIOUS
<1>8. \A n \in 1..MaxCopies : <<k, n>> \in (S1 \cup S2) \cup S3
  <2> SUFFICES ASSUME NEW n \in 1..MaxCopies
               PROVE  <<k, n>> \in (S1 \cup S2) \cup S3
    OBVIOUS
  <2>1. ~Unreferenced(<<k, n>>)
    BY <1>7
  <2>2. cmd[c0].ref # <<k, n>>
    BY DEF Copies
  <2> QED
    BY <2>1, <2>2 DEF Unreferenced, SessionOf, S1, S2, S3
<1>9. f \in Injection(1..MaxCopies, (S1 \cup S2) \cup S3)
  BY <1>8 DEF Injection, IsInjective
<1>10. Cardinality(1..MaxCopies) <= Cardinality((S1 \cup S2) \cup S3)
  <2> HIDE DEF f
  <2> QED
    BY <1>6, <1>9, FS_Injection
<1>11. Cardinality(1..MaxCopies) = MaxCopies
  <2>1. Cardinality(1..MaxCopies) = IF 1 > MaxCopies THEN 0 ELSE MaxCopies - 1 + 1
    BY CopiesAssumption, FS_Interval
  <2> QED
    BY <2>1, CopiesAssumption
<1>12. /\ Cardinality(rest) \in Nat /\ Cardinality(Keepers) \in Nat
       /\ Cardinality(Commands) \in Nat /\ Cardinality((S1 \cup S2) \cup S3) \in Nat
       /\ Cardinality(S1 \cup S2) \in Nat /\ Cardinality(S2) \in Nat /\ Cardinality(S3) \in Nat
  BY <1>1, <1>3, <1>4, <1>5, <1>6, FiniteAssumption, FS_CardinalityType
<1>13. Cardinality((S1 \cup S2) \cup S3) <= Cardinality(Commands) + Cardinality(Keepers)
  <2> HIDE DEF rest
  <2> QED
    BY <1>1, <1>2, <1>3, <1>4, <1>5, <1>6, <1>12
<1> QED
  BY <1>10, <1>11, <1>12, <1>13, CopiesAssumption

\* The object NewEntry names is a new one.
LEMMA NewEntryIsNew ==
  ASSUME NEW k \in Sessions, NEW c0 \in Commands, cmd[c0].ref \notin Copies(k)
  PROVE  /\ NewEntry(k) \in Entry
         /\ SessionOf(NewEntry(k)) = k
         /\ Unreferenced(NewEntry(k))
<1> DEFINE free == {n \in 1..MaxCopies : Unreferenced(<<k, n>>)}
<1>1. free # {} /\ free \subseteq Nat
  BY NameIsLeft, CopiesAssumption
<1>2. PICK n \in free : \A m \in free : n <= m
  BY <1>1, HasLeast
<1>3. \A m \in 1..(n - 1) : ~Unreferenced(<<k, m>>)
  BY <1>1, <1>2, CopiesAssumption
<1> DEFINE P(i) == Unreferenced(<<k, i>>) /\ \A m \in 1..(i - 1) : ~Unreferenced(<<k, m>>)
<1>4. \E i \in 1..MaxCopies : P(i)
  BY <1>2, <1>3
<1>5. /\ (CHOOSE i \in 1..MaxCopies : P(i)) \in 1..MaxCopies
      /\ P(CHOOSE i \in 1..MaxCopies : P(i))
  <2> HIDE DEF P
  <2> QED
    BY <1>4
<1>6. NewEntry(k) = <<k, CHOOSE i \in 1..MaxCopies : P(i)>>
  BY DEF NewEntry
<1> DEFINE i0 == CHOOSE i \in 1..MaxCopies : P(i)
<1>7. i0 \in 1..MaxCopies /\ Unreferenced(<<k, i0>>) /\ NewEntry(k) = <<k, i0>>
  BY <1>5, <1>6
<1> HIDE DEF i0
<1> QED
  BY <1>7 DEF Entry, SessionOf

-----------------------------------------------------------------------------
(* The inductive invariant *)

Origins == {r.origin : r \in Requests} \cup {None}

EntryRecords == [state : States, origin : Origins, borrowCount : Nat,
                 strikes : 0..HardCloseThreshold]
CommandRecords == [at : Ended \cup Waiting \cup {"holding", "releasing"},
                   arg : Requests \cup {None}, ref : Entry \cup {None},
                   lease : {"none", "current", "replaced", "closed"},
                   origin : Origins]
KeeperRecords == [at : {"idle", "cancelling", "closing"}, ref : Entry \cup {None}]

Types ==
  /\ pool \in [Sessions -> Entry \cup {None}]
  /\ \A k \in Sessions : pool[k] # None => SessionOf(pool[k]) = k
  /\ entry \in [Entry -> EntryRecords]
  /\ cmd \in [Commands -> CommandRecords]
  /\ keeper \in [Keepers -> KeeperRecords]

\* commands whose entry is being connected
AtWarm == {"warming", "reconnecting", "joining"}

\* What a command that is at `x.at` refers to.
Shape(x) ==
  /\ x.at \in Ended => x.ref = None
  /\ x.at = "connecting" => x.ref = None /\ x.arg \in Requests
  /\ x.at \in AtWarm => /\ x.ref \in Entry /\ x.arg \in Requests
                        /\ SessionOf(x.ref) = x.arg.session
  /\ x.at = "evicting" => /\ x.ref \in Entry /\ x.arg \in Requests
                          /\ SessionOf(x.ref) # x.arg.session
  /\ x.at = "releasing" => x.ref \in Entry
  /\ x.at = "holding" => /\ x.arg \in Requests /\ x.origin = x.arg.origin
                         /\ x.ref # None => SessionOf(x.ref) = x.arg.session
  /\ x.lease \in (IF x.at = "holding" THEN {"current", "replaced"} ELSE {"none"})

Shapes ==
  /\ \A c \in Commands : Shape(cmd[c])
  /\ \A p \in Keepers : keeper[p].at # "idle" => keeper[p].ref \in Entry

\* An entry warms up exactly while one command connects it, for the origin its
\* joiners ask for too.
WarmUps ==
  /\ \A c \in Commands : cmd[c].at \in AtWarm =>
       /\ entry[cmd[c].ref].state = "warming"
       /\ entry[cmd[c].ref].origin = cmd[c].arg.origin
  /\ \A c, d \in Commands :
       Connecting(c) /\ Connecting(d) /\ cmd[c].ref = cmd[d].ref => c = d
  /\ \A e \in Entry : entry[e].state = "warming" =>
       \E d \in Commands : Connecting(d) /\ cmd[d].ref = e

Counts == \A e \in Entry : entry[e].borrowCount = Cardinality(Holding(e))

PoolInv == Types /\ Shapes /\ WarmUps /\ Counts

LEMMA InitPoolInv == Init => PoolInv
<1> SUFFICES ASSUME Init PROVE PoolInv
  OBVIOUS
<1> USE DEF Init, Garbage, End, AtRest
<1>1. Types
  BY LimitsAssumption DEF Types, EntryRecords, CommandRecords, KeeperRecords, States, Ended,
    Waiting, Origins
<1>2. Shapes
  BY DEF Shapes, Shape, Ended, AtWarm
<1>3. WarmUps
  BY DEF WarmUps, AtWarm, Connecting
<1>4. Counts
  <2>1. \A e \in Entry : Holding(e) = {}
    BY DEF Holding
  <2> QED
    BY <2>1, FS_EmptySet DEF Counts
<1> QED
  BY <1>1, <1>2, <1>3, <1>4 DEF PoolInv

-----------------------------------------------------------------------------
(* Acquire *)

\* A Map without changes in who holds what keeps its counts.
LEMMA SameHoldersSameCounts ==
  ASSUME PoolInv, Counts,
         \A x \in Entry : entry'[x].borrowCount = entry[x].borrowCount,
         \A c \in Commands, e \in Entry :
           (cmd'[c].at = "holding" /\ cmd'[c].ref = e) <=> (cmd[c].at = "holding" /\ cmd[c].ref = e)
  PROVE  Counts'
<1>1. \A e \in Entry : Holding(e)' = Holding(e)
  BY DEF Holding
<1> QED
  BY <1>1 DEF Counts

\* A pooled entry is one of its key.
LEMMA PooledIsEntry ==
  ASSUME Types, NEW r \in Requests, Found(r)
  PROVE  pool[r.session] \in Entry /\ SessionOf(pool[r.session]) = r.session
BY RequestsAssumption DEF Types, Found

LEMMA MoveShapes ==
  ASSUME Types, Shapes, NEW c \in Commands, NEW x, Shape(x),
         cmd' = [cmd EXCEPT ![c] = x], UNCHANGED keeper
  PROVE  Shapes'
BY DEF Types, Shapes

LEMMA AcquireMismatchKeeps ==
  ASSUME PoolInv, NEW c \in Commands, NEW r \in Requests, AcquireMismatch(c, r)
  PROVE  PoolInv'
<1> USE DEF PoolInv, AcquireMismatch
<1>1. Types'
  BY RequestsAssumption DEF Types, EntryRecords, CommandRecords, KeeperRecords, States, Ended,
    Waiting, Origins, End
<1>2. Shapes'
  <2>1. Shape(End("idle"))
    BY NoneAssumption DEF Types, EntryRecords, CommandRecords, KeeperRecords, States, Ended,
      Waiting, Origins, Shapes, Shape, AtWarm, End
  <2> QED
    BY <2>1, MoveShapes
<1>3. WarmUps'
  BY NoneAssumption DEF Types, EntryRecords, CommandRecords, KeeperRecords, States, Ended,
    Waiting, Origins, Shapes, Shape, AtWarm, WarmUps, Connecting, End
<1>4. Counts'
  <2>1. \A x \in Entry : entry'[x].borrowCount = entry[x].borrowCount
    BY DEF Types, EntryRecords, CommandRecords, KeeperRecords, States, Ended, Waiting, Origins,
      End
  <2>2. \A d \in Commands, x \in Entry :
          (cmd'[d].at = "holding" /\ cmd'[d].ref = x) <=> (cmd[d].at = "holding" /\ cmd[d].ref = x)
    BY NoneAssumption DEF Types, EntryRecords, CommandRecords, KeeperRecords, States, Ended,
      Waiting, Origins, Shapes, Shape, End
  <2> QED
    BY <2>1, <2>2, SameHoldersSameCounts
<1> QED
  BY <1>1, <1>2, <1>3, <1>4

LEMMA AcquireJoinKeeps ==
  ASSUME PoolInv, NEW c \in Commands, NEW r \in Requests, AcquireJoin(c, r)
  PROVE  PoolInv'
<1> USE DEF PoolInv, AcquireJoin
<1>0. pool[r.session] \in Entry /\ SessionOf(pool[r.session]) = r.session
  BY PooledIsEntry DEF Matches
<1>1. Types'
  BY <1>0, RequestsAssumption DEF Types, EntryRecords, CommandRecords, KeeperRecords, States,
    Ended, Waiting, Origins, AwaitWith, Matches, Found, Cached
<1>2. Shapes'
  <2>1. Shape(AwaitWith("joining", r, pool[r.session]))
    BY <1>0, NoneAssumption DEF Types, EntryRecords, CommandRecords, KeeperRecords, States,
      Ended, Waiting, Origins, Shapes, Shape, AtWarm, AwaitWith, Matches, Found, Cached
  <2> QED
    BY <2>1, MoveShapes
<1>3. WarmUps'
  BY <1>0, NoneAssumption DEF Types, EntryRecords, CommandRecords, KeeperRecords, States, Ended,
    Waiting, Origins, Shapes, Shape, AtWarm, WarmUps, Connecting, AwaitWith, Matches, Found,
    Cached
<1>4. Counts'
  <2>1. \A x \in Entry : entry'[x].borrowCount = entry[x].borrowCount
    BY DEF Types, EntryRecords, CommandRecords, KeeperRecords, States, Ended, Waiting, Origins,
      AwaitWith, Matches, Found, Cached
  <2>2. \A d \in Commands, x \in Entry :
          (cmd'[d].at = "holding" /\ cmd'[d].ref = x) <=> (cmd[d].at = "holding" /\ cmd[d].ref = x)
    BY NoneAssumption DEF Types, EntryRecords, CommandRecords, KeeperRecords, States, Ended,
      Waiting, Origins, Shapes, Shape, AwaitWith, Matches, Found, Cached
  <2> QED
    BY <2>1, <2>2, SameHoldersSameCounts
<1> QED
  BY <1>1, <1>2, <1>3, <1>4

LEMMA AcquireReconnectKeeps ==
  ASSUME PoolInv, NEW c \in Commands, NEW r \in Requests, AcquireReconnect(c, r)
  PROVE  PoolInv'
<1> USE DEF PoolInv, AcquireReconnect
<1> DEFINE e == pool[r.session]
<1>0. e \in Entry /\ SessionOf(e) = r.session
  BY PooledIsEntry DEF Matches
<1>1. Types'
  BY <1>0, RequestsAssumption DEF Types, EntryRecords, CommandRecords, KeeperRecords, States,
    Ended, Waiting, Origins, AwaitWith, Matches, Found, Cached
<1>2. Shapes'
  <2>1. Shape(AwaitWith("reconnecting", r, e))
    BY <1>0, NoneAssumption DEF Types, EntryRecords, CommandRecords, KeeperRecords, States,
      Ended, Waiting, Origins, Shapes, Shape, AtWarm, AwaitWith, Matches, Found, Cached
  <2> QED
    BY <2>1, MoveShapes
<1>3. WarmUps'
  BY <1>0, NoneAssumption DEF Types, EntryRecords, CommandRecords, KeeperRecords, States, Ended,
    Waiting, Origins, Shapes, Shape, AtWarm, WarmUps, Connecting, AwaitWith, Matches, Found,
    Cached
<1>4. Counts'
  <2>1. \A x \in Entry : entry'[x].borrowCount = entry[x].borrowCount
    BY DEF Types, EntryRecords, CommandRecords, KeeperRecords, States, Ended, Waiting, Origins,
      AwaitWith, Matches, Found, Cached
  <2>2. \A d \in Commands, x \in Entry :
          (cmd'[d].at = "holding" /\ cmd'[d].ref = x) <=> (cmd[d].at = "holding" /\ cmd[d].ref = x)
    BY NoneAssumption DEF Types, EntryRecords, CommandRecords, KeeperRecords, States, Ended,
      Waiting, Origins, Shapes, Shape, AwaitWith, Matches, Found, Cached
  <2> QED
    BY <2>1, <2>2, SameHoldersSameCounts
<1> QED
  BY <1>1, <1>2, <1>3, <1>4

LEMMA AcquireUncachedKeeps ==
  ASSUME PoolInv, NEW c \in Commands, NEW r \in Requests, AcquireUncached(c, r)
  PROVE  PoolInv'
<1> USE DEF PoolInv, AcquireUncached
<1>1. Types'
  BY RequestsAssumption DEF Types, EntryRecords, CommandRecords, KeeperRecords, States, Ended,
    Waiting, Origins, AwaitWith
<1>2. Shapes'
  <2>1. Shape(AwaitWith("connecting", r, None))
    BY NoneAssumption DEF Types, EntryRecords, CommandRecords, KeeperRecords, States, Ended,
      Waiting, Origins, Shapes, Shape, AtWarm, AwaitWith
  <2> QED
    BY <2>1, MoveShapes
<1>3. WarmUps'
  BY NoneAssumption DEF Types, EntryRecords, CommandRecords, KeeperRecords, States, Ended,
    Waiting, Origins, Shapes, Shape, AtWarm, WarmUps, Connecting, AwaitWith
<1>4. Counts'
  <2>1. \A x \in Entry : entry'[x].borrowCount = entry[x].borrowCount
    BY DEF Types, EntryRecords, CommandRecords, KeeperRecords, States, Ended, Waiting, Origins,
      AwaitWith
  <2>2. \A d \in Commands, x \in Entry :
          (cmd'[d].at = "holding" /\ cmd'[d].ref = x) <=> (cmd[d].at = "holding" /\ cmd[d].ref = x)
    BY NoneAssumption DEF Types, EntryRecords, CommandRecords, KeeperRecords, States, Ended,
      Waiting, Origins, Shapes, Shape, AwaitWith
  <2> QED
    BY <2>1, <2>2, SameHoldersSameCounts
<1> QED
  BY <1>1, <1>2, <1>3, <1>4

\* Finitely many commands hold an entry.
LEMMA HoldersAreFinite ==
  ASSUME NEW e
  PROVE  IsFiniteSet(Holding(e)) /\ Cardinality(Holding(e)) \in 0..Cardinality(Commands)
<1>1. Holding(e) \subseteq Commands
  BY DEF Holding
<1>2. IsFiniteSet(Holding(e)) /\ Cardinality(Holding(e)) <= Cardinality(Commands)
  BY <1>1, FiniteAssumption, FS_Subset
<1> QED
  BY <1>2, FiniteAssumption, FS_CardinalityType

\* A new entry warms up for the origin asked for and is held by nobody.
LEMMA FreshEntry ==
  ASSUME NEW r \in Requests
  PROVE  /\ Fresh(r.origin) \in EntryRecords
         /\ Fresh(r.origin).state = "warming"
         /\ Fresh(r.origin).origin = r.origin
         /\ Fresh(r.origin).borrowCount = 0
BY LimitsAssumption DEF Fresh, EntryRecords, States, Origins

\* A finalized entry is absent and keeps its count.
LEMMA AbsentEntry ==
  ASSUME Types, NEW e \in Entry
  PROVE  /\ Absent(e) \in [Entry -> EntryRecords]
         /\ Absent(e)[e].state = "absent"
         /\ Absent(e)[e].borrowCount = entry[e].borrowCount
         /\ \A x \in Entry : x # e => Absent(e)[x] = entry[x]
<1> DEFINE gone == [Garbage EXCEPT !.borrowCount = entry[e].borrowCount]
<1>1. gone = [state |-> "absent", origin |-> None, borrowCount |-> entry[e].borrowCount,
              strikes |-> 0]
  BY DEF Garbage
<1>2. gone \in EntryRecords
  BY <1>1, LimitsAssumption DEF Types, EntryRecords, States, Origins
<1> QED
  BY <1>1, <1>2 DEF Types, Absent

\* Nobody holds an entry whose count is zero, so that its browser may be closed.
LEMMA NoHolder ==
  ASSUME Counts, NEW e \in Entry, entry[e].borrowCount = 0
  PROVE  Holding(e) = {}
BY HoldersAreFinite, FS_EmptySet DEF Counts

\* Closing a browser nobody holds is seen by nobody.
LEMMA CloseIsUnseen ==
  ASSUME Types, Shapes, NEW e, Holding(e) = {}
  PROVE  AfterClose(e) = cmd
<1>1. \A d \in Commands : cmd[d].ref = e => cmd[d].lease # "current"
  BY DEF Holding, Shapes, Shape
<1> QED
  BY <1>1 DEF AfterClose, Types

LEMMA AcquireHitKeeps ==
  ASSUME PoolInv, NEW c \in Commands, NEW r \in Requests, AcquireHit(c, r)
  PROVE  PoolInv'
<1> USE DEF PoolInv, AcquireHit
<1> DEFINE e == pool[r.session]
<1>0. e \in Entry /\ SessionOf(e) = r.session
  BY PooledIsEntry DEF Matches
<1>1. Types'
  BY <1>0, RequestsAssumption DEF Types, EntryRecords, CommandRecords, KeeperRecords, States,
    Ended, Waiting, Origins, LeaseOf, Matches, Found, Cached
<1>2. Shapes'
  <2>1. Shape(LeaseOf(r, e, Cached(r).origin))
    BY <1>0, NoneAssumption DEF Types, EntryRecords, CommandRecords, KeeperRecords, States,
      Ended, Waiting, Origins, Shapes, Shape, AtWarm, LeaseOf, Matches, Found, Cached
  <2> QED
    BY <2>1, MoveShapes
<1>3. WarmUps'
  BY <1>0, NoneAssumption DEF Types, EntryRecords, CommandRecords, KeeperRecords, States, Ended,
    Waiting, Origins, Shapes, Shape, AtWarm, WarmUps, Connecting, LeaseOf, Matches, Found, Cached
<1>4. Counts'
  <2>1. Holding(e)' = Holding(e) \cup {c} /\ c \notin Holding(e)
    BY <1>0 DEF Holding, Types, CommandRecords, LeaseOf, Ended
  <2>2. \A x \in Entry : x # e => Holding(x)' = Holding(x)
    BY <1>0 DEF Holding, Types, CommandRecords, LeaseOf, Ended
  <2>3. Cardinality(Holding(e) \cup {c}) = Cardinality(Holding(e)) + 1
    BY <2>1, HoldersAreFinite, FS_AddElement
  <2> QED
    BY <1>0, <2>1, <2>2, <2>3 DEF Counts, Types, EntryRecords
<1> QED
  BY <1>1, <1>2, <1>3, <1>4

LEMMA AcquireWarmKeeps ==
  ASSUME PoolInv, NEW c \in Commands, NEW r \in Requests, AcquireWarm(c, r)
  PROVE  PoolInv'
<1> USE DEF PoolInv, AcquireWarm
<1>0. PICK e \in Entry : /\ e = NewEntry(r.session)
                         /\ SessionOf(e) = r.session /\ Unreferenced(e)
  <2>1. cmd[c].ref = None
    BY DEF Shapes, Shape
  <2>2. cmd[c].ref \notin Copies(r.session)
    BY <2>1, NoneAssumption, RequestsAssumption DEF Copies, Entry
  <2> QED
    BY <2>2, RequestsAssumption, NewEntryIsNew
<1> USE <1>0, FreshEntry
<1>1. Types'
  BY RequestsAssumption DEF Types, EntryRecords, CommandRecords, KeeperRecords, States, Ended,
    Waiting, Origins, AwaitWith, Found, Unreferenced
<1>2. Shapes'
  <2>1. Shape(AwaitWith("warming", r, e))
    BY NoneAssumption DEF Types, EntryRecords, CommandRecords, KeeperRecords, States, Ended,
      Waiting, Origins, Shapes, Shape, AtWarm, AwaitWith, Found, Unreferenced
  <2> QED
    BY <2>1, MoveShapes
<1>3. WarmUps'
  BY NoneAssumption DEF Types, EntryRecords, CommandRecords, KeeperRecords, States, Ended,
    Waiting, Origins, Shapes, Shape, AtWarm, WarmUps, Connecting, AwaitWith, Found, Unreferenced
<1>4. Counts'
  <2>1. Holding(e)' = {}
    BY DEF Holding, Types, CommandRecords, Unreferenced, AwaitWith, Ended
  <2>2. \A x \in Entry : x # e => Holding(x)' = Holding(x)
    BY DEF Holding, Types, CommandRecords, AwaitWith, Ended
  <2>3. entry'[e].borrowCount = 0 /\ \A x \in Entry : x # e => entry'[x] = entry[x]
    BY DEF Types
  <2> QED
    BY <2>1, <2>2, <2>3, FS_EmptySet DEF Counts
<1> QED
  BY <1>1, <1>2, <1>3, <1>4

LEMMA AcquireEvictKeeps ==
  ASSUME PoolInv, NEW c \in Commands, NEW r \in Requests, AcquireEvict(c, r)
  PROVE  PoolInv'
<1> USE DEF PoolInv
<1>0. PICK e \in Entry :
        /\ entry[e].state = "ready" /\ entry[e].borrowCount = 0
        /\ SessionOf(e) # r.session
        /\ entry' = [entry EXCEPT ![e].state = "draining"]
        /\ cmd' = [AfterClose(e) EXCEPT ![c] = AwaitWith("evicting", r, e)]
  BY DEF AcquireEvict, IdleEntries, Pooled, Found, Types
<1>b. UNCHANGED <<pool, keeper>>
  BY DEF AcquireEvict
<1>a. cmd' = [cmd EXCEPT ![c] = AwaitWith("evicting", r, e)]
  BY <1>0, NoHolder, CloseIsUnseen
<1>c. /\ entry[e].state = "ready" /\ SessionOf(e) # r.session /\ cmd[c].at \in Ended
      /\ entry' = [entry EXCEPT ![e].state = "draining"]
  BY <1>0 DEF AcquireEvict
<1> USE <1>a, <1>b, <1>c
<1>1. Types'
  BY RequestsAssumption DEF Types, EntryRecords, CommandRecords, KeeperRecords, States, Ended,
    Waiting, Origins, AwaitWith
<1>2. Shapes'
  <2>1. Shape(AwaitWith("evicting", r, e))
    BY NoneAssumption DEF Types, EntryRecords, CommandRecords, KeeperRecords, States, Ended,
      Waiting, Origins, Shapes, Shape, AtWarm, AwaitWith
  <2> QED
    BY <2>1, MoveShapes
<1>3. WarmUps'
  BY NoneAssumption DEF Types, EntryRecords, CommandRecords, KeeperRecords, States, Ended,
    Waiting, Origins, Shapes, Shape, AtWarm, WarmUps, Connecting, AwaitWith
<1>4. Counts'
  <2>1. \A x \in Entry : entry'[x].borrowCount = entry[x].borrowCount
    BY DEF Types, EntryRecords, CommandRecords, KeeperRecords, States, Ended, Waiting, Origins,
      AwaitWith
  <2>2. \A d \in Commands, x \in Entry :
          (cmd'[d].at = "holding" /\ cmd'[d].ref = x) <=> (cmd[d].at = "holding" /\ cmd[d].ref = x)
    BY NoneAssumption DEF Types, EntryRecords, CommandRecords, KeeperRecords, States, Ended,
      Waiting, Origins, Shapes, Shape, AwaitWith
  <2> QED
    BY <2>1, <2>2, SameHoldersSameCounts
<1> QED
  BY <1>1, <1>2, <1>3, <1>4

-----------------------------------------------------------------------------
(* The ends of awaits, and releases *)

LEMMA EvictThrowsKeeps ==
  ASSUME PoolInv, NEW c \in Commands, EvictThrows(c)
  PROVE  PoolInv'
<1> USE DEF PoolInv, EvictThrows
<1>1. Types'
  BY RequestsAssumption DEF Types, EntryRecords, CommandRecords, KeeperRecords, States, Ended,
    Waiting, Origins, End
<1>2. Shapes'
  <2>1. Shape(End("crashed"))
    BY NoneAssumption DEF Types, EntryRecords, CommandRecords, KeeperRecords, States, Ended,
      Waiting, Origins, Shapes, Shape, AtWarm, End
  <2> QED
    BY <2>1, MoveShapes
<1>3. WarmUps'
  BY NoneAssumption DEF Types, EntryRecords, CommandRecords, KeeperRecords, States, Ended,
    Waiting, Origins, Shapes, Shape, AtWarm, WarmUps, Connecting, End
<1>4. Counts'
  <2>1. \A x \in Entry : entry'[x].borrowCount = entry[x].borrowCount
    BY DEF Types, EntryRecords, CommandRecords, KeeperRecords, States, Ended, Waiting, Origins,
      End
  <2>2. \A d \in Commands, x \in Entry :
          (cmd'[d].at = "holding" /\ cmd'[d].ref = x) <=> (cmd[d].at = "holding" /\ cmd[d].ref = x)
    BY NoneAssumption DEF Types, EntryRecords, CommandRecords, KeeperRecords, States, Ended,
      Waiting, Origins, Shapes, Shape, End
  <2> QED
    BY <2>1, <2>2, SameHoldersSameCounts
<1> QED
  BY <1>1, <1>2, <1>3, <1>4

LEMMA UncachedOkKeeps ==
  ASSUME PoolInv, NEW c \in Commands, UncachedOk(c)
  PROVE  PoolInv'
<1> USE DEF PoolInv, UncachedOk
<1>1. Types'
  BY RequestsAssumption DEF Types, EntryRecords, CommandRecords, KeeperRecords, States, Ended,
    Waiting, Origins, LeaseOf, Shapes, Shape
<1>2. Shapes'
  <2>1. Shape(LeaseOf(cmd[c].arg, None, cmd[c].arg.origin))
    BY NoneAssumption DEF Types, EntryRecords, CommandRecords, KeeperRecords, States, Ended,
      Waiting, Origins, Shapes, Shape, AtWarm, LeaseOf
  <2> QED
    BY <2>1, MoveShapes
<1>3. WarmUps'
  BY NoneAssumption DEF Types, EntryRecords, CommandRecords, KeeperRecords, States, Ended,
    Waiting, Origins, Shapes, Shape, AtWarm, WarmUps, Connecting, LeaseOf
<1>4. Counts'
  <2>1. \A x \in Entry : entry'[x].borrowCount = entry[x].borrowCount
    BY DEF Types, EntryRecords, CommandRecords, KeeperRecords, States, Ended, Waiting, Origins,
      LeaseOf
  <2>2. \A d \in Commands, x \in Entry :
          (cmd'[d].at = "holding" /\ cmd'[d].ref = x) <=> (cmd[d].at = "holding" /\ cmd[d].ref = x)
    BY NoneAssumption DEF Types, EntryRecords, CommandRecords, KeeperRecords, States, Ended,
      Waiting, Origins, Shapes, Shape, LeaseOf
  <2> QED
    BY <2>1, <2>2, SameHoldersSameCounts
<1> QED
  BY <1>1, <1>2, <1>3, <1>4

LEMMA UncachedFailKeeps ==
  ASSUME PoolInv, NEW c \in Commands, UncachedFail(c)
  PROVE  PoolInv'
<1> USE DEF PoolInv, UncachedFail
<1>1. Types'
  BY RequestsAssumption DEF Types, EntryRecords, CommandRecords, KeeperRecords, States, Ended,
    Waiting, Origins, End
<1>2. Shapes'
  <2>1. Shape(End("idle"))
    BY NoneAssumption DEF Types, EntryRecords, CommandRecords, KeeperRecords, States, Ended,
      Waiting, Origins, Shapes, Shape, AtWarm, End
  <2> QED
    BY <2>1, MoveShapes
<1>3. WarmUps'
  BY NoneAssumption DEF Types, EntryRecords, CommandRecords, KeeperRecords, States, Ended,
    Waiting, Origins, Shapes, Shape, AtWarm, WarmUps, Connecting, End
<1>4. Counts'
  <2>1. \A x \in Entry : entry'[x].borrowCount = entry[x].borrowCount
    BY DEF Types, EntryRecords, CommandRecords, KeeperRecords, States, Ended, Waiting, Origins,
      End
  <2>2. \A d \in Commands, x \in Entry :
          (cmd'[d].at = "holding" /\ cmd'[d].ref = x) <=> (cmd[d].at = "holding" /\ cmd[d].ref = x)
    BY NoneAssumption DEF Types, EntryRecords, CommandRecords, KeeperRecords, States, Ended,
      Waiting, Origins, Shapes, Shape, End
  <2> QED
    BY <2>1, <2>2, SameHoldersSameCounts
<1> QED
  BY <1>1, <1>2, <1>3, <1>4

LEMMA ReleaseUncachedKeeps ==
  ASSUME PoolInv, NEW c \in Commands, ReleaseUncached(c)
  PROVE  PoolInv'
<1> USE DEF PoolInv, ReleaseUncached
<1>1. Types'
  BY RequestsAssumption DEF Types, EntryRecords, CommandRecords, KeeperRecords, States, Ended,
    Waiting, Origins, End
<1>2. Shapes'
  <2>1. Shape(End("idle"))
    BY NoneAssumption DEF Types, EntryRecords, CommandRecords, KeeperRecords, States, Ended,
      Waiting, Origins, Shapes, Shape, AtWarm, End
  <2> QED
    BY <2>1, MoveShapes
<1>3. WarmUps'
  BY NoneAssumption DEF Types, EntryRecords, CommandRecords, KeeperRecords, States, Ended,
    Waiting, Origins, Shapes, Shape, AtWarm, WarmUps, Connecting, End
<1>4. Counts'
  <2>1. \A x \in Entry : entry'[x].borrowCount = entry[x].borrowCount
    BY DEF Types, EntryRecords, CommandRecords, KeeperRecords, States, Ended, Waiting, Origins,
      End
  <2>2. \A d \in Commands, x \in Entry :
          (cmd'[d].at = "holding" /\ cmd'[d].ref = x) <=> (cmd[d].at = "holding" /\ cmd[d].ref = x)
    BY NoneAssumption DEF Types, EntryRecords, CommandRecords, KeeperRecords, States, Ended,
      Waiting, Origins, Shapes, Shape, End
  <2> QED
    BY <2>1, <2>2, SameHoldersSameCounts
<1> QED
  BY <1>1, <1>2, <1>3, <1>4

LEMMA EvictDoneKeeps ==
  ASSUME PoolInv, NEW c \in Commands, EvictDone(c)
  PROVE  PoolInv'
<1> USE DEF PoolInv
<1> DEFINE r == cmd[c].arg
           victim == cmd[c].ref
<1>a. cmd[c].at = "evicting" /\ r \in Requests /\ victim \in Entry /\ SessionOf(victim) # r.session
  BY DEF EvictDone, Shapes, Shape
<1>0. PICK e \in Entry : /\ e = NewEntry(r.session)
                         /\ SessionOf(e) = r.session /\ Unreferenced(e)
  <2>1. victim \notin Copies(r.session)
    BY <1>a DEF Copies, SessionOf
  <2> QED
    BY <1>a, <2>1, RequestsAssumption, NewEntryIsNew
<1>b. e # victim /\ entry[victim].state \in {"draining", "degraded"}
  BY <1>0, <1>a DEF EvictDone, Finalizable
<1>c. /\ entry' \in [Entry -> EntryRecords]
      /\ entry'[e] = Fresh(r.origin)
      /\ entry'[victim].state = "absent"
      /\ entry'[victim].borrowCount = entry[victim].borrowCount
      /\ \A x \in Entry : x # e /\ x # victim => entry'[x] = entry[x]
  BY <1>0, <1>a, <1>b, AbsentEntry, FreshEntry DEF EvictDone
<1>d. /\ pool' = [pool EXCEPT ![SessionOf(victim)] = None, ![r.session] = e]
      /\ cmd' = [cmd EXCEPT ![c] = AwaitWith("warming", r, e)]
      /\ UNCHANGED keeper
  BY <1>0 DEF EvictDone, WithoutKeyOf
<1>e. Fresh(r.origin).state = "warming" /\ Fresh(r.origin).origin = r.origin
  BY <1>a, FreshEntry
<1>f. Fresh(r.origin).borrowCount = 0
  BY <1>a, FreshEntry
<1>1. Types'
  BY <1>0, <1>a, <1>c, <1>d, RequestsAssumption DEF Types, CommandRecords, Waiting, Origins,
    AwaitWith
<1>2. Shapes'
  <2>1. Shape(AwaitWith("warming", r, e))
    BY <1>0, <1>a DEF Shape, AtWarm, AwaitWith, Ended
  <2> QED
    BY <1>d, <2>1, MoveShapes
<1>3. WarmUps'
  BY <1>0, <1>a, <1>b, <1>c, <1>d, <1>e, NoneAssumption DEF Types, CommandRecords, Shapes,
    Shape, AtWarm, WarmUps,
    Connecting, AwaitWith, Unreferenced, Waiting, Ended
<1>4. Counts'
  <2>1. Holding(e)' = {}
    BY <1>0, <1>d DEF Holding, Types, CommandRecords, Unreferenced, AwaitWith
  <2>2. \A x \in Entry : x # e => Holding(x)' = Holding(x)
    BY <1>0, <1>a, <1>d DEF Holding, Types, CommandRecords, AwaitWith
  <2>3. \A x \in Entry : x # e => entry'[x].borrowCount = entry[x].borrowCount
    BY <1>c
  <2> QED
    BY <1>c, <1>f, <2>1, <2>2, <2>3, FS_EmptySet DEF Counts
<1> QED
  BY <1>1, <1>2, <1>3, <1>4

\* Those who wait for the connection of c, and nobody else, are of its party.
LEMMA PartyWaits ==
  ASSUME PoolInv, NEW c \in Commands, Connecting(c)
  PROVE  /\ cmd[c].ref \in Entry
         /\ \A d \in Party(c) : /\ d \in Commands /\ cmd[d].at \in AtWarm
                                /\ cmd[d].ref = cmd[c].ref /\ cmd[d].arg \in Requests
                                /\ entry[cmd[c].ref].origin = cmd[d].arg.origin
                                /\ SessionOf(cmd[c].ref) = cmd[d].arg.session
         /\ \A d \in Commands :
              cmd[d].at \in AtWarm /\ cmd[d].ref = cmd[c].ref => d \in Party(c)
BY DEF PoolInv, Shapes, Shape, WarmUps, Connecting, AtWarm, Party

\* A lease of entry e for request r.
LEMMA LeaseIsTyped ==
  ASSUME NEW r \in Requests, NEW e \in Entry, SessionOf(e) = r.session
  PROVE  /\ LeaseOf(r, e, r.origin) \in CommandRecords
         /\ Shape(LeaseOf(r, e, r.origin))
         /\ LeaseOf(r, e, r.origin).at = "holding"
         /\ LeaseOf(r, e, r.origin).ref = e
BY DEF LeaseOf, CommandRecords, Origins, Shape, Ended, AtWarm

LEMMA ReplacedIsTyped ==
  ASSUME NEW x \in CommandRecords, Shape(x), x.lease = "current",
         NEW y, y = [x EXCEPT !.lease = "replaced"]
  PROVE  /\ y \in CommandRecords /\ Shape(y)
         /\ y.at = x.at /\ y.ref = x.ref /\ y.arg = x.arg
BY DEF CommandRecords, Shape

LEMMA WarmOkKeeps ==
  ASSUME PoolInv, NEW c \in Commands, WarmOk(c)
  PROVE  PoolInv'
<1> USE DEF PoolInv
<1>0. PICK e : e = cmd[c].ref
  OBVIOUS
<1>1. Connecting(c) /\ UNCHANGED <<pool, keeper>>
  BY DEF WarmOk, Connecting
<1>2. /\ e \in Entry
      /\ \A d \in Party(c) : /\ d \in Commands /\ cmd[d].at \in AtWarm /\ cmd[d].ref = e
                             /\ cmd[d].arg \in Requests
                             /\ entry[e].origin = cmd[d].arg.origin
                             /\ SessionOf(e) = cmd[d].arg.session
      /\ \A d \in Commands : cmd[d].at \in AtWarm /\ cmd[d].ref = e => d \in Party(c)
  BY <1>0, <1>1, PartyWaits
<1>3. \A d \in Party(c) : cmd'[d] = LeaseOf(cmd[d].arg, e, cmd[d].arg.origin)
  BY <1>2 DEF WarmOk, LentAfterWarm
<1>4. \A d \in Commands \ Party(c) :
        \/ cmd'[d] = cmd[d]
        \/ cmd[d].lease = "current" /\ cmd'[d] = [cmd[d] EXCEPT !.lease = "replaced"]
  BY DEF WarmOk, LentAfterWarm
<1>5. IsFiniteSet(Party(c)) /\ Cardinality(Party(c)) \in Nat
  <2>1. Party(c) \subseteq Commands
    BY <1>2
  <2> QED
    BY <2>1, FiniteAssumption, FS_Subset, FS_CardinalityType
<1>6. /\ entry' \in [Entry -> EntryRecords]
      /\ \A x \in Entry : x # e => entry'[x] = entry[x]
      /\ entry'[e].state = "ready"
      /\ entry'[e].borrowCount = entry[e].borrowCount + Cardinality(Party(c))
  BY <1>0, <1>2, <1>5, LimitsAssumption DEF WarmOk, Types, EntryRecords, States
<1>7. \A d \in Party(c) : /\ cmd'[d] \in CommandRecords /\ Shape(cmd'[d])
                          /\ cmd'[d].at = "holding" /\ cmd'[d].ref = e
  BY <1>2, <1>3, LeaseIsTyped
<1>8. \A d \in Commands \ Party(c) :
         /\ cmd'[d] \in CommandRecords /\ Shape(cmd'[d])
         /\ cmd'[d].at = cmd[d].at /\ cmd'[d].ref = cmd[d].ref /\ cmd'[d].arg = cmd[d].arg
  <2> SUFFICES ASSUME NEW d \in Commands \ Party(c)
               PROVE  /\ cmd'[d] \in CommandRecords /\ Shape(cmd'[d])
                      /\ cmd'[d].at = cmd[d].at /\ cmd'[d].ref = cmd[d].ref
                      /\ cmd'[d].arg = cmd[d].arg
    OBVIOUS
  <2>1. cmd[d] \in CommandRecords /\ Shape(cmd[d])
    BY DEF Types, Shapes
  <2>2. CASE cmd'[d] = cmd[d]
    BY <2>1, <2>2
  <2>3. CASE cmd[d].lease = "current" /\ cmd'[d] = [cmd[d] EXCEPT !.lease = "replaced"]
    BY <2>1, <2>3, ReplacedIsTyped
  <2> QED
    BY <1>4, <2>2, <2>3
<1>9. Types'
  BY <1>1, <1>6, <1>7, <1>8 DEF Types, WarmOk, LentAfterWarm
<1>10. Shapes'
  BY <1>1, <1>7, <1>8 DEF Shapes
<1>11. WarmUps'
  <2>1. \A d \in Commands : cmd'[d].at \in AtWarm => d \notin Party(c) /\ cmd[d].ref # e
    BY <1>2, <1>7, <1>8 DEF AtWarm
  <2> QED
    BY <1>2, <1>6, <1>7, <1>8, <2>1 DEF WarmUps, AtWarm, Connecting, Shapes, Shape
<1>12. Counts'
  <2>1. Holding(e)' = Holding(e) \cup Party(c) /\ Holding(e) \cap Party(c) = {}
    BY <1>2, <1>7, <1>8 DEF Holding, AtWarm
  <2>2. \A x \in Entry : x # e => Holding(x)' = Holding(x)
    BY <1>2, <1>7, <1>8 DEF Holding, AtWarm
  <2>3. IsFiniteSet(Holding(e)) /\ Cardinality(Holding(e)) \in Nat
    BY HoldersAreFinite
  <2>4. Cardinality(Holding(e) \cup Party(c)) =
          Cardinality(Holding(e)) + Cardinality(Party(c)) - Cardinality(Holding(e) \cap Party(c))
    BY <1>5, <2>3, FS_Union
  <2>5. Cardinality(Holding(e) \cap Party(c)) = 0
    BY <2>1, FS_EmptySet, Zenon
  <2>6. Cardinality(Holding(e) \cup Party(c)) = Cardinality(Holding(e)) + Cardinality(Party(c))
    BY <1>5, <2>3, <2>4, <2>5
  <2> QED
    BY <1>2, <1>6, <2>1, <2>2, <2>6 DEF Counts
<1> QED
  BY <1>9, <1>10, <1>11, <1>12

LEMMA WarmFailKeeps ==
  ASSUME PoolInv, NEW c \in Commands, WarmFail(c)
  PROVE  PoolInv'
<1> USE DEF PoolInv
<1> DEFINE e == cmd[c].ref
<1>1. /\ Connecting(c) /\ UNCHANGED keeper
      /\ entry' = Absent(e) /\ pool' = [pool EXCEPT ![SessionOf(e)] = None]
  BY DEF WarmFail, Connecting, WithoutKeyOf
<1>2. /\ e \in Entry
      /\ \A d \in Party(c) : d \in Commands /\ cmd[d].at \in AtWarm /\ cmd[d].ref = e
      /\ \A d \in Commands : cmd[d].at \in AtWarm /\ cmd[d].ref = e => d \in Party(c)
  BY <1>1, PartyWaits
<1>3. \A d \in Party(c) : cmd'[d] \in {End("idle"), End("crashed")}
  BY <1>2 DEF WarmFail, Connecting
<1>4. \A d \in Commands \ Party(c) : cmd'[d] = cmd[d]
  BY DEF WarmFail, Party
<1>5. /\ entry' \in [Entry -> EntryRecords]
      /\ \A x \in Entry : x # e => entry'[x] = entry[x]
      /\ entry'[e].state = "absent"
      /\ \A x \in Entry : entry'[x].borrowCount = entry[x].borrowCount
  BY <1>1, <1>2, AbsentEntry
<1>6. Types'
  <2>1. \A d \in Commands : cmd'[d] \in CommandRecords
    BY <1>3, <1>4 DEF Types, CommandRecords, End, Ended, Origins
  <2> QED
    BY <1>1, <1>5, <2>1 DEF Types, WarmFail
<1>7. Shapes'
  BY <1>1, <1>3, <1>4 DEF Shapes, Shape, End, Ended, AtWarm
<1>8. \A d \in Party(c) : cmd'[d].at \in Ended
  BY <1>3 DEF End, Ended
<1>9. WarmUps'
  <2>1. \A d \in Commands : cmd'[d].at \in AtWarm => cmd'[d] = cmd[d] /\ cmd[d].ref # e
    BY <1>2, <1>4, <1>8 DEF AtWarm, Ended
  <2>2. \A d \in Commands : Connecting(d) /\ cmd[d].ref # e => cmd'[d] = cmd[d]
    BY <1>2, <1>4
  <2> QED
    BY <1>2, <1>5, <2>1, <2>2 DEF WarmUps, AtWarm, Connecting, Shapes, Shape
<1>10. Counts'
  <2>1. \A d \in Commands, x \in Entry :
          (cmd'[d].at = "holding" /\ cmd'[d].ref = x) <=> (cmd[d].at = "holding" /\ cmd[d].ref = x)
    BY <1>2, <1>4, <1>8 DEF AtWarm, Ended
  <2> QED
    BY <1>5, <2>1, SameHoldersSameCounts
<1> QED
  BY <1>6, <1>7, <1>9, <1>10

LEMMA ReleaseKeeps ==
  ASSUME PoolInv, NEW c \in Commands, Release(c)
  PROVE  PoolInv'
<1> USE DEF PoolInv
<1>0. PICK e, left : e = cmd[c].ref /\ left = entry[e].borrowCount - 1
  OBVIOUS
<1>1. cmd[c].at = "holding" /\ e \in Entry /\ UNCHANGED <<pool, keeper>>
  BY <1>0 DEF Release, Types, CommandRecords
<1>2. /\ IsFiniteSet(Holding(e)) /\ c \in Holding(e)
      /\ Cardinality(Holding(e)) \in Nat
      /\ entry[e].borrowCount = Cardinality(Holding(e))
  <2>1. IsFiniteSet(Holding(e)) /\ Cardinality(Holding(e)) \in Nat
    BY HoldersAreFinite, FS_CardinalityType
  <2>2. c \in Holding(e)
    BY <1>0, <1>1 DEF Holding
  <2>3. entry[e].borrowCount = Cardinality(Holding(e))
    BY <1>1 DEF Counts
  <2> QED
    BY <2>1, <2>2, <2>3
<1>3. Cardinality(Holding(e) \ {c}) = left /\ entry[e].borrowCount > 0
  <2>1. Cardinality(Holding(e) \ {c}) = Cardinality(Holding(e)) - 1
    BY <1>2, FS_RemoveElement
  <2>2. IsFiniteSet(Holding(e) \ {c})
    BY <1>2, FS_RemoveElement
  <2>3. Cardinality(Holding(e) \ {c}) \in Nat
    BY <2>2, FS_CardinalityType
  <2> QED
    BY <1>0, <1>2, <2>1, <2>3
<1>4. left \in Nat /\ entry' = [entry EXCEPT ![e].borrowCount = left]
  <2>1. entry' = [entry EXCEPT ![e].borrowCount = IF entry[e].borrowCount > 0
                                                 THEN entry[e].borrowCount - 1 ELSE 0]
    BY <1>0 DEF Release
  <2>2. entry[e].borrowCount \in Nat
    BY <1>1 DEF Types, EntryRecords
  <2>3. left \in Nat /\ (IF entry[e].borrowCount > 0 THEN entry[e].borrowCount - 1 ELSE 0) = left
    BY <1>0, <1>3, <2>2
  <2> QED
    BY <2>1, <2>3, Zenon
<1>5. PICK x \in {AwaitWith("releasing", None, e), End("idle")} : cmd' = [cmd EXCEPT ![c] = x]
  <2>1. CASE ~ClosesNow(entry[e].state, left)
    BY <1>0, <1>1, <1>3, <2>1 DEF Release
  <2>2. CASE ClosesNow(entry[e].state, left)
    <3>1. cmd' = [AfterClose(e) EXCEPT ![c] = AwaitWith("releasing", None, e)]
      BY <1>0, <1>1, <1>3, <2>2 DEF Release
    <3>2. Holding(e) \ {c} = {}
      BY <1>2, <1>3, <2>2, FS_RemoveElement, FS_EmptySet DEF ClosesNow
    <3>3. \A d \in Commands : d # c => AfterClose(e)[d] = cmd[d]
      BY <3>2 DEF AfterClose, Holding, Shapes, Shape
    <3> QED
      BY <3>1, <3>3 DEF AfterClose, Types
  <2> QED
    BY <2>1, <2>2
<1>6. /\ x \in CommandRecords /\ Shape(x)
      /\ x.at \notin AtWarm /\ x.at # "holding"
  BY <1>1, <1>5 DEF CommandRecords, AwaitWith, End, Ended, Origins, Shape, AtWarm
<1>7. Types'
  BY <1>1, <1>4, <1>5, <1>6 DEF Types, EntryRecords
<1>8. Shapes'
  BY <1>1, <1>5, <1>6, MoveShapes
<1>9. WarmUps'
  BY <1>1, <1>4, <1>5, <1>6 DEF Types, EntryRecords, Shapes, Shape, WarmUps, AtWarm, Connecting
<1>10. Counts'
  <2>1. \A d \in Commands : IF d = c THEN cmd'[d] = x ELSE cmd'[d] = cmd[d]
    BY <1>5 DEF Types
  <2>2. Holding(e)' = Holding(e) \ {c}
    BY <1>6, <2>1 DEF Holding
  <2>3. \A y \in Entry : y # e => Holding(y)' = Holding(y)
    BY <1>0, <1>6, <2>1 DEF Holding
  <2> QED
    BY <1>1, <1>3, <1>4, <2>2, <2>3 DEF Counts, Types, EntryRecords
<1> QED
  BY <1>7, <1>8, <1>9, <1>10

\* Steps that move one command c out of an await of browser.close(), or a keeper,
\* and touch at most the entry e, without beginning or ending its warm-up.
LEMMA QuietStep ==
  ASSUME PoolInv, NEW e \in Entry,
         entry' \in [Entry -> EntryRecords],
         \A x \in Entry : x # e => entry'[x] = entry[x],
         entry'[e].borrowCount = entry[e].borrowCount,
         entry'[e].state = "warming" <=> entry[e].state = "warming",
         entry[e].state = "warming" => entry'[e].origin = entry[e].origin,
         pool' \in {pool, WithoutKeyOf(e)},
         \A d \in Commands :
           \/ cmd'[d] = cmd[d]
           \/ cmd[d].at = "releasing" /\ cmd'[d] \in {End("idle"), End("crashed")},
         cmd' = [d \in Commands |-> cmd'[d]],
         keeper' \in [Keepers -> KeeperRecords],
         \A p \in Keepers : keeper'[p].at # "idle" => keeper'[p].ref \in Entry
  PROVE  PoolInv'
<1> USE DEF PoolInv
<1>1. \A d \in Commands :
        /\ cmd'[d] \in CommandRecords /\ Shape(cmd'[d])
        /\ cmd'[d] = cmd[d] \/ (cmd'[d].at \in Ended /\ cmd[d].at = "releasing")
  BY DEF Types, CommandRecords, Shapes, Shape, End, Ended, Origins, AtWarm
<1>2. Types'
  BY <1>1 DEF Types, WithoutKeyOf
<1>3. Shapes'
  BY <1>1 DEF Shapes
<1>4. WarmUps'
  BY <1>1 DEF WarmUps, AtWarm, Connecting, Ended, Shapes, Shape
<1>5. Counts'
  <2>1. \A d \in Commands, x \in Entry :
          (cmd'[d].at = "holding" /\ cmd'[d].ref = x) <=> (cmd[d].at = "holding" /\ cmd[d].ref = x)
    BY <1>1 DEF Ended
  <2> QED
    BY <2>1, SameHoldersSameCounts
<1> QED
  BY <1>2, <1>3, <1>4, <1>5

LEMMA ReleaseDoneKeeps ==
  ASSUME PoolInv, NEW c \in Commands, ReleaseDone(c)
  PROVE  PoolInv'
<1>0. PICK e : e = cmd[c].ref
  OBVIOUS
<1>1. e \in Entry /\ cmd[c].at = "releasing" /\ UNCHANGED keeper
  BY <1>0 DEF ReleaseDone, PoolInv, Shapes, Shape
<1>2. PICK x \in {End("idle"), End("crashed")} : cmd' = [cmd EXCEPT ![c] = x]
  BY DEF ReleaseDone
<1>3. /\ cmd' = [d \in Commands |-> cmd'[d]]
      /\ \A d \in Commands :
           \/ cmd'[d] = cmd[d]
           \/ cmd[d].at = "releasing" /\ cmd'[d] \in {End("idle"), End("crashed")}
  BY <1>1, <1>2 DEF PoolInv, Types
<1>4. keeper' \in [Keepers -> KeeperRecords]
      /\ \A p \in Keepers : keeper'[p].at # "idle" => keeper'[p].ref \in Entry
  BY <1>1 DEF PoolInv, Types, Shapes
<1>5. CASE Finalizable(e)
  <2>1. entry' = Absent(e) /\ pool' = WithoutKeyOf(e)
    BY <1>0, <1>5 DEF ReleaseDone
  <2>2. entry[e].state \in {"draining", "degraded"}
    BY <1>5 DEF Finalizable
  <2> QED
    BY <1>1, <1>3, <1>4, <2>1, <2>2, AbsentEntry, QuietStep DEF PoolInv
<1>6. CASE ~Finalizable(e)
  <2>1. entry' = entry /\ pool' = pool
    BY <1>0, <1>6 DEF ReleaseDone
  <2> QED
    BY <1>1, <1>3, <1>4, <2>1, QuietStep DEF PoolInv, Types
<1> QED
  BY <1>5, <1>6

LEMMA SignalTimeoutKeeps ==
  ASSUME PoolInv, NEW p \in Keepers, NEW k \in Sessions, SignalTimeout(p, k)
  PROVE  PoolInv'
<1>0. PICK e : e = pool[k]
  OBVIOUS
<1>1. e \in Entry /\ UNCHANGED <<pool, cmd>>
  BY <1>0 DEF SignalTimeout, PoolInv, Types
<1>2. /\ entry' \in [Entry -> EntryRecords]
      /\ \A x \in Entry : x # e => entry'[x] = entry[x]
      /\ entry'[e].borrowCount = entry[e].borrowCount
      /\ entry'[e].origin = entry[e].origin
      /\ entry'[e].state = IF entry[e].state = "ready" THEN "degraded" ELSE entry[e].state
  <2> DEFINE state == IF entry[e].state = "ready" THEN "degraded" ELSE entry[e].state
             strikes == IF entry[e].strikes < HardCloseThreshold THEN entry[e].strikes + 1
                        ELSE entry[e].strikes
  <2>1. entry' = [entry EXCEPT ![e].state = state, ![e].strikes = strikes]
    BY <1>0 DEF SignalTimeout
  <2>2. state \in States /\ strikes \in 0..HardCloseThreshold
    BY <1>1, LimitsAssumption DEF PoolInv, Types, EntryRecords, States
  <2> HIDE DEF state, strikes
  <2>3. /\ entry' \in [Entry -> EntryRecords]
        /\ \A x \in Entry : x # e => entry'[x] = entry[x]
        /\ entry'[e].borrowCount = entry[e].borrowCount
        /\ entry'[e].origin = entry[e].origin
        /\ entry'[e].state = state
    BY <1>1, <2>1, <2>2 DEF PoolInv, Types, EntryRecords
  <2> QED
    BY <2>3 DEF state
<1>3. /\ keeper' \in [Keepers -> KeeperRecords]
      /\ \A q \in Keepers : keeper'[q].at # "idle" => keeper'[q].ref \in Entry
  BY <1>0, <1>1 DEF SignalTimeout, PoolInv, Types, Shapes, KeeperRecords
<1>4. cmd' = [d \in Commands |-> cmd'[d]]
  BY <1>1 DEF PoolInv, Types
<1> QED
  BY <1>1, <1>2, <1>3, <1>4, QuietStep

LEMMA CancelReturnsKeeps ==
  ASSUME PoolInv, NEW p \in Keepers, NEW cancelled \in BOOLEAN, CancelReturns(p, cancelled)
  PROVE  PoolInv'
<1> DEFINE before == entry[keeper[p].ref].state
           hard == entry[keeper[p].ref].strikes >= HardCloseThreshold
           after == IF \/ ~cancelled /\ before \in {"ready", "degraded"}
                       \/ hard /\ before = "ready"
                    THEN "draining" ELSE before
           drops == hard /\ after = "degraded"
           closes == (~cancelled \/ hard) /\ ClosesNow(after, entry[keeper[p].ref].borrowCount)
<1>0. PICK e : e = keeper[p].ref
  OBVIOUS
<1>1. e \in Entry /\ keeper[p].at = "cancelling"
  BY <1>0 DEF CancelReturns, PoolInv, Shapes
<1>2. /\ entry' = IF drops THEN Absent(e) ELSE [entry EXCEPT ![e].state = after]
      /\ pool' = IF drops THEN WithoutKeyOf(e) ELSE pool
      /\ cmd' = IF closes THEN AfterClose(e) ELSE cmd
      /\ keeper' = [keeper EXCEPT ![p] = IF closes THEN [@ EXCEPT !.at = "closing"] ELSE AtRest]
  BY <1>0 DEF CancelReturns
<1>3. cmd' = cmd
  <2>1. CASE closes
    <3>1. entry[e].borrowCount = 0
      BY <1>0, <2>1 DEF ClosesNow
    <3> QED
      BY <1>1, <1>2, <2>1, <3>1, NoHolder, CloseIsUnseen DEF PoolInv
  <2> QED
    BY <1>2, <2>1
<1>4. /\ entry' \in [Entry -> EntryRecords]
      /\ \A x \in Entry : x # e => entry'[x] = entry[x]
      /\ entry'[e].borrowCount = entry[e].borrowCount
      /\ entry'[e].state = "warming" <=> entry[e].state = "warming"
      /\ entry[e].state = "warming" => entry'[e].origin = entry[e].origin
  <2>1. CASE drops
    <3>1. entry[e].state = "degraded"
      BY <1>0, <2>1
    <3> QED
      BY <1>1, <1>2, <2>1, <3>1, AbsentEntry DEF PoolInv
  <2>2. CASE ~drops
    <3>1. after \in States /\ (after = "warming" <=> entry[e].state = "warming")
      BY <1>0, <1>1 DEF PoolInv, Types, EntryRecords, States
    <3>2. entry' = [entry EXCEPT ![e].state = after]
      BY <1>2, <2>2
    <3> HIDE DEF after
    <3> QED
      BY <1>1, <3>1, <3>2 DEF PoolInv, Types, EntryRecords
  <2> QED
    BY <2>1, <2>2
<1>5. pool' \in {pool, WithoutKeyOf(e)}
  BY <1>2
<1>6. /\ keeper' \in [Keepers -> KeeperRecords]
      /\ \A q \in Keepers : keeper'[q].at # "idle" => keeper'[q].ref \in Entry
  BY <1>0, <1>1, <1>2 DEF PoolInv, Types, Shapes, KeeperRecords, AtRest
<1>7. cmd' = [d \in Commands |-> cmd'[d]]
  BY <1>3 DEF PoolInv, Types
<1> QED
  BY <1>1, <1>3, <1>4, <1>5, <1>6, <1>7, QuietStep

LEMMA DrainColdKeeps ==
  ASSUME PoolInv, NEW p \in Keepers, DrainCold(p)
  PROVE  PoolInv'
<1>0. PICK e \in Entry :
        /\ entry[e].state = "ready" /\ entry[e].borrowCount = 0
        /\ entry' = [entry EXCEPT ![e].state = "draining"]
        /\ cmd' = AfterClose(e)
        /\ keeper' = [keeper EXCEPT ![p] = [at |-> "closing", ref |-> e]]
  <2>1. PICK e \in IdleEntries :
          /\ entry' = [entry EXCEPT ![e].state = "draining"]
          /\ cmd' = AfterClose(e)
          /\ keeper' = [keeper EXCEPT ![p] = [at |-> "closing", ref |-> e]]
    BY DEF DrainCold
  <2>2. e \in Entry /\ entry[e].state = "ready" /\ entry[e].borrowCount = 0
    BY DEF IdleEntries, Pooled, PoolInv, Types
  <2> QED
    BY <2>1, <2>2
<1>1. cmd' = cmd /\ pool' = pool
  BY <1>0, NoHolder, CloseIsUnseen DEF DrainCold, PoolInv
<1>2. /\ entry' \in [Entry -> EntryRecords]
      /\ \A x \in Entry : x # e => entry'[x] = entry[x]
      /\ entry'[e].borrowCount = entry[e].borrowCount
      /\ entry'[e].state = "draining"
  BY <1>0 DEF PoolInv, Types, EntryRecords, States
<1>3. /\ keeper' \in [Keepers -> KeeperRecords]
      /\ \A q \in Keepers : keeper'[q].at # "idle" => keeper'[q].ref \in Entry
  BY <1>0 DEF PoolInv, Types, Shapes, KeeperRecords
<1>4. cmd' = [d \in Commands |-> cmd'[d]]
  BY <1>1 DEF PoolInv, Types
<1> QED
  BY <1>0, <1>1, <1>2, <1>3, <1>4, QuietStep

LEMMA KeeperCloseDoneKeeps ==
  ASSUME PoolInv, NEW p \in Keepers, KeeperCloseDone(p)
  PROVE  PoolInv'
<1>0. PICK e : e = keeper[p].ref
  OBVIOUS
<1>1. e \in Entry /\ cmd' = cmd
  BY <1>0 DEF KeeperCloseDone, PoolInv, Shapes
<1>2. /\ keeper' \in [Keepers -> KeeperRecords]
      /\ \A q \in Keepers : keeper'[q].at # "idle" => keeper'[q].ref \in Entry
  BY DEF KeeperCloseDone, PoolInv, Types, Shapes, KeeperRecords, AtRest
<1>3. cmd' = [d \in Commands |-> cmd'[d]]
  BY <1>1 DEF PoolInv, Types
<1>4. CASE Finalizable(e)
  <2>1. entry' = Absent(e) /\ pool' = WithoutKeyOf(e)
    BY <1>0, <1>4 DEF KeeperCloseDone
  <2>2. entry[e].state \in {"draining", "degraded"}
    BY <1>4 DEF Finalizable
  <2> QED
    BY <1>1, <1>2, <1>3, <2>1, <2>2, AbsentEntry, QuietStep DEF PoolInv
<1>5. CASE ~Finalizable(e)
  <2>1. entry' = entry /\ pool' = pool
    BY <1>0, <1>5 DEF KeeperCloseDone
  <2> QED
    BY <1>1, <1>2, <1>3, <2>1, QuietStep DEF PoolInv, Types
<1> QED
  BY <1>4, <1>5

LEMMA NextKeepsPoolInv == PoolInv /\ [Next]_vars => PoolInv'
<1> SUFFICES ASSUME PoolInv, [Next]_vars PROVE PoolInv'
  OBVIOUS
<1>1. CASE \E c \in Commands : Acquire(c)
  BY <1>1, AcquireMismatchKeeps, AcquireHitKeeps, AcquireJoinKeeps, AcquireReconnectKeeps,
    AcquireUncachedKeeps, AcquireEvictKeeps, AcquireWarmKeeps DEF Acquire
<1>2. CASE \E c \in Commands : Progress(c)
  BY <1>2, EvictDoneKeeps, EvictThrowsKeeps, WarmOkKeeps, WarmFailKeeps, UncachedOkKeeps,
    UncachedFailKeeps DEF Progress
<1>3. CASE \E c \in Commands : ReleaseUncached(c) \/ Release(c) \/ ReleaseDone(c)
  BY <1>3, ReleaseUncachedKeeps, ReleaseKeeps, ReleaseDoneKeeps
<1>4. CASE \E p \in Keepers : Keep(p)
  BY <1>4, SignalTimeoutKeeps, CancelReturnsKeeps, DrainColdKeeps, KeeperCloseDoneKeeps,
    SuspectsAssumption DEF Keep
<1>5. CASE UNCHANGED vars
  BY <1>5 DEF vars, PoolInv, Types, Shapes, WarmUps, Connecting, Counts, Holding
<1> QED
  BY <1>1, <1>2, <1>3, <1>4, <1>5 DEF Next

-----------------------------------------------------------------------------
(* The size of the pool.  An eviction gives away a place while its victim is   *)
(* still in the Map; if the victim leaves it before the eviction ends, the     *)
(* place is counted twice.  So the claims are counted: the keys of the Map and *)
(* the evictors whose victim is gone.  Only AcquireWarm adds a claim, into a   *)
(* pool that is not full.                                                      *)

\* A set that loses an element for another one does not grow.
LEMMA Exchange ==
  ASSUME NEW S, IsFiniteSet(S), NEW a \in S, NEW b, NEW T, T \subseteq (S \ {a}) \cup {b}
  PROVE  IsFiniteSet(T) /\ Cardinality(T) <= Cardinality(S)
<1>1. IsFiniteSet(S \ {a}) /\ Cardinality(S \ {a}) = Cardinality(S) - 1
  BY FS_RemoveElement
<1>2. IsFiniteSet((S \ {a}) \cup {b}) /\ Cardinality((S \ {a}) \cup {b}) <= Cardinality(S \ {a}) + 1
  <2>1. Cardinality(S \ {a}) \in Nat
    BY <1>1, FS_CardinalityType
  <2> QED
    BY <1>1, <2>1, FS_AddElement
<1>3. IsFiniteSet(T) /\ Cardinality(T) <= Cardinality((S \ {a}) \cup {b})
  BY <1>2, FS_Subset
<1>4. Cardinality(S) \in Nat /\ Cardinality(S \ {a}) \in Nat /\ Cardinality(T) \in Nat
      /\ Cardinality((S \ {a}) \cup {b}) \in Nat
  BY <1>1, <1>2, <1>3, FS_CardinalityType
<1> QED
  BY <1>1, <1>2, <1>3, <1>4

Evicting(c) == cmd[c].at = "evicting"

\* Who evicts has chosen its own victim, which never comes back.
Evictions ==
  /\ \A c \in Commands : Evicting(c) => entry[cmd[c].ref].state \in {"draining", "absent"}
  /\ \A c, d \in Commands : Evicting(c) /\ Evicting(d) /\ cmd[c].ref = cmd[d].ref => c = d

\* The places a Map p has given away: its keys, and to each command that evicts
\* while its victim is not there any more the key it is going to add.
ClaimsOn(p, evictors) ==
  {<<"key", k>> : k \in {j \in Sessions : p[j] # None}} \cup
  {<<"evictor", c>> : c \in {d \in evictors : p[SessionOf(cmd[d].ref)] # cmd[d].ref}}

Claims == ClaimsOn(pool, {c \in Commands : Evicting(c)})

ClaimsAreBounded ==
  IsFiniteSet(Claims) /\ Cardinality(Claims) <= MaxEntries + Cardinality(Commands) - 1

SizeInv == PoolInv /\ Evictions /\ ClaimsAreBounded

LEMMA InitSizeInv == Init => SizeInv
<1> SUFFICES ASSUME Init PROVE SizeInv
  OBVIOUS
<1>1. PoolInv
  BY InitPoolInv
<1>2. \A c \in Commands : ~Evicting(c)
  BY DEF Init, End, Evicting
<1>3. Claims = {}
  BY <1>2 DEF Init, Claims, ClaimsOn
<1>4. Cardinality(Commands) \in Nat
  BY FiniteAssumption, FS_CardinalityType
<1>5. IsFiniteSet(Claims) /\ Cardinality(Claims) = 0
  BY <1>3, FS_EmptySet, Zenon
<1> QED
  BY <1>1, <1>2, <1>4, <1>5, LimitsAssumption DEF SizeInv, Evictions, ClaimsAreBounded

\* Deleting a key turns its claim into that of the command, if any, that evicts
\* the entry that was there.
LEMMA DeletedKey ==
  ASSUME PoolInv, Evictions, NEW p, p \in [Sessions -> Entry \cup {None}],
         \A k \in Sessions : p[k] # None => SessionOf(p[k]) = k,
         NEW k \in Sessions,
         NEW E, E \subseteq {c \in Commands : Evicting(c)},
         IsFiniteSet(ClaimsOn(p, E))
  PROVE  /\ IsFiniteSet(ClaimsOn([p EXCEPT ![k] = None], E))
         /\ Cardinality(ClaimsOn([p EXCEPT ![k] = None], E)) <= Cardinality(ClaimsOn(p, E))
<1> DEFINE S == ClaimsOn(p, E)
           q == [p EXCEPT ![k] = None]
           T == ClaimsOn(q, E)
<1>1. CASE p[k] = None
  <2>1. T \subseteq S
    BY <1>1
  <2> HIDE DEF S, T
  <2> QED
    BY <2>1, FS_Subset DEF S, T
<1>2. CASE p[k] # None
  <2>1. PICK b : \A c \in E : cmd[c].ref = p[k] => b = <<"evictor", c>>
    BY DEF Evictions
  <2>2. <<"key", k>> \in S
    BY <1>2 DEF ClaimsOn
  <2>3. T \subseteq (S \ {<<"key", k>>}) \cup {b}
    <3> SUFFICES ASSUME NEW t \in T, t # b
                 PROVE  t \in S /\ t # <<"key", k>>
      OBVIOUS
    <3>1. CASE \E j \in Sessions : q[j] # None /\ t = <<"key", j>>
      BY <3>1 DEF ClaimsOn
    <3>2. CASE \E c \in E : q[SessionOf(cmd[c].ref)] # cmd[c].ref /\ t = <<"evictor", c>>
      <4>1. PICK c \in E : q[SessionOf(cmd[c].ref)] # cmd[c].ref /\ t = <<"evictor", c>>
        BY <3>2
      <4>2. cmd[c].ref # p[k]
        BY <2>1, <4>1
      <4>3. p[SessionOf(cmd[c].ref)] # cmd[c].ref
        BY <4>1, <4>2
      <4> QED
        BY <4>1, <4>3 DEF ClaimsOn
    <3> QED
      BY <3>1, <3>2 DEF ClaimsOn
  <2> HIDE DEF S, T
  <2> QED
    BY <2>2, <2>3, Exchange DEF S, T
<1> QED
  BY <1>1, <1>2

\* A victim stays retired while its evictor refers to it.
LEMMA VictimsStayRetired ==
  ASSUME PoolInv, Next, NEW e \in Entry, entry[e].state \in {"draining", "absent"},
         NEW d \in Commands, cmd[d].ref = e
  PROVE  entry'[e].state \in {"draining", "absent"}
<1> USE DEF PoolInv
<1>1. ASSUME NEW c \in Commands, NEW r \in Requests
      PROVE  /\ AcquireMismatch(c, r) => entry' = entry
             /\ AcquireJoin(c, r) => entry' = entry
             /\ AcquireUncached(c, r) => entry' = entry
  BY DEF AcquireMismatch, AcquireJoin, AcquireUncached
<1>2. ASSUME NEW c \in Commands, NEW r \in Requests, AcquireHit(c, r) \/ AcquireReconnect(c, r)
      PROVE  entry'[e].state \in {"draining", "absent"}
  BY <1>2 DEF AcquireHit, AcquireReconnect, Cached, Types, EntryRecords
<1>3. ASSUME NEW c \in Commands, NEW r \in Requests, AcquireEvict(c, r)
      PROVE  entry'[e].state \in {"draining", "absent"}
  BY <1>3 DEF AcquireEvict, Types, EntryRecords
<1>4. ASSUME NEW c \in Commands, NEW r \in Requests, AcquireWarm(c, r)
      PROVE  entry'[e].state \in {"draining", "absent"}
  <2>1. cmd[c].ref \notin Copies(r.session)
    BY <1>4, NoneAssumption, RequestsAssumption DEF AcquireWarm, Shapes, Shape, Copies, Entry
  <2>2. Unreferenced(NewEntry(r.session))
    BY <2>1, RequestsAssumption, NewEntryIsNew
  <2>3. e # NewEntry(r.session)
    BY <2>2 DEF Unreferenced
  <2> QED
    BY <1>4, <2>3 DEF AcquireWarm, Types
<1>5. ASSUME NEW c \in Commands, EvictDone(c)
      PROVE  entry'[e].state \in {"draining", "absent"}
  <2> DEFINE r == cmd[c].arg
             victim == cmd[c].ref
  <2>1. r \in Requests /\ victim \in Entry /\ SessionOf(victim) # r.session
    BY <1>5 DEF EvictDone, Shapes, Shape
  <2>2. victim \notin Copies(r.session)
    BY <2>1 DEF Copies, SessionOf
  <2>3. Unreferenced(NewEntry(r.session))
    BY <2>1, <2>2, RequestsAssumption, NewEntryIsNew
  <2>4. e # NewEntry(r.session)
    BY <2>3 DEF Unreferenced
  <2>5. entry' = [Absent(victim) EXCEPT ![NewEntry(r.session)] = Fresh(r.origin)]
    BY <1>5 DEF EvictDone
  <2>6. /\ Absent(victim) \in [Entry -> EntryRecords] /\ Absent(victim)[victim].state = "absent"
        /\ \A x \in Entry : x # victim => Absent(victim)[x] = entry[x]
    BY <2>1, AbsentEntry
  <2> QED
    BY <2>4, <2>5, <2>6
<1>6. ASSUME NEW x \in Entry, entry' = Absent(x)
      PROVE  entry'[e].state \in {"draining", "absent"}
  BY <1>6, AbsentEntry
<1>7. ASSUME NEW c \in Commands
      PROVE  /\ EvictThrows(c) => entry' = entry
             /\ UncachedOk(c) => entry' = entry
             /\ UncachedFail(c) => entry' = entry
             /\ ReleaseUncached(c) => entry' = entry
             /\ ReleaseDone(c) => entry' = entry \/ \E x \in Entry : entry' = Absent(x)
             /\ WarmFail(c) => \E x \in Entry : entry' = Absent(x)
  BY DEF EvictThrows, UncachedOk, UncachedFail, ReleaseUncached, ReleaseDone, WarmFail, Shapes,
    Shape, AtWarm
<1>8. ASSUME NEW c \in Commands, WarmOk(c)
      PROVE  entry'[e].state \in {"draining", "absent"}
  <2>1. entry[cmd[c].ref].state = "warming"
    BY <1>8 DEF WarmOk, WarmUps, AtWarm
  <2> QED
    BY <1>8, <2>1 DEF WarmOk, Types, EntryRecords
<1>9. ASSUME NEW c \in Commands, Release(c)
      PROVE  entry'[e].state \in {"draining", "absent"}
  BY <1>9 DEF Release, Types, EntryRecords
<1>10. ASSUME NEW p \in Keepers, NEW k \in Sessions, SignalTimeout(p, k)
       PROVE  entry'[e].state \in {"draining", "absent"}
  BY <1>10 DEF SignalTimeout, Types, EntryRecords
<1>11. ASSUME NEW p \in Keepers, NEW cancelled \in BOOLEAN, CancelReturns(p, cancelled)
       PROVE  entry'[e].state \in {"draining", "absent"}
  <2>1. keeper[p].ref \in Entry
    BY <1>11 DEF CancelReturns, Shapes
  <2>2. PICK state : \/ entry' = Absent(keeper[p].ref)
                     \/ /\ entry' = [entry EXCEPT ![keeper[p].ref].state = state]
                        /\ state \in {"draining", entry[keeper[p].ref].state}
    BY <1>11 DEF CancelReturns
  <2> QED
    BY <1>6, <2>1, <2>2 DEF Types, EntryRecords
<1>12. ASSUME NEW p \in Keepers
       PROVE  /\ DrainCold(p) => \E x \in Entry : entry' = [entry EXCEPT ![x].state = "draining"]
              /\ KeeperCloseDone(p) => entry' = entry \/ \E x \in Entry : entry' = Absent(x)
  BY DEF DrainCold, IdleEntries, Pooled, Types, KeeperCloseDone, Shapes
<1>13. ASSUME NEW x \in Entry, entry' = [entry EXCEPT ![x].state = "draining"]
       PROVE  entry'[e].state \in {"draining", "absent"}
  BY <1>13 DEF Types, EntryRecords
<1> QED
  BY <1>1, <1>2, <1>3, <1>4, <1>5, <1>6, <1>7, <1>8, <1>9, <1>10, <1>11, <1>12, <1>13,
    SuspectsAssumption DEF Next, Acquire, Progress, Keep

\* The steps that neither begin an eviction nor add an entry delete a key at most.
OnlyDeletes ==
  /\ \A d \in Commands : cmd'[d].at = "evicting" =>
       cmd[d].at = "evicting" /\ cmd'[d].ref = cmd[d].ref
  /\ pool' = pool \/ \E k \in Sessions : pool' = [pool EXCEPT ![k] = None]

LEMMA MostStepsOnlyDelete ==
  ASSUME PoolInv, Next
  PROVE  \/ OnlyDeletes
         \/ \E c \in Commands, r \in Requests : AcquireEvict(c, r)
         \/ \E c \in Commands, r \in Requests : AcquireWarm(c, r)
         \/ \E c \in Commands : EvictDone(c)
<1> USE DEF PoolInv
<1>0. \A e \in Entry : SessionOf(e) \in Sessions
  BY DEF SessionOf, Entry
<1>1. ASSUME NEW c \in Commands, NEW r \in Requests,
             \/ AcquireMismatch(c, r) \/ AcquireHit(c, r) \/ AcquireJoin(c, r)
             \/ AcquireReconnect(c, r) \/ AcquireUncached(c, r)
      PROVE  OnlyDeletes
  BY <1>1 DEF OnlyDeletes, Types, AcquireMismatch, AcquireHit, AcquireJoin, AcquireReconnect,
    AcquireUncached, End, LeaseOf, AwaitWith
<1>2. ASSUME NEW c \in Commands, EvictThrows(c) \/ UncachedOk(c) \/ UncachedFail(c) \/ ReleaseUncached(c)
      PROVE  OnlyDeletes
  BY <1>2 DEF OnlyDeletes, Types, EvictThrows, UncachedOk, UncachedFail, ReleaseUncached, End,
    LeaseOf
<1>3. ASSUME NEW c \in Commands, WarmOk(c)
      PROVE  OnlyDeletes
  <2>1. \A d \in Commands :
          \/ cmd'[d].at = "holding"
          \/ cmd'[d] = cmd[d]
          \/ cmd'[d] = [cmd[d] EXCEPT !.lease = "replaced"]
    BY <1>3 DEF WarmOk, LentAfterWarm, LeaseOf
  <2> QED
    BY <1>3, <2>1 DEF OnlyDeletes, WarmOk, Types, CommandRecords
<1>4. ASSUME NEW c \in Commands, WarmFail(c)
      PROVE  OnlyDeletes
  <2>1. \A d \in Commands : cmd'[d] = cmd[d] \/ cmd'[d].at \in Ended
    BY <1>4 DEF WarmFail, End, Ended
  <2>2. cmd[c].ref \in Entry
    BY <1>4 DEF WarmFail, Shapes, Shape, AtWarm
  <2> QED
    BY <1>0, <1>4, <2>1, <2>2 DEF OnlyDeletes, WarmFail, WithoutKeyOf, Ended
<1>5. ASSUME NEW c \in Commands, Release(c)
      PROVE  OnlyDeletes
  <2>1. \A d \in Commands : AfterClose(cmd[c].ref)[d].at = cmd[d].at
                            /\ AfterClose(cmd[c].ref)[d].ref = cmd[d].ref
    BY DEF AfterClose, Types, CommandRecords
  <2>2. \A d \in Commands : d # c => cmd'[d].at = cmd[d].at /\ cmd'[d].ref = cmd[d].ref
    <3>1. CASE cmd' = [cmd EXCEPT ![c] = End("idle")]
      BY <3>1 DEF Types
    <3>2. CASE cmd' = [AfterClose(cmd[c].ref) EXCEPT ![c] = AwaitWith("releasing", None, cmd[c].ref)]
      BY <2>1, <3>2 DEF AfterClose
    <3> QED
      BY <1>5, <3>1, <3>2 DEF Release
  <2>3. cmd'[c].at # "evicting"
    BY <1>5 DEF Release, End, AwaitWith, AfterClose, Types
  <2> QED
    BY <1>5, <2>2, <2>3 DEF OnlyDeletes, Release
<1>6. ASSUME NEW c \in Commands, ReleaseDone(c)
      PROVE  OnlyDeletes
  BY <1>0, <1>6 DEF OnlyDeletes, ReleaseDone, Shapes, Shape, WithoutKeyOf, End, Types
<1>7. ASSUME NEW p \in Keepers, Keep(p)
      PROVE  OnlyDeletes
  <2>1. \A e : \A d \in Commands : AfterClose(e)[d].at = cmd[d].at /\ AfterClose(e)[d].ref = cmd[d].ref
    BY DEF AfterClose, Types, CommandRecords
  <2>2. cmd' = cmd \/ \E e \in Entry : cmd' = AfterClose(e)
    BY <1>7 DEF Keep, SignalTimeout, CancelReturns, DrainCold, IdleEntries, Pooled, Types,
      KeeperCloseDone, Shapes
  <2>3. pool' = pool \/ \E e \in Entry : pool' = WithoutKeyOf(e)
    BY <1>7 DEF Keep, SignalTimeout, CancelReturns, DrainCold, KeeperCloseDone, Shapes
  <2> QED
    BY <1>0, <2>1, <2>2, <2>3 DEF OnlyDeletes, WithoutKeyOf
<1> QED
  BY <1>1, <1>2, <1>3, <1>4, <1>5, <1>6, <1>7 DEF Next, Acquire, Progress

\* The claims of a smaller set are smaller.
LEMMA FewerClaims ==
  ASSUME NEW S, IsFiniteSet(S), Cardinality(S) <= MaxEntries + Cardinality(Commands) - 1,
         NEW T, T \subseteq S
  PROVE  IsFiniteSet(T) /\ Cardinality(T) <= MaxEntries + Cardinality(Commands) - 1
<1>1. IsFiniteSet(T) /\ Cardinality(T) <= Cardinality(S)
  BY FS_Subset
<1>2. Cardinality(T) \in Nat /\ Cardinality(S) \in Nat /\ Cardinality(Commands) \in Nat
  BY <1>1, FiniteAssumption, FS_CardinalityType
<1> QED
  BY <1>1, <1>2, LimitsAssumption

LEMMA DeletesKeepSize ==
  ASSUME SizeInv, Next, OnlyDeletes
  PROVE  Evictions' /\ ClaimsAreBounded'
<1> DEFINE E == {c \in Commands : Evicting(c)}
<1>1. PoolInv /\ Evictions /\ ClaimsAreBounded
  BY DEF SizeInv
<1>2. \A d \in Commands : Evicting(d)' => Evicting(d) /\ cmd'[d].ref = cmd[d].ref
  BY DEF OnlyDeletes, Evicting
<1>3. Evictions'
  <2>1. \A d \in Commands : Evicting(d)' => entry'[cmd[d].ref].state \in {"draining", "absent"}
    <3> SUFFICES ASSUME NEW d \in Commands, Evicting(d)'
                 PROVE  entry'[cmd[d].ref].state \in {"draining", "absent"}
      OBVIOUS
    <3>1. Evicting(d) /\ cmd[d].ref \in Entry
      BY <1>1, <1>2 DEF PoolInv, Shapes, Shape, Evicting
    <3>2. entry[cmd[d].ref].state \in {"draining", "absent"}
      BY <1>1, <3>1 DEF Evictions
    <3> QED
      BY <1>1, <3>1, <3>2, VictimsStayRetired
  <2> QED
    BY <1>1, <1>2, <2>1 DEF Evictions
<1>4. Claims' \subseteq ClaimsOn(pool', E)
  BY <1>2 DEF Claims, ClaimsOn
<1>5. /\ IsFiniteSet(ClaimsOn(pool', E))
      /\ Cardinality(ClaimsOn(pool', E)) <= MaxEntries + Cardinality(Commands) - 1
  <2>1. IsFiniteSet(ClaimsOn(pool, E))
        /\ Cardinality(ClaimsOn(pool, E)) <= MaxEntries + Cardinality(Commands) - 1
    BY <1>1 DEF ClaimsAreBounded, Claims
  <2>2. CASE pool' = pool
    BY <2>1, <2>2, Zenon
  <2>3. ASSUME NEW k \in Sessions, pool' = [pool EXCEPT ![k] = None]
        PROVE  <1>5!1 /\ <1>5!2
    <3>1. /\ pool \in [Sessions -> Entry \cup {None}]
          /\ \A j \in Sessions : pool[j] # None => SessionOf(pool[j]) = j
      BY <1>1 DEF PoolInv, Types
    <3>2. /\ IsFiniteSet(ClaimsOn(pool', E))
          /\ Cardinality(ClaimsOn(pool', E)) <= Cardinality(ClaimsOn(pool, E))
      <4>1. /\ IsFiniteSet(ClaimsOn([pool EXCEPT ![k] = None], E))
            /\ Cardinality(ClaimsOn([pool EXCEPT ![k] = None], E)) <= Cardinality(ClaimsOn(pool, E))
        BY <1>1, <2>1, <3>1, DeletedKey
      <4> QED
        BY <2>3, <4>1, Zenon
    <3>3. Cardinality(ClaimsOn(pool', E)) \in Nat /\ Cardinality(ClaimsOn(pool, E)) \in Nat
          /\ Cardinality(Commands) \in Nat
      BY <2>1, <3>2, FiniteAssumption, FS_CardinalityType
    <3> HIDE DEF E
    <3> QED
      BY <2>1, <3>2, <3>3, LimitsAssumption
  <2> QED
    BY <2>2, <2>3 DEF OnlyDeletes
<1>6. ClaimsAreBounded'
  <2>1. IsFiniteSet(Claims') /\ Cardinality(Claims') <= MaxEntries + Cardinality(Commands) - 1
    <3> HIDE DEF E
    <3> QED
      BY <1>4, <1>5, FewerClaims
  <2> QED
    BY <2>1 DEF ClaimsAreBounded
<1> QED
  BY <1>3, <1>6

\* The victim of a new eviction is still in the Map, and of no other eviction.
LEMMA AcquireEvictKeepsSize ==
  ASSUME SizeInv, NEW c \in Commands, NEW r \in Requests, AcquireEvict(c, r), Next
  PROVE  Evictions' /\ ClaimsAreBounded'
<1>1. Types /\ Shapes /\ Counts /\ PoolInv /\ Evictions /\ ClaimsAreBounded
  BY DEF SizeInv, PoolInv
<1>2. PICK e \in Entry :
        /\ entry[e].state = "ready" /\ entry[e].borrowCount = 0
        /\ pool[SessionOf(e)] = e
        /\ entry' = [entry EXCEPT ![e].state = "draining"]
        /\ cmd' = [AfterClose(e) EXCEPT ![c] = AwaitWith("evicting", r, e)]
  BY <1>1 DEF AcquireEvict, IdleEntries, Pooled, Types
<1>3. cmd' = [cmd EXCEPT ![c] = AwaitWith("evicting", r, e)] /\ pool' = pool
  BY <1>1, <1>2, NoHolder, CloseIsUnseen DEF AcquireEvict
<1>4. /\ cmd'[c].ref = e
      /\ \A d \in Commands : d # c => cmd'[d] = cmd[d]
  BY <1>1, <1>3 DEF Types, AwaitWith
<1>5. \A d \in Commands : d # c /\ Evicting(d) => cmd[d].ref # e /\ cmd[d].ref \in Entry
  BY <1>1, <1>2 DEF Evictions, Shapes, Shape, Evicting
<1>6. Evictions'
  <2>1. ASSUME NEW d \in Commands, Evicting(d)'
        PROVE  entry'[cmd'[d].ref].state \in {"draining", "absent"}
    <3>1. CASE d = c
      BY <1>1, <1>2, <1>4, <3>1 DEF Types, EntryRecords
    <3>2. CASE d # c
      BY <1>1, <1>2, <1>4, <1>5, <2>1, <3>2 DEF Types, EntryRecords, Evictions, Evicting
    <3> QED
      BY <3>1, <3>2
  <2>2. ASSUME NEW d1 \in Commands, NEW d2 \in Commands,
               Evicting(d1)', Evicting(d2)', cmd'[d1].ref = cmd'[d2].ref
        PROVE  d1 = d2
    BY <1>1, <1>4, <1>5, <2>2 DEF Evictions, Evicting
  <2> QED
    BY <2>1, <2>2 DEF Evictions
<1>7. Claims' \subseteq Claims
  <2>1. ASSUME NEW d \in Commands, Evicting(d)', pool[SessionOf(cmd'[d].ref)] # cmd'[d].ref
        PROVE  Evicting(d) /\ cmd'[d].ref = cmd[d].ref
    BY <1>2, <1>4, <2>1 DEF Evicting
  <2> QED
    BY <1>3, <2>1 DEF Claims, ClaimsOn
<1> QED
  BY <1>1, <1>6, <1>7, FewerClaims DEF ClaimsAreBounded

\* A new entry is put into a pool that is not full, and the others' claims are
\* one each.
LEMMA AcquireWarmKeepsSize ==
  ASSUME SizeInv, NEW c \in Commands, NEW r \in Requests, AcquireWarm(c, r), Next
  PROVE  Evictions' /\ ClaimsAreBounded'
<1> DEFINE e0 == NewEntry(r.session)
           rest == Commands \ {c}
           keys == Pooled \cup {r.session}
           fk == [k \in keys |-> <<"key", k>>]
           fe == [d \in rest |-> <<"evictor", d>>]
           K == {fk[k] : k \in keys}
           V == {fe[d] : d \in rest}
<1>1. Types /\ Shapes /\ PoolInv /\ Evictions
  BY DEF SizeInv, PoolInv
<1>2. Unreferenced(e0)
  <2>1. cmd[c].ref \notin Copies(r.session)
    BY <1>1, NoneAssumption, RequestsAssumption DEF AcquireWarm, Shapes, Shape, Copies, Entry
  <2> QED
    BY <2>1, RequestsAssumption, NewEntryIsNew
<1>3. /\ ~Evicting(c)'
      /\ \A d \in Commands : d # c => cmd'[d] = cmd[d]
      /\ pool' = [pool EXCEPT ![r.session] = e0]
      /\ entry' = [entry EXCEPT ![e0] = Fresh(r.origin)]
      /\ Cardinality(Pooled) < MaxEntries
  BY <1>1 DEF AcquireWarm, Types, AwaitWith, Evicting
<1> HIDE DEF e0
<1>4. \A d \in Commands : Evicting(d)' => d # c /\ Evicting(d) /\ cmd'[d].ref = cmd[d].ref
  BY <1>3 DEF Evicting
<1>5. \A d \in Commands : cmd[d].ref # e0
  BY <1>2 DEF Unreferenced
<1>6. Evictions'
  <2>1. \A d \in Commands : Evicting(d) => cmd[d].ref \in Entry
    BY <1>1 DEF Shapes, Shape, Evicting
  <2>2. \A x \in Entry : x # e0 => entry'[x] = entry[x]
    BY <1>1, <1>3 DEF Types
  <2> QED
    BY <1>1, <1>4, <1>5, <2>1, <2>2 DEF Evictions
<1>7. Claims' \subseteq K \cup V
  <2>1. ASSUME NEW k \in Sessions, pool'[k] # None
        PROVE  k \in keys
    BY <1>1, <1>3, <2>1 DEF Types, Pooled
  <2>2. \A d \in Commands : Evicting(d)' => d \in rest
    BY <1>4
  <2>3. \A k \in keys : fk[k] = <<"key", k>>
    OBVIOUS
  <2>4. \A d \in rest : fe[d] = <<"evictor", d>>
    OBVIOUS
  <2> HIDE DEF fk, fe, keys, rest
  <2> QED
    BY <2>1, <2>2, <2>3, <2>4 DEF Claims, ClaimsOn
<1>8. /\ IsFiniteSet(Pooled) /\ Cardinality(Pooled) \in Nat
      /\ IsFiniteSet(keys) /\ Cardinality(keys) \in Nat
      /\ Cardinality(keys) <= Cardinality(Pooled) + 1
  <2>1. Pooled \subseteq Sessions
    BY DEF Pooled
  <2>2. IsFiniteSet(Pooled)
    BY <2>1, FiniteAssumption, FS_Subset
  <2>3. IsFiniteSet({r.session}) /\ Cardinality({r.session}) = 1
    BY FS_Singleton
  <2>4. IsFiniteSet(keys) /\ Cardinality(keys) <= Cardinality(Pooled) + Cardinality({r.session})
    BY <2>2, <2>3, UnionIsSmall
  <2> HIDE DEF keys
  <2> QED
    BY <2>2, <2>3, <2>4, FS_CardinalityType
<1>9. /\ IsFiniteSet(rest) /\ Cardinality(rest) \in Nat
      /\ Cardinality(rest) = Cardinality(Commands) - 1 /\ Cardinality(Commands) \in Nat
  BY FiniteAssumption, FS_RemoveElement, FS_CardinalityType
<1>10. IsFiniteSet(K) /\ Cardinality(K) <= Cardinality(keys) /\ Cardinality(K) \in Nat
  <2>1. DOMAIN fk = keys
    OBVIOUS
  <2>2. IsFiniteSet(K) /\ Cardinality(K) <= Cardinality(keys)
    <3> HIDE DEF fk, keys
    <3> QED
      BY <1>8, <2>1, ImageIsSmall
  <2> HIDE DEF K, keys
  <2> QED
    BY <2>2, FS_CardinalityType
<1>11. IsFiniteSet(V) /\ Cardinality(V) <= Cardinality(rest) /\ Cardinality(V) \in Nat
  <2>1. DOMAIN fe = rest
    OBVIOUS
  <2>2. IsFiniteSet(V) /\ Cardinality(V) <= Cardinality(rest)
    <3> HIDE DEF fe, rest
    <3> QED
      BY <1>9, <2>1, ImageIsSmall
  <2> HIDE DEF V, rest
  <2> QED
    BY <2>2, FS_CardinalityType
<1> HIDE DEF K, V, keys, rest
<1>12. /\ IsFiniteSet(K \cup V)
       /\ Cardinality(K \cup V) <= Cardinality(K) + Cardinality(V)
       /\ Cardinality(K \cup V) \in Nat
  BY <1>10, <1>11, UnionIsSmall, FS_CardinalityType
<1>13. Cardinality(K \cup V) <= MaxEntries + Cardinality(Commands) - 1
  BY <1>3, <1>8, <1>9, <1>10, <1>11, <1>12, LimitsAssumption
<1> QED
  BY <1>6, <1>7, <1>12, <1>13, FewerClaims DEF ClaimsAreBounded

\* An acquire whose eviction ended adds the entry it had a claim to.
LEMMA EvictDoneKeepsSize ==
  ASSUME SizeInv, NEW c \in Commands, EvictDone(c), Next
  PROVE  Evictions' /\ ClaimsAreBounded'
<1> DEFINE r == cmd[c].arg
           victim == cmd[c].ref
           k == SessionOf(victim)
           e0 == NewEntry(r.session)
           E == {d \in Commands : Evicting(d)}
           p1 == [pool EXCEPT ![k] = None]
           S == ClaimsOn(p1, E)
<1>1. Types /\ Shapes /\ PoolInv /\ Evictions /\ ClaimsAreBounded
  BY DEF SizeInv, PoolInv
<1>2. /\ Evicting(c) /\ r \in Requests /\ r.session \in Sessions /\ victim \in Entry
      /\ k # r.session /\ k \in Sessions
  BY <1>1, RequestsAssumption DEF EvictDone, Evicting, Shapes, Shape, SessionOf, Entry
<1>3. e0 \in Entry /\ SessionOf(e0) = r.session /\ Unreferenced(e0)
  <2>1. victim \notin Copies(r.session)
    BY <1>2 DEF Copies, SessionOf
  <2> QED
    BY <1>2, <2>1, NewEntryIsNew
<1>4. /\ pool' = [p1 EXCEPT ![r.session] = e0]
      /\ cmd' = [cmd EXCEPT ![c] = AwaitWith("warming", r, e0)]
      /\ entry' = [Absent(victim) EXCEPT ![e0] = Fresh(r.origin)]
  BY DEF EvictDone, WithoutKeyOf
<1> HIDE DEF e0
<1>5. ~Evicting(c)' /\ \A d \in Commands : d # c => cmd'[d] = cmd[d]
  BY <1>1, <1>4 DEF Types, Evicting, AwaitWith
<1>6. \A d \in Commands : Evicting(d)' => d # c /\ Evicting(d) /\ cmd'[d].ref = cmd[d].ref
  BY <1>5 DEF Evicting
<1>7. \A d \in Commands : Evicting(d) => cmd[d].ref \in Entry /\ cmd[d].ref # e0
  BY <1>1, <1>3 DEF Shapes, Shape, Evicting, Unreferenced
<1>8. Evictions'
  <2>1. \A d \in Commands : Evicting(d)' => entry'[cmd[d].ref].state \in {"draining", "absent"}
    <3> SUFFICES ASSUME NEW d \in Commands, Evicting(d)'
                 PROVE  entry'[cmd[d].ref].state \in {"draining", "absent"}
      OBVIOUS
    <3>1. entry[cmd[d].ref].state \in {"draining", "absent"} /\ cmd[d].ref \in Entry
      BY <1>1, <1>6, <1>7 DEF Evictions
    <3> QED
      BY <1>1, <3>1, VictimsStayRetired
  <2> QED
    BY <1>1, <1>6, <2>1 DEF Evictions
<1>9. /\ IsFiniteSet(S)
      /\ Cardinality(S) <= MaxEntries + Cardinality(Commands) - 1
  <2>1. /\ IsFiniteSet(ClaimsOn(pool, E))
        /\ Cardinality(ClaimsOn(pool, E)) <= MaxEntries + Cardinality(Commands) - 1
    BY <1>1 DEF ClaimsAreBounded, Claims
  <2>2. /\ pool \in [Sessions -> Entry \cup {None}]
        /\ \A j \in Sessions : pool[j] # None => SessionOf(pool[j]) = j
    BY <1>1 DEF Types
  <2>3. IsFiniteSet(S) /\ Cardinality(S) <= Cardinality(ClaimsOn(pool, E))
    BY <1>1, <1>2, <2>1, <2>2, DeletedKey
  <2>4. /\ Cardinality(S) \in Nat /\ Cardinality(ClaimsOn(pool, E)) \in Nat
        /\ Cardinality(Commands) \in Nat
    BY <2>1, <2>3, FiniteAssumption, FS_CardinalityType
  <2> HIDE DEF S, E
  <2> QED
    BY <2>1, <2>3, <2>4, LimitsAssumption
<1>10. p1 \in [Sessions -> Entry \cup {None}] /\ p1[k] = None
  BY <1>1, <1>2 DEF Types
<1>11. <<"evictor", c>> \in S
  BY <1>2, <1>10, NoneAssumption DEF ClaimsOn
<1>12. PICK b : /\ p1[r.session] = None => b = <<"key", r.session>>
                /\ \A d \in E : cmd[d].ref = p1[r.session] => b = <<"evictor", d>>
  <2>1. CASE p1[r.session] = None
    <3>1. \A d \in E : cmd[d].ref # p1[r.session]
      BY <1>7, <2>1, NoneAssumption
    <3> HIDE DEF p1, E
    <3> QED
      BY <3>1
  <2>2. CASE p1[r.session] # None /\ \E d \in E : cmd[d].ref = p1[r.session]
    <3>1. PICK d \in E : cmd[d].ref = p1[r.session]
      BY <2>2
    <3>2. \A x \in E : cmd[x].ref = p1[r.session] => x = d
      BY <1>1, <3>1 DEF Evictions
    <3> HIDE DEF p1, E
    <3> QED
      BY <2>2, <3>2
  <2>3. CASE p1[r.session] # None /\ ~\E d \in E : cmd[d].ref = p1[r.session]
    <3> HIDE DEF p1, E
    <3> QED
      BY <2>3
  <2> QED
    BY <2>1, <2>2, <2>3
<1>13. Claims' \subseteq (S \ {<<"evictor", c>>}) \cup {b}
  <2> SUFFICES ASSUME NEW t \in Claims', t # b
               PROVE  t \in S /\ t # <<"evictor", c>>
    OBVIOUS
  <2>1. CASE \E j \in Sessions : pool'[j] # None /\ t = <<"key", j>>
    <3>1. PICK j \in Sessions : pool'[j] # None /\ t = <<"key", j>>
      BY <2>1
    <3>2. p1[j] # None
      BY <1>4, <1>10, <1>12, <3>1
    <3> HIDE DEF p1, E
    <3> QED
      BY <3>1, <3>2 DEF ClaimsOn
  <2>2. CASE \E d \in Commands : /\ Evicting(d)'
                                 /\ pool'[SessionOf(cmd'[d].ref)] # cmd'[d].ref
                                 /\ t = <<"evictor", d>>
    <3>1. PICK d \in Commands : /\ Evicting(d)'
                                /\ pool'[SessionOf(cmd'[d].ref)] # cmd'[d].ref
                                /\ t = <<"evictor", d>>
      BY <2>2
    <3>2. d # c /\ d \in E /\ cmd'[d].ref = cmd[d].ref
      BY <1>6, <3>1
    <3>3. cmd[d].ref # p1[r.session]
      BY <1>12, <3>1, <3>2
    <3>4. p1[SessionOf(cmd[d].ref)] # cmd[d].ref
      <4>1. CASE SessionOf(cmd[d].ref) = r.session
        BY <3>3, <4>1
      <4>2. CASE SessionOf(cmd[d].ref) # r.session
        <5>1. pool'[SessionOf(cmd[d].ref)] # cmd[d].ref
          BY <3>1, <3>2
        <5> HIDE DEF p1, E
        <5> QED
          BY <1>4, <1>10, <4>2, <5>1
      <4> QED
        BY <4>1, <4>2
    <3> HIDE DEF p1, E
    <3> QED
      BY <3>1, <3>2, <3>4 DEF ClaimsOn
  <2> QED
    BY <2>1, <2>2 DEF Claims, ClaimsOn
<1>14. IsFiniteSet(Claims') /\ Cardinality(Claims') <= Cardinality(S)
  <2> HIDE DEF S
  <2> QED
    BY <1>9, <1>11, <1>13, Exchange
<1>15. Cardinality(Claims') <= MaxEntries + Cardinality(Commands) - 1
  <2>1. /\ Cardinality(Claims') \in Nat /\ Cardinality(S) \in Nat
        /\ Cardinality(Commands) \in Nat
    BY <1>9, <1>14, FiniteAssumption, FS_CardinalityType
  <2> HIDE DEF S
  <2> QED
    BY <1>9, <1>14, <2>1, LimitsAssumption
<1> QED
  BY <1>8, <1>14, <1>15 DEF ClaimsAreBounded

LEMMA NextKeepsSizeInv == SizeInv /\ [Next]_vars => SizeInv'
<1> SUFFICES ASSUME SizeInv, [Next]_vars PROVE SizeInv'
  OBVIOUS
<1>1. PoolInv'
  BY NextKeepsPoolInv DEF SizeInv
<1>2. CASE Next
  <2>1. PoolInv
    BY DEF SizeInv
  <2>2. Evictions' /\ ClaimsAreBounded'
    BY <1>2, <2>1, MostStepsOnlyDelete, DeletesKeepSize, AcquireEvictKeepsSize,
      AcquireWarmKeepsSize, EvictDoneKeepsSize
  <2> QED
    BY <1>1, <2>2 DEF SizeInv
<1>3. CASE UNCHANGED vars
  BY <1>1, <1>3 DEF vars, SizeInv, Evictions, ClaimsAreBounded, Claims, ClaimsOn, Evicting
<1> QED
  BY <1>2, <1>3

-----------------------------------------------------------------------------
(* The theorems                                                             *)

\* The inductive invariant holds in every reachable state.
THEOREM PoolInvariance == Spec => []PoolInv
<1>1. Init => PoolInv
  BY InitPoolInv
<1>2. PoolInv /\ [Next]_vars => PoolInv'
  BY NextKeepsPoolInv
<1> QED
  BY <1>1, <1>2, PTL DEF Spec

\* The Map, its entries, commands and keepers are well typed: no entry is ever
\* seen closed, and none is borrowed more often than there are commands.
THEOREM PoolTypeCorrect == Spec => []TypeOK
<1>1. PoolInv => TypeOK
  <2> SUFFICES ASSUME PoolInv PROVE TypeOK
    OBVIOUS
  <2>1. \A e \in Entry : entry[e].borrowCount \in 0..Cardinality(Commands)
    BY HoldersAreFinite DEF PoolInv, Counts
  <2> QED
    BY <2>1 DEF PoolInv, Types, TypeOK, EntryRecords, CommandRecords, KeeperRecords, Origins,
      Pooled
<1> QED
  BY <1>1, PoolInvariance, PTL

\* No browser is closed under a command that was lent it, and borrowCount tells
\* how many were.
THEOREM LoansAreSafe == Spec => []LentBrowsersStayOpen
<1>1. PoolInv => LentBrowsersStayOpen
  BY DEF PoolInv, Shapes, Shape, Counts, LentBrowsersStayOpen
<1> QED
  BY <1>1, PoolInvariance, PTL

\* A lease is for the session and the browser asked for.
THEOREM LeasesAreRight == Spec => []LeasesMatchRequests
<1>1. PoolInv => LeasesMatchRequests
  BY DEF PoolInv, Shapes, Shape, LeasesMatchRequests
<1> QED
  BY <1>1, PoolInvariance, PTL

\* Who joins a warm-up waits for one that is under way.
THEOREM WarmUpsWakeAll == Spec => []JoinersAreWoken
<1>1. PoolInv => JoinersAreWoken
  BY DEF PoolInv, Shapes, Shape, WarmUps, AtWarm, JoinersAreWoken
<1> QED
  BY <1>1, PoolInvariance, PTL

\* The pool never outgrows its limit by as much as one entry per command.
THEOREM PoolStaysBounded == Spec => []PoolIsBounded
<1>1. Init => SizeInv
  BY InitSizeInv
<1>2. SizeInv /\ [Next]_vars => SizeInv'
  BY NextKeepsSizeInv
<1>3. SizeInv => PoolIsBounded
  <2> SUFFICES ASSUME SizeInv PROVE PoolIsBounded
    OBVIOUS
  <2> DEFINE f == [k \in Pooled |-> <<"key", k>>]
  <2>1. IsFiniteSet(Claims) /\ Cardinality(Claims) <= MaxEntries + Cardinality(Commands) - 1
    BY DEF SizeInv, ClaimsAreBounded
  <2>2. f \in Injection(Pooled, Claims)
    BY DEF Injection, IsInjective, Claims, ClaimsOn, Pooled
  <2>3. IsFiniteSet(Pooled) /\ Cardinality(Pooled) <= Cardinality(Claims)
    <3> HIDE DEF f
    <3> QED
      BY <2>1, <2>2, FS_Injection
  <2>4. /\ Cardinality(Pooled) \in Nat /\ Cardinality(Claims) \in Nat
        /\ Cardinality(Commands) \in Nat
    BY <2>1, <2>3, FiniteAssumption, FS_CardinalityType
  <2> QED
    BY <2>1, <2>3, <2>4, LimitsAssumption DEF PoolIsBounded
<1> QED
  BY <1>1, <1>2, <1>3, PTL DEF Spec
=============================================================================
