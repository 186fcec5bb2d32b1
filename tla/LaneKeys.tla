------------------------------- MODULE LaneKeys --------------------------------
(****************************************************************************)
(* Which commands wait for each other in the daemon.  The worker derives    *)
(* the lane of a command from its words alone                               *)
(* (core/daemon/domain/lane-key-resolver.ts); the command finds out which   *)
(* session it works on when it runs, from its words and the state: that     *)
(* session is the other half of this module.                                *)
(*                                                                          *)
(* Commands of one lane run one at a time, in any order (LaneService).      *)
(* Tokens, hashing and the parsing of options are abstracted to the record  *)
(* of what they say; nothing is deleted, every session can be reached, and  *)
(* a Chrome always starts.  The last is SessionLifecycle's concern.         *)
(****************************************************************************)
EXTENDS Naturals, FiniteSets

CONSTANT Clients

VARIABLES
  request,    \* per client: what its command says, see Argvs
  stage,      \* per client: where its command is
  session,    \* per client: the session it has found
  sessions,   \* the state's sessions
  activeId,   \* activeSessionId
  targetOf    \* the session of the one known target

keyVars == <<request, stage, session, sessions, activeId, targetOf>>

Default == "s-default"

\* profileSessionId: p. and the profile
SessionOf(profile) == profile

\* allocateSessionId: new to everybody, the client stands for it
FreshId(c) == c

SessionIds == {"s-a", Default, SessionOf("p.work")} \cup {FreshId(c) : c \in Clients}

ASSUME KeysAssumption == Clients \cap {"none", "s-a", Default, SessionOf("p.work")} = {}

-----------------------------------------------------------------------------
(* The words of a command                                                   *)

\* the first words: open, run, target ..., session attach, new, use, ensure
Families == {"open", "run", "target", "attach", "new", "use", "ensure"}

\* --session, or --session-id of attach and new; `use` has it as its argument
NamedIds == {"none", "s-a"}

Argvs ==
  {r \in [family : Families, named : NamedIds, profile : {"none", "p.work"},
          shared : BOOLEAN, ensure : {"off", "if-missing", "fresh"},
          url : {"none", "u1", "u2"}, agent : {"a1", "a2"}] :
     /\ r.family = "open" <=> r.url # "none"
     /\ r.family # "open" => r.ensure = "off"
     /\ r.family \notin {"open", "run"} => r.profile = "none" /\ ~r.shared
     /\ r.family = "use" => r.named # "none"
     /\ r.family = "ensure" => r.named = "none"}

-----------------------------------------------------------------------------
(* The lane                                                                 *)

ControlLane(r) == <<"control", r.agent>>

\* the origin of the URL
UrlLane(r) == <<"url", r.url>>

\* MUTANT: the URL of an open before its profile and its isolation
LaneKey_UrlFirst(r) ==
  CASE r.named # "none" /\ r.family # "use" -> <<"session", r.named>>
    [] r.family = "attach" -> <<"cdp">>
    [] r.family = "open" -> UrlLane(r)
    [] r.profile # "none" -> <<"profile", r.profile>>
    [] r.shared -> <<"shared">>
    [] OTHER -> ControlLane(r)

LaneKey(r) ==
  IF r.named # "none" /\ r.family # "use" THEN <<"session", r.named>>
  ELSE IF r.family = "attach" THEN <<"cdp">>
  ELSE IF r.profile # "none" THEN <<"profile", r.profile>>
  ELSE IF r.shared THEN <<"shared">>
  ELSE IF r.family = "open" THEN UrlLane(r)
  ELSE ControlLane(r)

-----------------------------------------------------------------------------
AtWork == {"dispatched", "joins", "makes", "working"}

KeysTypeOK ==
  /\ request \in [Clients -> Argvs]
  /\ stage \in [Clients -> AtWork \cup {"waiting", "done"}]
  /\ session \in [Clients -> SessionIds \cup {"none"}]
  /\ sessions \subseteq SessionIds
  /\ activeId \in sessions \cup {"none"}
  /\ targetOf \in {"none", "s-a", Default}

KeysInit ==
  /\ request \in [Clients -> Argvs]
  /\ stage = [c \in Clients |-> "waiting"]
  /\ session = [c \in Clients |-> "none"]
  /\ sessions \in SUBSET {"s-a", Default}
  /\ activeId \in sessions \cup {"none"}
  /\ targetOf \in {"none", "s-a", Default}

Dispatch(c) ==
  /\ stage[c] = "waiting"
  /\ \A d \in Clients : stage[d] \in AtWork => LaneKey(request[d]) # LaneKey(request[c])
  /\ stage' = [stage EXCEPT ![c] = "dispatched"]
  /\ UNCHANGED <<request, session, sessions, activeId, targetOf>>

-----------------------------------------------------------------------------
(* The session, as the handler finds it                                     *)

Leaves(c) ==
  /\ stage' = [stage EXCEPT ![c] = "done"]
  /\ UNCHANGED <<request, session, sessions, activeId, targetOf>>

\* the session's Chrome is reached or started, then the state is written
Finds(c, id, next) ==
  /\ stage' = [stage EXCEPT ![c] = next]
  /\ session' = [session EXCEPT ![c] = id]
  /\ UNCHANGED <<request, sessions, activeId, targetOf>>

Joins(c, id) == IF id \in sessions THEN Finds(c, id, "joins") ELSE Leaves(c)

Makes(c, id) == IF id \notin sessions THEN Finds(c, id, "makes") ELSE Leaves(c)

\* sessionEnsure
JoinsShared(c) ==
  IF activeId # "none" THEN Joins(c, activeId)
  ELSE Finds(c, Default, IF Default \in sessions THEN "joins" ELSE "makes")

OpenFinds(c) ==
  LET r == request[c]
      fresh == IF r.named # "none" /\ r.named \notin sessions THEN r.named ELSE FreshId(c) IN
  /\ stage[c] = "dispatched" /\ r.family = "open"
  /\ \/ r.profile # "none" /\ r.ensure # "off" /\ Leaves(c)
     \/ r.profile # "none" /\ r.ensure = "off" /\ Finds(c, SessionOf(r.profile), "joins")
     \/ r.profile = "none" /\ r.ensure = "fresh" /\ Makes(c, fresh)
     \/ /\ r.profile = "none" /\ r.ensure # "fresh" /\ r.named # "none"
        /\ IF r.ensure = "if-missing" /\ r.named \notin sessions
           THEN Makes(c, r.named) ELSE Joins(c, r.named)
     \/ /\ r.profile = "none" /\ r.ensure # "fresh" /\ r.named = "none"
        /\ IF r.shared THEN JoinsShared(c) ELSE Makes(c, FreshId(c))

RunFinds(c) ==
  LET r == request[c] IN
  /\ stage[c] = "dispatched" /\ r.family = "run"
  /\ \/ r.profile # "none" /\ r.named # "none" /\ Leaves(c)
     \/ r.profile # "none" /\ r.named = "none" /\ Finds(c, SessionOf(r.profile), "joins")
     \/ r.profile = "none" /\ r.named # "none" /\ Joins(c, r.named)
     \/ r.profile = "none" /\ r.named = "none" /\ r.shared /\ JoinsShared(c)
     \/ r.profile = "none" /\ r.named = "none" /\ ~r.shared /\ Makes(c, FreshId(c))

\* fallbackSessionIdForTargetRecovery
Fallback ==
  IF activeId # "none" THEN {activeId}
  ELSE IF Cardinality(sessions) = 1 THEN sessions ELSE {}

TargetFinds(c) ==
  LET named == request[c].named IN
  /\ stage[c] = "dispatched" /\ request[c].family = "target"
  /\ \/ named # "none" /\ (IF targetOf = named THEN Joins(c, named) ELSE Leaves(c))
     \/ named = "none" /\ targetOf \in sessions /\ Joins(c, targetOf)
     \/ /\ named = "none" /\ targetOf \notin sessions
        /\ IF Fallback = {} THEN Leaves(c) ELSE \E id \in Fallback : Joins(c, id)

\* new and attach
NewFinds(c) ==
  LET named == request[c].named IN
  /\ stage[c] = "dispatched" /\ request[c].family \in {"new", "attach"}
  /\ Makes(c, IF named # "none" THEN named ELSE FreshId(c))

UseFinds(c) ==
  /\ stage[c] = "dispatched" /\ request[c].family = "use"
  /\ Joins(c, request[c].named)

EnsureFinds(c) ==
  /\ stage[c] = "dispatched" /\ request[c].family = "ensure"
  /\ JoinsShared(c)

\* a made session must still be new, unless it is the default one; a profile's
\* is written over
SaveSession(c) ==
  /\ stage[c] \in {"joins", "makes"}
  /\ IF stage[c] = "makes" /\ session[c] \in sessions /\ session[c] # Default
     THEN Leaves(c)
     ELSE /\ stage' = [stage EXCEPT ![c] = "working"]
          /\ sessions' = sessions \cup {session[c]}
          /\ activeId' = session[c]
          /\ UNCHANGED <<request, session, targetOf>>

Finish(c) == stage[c] = "working" /\ Leaves(c)

-----------------------------------------------------------------------------
FindsSession(c) ==
  OpenFinds(c) \/ RunFinds(c) \/ TargetFinds(c) \/ NewFinds(c) \/ UseFinds(c) \/ EnsureFinds(c)

KeysNext ==
  \E c \in Clients : Dispatch(c) \/ FindsSession(c) \/ SaveSession(c) \/ Finish(c)

KeysSpec == KeysInit /\ [][KeysNext]_keyVars

-----------------------------------------------------------------------------
(* Property                                                                 *)

\* how the handler comes to its session
Way(r) ==
  IF r.profile # "none" THEN "profile"
  ELSE IF r.named # "none" /\ r.family # "use" THEN "named"
  ELSE IF r.shared THEN "shared"
  ELSE IF r.family \in {"open", "run", "new", "attach"} THEN "fresh"
  ELSE "records"

WorkTogether(c, d) ==
  /\ c # d
  /\ stage[c] \in AtWork /\ stage[d] \in AtWork
  /\ session[c] # "none" /\ session[c] = session[d]

\* Commands that come to their session in the same way never work on it at the
\* same time, whatever their lanes are: those that name it, those that name its
\* profile, those that share the active one.  Excepted are commands that take
\* it from the state and come from two agents, and an open that names a session
\* beside the profile it uses, which waits in the lane of that session.
LanesKeepSessionsApart ==
  \A c, d \in Clients :
    WorkTogether(c, d) /\ Way(request[c]) = Way(request[d]) =>
      \/ Way(request[c]) = "records" /\ request[c].agent # request[d].agent
      \/ Way(request[c]) = "profile" /\ (request[c].named # "none" \/ request[d].named # "none")
=============================================================================
