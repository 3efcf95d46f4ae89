---------------------------- MODULE ProxySessions ----------------------------
(***************************************************************************)
(* What the bifrost proxy knows of its sessions: the workspace each one    *)
(* belongs to (in a cache, and in the registry that the SessionStart hook  *)
(* fills too), the link under traffic/, and the watcher process it runs    *)
(* for each session until it is shut down.  The requests of a session are  *)
(* handled side by side; the cache and the table of watchers have a mutex  *)
(* each.                                                                   *)
(*                                                                         *)
(* What a handler does to the files of the session is SessionFiles, what a  *)
(* watcher does is ExchangeWatcher.                                         *)
(***************************************************************************)
EXTENDS Naturals, Sequences, FiniteSets, SequencesExt

CONSTANTS
  Sessions,      \* session ids
  NoId,          \* the id of a request that carries none: "unknown"
  Dir,           \* Dir[s]: the project directory, as path components
  Requests,
  Session,       \* Session[r], NoId or one of Sessions
  Shows,         \* Shows[r]: the directory in its system blocks, <<>> if none
  Unknown,       \* no workspace
  NoRequest,
  MaxStarts,     \* bound: SessionStart events of a session
  MaxDeaths,     \* bound: watchers that die
  MaxRestarts,   \* bound: proxies started again
  MaxFaults      \* bound: calls of the registry, the files and spawn that fail

Ids == Sessions \cup {NoId}

ASSUME IdAssumption == NoId \notin Sessions /\ NoRequest \notin Requests
ASSUME RequestAssumption == Session \in [Requests -> Ids]
ASSUME BoundsAssumption == {MaxStarts, MaxDeaths, MaxRestarts, MaxFaults} \subseteq Nat

Name(path) == Last(path)
Names == {Name(Dir[s]) : s \in Sessions}

\* The table has one path per name: workspaces that share their last component
\* would take each other's place in it.
ASSUME DirAssumption ==
  /\ \A s \in Sessions : Dir[s] \in Seq(STRING) /\ Dir[s] # <<>>
  /\ \A s, t \in Sessions : Name(Dir[s]) = Name(Dir[t]) => Dir[s] = Dir[t]
  /\ Unknown \notin Names

\* A session works in its own workspace, and in none that lies inside it.
ASSUME ShowsAssumption ==
  \A r \in Requests :
    /\ Shows[r] \in Seq(STRING)
    /\ Session[r] \in Sessions /\ Shows[r] # <<>> =>
         /\ IsPrefix(Dir[Session[r]], Shows[r])
         /\ \A s \in Sessions : IsPrefix(Dir[s], Shows[r]) => IsPrefix(Dir[s], Dir[Session[r]])

VARIABLES
  registered,   \* the workspaces table: the path of a name, <<>> if none
  sessions,     \* the sessions table
  starts, hook, \* SessionStart: events so far, and where the hook stands
  cache,        \* session_cache
  links,        \* traffic/<workspace>/<session id>
  dirs,         \* sessions/<session id>
  watchers,     \* the table of watchers: "none", "running", "dead"
  lock,         \* who holds its mutex
  orphans,      \* watchers that run and are in no table
  phase,        \* of the proxy: "up", "stopping", "killed", "down"
  pc, found, workspace, just_resolved,   \* the handler of a request
  failed,       \* whose calls failed, for the properties: see Calls
  late,         \* sessions whose watcher was started after all were killed, for
                \* the properties
  deaths, restarts, crashes, faults

registry == <<registered, sessions>>
local == <<found, workspace, just_resolved>>
hooks == <<starts, hook>>
ends == <<deaths, restarts, crashes>>
bounds == <<ends, failed, faults>>
vars == <<registry, hooks, cache, links, dirs, watchers, lock, orphans, phase,
          pc, local, late, bounds>>

\* The registration of a workspace, of a session, the reading of a session's
\* workspace, and the making of a link.
Calls == {"workspace", "session", "link"} \X Ids \cup {"read"} \X Requests

Init ==
  /\ registered = [n \in Names |-> <<>>]
  /\ sessions = [s \in Ids |-> Unknown]
  /\ starts = [s \in Sessions |-> 0]
  /\ hook = [s \in Sessions |-> "off"]
  /\ cache = [s \in Ids |-> Unknown]
  /\ links = {} /\ dirs = {}
  /\ watchers = [s \in Sessions |-> "none"]
  /\ lock = NoRequest
  /\ orphans = [s \in Sessions |-> 0]
  /\ phase = "up"
  /\ pc = [r \in Requests |-> "new"]
  /\ found = [r \in Requests |-> Unknown]
  /\ workspace = [r \in Requests |-> Unknown]
  /\ just_resolved = [r \in Requests |-> FALSE]
  /\ failed = {} /\ late = {}
  /\ deaths = 0 /\ restarts = 0 /\ crashes = 0 /\ faults = 0

Fault == faults < MaxFaults /\ faults' = faults + 1
Works == UNCHANGED <<failed, faults>>
Fails(call) == Fault /\ failed' = failed \cup {call}

-----------------------------------------------------------------------------
(* workspace_registry and hook_session_start_orient *)

\* The registered workspace whose path is the longest prefix of the path.
Covering(path) ==
  {n \in Names : registered[n] # <<>> /\ IsPrefix(registered[n], path)}

\* Mutant: the shortest prefix is taken.
ResolveShortest(path) ==
  IF path = <<>> \/ Covering(path) = {} THEN Unknown
  ELSE CHOOSE n \in Covering(path) :
         \A m \in Covering(path) : Len(registered[n]) <= Len(registered[m])

resolve_workspace_from_path(path) ==
  IF path = <<>> \/ Covering(path) = {} THEN Unknown
  ELSE CHOOSE n \in Covering(path) :
         \A m \in Covering(path) : Len(registered[m]) <= Len(registered[n])

\* register_workspace is an upsert on the name, the last component of the path.
\* The hook goes on when it fails.
OrientWorkspace(s) ==
  /\ hook[s] = "off"
  /\ starts[s] < MaxStarts
  /\ starts' = [starts EXCEPT ![s] = @ + 1]
  /\ hook' = [hook EXCEPT ![s] = "session"]
  /\ \/ registered' = [registered EXCEPT ![Name(Dir[s])] = Dir[s]] /\ Works
     \/ Fails(<<"workspace", s>>) /\ UNCHANGED registered
  /\ UNCHANGED <<sessions, cache, links, dirs, watchers, lock, orphans, phase,
                 pc, local, late, ends>>

\* The sessions table refers to the workspaces table: a session of a workspace
\* that is not registered is refused.  No error is looked at.
OrientSession(s) ==
  /\ hook[s] = "session"
  /\ hook' = [hook EXCEPT ![s] = "off"]
  /\ \/ /\ registered[Name(Dir[s])] # <<>>
        /\ sessions' = [sessions EXCEPT ![s] = Name(Dir[s])]
        /\ Works
     \/ registered[Name(Dir[s])] = <<>> /\ UNCHANGED sessions /\ Works
     \/ Fails(<<"session", s>>) /\ UNCHANGED sessions
  /\ UNCHANGED <<registered, starts, cache, links, dirs, watchers, lock,
                 orphans, phase, pc, local, late, ends>>

-----------------------------------------------------------------------------
(* The handler of a request: intercept_messages_request *)

Goto(r, l) == pc' = [pc EXCEPT ![r] = l]

\* A task runs from Lookup to its end without giving up its thread.
AtWork(r) == pc[r] \in {"resolve", "intercept", "link", "watch", "spawn"}

\* The hooks of a SessionStart event are through before the first request.  A
\* connection that is open goes on when the proxy is told to stop, until its
\* runtime is dropped.  A registry that cannot be read is one that has no workspace.
Lookup(r) ==
  /\ pc[r] = "new"
  /\ phase # "down"
  /\ Session[r] \in Sessions => starts[Session[r]] > 0 /\ hook[Session[r]] = "off"
  /\ \/ found' = [found EXCEPT ![r] = resolve_workspace_from_path(Shows[r])] /\ UNCHANGED faults
     \/ found' = [found EXCEPT ![r] = Unknown] /\ Shows[r] # <<>> /\ Fault
  /\ Goto(r, "resolve")
  /\ UNCHANGED <<registry, hooks, cache, links, dirs, watchers, lock, orphans,
                 phase, workspace, just_resolved, late, failed, ends>>

Resolved(r, w, new) ==
  /\ workspace' = [workspace EXCEPT ![r] = w]
  /\ just_resolved' = [just_resolved EXCEPT ![r] = new]
  /\ Goto(r, IF Session[r] = NoId THEN "link" ELSE "intercept")
  /\ UNCHANGED <<registered, hooks, links, dirs, watchers, lock, orphans, phase,
                 found, late, ends>>

\* The path of the request has a workspace: the cache and the registry are
\* told.  An error of register_session is ignored.
ResolveFound(r) ==
  /\ pc[r] = "resolve"
  /\ found[r] # Unknown
  /\ cache' = [cache EXCEPT ![Session[r]] = found[r]]
  /\ \/ sessions' = [sessions EXCEPT ![Session[r]] = found[r]] /\ UNCHANGED faults
     \/ Fault /\ UNCHANGED sessions
  /\ Resolved(r, found[r], cache[Session[r]] = Unknown)
  /\ UNCHANGED failed

\* It has none: the cache knows the session.
ResolveCached(r) ==
  /\ pc[r] = "resolve"
  /\ found[r] = Unknown /\ cache[Session[r]] # Unknown
  /\ Resolved(r, cache[Session[r]], FALSE)
  /\ UNCHANGED <<cache, sessions>> /\ Works

\* Nor does the cache: the registry is read, and where it cannot be read or has
\* nothing, the request is handled in the workspace "unknown".
ResolveKnown(r) ==
  /\ pc[r] = "resolve"
  /\ found[r] = Unknown /\ cache[Session[r]] = Unknown
  /\ \/ /\ cache' = [cache EXCEPT ![Session[r]] = sessions[Session[r]]]
        /\ Resolved(r, sessions[Session[r]], sessions[Session[r]] # Unknown)
        /\ Works
     \/ Resolved(r, Unknown, FALSE) /\ UNCHANGED cache /\ Fails(<<"read", r>>)
  /\ UNCHANGED sessions

\* `intercept` makes the session's directory, then SessionFiles; its errors are
\* logged.
Intercept(r) ==
  /\ pc[r] = "intercept"
  /\ \/ dirs' = dirs \cup {Session[r]} /\ UNCHANGED faults
     \/ Session[r] \notin dirs /\ Fault /\ UNCHANGED dirs
  /\ Goto(r, "link")
  /\ UNCHANGED <<registry, hooks, cache, links, watchers, lock, orphans, phase,
                 local, late, failed, ends>>

\* Mutant: a workspace found in the registry is not linked.
LinkFromPathOnly(r) ==
  /\ pc[r] = "link"
  /\ \/ /\ links' = IF just_resolved[r] /\ found[r] # Unknown
                    THEN links \cup {<<workspace[r], Session[r]>>} ELSE links
        /\ Works
     \/ just_resolved[r] /\ Fails(<<"link", Session[r]>>) /\ UNCHANGED links
  /\ Goto(r, IF Session[r] = NoId \/ workspace[r] = Unknown THEN "forward"
             ELSE "watch")
  /\ UNCHANGED <<registry, hooks, cache, dirs, watchers, lock, orphans, phase,
                 local, late, ends>>

\* create_workspace_symlinks: a link that is there is made anew.
Link(r) ==
  /\ pc[r] = "link"
  /\ \/ /\ links' = IF just_resolved[r] THEN links \cup {<<workspace[r], Session[r]>>}
                    ELSE links
        /\ Works
     \/ /\ just_resolved[r]
        /\ links' \in {links, links \ {<<workspace[r], Session[r]>>}}
        /\ Fails(<<"link", Session[r]>>)
  /\ Goto(r, IF Session[r] = NoId \/ workspace[r] = Unknown THEN "forward"
             ELSE "watch")
  /\ UNCHANGED <<registry, hooks, cache, dirs, watchers, lock, orphans, phase,
                 local, late, ends>>

\* Mutant: the mutex is not held between the look at the table and the spawn.
TryWaitUnlocked(r) ==
  /\ pc[r] = "watch"
  /\ Goto(r, IF watchers[Session[r]] = "running" THEN "forward" ELSE "spawn")
  /\ UNCHANGED <<registry, hooks, cache, links, dirs, watchers, lock, orphans,
                 phase, local, late, bounds>>

\* spawn_watcher: one that runs is left alone, one that died is forgotten.
TryWait(r) ==
  /\ pc[r] = "watch"
  /\ lock = NoRequest
  /\ IF watchers[Session[r]] = "running"
     THEN Goto(r, "forward") /\ UNCHANGED <<lock, watchers>>
     ELSE /\ Goto(r, "spawn")
          /\ lock' = r
          /\ watchers' = [watchers EXCEPT ![Session[r]] = "none"]
  /\ UNCHANGED <<registry, hooks, cache, links, dirs, orphans, phase, local,
                 late, bounds>>

\* The process may not start: the session is then without a watcher until its
\* next request.  One that the table loses by the insertion goes on running.
Spawn(r) ==
  /\ pc[r] = "spawn"
  /\ LET s == Session[r]
     IN  \/ /\ orphans' = [orphans EXCEPT ![s] =
                              @ + IF watchers[s] = "running" THEN 1 ELSE 0]
            /\ watchers' = [watchers EXCEPT ![s] = "running"]
            /\ late' = IF phase = "killed" THEN late \cup {s} ELSE late
            /\ UNCHANGED faults
         \/ Fault /\ UNCHANGED <<watchers, orphans, late>>
  /\ lock' = IF lock = r THEN NoRequest ELSE lock
  /\ Goto(r, "forward")
  /\ UNCHANGED <<registry, hooks, cache, links, dirs, phase, local, failed, ends>>

-----------------------------------------------------------------------------
(* Watchers, and the end of the proxy: run_server *)

Die(s) ==
  /\ deaths < MaxDeaths
  /\ deaths' = deaths + 1
  /\ \/ /\ watchers[s] = "running"
        /\ watchers' = [watchers EXCEPT ![s] = "dead"]
        /\ UNCHANGED orphans
     \/ /\ orphans[s] > 0
        /\ orphans' = [orphans EXCEPT ![s] = @ - 1]
        /\ UNCHANGED watchers
  /\ UNCHANGED <<registry, hooks, cache, links, dirs, lock, phase, pc,
                 local, late, failed, restarts, crashes, faults>>

\* The signal handler has set SHUTDOWN and the accept loop ends.  Connections
\* that are open go on.
Stop ==
  /\ phase = "up"
  /\ phase' = "stopping"
  /\ UNCHANGED <<registry, hooks, cache, links, dirs, watchers, lock, orphans,
                 pc, local, late, bounds>>

\* The watchers of the table are killed and forgotten, under its mutex.
KillAll ==
  /\ phase = "stopping"
  /\ lock = NoRequest
  /\ watchers' = [s \in Sessions |-> "none"]
  /\ phase' = "killed"
  /\ UNCHANGED <<registry, hooks, cache, links, dirs, lock, orphans, pc,
                 local, late, bounds>>

\* The end of the process, with what is in its memory.  Nobody kills the
\* watchers that are in the table then.
Gone ==
  /\ phase' = "down"
  /\ orphans' = [s \in Sessions |->
                   orphans[s] + IF watchers[s] = "running" THEN 1 ELSE 0]
  /\ watchers' = [s \in Sessions |-> "none"]
  /\ cache' = [s \in Ids |-> Unknown]
  /\ lock' = NoRequest
  /\ pc' = [r \in Requests |-> IF AtWork(r) THEN "dead" ELSE pc[r]]
  /\ UNCHANGED <<registry, hooks, links, dirs, local, late, failed, deaths, restarts, faults>>

\* The runtime is dropped once no task is at work.
Return ==
  /\ phase = "killed"
  /\ \A r \in Requests : ~AtWork(r)
  /\ Gone
  /\ UNCHANGED crashes

Crash ==
  /\ phase # "down"
  /\ crashes < MaxRestarts
  /\ crashes' = crashes + 1
  /\ Gone

Restart ==
  /\ phase = "down"
  /\ restarts < MaxRestarts
  /\ restarts' = restarts + 1
  /\ phase' = "up"
  /\ UNCHANGED <<registry, hooks, cache, links, dirs, watchers, lock, orphans,
                 pc, local, late, failed, deaths, crashes, faults>>

-----------------------------------------------------------------------------

Handler(r) ==
  \/ ResolveFound(r) \/ ResolveCached(r) \/ ResolveKnown(r) \/ Intercept(r) \/ Link(r)
  \/ TryWait(r) \/ Spawn(r)

Next ==
  \/ \E r \in Requests : Lookup(r) \/ Handler(r)
  \/ \E s \in Sessions : OrientWorkspace(s) \/ OrientSession(s) \/ Die(s)
  \/ Stop \/ KillAll \/ Return \/ Crash \/ Restart

Spec == Init /\ [][Next]_vars

-----------------------------------------------------------------------------
(* Properties *)

RegistryTypes ==
  /\ registered \in [Names -> {<<>>} \cup {Dir[s] : s \in Sessions}]
  /\ sessions \in [Ids -> Names \cup {Unknown}]
  /\ starts \in [Sessions -> 0..MaxStarts]
  /\ hook \in [Sessions -> {"off", "session"}]
  /\ cache \in [Ids -> Names \cup {Unknown}]
  /\ links \subseteq Names \X Ids /\ dirs \subseteq Sessions

PoolTypes ==
  /\ watchers \in [Sessions -> {"none", "running", "dead"}]
  /\ lock \in Requests \cup {NoRequest}
  /\ orphans \in [Sessions -> Nat]
  /\ phase \in {"up", "stopping", "killed", "down"}
  /\ deaths \in 0..MaxDeaths /\ restarts \in 0..MaxRestarts
  /\ crashes \in 0..MaxRestarts /\ faults \in 0..MaxFaults
  /\ late \subseteq Sessions

HandlerTypes ==
  /\ pc \in [Requests -> {"new", "resolve", "intercept", "link", "watch",
                          "spawn", "forward", "dead"}]
  /\ {found, workspace} \subseteq [Requests -> Names \cup {Unknown}]
  /\ just_resolved \in [Requests -> BOOLEAN]
  /\ \A r \in Requests :
       /\ pc[r] \in {"intercept", "watch", "spawn"} => Session[r] \in Sessions
       /\ just_resolved[r] => workspace[r] \in Names
  /\ failed \subseteq Calls

TypeOK == RegistryTypes /\ PoolTypes /\ HandlerTypes

Running(s) == IF watchers[s] = "running" THEN 1 ELSE 0

\* However the requests of a session interleave and its watchers die, no proxy
\* starts a second watcher beside one of its own that runs, so that at most one
\* runs for each proxy there was.  A proxy that returns leaves none ("Cleanup:
\* kill watcher processes"), unless it was killed or a handler that was still at
\* work started the watcher after all were killed.
OneWatcher ==
  \A s \in Sessions :
    /\ orphans[s] + Running(s) <= 1 + restarts
    /\ crashes = 0 /\ s \notin late => orphans[s] = 0

\* The workspaces a session's directory lies in, its own among them.
Enclosing(s) == {Name(Dir[t]) : t \in {t \in Sessions : IsPrefix(Dir[t], Dir[s])}}

\* Where its own was never registered, an enclosing one may be taken for it.
Placed(s) == IF <<"workspace", s>> \in failed THEN Enclosing(s) ELSE {Name(Dir[s])}

\* Once no request of a session is being handled, a session whose workspace is
\* known is linked under it, whoever of its requests resolved it, unless a call
\* that makes the link failed.  A session whose workspace could not be registered
\* may stay linked under the one it was first taken for.
LinkedOnceKnown ==
  \A s \in Sessions :
    /\ cache[s] # Unknown /\ <<"link", s>> \notin failed
    /\ \A r \in Requests : Session[r] = s => ~AtWork(r)
    => \E w \in Placed(s) : <<w, s>> \in links

\* Every request of a session is handled in the workspace of its project
\* directory, also where one workspace lies inside another, when it shows no
\* path, when the lookup of its path failed, and by the next proxy.  It is handled
\* in no workspace only when the sessions table could not be read either, or the
\* session is not in it because the SessionStart hook could not register it.  The
\* tables and the cache never hold a workspace the directory does not lie in, and
\* another than its own only if its own could not be registered.
WorkspaceKept ==
  /\ \A s \in Sessions : {cache[s], sessions[s]} \subseteq Placed(s) \cup {Unknown}
  /\ \A r \in Requests :
       Session[r] \in Sessions /\ pc[r] \in {"intercept", "link", "watch", "spawn"} =>
         \/ workspace[r] \in Placed(Session[r])
         \/ /\ workspace[r] = Unknown
            /\ failed \cap {<<"read", r>>, <<"session", Session[r]>>, <<"workspace", Session[r]>>} # {}

=============================================================================
