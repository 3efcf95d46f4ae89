------------------------ MODULE ProxySessions_proofs ------------------------
(* Proofs about ProxySessions, for any sessions, directories and requests,  *)
(* any number of SessionStart events, deaths of watchers, failed calls,     *)
(* crashes and restarts.                                                    *)
EXTENDS ProxySessions, SequenceTheorems, WellFoundedInduction, TLAPS

-----------------------------------------------------------------------------
(* The inductive invariant *)

Own(s) == Name(Dir[s])

\* The SessionStart hook could register the session and its workspace.
Filed(s) == <<"workspace", s>> \notin failed /\ <<"session", s>> \notin failed

\* The hooks of a SessionStart event come before the first request of the
\* session, and nothing takes back what they register.
RegistryInv ==
  \A s \in Sessions :
    /\ registered[Own(s)] \in {<<>>, Dir[s]}
    /\ starts[s] > 0 /\ <<"workspace", s>> \notin failed => registered[Own(s)] = Dir[s]
    /\ starts[s] > 0 /\ hook[s] = "off" /\ Filed(s) => sessions[s] # Unknown
    /\ {cache[s], sessions[s]} \subseteq Placed(s) \cup {Unknown}

\* What the handler of a request of a session has resolved so far.
HandlerInv ==
  \A r \in Requests : Session[r] \in Sessions /\ pc[r] # "new" =>
    /\ Filed(Session[r]) => sessions[Session[r]] # Unknown
    /\ found[r] \in Placed(Session[r]) \cup {Unknown}
    /\ pc[r] \in {"intercept", "link", "watch", "spawn"} =>
         \/ workspace[r] \in Placed(Session[r])
         \/ workspace[r] = Unknown /\ (<<"read", r>> \in failed \/ ~Filed(Session[r]))

\* Who put a workspace into the cache links the session before it is done, or
\* fails to.
LinkInv ==
  \A s \in Sessions : cache[s] # Unknown /\ <<"link", s>> \notin failed =>
    \/ \E w \in Placed(s) : <<w, s>> \in links
    \/ \E r \in Requests : /\ Session[r] = s /\ just_resolved[r]
                           /\ pc[r] \in {"intercept", "link"}

\* Only the holder of the mutex starts a watcher, where the table has none; a
\* proxy leaves at most the watchers of its table, and when it returns, those
\* started after it had killed them.
WatcherInv ==
  /\ \A r \in Requests : pc[r] = "spawn" => lock = r /\ watchers[Session[r]] = "none"
  /\ \A s \in Sessions : orphans[s] <= IF phase = "down" THEN restarts + 1 ELSE restarts
  /\ crashes = 0 => \A s \in Sessions \ late : orphans[s] = 0
  /\ phase = "down" => /\ \A r \in Requests : ~AtWork(r)
                       /\ \A s \in Sessions : watchers[s] = "none"
  /\ phase = "killed" => \A s \in Sessions \ late : watchers[s] = "none"

-----------------------------------------------------------------------------
(* Resolution of a path *)

\* A prefix that is as long as the sequence is the sequence.
LEMMA WholePrefix ==
  ASSUME NEW S, NEW a \in Seq(S), NEW b \in Seq(S), IsPrefix(a, b), Len(a) >= Len(b)
  PROVE  a = b
<1>1. Len(a) = Len(b) BY DEF IsPrefix
<1>2. \A i \in 1..Len(a) : SubSeq(a, 1, Len(a))[i] = a[i] /\ SubSeq(b, 1, Len(a))[i] = b[i]
  BY <1>1
<1>3. \A i \in 1..Len(a) : a[i] = b[i] BY <1>2 DEF IsPrefix
<1> QED BY <1>1, <1>3, SeqEqual

\* The paths that cover a directory are no longer than it: one is longest.
LEMMA LongestExists ==
  ASSUME TypeOK, NEW path, Covering(path) # {}, Len(path) \in Nat
  PROVE  \E n \in Covering(path) :
           \A m \in Covering(path) : Len(registered[m]) <= Len(registered[n])
<1> DEFINE T == {k \in Nat : \E n \in Covering(path) : k = Len(path) - Len(registered[n])}
<1>1. ASSUME NEW n \in Covering(path)
      PROVE  /\ Len(registered[n]) \in Nat
             /\ Len(path) - Len(registered[n]) \in T
  <2>1. n \in Names /\ registered[n] # <<>> /\ Len(registered[n]) <= Len(path)
    BY <1>1 DEF Covering, IsPrefix
  <2>2. PICK s \in Sessions : registered[n] = Dir[s] BY <2>1 DEF TypeOK, RegistryTypes
  <2>3. Len(registered[n]) \in Nat BY <2>2, DirAssumption
  <2> QED BY <1>1, <2>1, <2>3
<1>2. PICK n \in Covering(path) : TRUE OBVIOUS
<1>3. T # {} BY <1>1, <1>2
<1>4. PICK x \in T : \A y \in T : ~(<<y, x>> \in OpToRel(<, Nat))
  BY <1>3, NatLessThanWellFounded, WFMin
<1>5. ASSUME NEW y \in T PROVE x <= y
  <2>1. x \in Nat /\ y \in Nat /\ ~(<<y, x>> \in OpToRel(<, Nat)) BY <1>4, <1>5
  <2> HIDE DEF T
  <2> QED BY <2>1 DEF OpToRel
<1>6. PICK n1 \in Covering(path) : x = Len(path) - Len(registered[n1]) OBVIOUS
<1>7. ASSUME NEW m \in Covering(path)
      PROVE  Len(registered[m]) <= Len(registered[n1])
  <2>1. x <= Len(path) - Len(registered[m]) BY <1>1, <1>5, <1>7
  <2>2. Len(registered[m]) \in Nat /\ Len(registered[n1]) \in Nat BY <1>1, <1>7
  <2> QED BY <1>6, <2>1, <2>2
<1> QED BY <1>7

\* A session's directory lies in its own workspace.
LEMMA OwnPlaced == \A s \in Sessions : Own(s) \in Placed(s) /\ Placed(s) \subseteq Enclosing(s)
<1> SUFFICES ASSUME NEW s \in Sessions
             PROVE  Own(s) \in Placed(s) /\ Placed(s) \subseteq Enclosing(s)
  OBVIOUS
<1>1. Dir[s] \in Seq(STRING) BY DirAssumption
<1>2. IsPrefix(Dir[s], Dir[s]) BY <1>1 DEF IsPrefix
<1>3. Own(s) \in Enclosing(s) BY <1>2 DEF Enclosing, Own
<1> QED BY <1>3 DEF Placed, Own

\* What failed before is not undone.
LEMMA PlacedGrows ==
  ASSUME failed \subseteq failed', NEW s \in Sessions PROVE Placed(s) \subseteq Placed(s)'
<1>1. Own(s) \in Enclosing(s) BY OwnPlaced
<1>2. Enclosing(s)' = Enclosing(s) BY DEF Enclosing
<1> QED BY <1>1, <1>2 DEF Placed, Own

\* Where workspaces lie inside each other, the longest of those registered that
\* cover the directory a session shows is its own, unless that could not be registered.
LEMMA ResolveOwn ==
  ASSUME TypeOK, RegistryInv,
         NEW r \in Requests, Session[r] \in Sessions, starts[Session[r]] > 0
  PROVE  resolve_workspace_from_path(Shows[r]) \in Placed(Session[r]) \cup {Unknown}
<1> DEFINE s == Session[r]
           path == Shows[r]
<1>1. CASE path = <<>> \/ Covering(path) = {} BY <1>1 DEF resolve_workspace_from_path
<1>3. CASE path # <<>> /\ Covering(path) # {} /\ <<"workspace", s>> \in failed
  <2> DEFINE Longest(n) == \A m \in Covering(path) : Len(registered[m]) <= Len(registered[n])
             w == CHOOSE n \in Covering(path) : Longest(n)
  <2>1. resolve_workspace_from_path(path) = w BY <1>3 DEF resolve_workspace_from_path
  <2>2. Len(path) \in Nat BY ShowsAssumption
  <2>3. \E n \in Covering(path) : Longest(n) BY <1>3, <2>2, LongestExists
  <2> HIDE DEF Longest
  <2>4. w \in Covering(path) BY <2>3
  <2> HIDE DEF w
  <2>5. PICK t \in Sessions : w = Own(t) BY <2>4 DEF Covering, Names, Own
  <2>6. registered[w] = Dir[t] BY <2>4, <2>5 DEF RegistryInv, Covering
  <2>7. IsPrefix(Dir[t], Dir[s]) BY <1>3, <2>4, <2>6, ShowsAssumption DEF Covering
  <2>8. w \in Enclosing(s) BY <2>5, <2>7 DEF Enclosing, Own
  <2> QED BY <1>3, <2>1, <2>8 DEF Placed
<1>2. CASE path # <<>> /\ <<"workspace", s>> \notin failed
  <2>0. Placed(s) = {Own(s)} BY <1>2 DEF Placed, Own
  <2>1. registered[Own(s)] = Dir[s] /\ Dir[s] # <<>> /\ Dir[s] \in Seq(STRING)
    BY <1>2, DirAssumption DEF RegistryInv
  <2>2. Own(s) \in Covering(path)
    BY <1>2, <2>1, ShowsAssumption DEF Covering, Names, Own
  <2>3. ASSUME NEW n \in Covering(path)
        PROVE  /\ Len(registered[n]) <= Len(Dir[s])
               /\ Len(registered[n]) >= Len(Dir[s]) => n = Own(s)
    <3>1. PICK t \in Sessions : n = Own(t) BY DEF Covering, Names, Own
    <3>2. registered[n] = Dir[t] BY <2>3, <3>1 DEF RegistryInv, Covering
    <3>3. IsPrefix(Dir[t], Dir[s]) BY <1>2, <2>3, <3>2, ShowsAssumption DEF Covering
    <3>4. Dir[t] \in Seq(STRING) BY DirAssumption
    <3>5. Len(Dir[t]) <= Len(Dir[s]) BY <3>3 DEF IsPrefix
    <3>6. ASSUME Len(Dir[t]) >= Len(Dir[s]) PROVE n = Own(s)
      BY <2>1, <3>1, <3>3, <3>4, <3>6, WholePrefix DEF Own
    <3> QED BY <3>2, <3>5, <3>6
  <2> DEFINE Longest(n) == \A m \in Covering(path) : Len(registered[m]) <= Len(registered[n])
  <2>4. Longest(Own(s)) BY <2>1, <2>3
  <2>5. resolve_workspace_from_path(path) = CHOOSE n \in Covering(path) : Longest(n)
    BY <1>2, <2>2 DEF resolve_workspace_from_path
  <2> HIDE DEF Longest
  <2>6. /\ (CHOOSE n \in Covering(path) : Longest(n)) \in Covering(path)
        /\ Longest(CHOOSE n \in Covering(path) : Longest(n))
    BY <2>2, <2>4
  <2>7. ASSUME NEW n \in Covering(path), Longest(n) PROVE n = Own(s)
    BY <2>1, <2>2, <2>3, <2>7 DEF Longest
  <2> QED BY <2>0, <2>5, <2>6, <2>7
<1> QED BY <1>1, <1>2, <1>3

-----------------------------------------------------------------------------
(* Types *)

LEMMA TypeInit == Init => TypeOK
BY BoundsAssumption, IdAssumption
   DEF Init, TypeOK, RegistryTypes, PoolTypes, HandlerTypes, Ids, Names

LEMMA ResolveType ==
  ASSUME TypeOK, NEW path, Len(path) \in Nat
  PROVE  resolve_workspace_from_path(path) \in Names \cup {Unknown}
<1>1. CASE path = <<>> \/ Covering(path) = {}
  BY <1>1 DEF resolve_workspace_from_path
<1>2. CASE path # <<>> /\ Covering(path) # {}
  <2> DEFINE Longest(n) == \A m \in Covering(path) : Len(registered[m]) <= Len(registered[n])
  <2>1. resolve_workspace_from_path(path) = CHOOSE n \in Covering(path) : Longest(n)
    BY <1>2 DEF resolve_workspace_from_path
  <2>2. \E n \in Covering(path) : Longest(n) BY <1>2, LongestExists
  <2> HIDE DEF Longest
  <2>3. (CHOOSE n \in Covering(path) : Longest(n)) \in Covering(path) BY <2>2
  <2> QED BY <2>1, <2>3 DEF Covering
<1> QED BY <1>1, <1>2

\* What fails is one of the calls.
LEMMA FailedStep == failed \subseteq Calls /\ [Next]_vars => failed' \subseteq Calls
<1> SUFFICES ASSUME failed \subseteq Calls, [Next]_vars PROVE failed' \subseteq Calls
  OBVIOUS
<1>1. \A s \in Ids : <<"workspace", s>> \in Calls /\ <<"session", s>> \in Calls /\ <<"link", s>> \in Calls
  BY DEF Calls
<1>2. \A r \in Requests : <<"read", r>> \in Calls /\ Session[r] \in Ids
  BY RequestAssumption DEF Calls
<1>3. Sessions \subseteq Ids BY DEF Ids
<1>4. ASSUME NEW s \in Sessions, OrientWorkspace(s) PROVE failed' \subseteq Calls
  <2>1. failed' = failed \/ failed' = failed \cup {<<"workspace", s>>}
    BY <1>4 DEF OrientWorkspace, Works, Fails
  <2>2. <<"workspace", s>> \in Calls BY <1>1, <1>3
  <2> QED BY <2>1, <2>2
<1>5. ASSUME NEW s \in Sessions, OrientSession(s) PROVE failed' \subseteq Calls
  <2>1. failed' = failed \/ failed' = failed \cup {<<"session", s>>}
    BY <1>5 DEF OrientSession, Works, Fails
  <2>2. <<"session", s>> \in Calls BY <1>1, <1>3
  <2> QED BY <2>1, <2>2
<1>6. ASSUME NEW r \in Requests, ResolveKnown(r) PROVE failed' \subseteq Calls
  <2>1. failed' = failed \/ failed' = failed \cup {<<"read", r>>}
    BY <1>6 DEF ResolveKnown, Works, Fails
  <2> QED BY <1>2, <2>1
<1>7. ASSUME NEW r \in Requests, Link(r) PROVE failed' \subseteq Calls
  <2>1. failed' = failed \/ failed' = failed \cup {<<"link", Session[r]>>}
    BY <1>7 DEF Link, Works, Fails
  <2>2. <<"link", Session[r]>> \in Calls BY <1>1, <1>2
  <2> QED BY <2>1, <2>2
<1>8. CASE UNCHANGED failed BY <1>8
<1> QED
  BY <1>4, <1>5, <1>6, <1>7, <1>8
     DEF Next, Handler, Lookup, ResolveFound, ResolveCached, Intercept, TryWait, Spawn, Works,
         Die, Stop, KillAll, Return, Crash, Restart, Gone, bounds, vars

LEMMA TypeStep == TypeOK /\ [Next]_vars => TypeOK'
<1> SUFFICES ASSUME TypeOK, [Next]_vars PROVE TypeOK'
  OBVIOUS
<1> USE DEF registry, local, hooks, ends, bounds, Goto, Fault, Works, Fails
<1>a. /\ \A s \in Sessions : Name(Dir[s]) \in Names /\ s \in Ids
      /\ \A r \in Requests : Session[r] \in Ids
      /\ {MaxStarts, MaxDeaths, MaxRestarts, MaxFaults} \subseteq Nat
      /\ NoRequest \notin Requests /\ Ids = Sessions \cup {NoId}
  BY BoundsAssumption, IdAssumption, RequestAssumption DEF Names, Ids
<1>f. failed' \subseteq Calls BY FailedStep DEF TypeOK, HandlerTypes
<1>1. ASSUME NEW s \in Sessions, OrientWorkspace(s) PROVE TypeOK'
  <2>1. RegistryTypes'
    <3>1. /\ starts' = [starts EXCEPT ![s] = @ + 1] /\ starts[s] < MaxStarts
          /\ hook' = [hook EXCEPT ![s] = "session"]
          /\ registered' \in {registered, [registered EXCEPT ![Name(Dir[s])] = Dir[s]]}
          /\ UNCHANGED <<sessions, cache, links, dirs>>
      BY <1>1 DEF OrientWorkspace
    <3>2. starts' \in [Sessions -> 0..MaxStarts] BY <1>a, <3>1 DEF TypeOK, RegistryTypes
    <3>3. registered' \in [Names -> {<<>>} \cup {Dir[t] : t \in Sessions}]
      BY <1>a, <3>1 DEF TypeOK, RegistryTypes
    <3> QED BY <3>1, <3>2, <3>3 DEF TypeOK, RegistryTypes
  <2>2. PoolTypes' BY <1>1, <1>a DEF OrientWorkspace, TypeOK, PoolTypes
  <2>3. HandlerTypes' BY <1>f, <1>1, <1>a DEF OrientWorkspace, TypeOK, HandlerTypes
  <2> QED BY <2>1, <2>2, <2>3 DEF TypeOK
<1>2. ASSUME NEW s \in Sessions, OrientSession(s) PROVE TypeOK'
  <2>1. RegistryTypes'
    <3>1. /\ hook' = [hook EXCEPT ![s] = "off"]
          /\ sessions' \in {sessions, [sessions EXCEPT ![s] = Name(Dir[s])]}
          /\ UNCHANGED <<registered, starts, cache, links, dirs>>
      BY <1>2 DEF OrientSession
    <3> QED BY <1>a, <3>1 DEF TypeOK, RegistryTypes
  <2>2. PoolTypes' BY <1>2, <1>a DEF OrientSession, TypeOK, PoolTypes
  <2>3. HandlerTypes' BY <1>f, <1>2, <1>a DEF OrientSession, TypeOK, HandlerTypes
  <2> QED BY <2>1, <2>2, <2>3 DEF TypeOK
<1>3. ASSUME NEW s \in Sessions, Die(s) PROVE TypeOK'
  <2>1. RegistryTypes' BY <1>3, <1>a DEF Die, TypeOK, RegistryTypes
  <2>2. PoolTypes' BY <1>3, <1>a DEF Die, TypeOK, PoolTypes
  <2>3. HandlerTypes' BY <1>f, <1>3, <1>a DEF Die, TypeOK, HandlerTypes
  <2> QED BY <2>1, <2>2, <2>3 DEF TypeOK
<1>4. ASSUME NEW r \in Requests, Lookup(r) PROVE TypeOK'
  <2>0. resolve_workspace_from_path(Shows[r]) \in Names \cup {Unknown}
    BY ShowsAssumption, ResolveType
  <2>1. RegistryTypes' BY <1>4, <1>a, <2>0 DEF Lookup, TypeOK, RegistryTypes
  <2>2. PoolTypes' BY <1>4, <1>a, <2>0 DEF Lookup, TypeOK, PoolTypes
  <2>3. HandlerTypes' BY <1>f, <1>4, <1>a, <2>0 DEF Lookup, TypeOK, HandlerTypes
  <2> QED BY <2>1, <2>2, <2>3 DEF TypeOK
<1>5. ASSUME NEW r \in Requests, ResolveFound(r) PROVE TypeOK'
  <2>1. RegistryTypes' BY <1>5, <1>a DEF ResolveFound, Resolved, TypeOK, RegistryTypes, HandlerTypes
  <2>2. PoolTypes' BY <1>5, <1>a DEF ResolveFound, Resolved, TypeOK, PoolTypes
  <2>3. HandlerTypes' BY <1>f, <1>5, <1>a DEF ResolveFound, Resolved, TypeOK, HandlerTypes
  <2> QED BY <2>1, <2>2, <2>3 DEF TypeOK
<1>6. ASSUME NEW r \in Requests, ResolveKnown(r) PROVE TypeOK'
  <2>0. sessions[Session[r]] \in Names \cup {Unknown}
    BY <1>a DEF TypeOK, RegistryTypes
  <2>1. RegistryTypes' BY <1>6, <1>a, <2>0 DEF ResolveKnown, Resolved, TypeOK, RegistryTypes, HandlerTypes
  <2>2. PoolTypes' BY <1>6, <1>a DEF ResolveKnown, Resolved, TypeOK, PoolTypes
  <2>3. HandlerTypes'
    <3>2. \E w \in Names \cup {Unknown}, new \in BOOLEAN : (new => w # Unknown) /\ Resolved(r, w, new)
      BY <1>6, <2>0 DEF ResolveKnown
    <3>3. PICK w \in Names \cup {Unknown}, new \in BOOLEAN : (new => w # Unknown) /\ Resolved(r, w, new)
      BY <3>2
    <3> QED BY <1>6, <1>a, <1>f, <3>3 DEF ResolveKnown, Resolved, TypeOK, HandlerTypes
  <2> QED BY <2>1, <2>2, <2>3 DEF TypeOK
<1>16. ASSUME NEW r \in Requests, ResolveCached(r) PROVE TypeOK'
  <2>0. cache[Session[r]] \in Names \cup {Unknown} BY <1>a DEF TypeOK, RegistryTypes
  <2>1. RegistryTypes' BY <1>16, <1>a DEF ResolveCached, Resolved, TypeOK, RegistryTypes, HandlerTypes
  <2>2. PoolTypes' BY <1>16, <1>a DEF ResolveCached, Resolved, TypeOK, PoolTypes
  <2>3. HandlerTypes' BY <1>f, <1>16, <1>a, <2>0 DEF ResolveCached, Resolved, TypeOK, HandlerTypes
  <2> QED BY <2>1, <2>2, <2>3 DEF TypeOK
<1>7. ASSUME NEW r \in Requests, Intercept(r) PROVE TypeOK'
  <2>1. RegistryTypes' BY <1>7, <1>a DEF Intercept, TypeOK, RegistryTypes, HandlerTypes
  <2>2. PoolTypes' BY <1>7, <1>a DEF Intercept, TypeOK, PoolTypes
  <2>3. HandlerTypes' BY <1>f, <1>7, <1>a DEF Intercept, TypeOK, HandlerTypes
  <2> QED BY <2>1, <2>2, <2>3 DEF TypeOK
<1>8. ASSUME NEW r \in Requests, Link(r) PROVE TypeOK'
  <2>1. RegistryTypes' BY <1>8, <1>a DEF Link, TypeOK, RegistryTypes, HandlerTypes
  <2>2. PoolTypes' BY <1>8, <1>a DEF Link, TypeOK, PoolTypes
  <2>3. HandlerTypes' BY <1>f, <1>8, <1>a DEF Link, TypeOK, HandlerTypes
  <2> QED BY <2>1, <2>2, <2>3 DEF TypeOK
<1>9. ASSUME NEW r \in Requests, TryWait(r) PROVE TypeOK'
  <2>1. RegistryTypes' BY <1>9, <1>a DEF TryWait, TypeOK, RegistryTypes
  <2>2. PoolTypes' BY <1>9, <1>a DEF TryWait, TypeOK, PoolTypes
  <2>3. HandlerTypes' BY <1>f, <1>9, <1>a DEF TryWait, TypeOK, HandlerTypes
  <2> QED BY <2>1, <2>2, <2>3 DEF TypeOK
<1>10. ASSUME NEW r \in Requests, Spawn(r) PROVE TypeOK'
  <2>1. RegistryTypes' BY <1>10, <1>a DEF Spawn, TypeOK, RegistryTypes
  <2>0. Session[r] \in Sessions BY <1>10 DEF Spawn, TypeOK, HandlerTypes
  <2>2. PoolTypes' BY <1>10, <1>a, <2>0 DEF Spawn, TypeOK, PoolTypes
  <2>3. HandlerTypes' BY <1>f, <1>10, <1>a DEF Spawn, TypeOK, HandlerTypes
  <2> QED BY <2>1, <2>2, <2>3 DEF TypeOK
<1>11. CASE Stop
  <2>1. RegistryTypes' BY <1>11, <1>a DEF Stop, TypeOK, RegistryTypes
  <2>2. PoolTypes' BY <1>11, <1>a DEF Stop, TypeOK, PoolTypes
  <2>3. HandlerTypes' BY <1>f, <1>11, <1>a DEF Stop, TypeOK, HandlerTypes
  <2> QED BY <2>1, <2>2, <2>3 DEF TypeOK
<1>12. CASE KillAll
  <2>1. RegistryTypes' BY <1>12, <1>a DEF KillAll, TypeOK, RegistryTypes
  <2>2. PoolTypes' BY <1>12, <1>a DEF KillAll, TypeOK, PoolTypes
  <2>3. HandlerTypes' BY <1>f, <1>12, <1>a DEF KillAll, TypeOK, HandlerTypes
  <2> QED BY <2>1, <2>2, <2>3 DEF TypeOK
<1>13. CASE Gone /\ (crashes' = crashes \/ (crashes < MaxRestarts /\ crashes' = crashes + 1))
  <2>1. RegistryTypes' BY <1>13, <1>a DEF Gone, TypeOK, RegistryTypes
  <2>2. PoolTypes' BY <1>13, <1>a DEF Gone, TypeOK, PoolTypes
  <2>3. HandlerTypes' BY <1>f, <1>13, <1>a DEF Gone, TypeOK, HandlerTypes
  <2> QED BY <2>1, <2>2, <2>3 DEF TypeOK
<1>14. CASE Restart
  <2>1. RegistryTypes' BY <1>14, <1>a DEF Restart, TypeOK, RegistryTypes
  <2>2. PoolTypes' BY <1>14, <1>a DEF Restart, TypeOK, PoolTypes
  <2>3. HandlerTypes' BY <1>f, <1>14, <1>a DEF Restart, TypeOK, HandlerTypes
  <2> QED BY <2>1, <2>2, <2>3 DEF TypeOK
<1>15. CASE UNCHANGED vars
  <2>1. RegistryTypes' BY <1>15, <1>a DEF vars, TypeOK, RegistryTypes
  <2>2. PoolTypes' BY <1>15, <1>a DEF vars, TypeOK, PoolTypes
  <2>3. HandlerTypes' BY <1>f, <1>15, <1>a DEF vars, TypeOK, HandlerTypes
  <2> QED BY <2>1, <2>2, <2>3 DEF TypeOK
<1> QED
  BY <1>1, <1>2, <1>3, <1>4, <1>5, <1>6, <1>7, <1>8, <1>9, <1>10, <1>11, <1>12,
     <1>13, <1>14, <1>15, <1>16 DEF Next, Handler, Return, Crash

-----------------------------------------------------------------------------
(* The registry and the handlers *)

\* No directory is registered under the name of another.
LEMMA OwnNames ==
  /\ \A s \in Sessions : Own(s) \in Names /\ Own(s) # Unknown /\ s \in Ids
  /\ \A s, t \in Sessions : Own(s) = Own(t) => Dir[s] = Dir[t]
BY DirAssumption DEF Own, Names, Ids

\* What failed stays on record.
LEMMA FailedGrows == [Next]_vars => failed \subseteq failed'
<1> SUFFICES ASSUME [Next]_vars PROVE failed \subseteq failed' OBVIOUS
<1> USE DEF bounds, ends, Works, Fails, Fault
<1>1. ASSUME NEW r \in Requests, Lookup(r) PROVE failed \subseteq failed' BY <1>1 DEF Lookup
<1>2. ASSUME NEW r \in Requests, Handler(r) PROVE failed \subseteq failed'
  BY <1>2 DEF Handler, ResolveFound, ResolveCached, ResolveKnown, Intercept, Link, TryWait, Spawn
<1>3. ASSUME NEW s \in Sessions, OrientWorkspace(s) \/ OrientSession(s) \/ Die(s)
      PROVE  failed \subseteq failed'
  BY <1>3 DEF OrientWorkspace, OrientSession, Die
<1>4. Stop \/ KillAll \/ Return \/ Crash \/ Restart \/ UNCHANGED vars => failed \subseteq failed'
  BY DEF Stop, KillAll, Return, Crash, Gone, Restart, vars
<1> QED BY <1>1, <1>2, <1>3, <1>4 DEF Next

LEMMA RegistryStep ==
  TypeOK /\ RegistryInv /\ HandlerInv /\ [Next]_vars => RegistryInv'
<1> SUFFICES ASSUME TypeOK, RegistryInv, HandlerInv, [Next]_vars, NEW s \in Sessions
             PROVE  /\ registered'[Own(s)] \in {<<>>, Dir[s]}
                    /\ starts'[s] > 0 /\ <<"workspace", s>> \notin failed'
                         => registered'[Own(s)] = Dir[s]
                    /\ starts'[s] > 0 /\ hook'[s] = "off" /\ Filed(s)' => sessions'[s] # Unknown
                    /\ {cache'[s], sessions'[s]} \subseteq Placed(s)' \cup {Unknown}
  BY DEF RegistryInv, Own
<1> DEFINE Goal == /\ registered'[Own(s)] \in {<<>>, Dir[s]}
                   /\ starts'[s] > 0 /\ <<"workspace", s>> \notin failed'
                        => registered'[Own(s)] = Dir[s]
                   /\ starts'[s] > 0 /\ hook'[s] = "off" /\ Filed(s)' => sessions'[s] # Unknown
                   /\ {cache'[s], sessions'[s]} \subseteq Placed(s)' \cup {Unknown}
<1> USE OwnNames DEF registry, hooks, Fault, Works, Fails
<1>a. /\ registered \in [Names -> {<<>>} \cup {Dir[t] : t \in Sessions}]
      /\ sessions \in [Ids -> Names \cup {Unknown}] /\ cache \in [Ids -> Names \cup {Unknown}]
      /\ starts \in [Sessions -> Nat] /\ hook \in [Sessions -> {"off", "session"}]
  BY BoundsAssumption DEF TypeOK, RegistryTypes
<1>b. /\ registered[Own(s)] \in {<<>>, Dir[s]}
      /\ starts[s] > 0 /\ <<"workspace", s>> \notin failed => registered[Own(s)] = Dir[s]
      /\ starts[s] > 0 /\ hook[s] = "off" /\ Filed(s) => sessions[s] # Unknown
      /\ {cache[s], sessions[s]} \subseteq Placed(s) \cup {Unknown}
  BY DEF RegistryInv
<1>c. /\ failed \subseteq failed' /\ Placed(s) \subseteq Placed(s)' /\ Own(s) \in Placed(s)
      /\ Filed(s)' => Filed(s)
  BY FailedGrows, PlacedGrows, OwnPlaced DEF Filed
<1>1. ASSUME NEW t \in Sessions, OrientWorkspace(t) PROVE Goal
  <2>1. /\ starts' = [starts EXCEPT ![t] = @ + 1] /\ hook' = [hook EXCEPT ![t] = "session"]
        /\ UNCHANGED <<sessions, cache>>
        /\ \/ registered' = [registered EXCEPT ![Own(t)] = Dir[t]] /\ failed' = failed
           \/ registered' = registered /\ <<"workspace", t>> \in failed'
    BY <1>1 DEF OrientWorkspace, Own
  <2>2. \/ registered'[Own(s)] = registered[Own(s)] /\ (s # t \/ <<"workspace", s>> \in failed')
        \/ registered'[Own(s)] = Dir[s]
    BY <1>a, <2>1
  <2>3. s # t => starts'[s] = starts[s] /\ hook'[s] = hook[s] BY <1>a, <2>1
  <2>4. s = t => hook'[s] # "off" BY <1>a, <2>1
  <2> QED BY <1>b, <1>c, <2>1, <2>2, <2>3, <2>4
<1>2. ASSUME NEW t \in Sessions, OrientSession(t) PROVE Goal
  <2>1. /\ hook[t] = "session" /\ hook' = [hook EXCEPT ![t] = "off"]
        /\ UNCHANGED <<registered, starts, cache>>
        /\ \/ sessions' = [sessions EXCEPT ![t] = Own(t)] /\ failed' = failed
           \/ registered[Own(t)] = <<>> /\ sessions' = sessions /\ failed' = failed
           \/ <<"session", t>> \in failed' /\ sessions' = sessions
    BY <1>2 DEF OrientSession, Own
  <2>2. CASE s # t
    <3>1. sessions'[s] = sessions[s] /\ hook'[s] = hook[s] BY <1>a, <2>1, <2>2
    <3> QED BY <1>b, <1>c, <2>1, <3>1
  <2>3. CASE s = t
    <3>1. CASE sessions' = [sessions EXCEPT ![t] = Own(t)]
      <4>1. sessions'[s] = Own(s) BY <1>a, <2>3, <3>1
      <4> QED BY <1>b, <1>c, <2>1, <4>1
    <3>2. CASE registered[Own(t)] = <<>> /\ sessions' = sessions /\ failed' = failed
      <4>1. starts[s] > 0 => ~Filed(s)
        BY <1>b, <2>3, <3>2, DirAssumption DEF Filed
      <4> QED BY <1>b, <1>c, <2>1, <3>2, <4>1
    <3>3. CASE <<"session", t>> \in failed' /\ sessions' = sessions
      <4>1. ~Filed(s)' BY <2>3, <3>3 DEF Filed
      <4> QED BY <1>b, <1>c, <2>1, <3>3, <4>1
    <3> QED BY <2>1, <3>1, <3>2, <3>3
  <2> QED BY <2>2, <2>3
<1>3. ASSUME NEW r \in Requests, NEW w,
             Session[r] = s => w \in Placed(s) \cup {Unknown},
             cache' \in {cache, [cache EXCEPT ![Session[r]] = w]},
             sessions' \in {sessions, [sessions EXCEPT ![Session[r]] = w]},
             sessions' # sessions /\ Session[r] = s => w # Unknown,
             UNCHANGED <<registered, starts, hook>>
      PROVE  Goal
  <2>1. Session[r] \in Ids BY RequestAssumption
  <2>2. /\ cache'[s] \in {cache[s]} \cup (IF Session[r] = s THEN {w} ELSE {})
        /\ sessions'[s] \in {sessions[s]} \cup (IF Session[r] = s THEN {w} ELSE {})
    BY <1>3, <1>a, <2>1
  <2>3. sessions'[s] # sessions[s] => sessions' # sessions /\ Session[r] = s
    BY <1>3, <1>a, <2>1
  <2>4. sessions'[s] = Unknown => sessions[s] = Unknown BY <1>3, <2>2, <2>3
  <2> QED BY <1>3, <1>b, <1>c, <2>2, <2>4
<1>4. ASSUME NEW r \in Requests, ResolveFound(r) PROVE Goal
  <2>1. Session[r] = s => found[r] \in Placed(s) \cup {Unknown}
    BY <1>4 DEF ResolveFound, HandlerInv
  <2>2. /\ cache' = [cache EXCEPT ![Session[r]] = found[r]] /\ found[r] # Unknown
        /\ sessions' \in {sessions, [sessions EXCEPT ![Session[r]] = found[r]]}
        /\ UNCHANGED <<registered, starts, hook>>
    BY <1>4 DEF ResolveFound, Resolved
  <2> HIDE DEF Goal
  <2> QED BY <1>3, <2>1, <2>2
<1>5. ASSUME NEW r \in Requests, ResolveKnown(r) PROVE Goal
  <2>1. Session[r] = s => sessions[Session[r]] \in Placed(s) \cup {Unknown} BY <1>b
  <2>2. /\ cache' \in {cache, [cache EXCEPT ![Session[r]] = sessions[Session[r]]]}
        /\ sessions' = sessions /\ UNCHANGED <<registered, starts, hook>>
    BY <1>5 DEF ResolveKnown, Resolved
  <2> HIDE DEF Goal
  <2> QED BY <1>3, <2>1, <2>2
<1>6. CASE Gone
  <2>1. cache'[s] = Unknown /\ UNCHANGED <<registered, sessions, starts, hook>> BY <1>6 DEF Gone
  <2> QED BY <1>b, <1>c, <2>1
<1>7. CASE UNCHANGED <<registered, sessions, starts, hook, cache>> BY <1>7, <1>b, <1>c
<1>8. ASSUME NEW r \in Requests,
             ResolveCached(r) \/ Lookup(r) \/ Intercept(r) \/ Link(r) \/ TryWait(r) \/ Spawn(r)
      PROVE  UNCHANGED <<registered, sessions, starts, hook, cache>>
  BY <1>8 DEF ResolveCached, Resolved, Lookup, Intercept, Link, TryWait, Spawn
<1>9. ASSUME NEW t \in Sessions, Die(t)
      PROVE  UNCHANGED <<registered, sessions, starts, hook, cache>>
  BY <1>9 DEF Die
<1>10. Stop \/ KillAll \/ Restart \/ UNCHANGED vars
        => UNCHANGED <<registered, sessions, starts, hook, cache>>
  BY DEF Stop, KillAll, Restart, vars
<1>11. ASSUME NEW r \in Requests, Lookup(r) \/ Handler(r) PROVE Goal
  BY <1>4, <1>5, <1>7, <1>8, <1>11 DEF Handler
<1>12. ASSUME NEW t \in Sessions, OrientWorkspace(t) \/ OrientSession(t) \/ Die(t) PROVE Goal
  BY <1>1, <1>2, <1>7, <1>9, <1>12
<1>13. Stop \/ KillAll \/ Return \/ Crash \/ Restart \/ UNCHANGED vars => Goal
  BY <1>6, <1>7, <1>10 DEF Return, Crash
<1> QED BY <1>11, <1>12, <1>13 DEF Next

LEMMA HandlerStep ==
  TypeOK /\ RegistryInv /\ HandlerInv /\ [Next]_vars => HandlerInv'
<1> DEFINE Told(r) ==
      /\ Filed(Session[r]) => sessions[Session[r]] # Unknown
      /\ found[r] \in Placed(Session[r]) \cup {Unknown}
      /\ pc[r] \in {"intercept", "link", "watch", "spawn"} =>
           \/ workspace[r] \in Placed(Session[r])
           \/ workspace[r] = Unknown /\ (<<"read", r>> \in failed \/ ~Filed(Session[r]))
<1> SUFFICES ASSUME TypeOK, RegistryInv, HandlerInv, [Next]_vars,
                    NEW q \in Requests, Session[q] \in Sessions, pc'[q] # "new"
             PROVE  Told(q)'
  BY DEF HandlerInv
<1> DEFINE s == Session[q]
<1> USE OwnNames DEF registry, hooks, local, Goto, Fault, Works, Fails
<1>a. /\ sessions \in [Ids -> Names \cup {Unknown}] /\ cache \in [Ids -> Names \cup {Unknown}]
      /\ found \in [Requests -> Names \cup {Unknown}] /\ workspace \in [Requests -> Names \cup {Unknown}]
      /\ pc \in [Requests -> {"new", "resolve", "intercept", "link", "watch",
                              "spawn", "forward", "dead"}]
      /\ \A r \in Requests : Session[r] \in Ids
      /\ s \in Sessions
  BY RequestAssumption DEF TypeOK, RegistryTypes, HandlerTypes
<1>b. pc[q] # "new" => Told(q) BY DEF HandlerInv
<1>c. /\ failed \subseteq failed' /\ Placed(s) \subseteq Placed(s)' /\ Own(s) \in Placed(s)
      /\ Filed(s)' => Filed(s)
  BY <1>a, FailedGrows, PlacedGrows, OwnPlaced DEF Filed
<1> HIDE DEF s
\* The request stands where it stood, and the sessions table still has it.
<1>1. ASSUME pc'[q] = pc[q] \/ pc[q] \in {"intercept", "link", "watch", "spawn"}
             \/ pc'[q] \notin {"intercept", "link", "watch", "spawn"},
             pc[q] # "new", found'[q] = found[q], workspace'[q] = workspace[q],
             sessions'[s] = Unknown => sessions[s] = Unknown \/ ~Filed(s)'
      PROVE  Told(q)'
  <2>1. Told(q) BY <1>1, <1>b
  <2> QED BY <1>1, <1>c, <2>1 DEF s
<1>2. ASSUME NEW r \in Requests, Lookup(r) PROVE Told(q)'
  <2>1. CASE r = q
    <3>1. starts[s] > 0 /\ hook[s] = "off" BY <1>2, <1>a, <2>1 DEF Lookup, s
    <3>2. resolve_workspace_from_path(Shows[q]) \in Placed(s) \cup {Unknown}
      BY <1>a, <3>1, ResolveOwn DEF s
    <3>3. found'[q] \in Placed(s) \cup {Unknown} BY <1>2, <1>a, <2>1, <3>2 DEF Lookup
    <3>4. Filed(s) => sessions[s] # Unknown BY <1>a, <3>1 DEF RegistryInv
    <3>5. sessions' = sessions /\ pc'[q] = "resolve" BY <1>2, <1>a, <2>1 DEF Lookup
    <3> QED BY <1>c, <3>3, <3>4, <3>5 DEF s
  <2>2. CASE r # q
    <3>1. pc'[q] = pc[q] /\ found'[q] = found[q] /\ workspace'[q] = workspace[q] /\ sessions' = sessions
      BY <1>2, <1>a, <2>2 DEF Lookup
    <3> QED BY <1>1, <3>1
  <2> QED BY <2>1, <2>2
<1>3. ASSUME NEW r \in Requests, NEW w, NEW new, pc[r] = "resolve", Resolved(r, w, new),
             r = q => \/ w \in Placed(s)
                      \/ w = Unknown /\ (<<"read", q>> \in failed' \/ ~Filed(s)'),
             Session[r] = s => sessions'[s] = sessions[s] \/ sessions'[s] # Unknown,
             Session[r] # s => sessions'[s] = sessions[s]
      PROVE  Told(q)'
  <2>1. sessions'[s] = Unknown => sessions[s] = Unknown BY <1>3
  <2>2. CASE r = q
    <3>1. Told(q) /\ found' = found /\ workspace'[q] = w BY <1>3, <1>a, <1>b, <2>2 DEF Resolved
    <3> QED BY <1>3, <1>c, <2>1, <2>2, <3>1 DEF s
  <2>3. CASE r # q
    <3>1. pc'[q] = pc[q] /\ found'[q] = found[q] /\ workspace'[q] = workspace[q]
      BY <1>3, <1>a, <2>3 DEF Resolved
    <3> QED BY <1>1, <2>1, <3>1
  <2> QED BY <2>2, <2>3
<1> HIDE DEF Told
<1>4. ASSUME NEW r \in Requests, ResolveFound(r) PROVE Told(q)'
  <2>1. r = q => found[r] \in Placed(s) BY <1>4, <1>b DEF ResolveFound, Told, s
  <2>2. sessions' \in {sessions, [sessions EXCEPT ![Session[r]] = found[r]]} /\ found[r] # Unknown
        /\ pc[r] = "resolve" /\ Resolved(r, found[r], cache[Session[r]] = Unknown)
    BY <1>4 DEF ResolveFound
  <2>3. /\ Session[r] = s => sessions'[s] = sessions[s] \/ sessions'[s] # Unknown
        /\ Session[r] # s => sessions'[s] = sessions[s]
    BY <1>a, <2>2
  <2> QED BY <1>3, <2>1, <2>2, <2>3
<1>5. ASSUME NEW r \in Requests, ResolveCached(r) PROVE Told(q)'
  <2>1. r = q => cache[Session[r]] \in Placed(s)
    BY <1>5, <1>a DEF ResolveCached, RegistryInv, s
  <2>2. sessions' = sessions /\ pc[r] = "resolve" /\ Resolved(r, cache[Session[r]], FALSE)
    BY <1>5 DEF ResolveCached
  <2> QED BY <1>3, <2>1, <2>2
<1>6. ASSUME NEW r \in Requests, ResolveKnown(r) PROVE Told(q)'
  <2>1. sessions' = sessions /\ pc[r] = "resolve" BY <1>6 DEF ResolveKnown
  <2>2. CASE Resolved(r, sessions[Session[r]], sessions[Session[r]] # Unknown) /\ Works
    <3>1. r = q => \/ sessions[Session[r]] \in Placed(s)
                   \/ sessions[Session[r]] = Unknown /\ ~Filed(s)
      BY <1>a, <1>b, <2>1 DEF RegistryInv, Told, s
    <3>2. Filed(s)' = Filed(s) BY <2>2 DEF Filed
    <3> QED BY <1>3, <2>1, <2>2, <3>1, <3>2
  <2>3. CASE Resolved(r, Unknown, FALSE) /\ Fails(<<"read", r>>)
    <3>1. <<"read", r>> \in failed' BY <2>3
    <3> QED BY <1>3, <2>1, <2>3, <3>1
  <2> QED BY <1>6, <2>2, <2>3 DEF ResolveKnown
<1>7. ASSUME NEW r \in Requests, Intercept(r) \/ Link(r) \/ TryWait(r) \/ Spawn(r)
      PROVE  Told(q)'
  <2>1. /\ UNCHANGED <<sessions, found, workspace>>
        /\ \E l \in {"link", "forward", "watch", "spawn"} : pc' = [pc EXCEPT ![r] = l]
        /\ pc[r] \in {"intercept", "link", "watch", "spawn"}
    BY <1>7 DEF Intercept, Link, TryWait, Spawn
  <2>2. /\ pc'[q] = pc[q] \/ pc[q] \in {"intercept", "link", "watch", "spawn"}
        /\ pc[q] # "new"
    BY <1>a, <2>1
  <2> QED BY <1>1, <2>1, <2>2
<1>8. ASSUME NEW t \in Sessions, OrientSession(t) PROVE Told(q)'
  <2>1. /\ UNCHANGED <<pc, found, workspace>>
        /\ sessions' \in {sessions, [sessions EXCEPT ![t] = Own(t)]}
    BY <1>8 DEF OrientSession, Own
  <2>2. sessions'[s] = Unknown => sessions[s] = Unknown BY <1>a, <2>1
  <2> QED BY <1>1, <2>1, <2>2
<1>9. CASE Gone
  <2>1. /\ UNCHANGED <<sessions, found, workspace>>
        /\ pc'[q] \in {pc[q], "dead"} /\ pc[q] # "new"
    BY <1>9, <1>a DEF Gone, AtWork
  <2> QED BY <1>1, <2>1
<1>10. CASE UNCHANGED <<sessions, pc, found, workspace>> BY <1>1, <1>10
<1>11. ASSUME NEW t \in Sessions, OrientWorkspace(t) \/ Die(t)
      PROVE  UNCHANGED <<sessions, pc, found, workspace>>
  BY <1>11 DEF OrientWorkspace, Die
<1>12. Stop \/ KillAll \/ Restart \/ UNCHANGED vars => UNCHANGED <<sessions, pc, found, workspace>>
  BY DEF Stop, KillAll, Restart, vars
<1> QED
  BY <1>2, <1>4, <1>5, <1>6, <1>7, <1>8, <1>9, <1>10, <1>11, <1>12
     DEF Next, Handler, Return, Crash

-----------------------------------------------------------------------------
(* The links and the watchers *)

LEMMA LinkStep ==
  TypeOK /\ RegistryInv /\ HandlerInv /\ LinkInv /\ [Next]_vars => LinkInv'
<1> SUFFICES ASSUME TypeOK, RegistryInv, HandlerInv, LinkInv, [Next]_vars,
                    NEW s \in Sessions, cache'[s] # Unknown, <<"link", s>> \notin failed'
             PROVE  \/ \E w \in Placed(s)' : <<w, s>> \in links'
                    \/ \E r \in Requests : /\ Session[r] = s /\ just_resolved'[r]
                                           /\ pc'[r] \in {"intercept", "link"}
  BY DEF LinkInv
<1> DEFINE Goal == \/ \E w \in Placed(s)' : <<w, s>> \in links'
                   \/ \E r \in Requests : /\ Session[r] = s /\ just_resolved'[r]
                                          /\ pc'[r] \in {"intercept", "link"}
<1> USE OwnNames DEF registry, hooks, local, Goto, Fault, Works, Fails
<1>a. /\ cache \in [Ids -> Names \cup {Unknown}]
      /\ just_resolved \in [Requests -> BOOLEAN]
      /\ pc \in [Requests -> {"new", "resolve", "intercept", "link", "watch",
                              "spawn", "forward", "dead"}]
      /\ \A r \in Requests : Session[r] \in Ids
      /\ \A r \in Requests : just_resolved[r] => workspace[r] \in Names
      /\ Ids = Sessions \cup {NoId} /\ NoId \notin Sessions
  BY RequestAssumption, IdAssumption DEF TypeOK, RegistryTypes, HandlerTypes, Ids
<1>b. failed \subseteq failed' /\ Placed(s) \subseteq Placed(s)' BY FailedGrows, PlacedGrows
<1>c. <<"link", s>> \notin failed BY <1>b
<1>0. cache[s] # Unknown =>
        \/ \E w \in Placed(s) : <<w, s>> \in links
        \/ \E r \in Requests : /\ Session[r] = s /\ just_resolved[r]
                               /\ pc[r] \in {"intercept", "link"}
  BY <1>c DEF LinkInv
<1>1. ASSUME NEW r \in Requests, NEW w, NEW new \in BOOLEAN, Resolved(r, w, new),
             pc[r] = "resolve", cache' \in {cache, [cache EXCEPT ![Session[r]] = w]},
             Session[r] = s /\ cache[s] = Unknown /\ w # Unknown => new
      PROVE  Goal
  <2>1. CASE Session[r] = s /\ cache[s] = Unknown
    BY <1>1, <1>a, <2>1 DEF Resolved
  <2>2. CASE Session[r] # s \/ cache[s] # Unknown
    <3>1. cache[s] # Unknown BY <1>1, <1>a, <2>2
    <3>2. CASE \E x \in Placed(s) : <<x, s>> \in links BY <1>1, <1>b, <3>2 DEF Resolved
    <3>3. ASSUME NEW q \in Requests, Session[q] = s, just_resolved[q], pc[q] \in {"intercept", "link"}
          PROVE  Goal
      BY <1>1, <1>a, <3>3 DEF Resolved
    <3> QED BY <1>0, <3>1, <3>2, <3>3
  <2> QED BY <2>1, <2>2
<1>2. ASSUME NEW r \in Requests, ResolveFound(r) PROVE Goal
  <2>1. Resolved(r, found[r], cache[Session[r]] = Unknown) BY <1>2 DEF ResolveFound
  <2> HIDE DEF Goal
  <2> QED BY <1>1, <1>2, <2>1 DEF ResolveFound
<1>3. ASSUME NEW r \in Requests, ResolveCached(r) PROVE Goal
  <2>1. Resolved(r, cache[Session[r]], FALSE) /\ cache' = cache /\ pc[r] = "resolve"
        /\ (Session[r] = s => cache[s] # Unknown)
    BY <1>3 DEF ResolveCached
  <2> HIDE DEF Goal
  <2> QED BY <1>1, <2>1
<1>13. ASSUME NEW r \in Requests, ResolveKnown(r) PROVE Goal
  <2> HIDE DEF Goal
  <2>0. pc[r] = "resolve" BY <1>13 DEF ResolveKnown
  <2>1. CASE /\ Resolved(r, sessions[Session[r]], sessions[Session[r]] # Unknown)
             /\ cache' = [cache EXCEPT ![Session[r]] = sessions[Session[r]]]
    <3> DEFINE w == sessions[Session[r]]
    <3> HIDE DEF w
    <3> QED BY <1>1, <2>0, <2>1 DEF w
  <2>2. CASE Resolved(r, Unknown, FALSE) /\ cache' = cache
    BY <1>1, <2>0, <2>2
  <2> QED BY <1>13, <2>1, <2>2 DEF ResolveKnown
<1>4. ASSUME NEW r \in Requests, Link(r) PROVE Goal
  <2>1. cache[s] # Unknown /\ just_resolved' = just_resolved BY <1>4 DEF Link
  <2>2. CASE Session[r] = s /\ just_resolved[r]
    <3>1. workspace[r] \in Placed(s)
      <4>1. workspace[r] \in Names /\ pc[r] = "link" BY <1>4, <1>a, <2>2 DEF Link
      <4> QED BY <2>2, <4>1, DirAssumption DEF HandlerInv
    <3>2. <<workspace[r], s>> \in links' BY <1>4, <2>2 DEF Link
    <3> QED BY <1>b, <3>1, <3>2
  <2>3. CASE Session[r] # s \/ ~just_resolved[r]
    <3>1. \A x : <<x, s>> \in links => <<x, s>> \in links' BY <1>4, <2>3 DEF Link
    <3>2. \A q \in Requests : Session[q] = s /\ just_resolved[q] => pc'[q] = pc[q]
      BY <1>4, <1>a, <2>3 DEF Link
    <3> QED BY <1>0, <1>b, <2>1, <3>1, <3>2
  <2> QED BY <2>2, <2>3
<1>5. ASSUME NEW r \in Requests, Intercept(r) PROVE Goal
  <2>1. /\ UNCHANGED <<cache, links, just_resolved>> /\ pc' = [pc EXCEPT ![r] = "link"]
        /\ pc[r] = "intercept"
    BY <1>5 DEF Intercept
  <2> QED BY <1>0, <1>a, <1>b, <2>1
<1>6. ASSUME NEW r \in Requests, Lookup(r) \/ TryWait(r) \/ Spawn(r) PROVE Goal
  <2>1. /\ UNCHANGED <<cache, links, just_resolved>>
        /\ pc[r] \in {"new", "watch", "spawn"}
        /\ \E l \in {"resolve", "forward", "spawn"} : pc' = [pc EXCEPT ![r] = l]
    BY <1>6 DEF Lookup, TryWait, Spawn
  <2> QED BY <1>0, <1>a, <1>b, <2>1
<1>7. CASE Gone BY <1>7, <1>a DEF Gone
<1>8. CASE UNCHANGED <<cache, links, just_resolved, pc>> BY <1>0, <1>b, <1>8
<1>9. ASSUME NEW t \in Sessions, OrientWorkspace(t) \/ OrientSession(t) \/ Die(t)
      PROVE  UNCHANGED <<cache, links, just_resolved, pc>>
  BY <1>9 DEF OrientWorkspace, OrientSession, Die
<1>10. Stop \/ KillAll \/ Restart \/ UNCHANGED vars => UNCHANGED <<cache, links, just_resolved, pc>>
  BY DEF Stop, KillAll, Restart, vars
<1> QED
  BY <1>2, <1>3, <1>4, <1>5, <1>6, <1>7, <1>8, <1>9, <1>10, <1>13
     DEF Next, Handler, Return, Crash

LEMMA WatcherStep == TypeOK /\ WatcherInv /\ [Next]_vars => WatcherInv'
<1> SUFFICES ASSUME TypeOK, WatcherInv, [Next]_vars PROVE WatcherInv'
  OBVIOUS
<1> USE DEF registry, hooks, local, bounds, ends, Goto, WatcherInv, AtWork, Fault
<1>a. /\ watchers \in [Sessions -> {"none", "running", "dead"}]
      /\ orphans \in [Sessions -> Nat] /\ crashes \in Nat /\ restarts \in Nat
      /\ lock \in Requests \cup {NoRequest} /\ NoRequest \notin Requests
      /\ pc \in [Requests -> {"new", "resolve", "intercept", "link", "watch",
                              "spawn", "forward", "dead"}]
      /\ \A r \in Requests : pc[r] \in {"intercept", "watch", "spawn"} => Session[r] \in Sessions
      /\ phase \in {"up", "stopping", "killed", "down"}
  BY IdAssumption, BoundsAssumption DEF TypeOK, PoolTypes, HandlerTypes
<1>1. ASSUME NEW r \in Requests,
             Lookup(r) \/ ResolveFound(r) \/ ResolveCached(r) \/ ResolveKnown(r) \/ Intercept(r)
             \/ Link(r)
      PROVE  WatcherInv'
  <2>1. /\ UNCHANGED <<watchers, orphans, lock, phase, crashes, restarts, late>>
        /\ \E l \in {"resolve", "intercept", "link", "watch", "forward"} : pc' = [pc EXCEPT ![r] = l]
        /\ phase # "down" \/ AtWork(r)
    BY <1>1 DEF Lookup, ResolveFound, ResolveCached, ResolveKnown, Resolved, Intercept, Link
  <2> QED BY <1>a, <2>1
<1>2. ASSUME NEW r \in Requests, TryWait(r) PROVE WatcherInv'
  <2>1. /\ lock = NoRequest /\ pc[r] = "watch" /\ Session[r] \in Sessions /\ phase # "down"
        /\ UNCHANGED <<orphans, phase, crashes, restarts, late>>
    BY <1>2, <1>a DEF TryWait
  <2>2. \A q \in Requests : pc[q] # "spawn" BY <1>a, <2>1
  <2>3. \/ watchers' = watchers /\ pc' = [pc EXCEPT ![r] = "forward"]
        \/ /\ watchers' = [watchers EXCEPT ![Session[r]] = "none"] /\ lock' = r
           /\ pc' = [pc EXCEPT ![r] = "spawn"]
    BY <1>2 DEF TryWait
  <2> QED BY <1>a, <2>1, <2>2, <2>3
<1>3. ASSUME NEW r \in Requests, Spawn(r) PROVE WatcherInv'
  <2>1. lock = r /\ watchers[Session[r]] = "none" /\ Session[r] \in Sessions /\ phase # "down"
    BY <1>3, <1>a DEF Spawn
  <2>2. orphans' = orphans /\ UNCHANGED <<phase, crashes, restarts>> BY <1>3, <1>a, <2>1 DEF Spawn
  <2>3. \A q \in Requests : pc'[q] # "spawn" BY <1>3, <1>a, <2>1 DEF Spawn
  <2>4. \/ watchers' = watchers /\ late' = late
        \/ /\ watchers' = [watchers EXCEPT ![Session[r]] = "running"]
           /\ late' = IF phase = "killed" THEN late \cup {Session[r]} ELSE late
    BY <1>3, <2>1 DEF Spawn
  <2>5. late \subseteq late' BY <2>4
  <2>6. phase = "killed" => \A s \in Sessions \ late' : watchers'[s] = "none"
    BY <1>a, <2>1, <2>4
  <2> QED BY <2>1, <2>2, <2>3, <2>5, <2>6
<1>4. ASSUME NEW s \in Sessions, Die(s) PROVE WatcherInv'
  <2>1. UNCHANGED <<lock, phase, pc, restarts, crashes, late>> BY <1>4 DEF Die
  <2>2. \/ /\ watchers[s] = "running" /\ watchers' = [watchers EXCEPT ![s] = "dead"]
           /\ orphans' = orphans
        \/ /\ orphans[s] > 0 /\ orphans' = [orphans EXCEPT ![s] = @ - 1] /\ watchers' = watchers
    BY <1>4 DEF Die
  <2>3. CASE watchers[s] = "running" /\ watchers' = [watchers EXCEPT ![s] = "dead"] /\ orphans' = orphans
    BY <1>a, <2>1, <2>3
  <2>4. CASE orphans[s] > 0 /\ orphans' = [orphans EXCEPT ![s] = @ - 1] /\ watchers' = watchers
    <3>1. \A t \in Sessions : orphans'[t] <= orphans[t] /\ orphans'[t] \in Nat
      BY <1>a, <2>4
    <3>2. \A t \in Sessions : orphans[t] = 0 => orphans'[t] = 0 BY <1>a, <2>4
    <3>3. \A t \in Sessions : orphans'[t] <= IF phase = "down" THEN restarts + 1 ELSE restarts
      BY <1>a, <3>1
    <3> QED BY <2>1, <2>4, <3>2, <3>3
  <2> QED BY <2>2, <2>3, <2>4
<1>5. CASE Stop BY <1>5, <1>a DEF Stop
<1>6. CASE KillAll BY <1>6, <1>a DEF KillAll
<1>7. ASSUME phase # "down", Gone, UNCHANGED late,
             (crashes' = crashes /\ phase = "killed") \/ crashes' = crashes + 1
      PROVE  WatcherInv'
  <2>1. \A s \in Sessions :
          /\ orphans'[s] <= restarts + 1
          /\ watchers[s] = "none" => orphans'[s] = orphans[s]
          /\ watchers'[s] = "none"
    <3>1. \A s \in Sessions : orphans'[s] = orphans[s] + IF watchers[s] = "running" THEN 1 ELSE 0
      BY <1>7 DEF Gone
    <3>2. \A s \in Sessions : orphans[s] \in Nat /\ orphans[s] <= restarts BY <1>7, <1>a
    <3>3. \A s \in Sessions : watchers'[s] = "none" BY <1>7 DEF Gone
    <3> QED BY <1>a, <3>1, <3>2, <3>3
  <2>2. \A r \in Requests : pc'[r] \in {"new", "forward", "dead"} BY <1>7, <1>a DEF Gone
  <2>3. phase' = "down" /\ restarts' = restarts BY <1>7 DEF Gone
  <2>4. crashes' = 0 => crashes = 0 /\ phase = "killed" BY <1>7, <1>a
  <2>5. \A r \in Requests : ~AtWork(r)' BY <2>2
  <2>6. crashes' = 0 => \A s \in Sessions \ late' : orphans'[s] = 0 BY <1>7, <2>1, <2>4
  <2> QED BY <2>1, <2>2, <2>3, <2>5, <2>6
<1>8. CASE Return BY <1>7, <1>8 DEF Return, Gone
<1>9. CASE Crash BY <1>7, <1>9 DEF Crash, Gone
<1>10. CASE Restart BY <1>10, <1>a DEF Restart
<1>11. CASE UNCHANGED <<watchers, orphans, lock, phase, crashes, restarts, late, pc>> BY <1>11
<1>12. ASSUME NEW s \in Sessions, OrientWorkspace(s) \/ OrientSession(s)
       PROVE  UNCHANGED <<watchers, orphans, lock, phase, crashes, restarts, late, pc>>
  BY <1>12 DEF OrientWorkspace, OrientSession
<1>13. UNCHANGED vars => UNCHANGED <<watchers, orphans, lock, phase, crashes, restarts, late, pc>>
  BY DEF vars
<1> QED
  BY <1>1, <1>2, <1>3, <1>4, <1>5, <1>6, <1>8, <1>9, <1>10, <1>11, <1>12, <1>13
     DEF Next, Handler

-----------------------------------------------------------------------------
(* The theorems *)

LEMMA InvInit == Init => RegistryInv /\ HandlerInv /\ LinkInv /\ WatcherInv
<1>1. \A s \in Sessions : s \in Ids /\ Own(s) \in Names BY OwnNames
<1> QED
  BY <1>1, RequestAssumption DEF Init, RegistryInv, HandlerInv, LinkInv, WatcherInv, AtWork

\* A request of a session is handled in the workspace of the session's project
\* directory, in every interleaving with the others and with the SessionStart hook,
\* across crashes and whatever calls fail, except that it is handled in none when
\* the sessions table has nothing to tell, and in an enclosing one when its own
\* could not be registered (resolve_workspace).
THEOREM WorkspaceIsKept == Spec => []WorkspaceKept
<1> DEFINE IInv == TypeOK /\ RegistryInv /\ HandlerInv
<1>1. Init => IInv BY TypeInit, InvInit
<1>2. IInv /\ [Next]_vars => IInv' BY TypeStep, RegistryStep, HandlerStep
<1>3. IInv => WorkspaceKept
  <2> SUFFICES ASSUME IInv PROVE WorkspaceKept OBVIOUS
  <2>1. \A s \in Sessions : {cache[s], sessions[s]} \subseteq Placed(s) \cup {Unknown}
    BY DEF RegistryInv
  <2>2. ASSUME NEW r \in Requests, Session[r] \in Sessions,
               pc[r] \in {"intercept", "link", "watch", "spawn"}
        PROVE  \/ workspace[r] \in Placed(Session[r])
               \/ /\ workspace[r] = Unknown
                  /\ failed \cap {<<"read", r>>, <<"session", Session[r]>>, <<"workspace", Session[r]>>} # {}
    BY <2>2 DEF HandlerInv, Filed
  <2> QED BY <2>1, <2>2 DEF WorkspaceKept
<1> QED BY <1>1, <1>2, <1>3, PTL DEF Spec

\* A session in the cache is linked once its requests are done, whoever of
\* them resolved it and however they overlapped, unless the link could not be made
\* (create_workspace_symlinks).
THEOREM CachedIsLinked == Spec => []LinkedOnceKnown
<1> DEFINE IInv == TypeOK /\ RegistryInv /\ HandlerInv /\ LinkInv
<1>1. Init => IInv BY TypeInit, InvInit
<1>2. IInv /\ [Next]_vars => IInv' BY TypeStep, RegistryStep, HandlerStep, LinkStep
<1>3. IInv => LinkedOnceKnown BY DEF LinkInv, LinkedOnceKnown, AtWork
<1> QED BY <1>1, <1>2, <1>3, PTL DEF Spec

\* The mutex of the pool and the order of the shutdown are enough: a proxy has one
\* watcher for a session, and one that returns leaves none but those its handlers
\* started after it had killed the others (spawn_watcher, run_server).
THEOREM WatchersAreOwned == Spec => []OneWatcher
<1> DEFINE IInv == TypeOK /\ WatcherInv
<1>1. Init => IInv BY TypeInit, InvInit
<1>2. IInv /\ [Next]_vars => IInv' BY TypeStep, WatcherStep
<1>3. IInv => OneWatcher
  <2> SUFFICES ASSUME IInv, NEW s \in Sessions
               PROVE  /\ orphans[s] + Running(s) <= 1 + restarts
                      /\ crashes = 0 /\ s \notin late => orphans[s] = 0
    BY DEF OneWatcher
  <2>1. orphans[s] \in Nat /\ restarts \in Nat BY BoundsAssumption DEF TypeOK, PoolTypes
  <2>2. Running(s) \in {0, 1} /\ (phase = "down" => Running(s) = 0) BY DEF Running, WatcherInv
  <2>3. orphans[s] <= IF phase = "down" THEN restarts + 1 ELSE restarts BY DEF WatcherInv
  <2>4. orphans[s] + Running(s) <= 1 + restarts BY <2>1, <2>2, <2>3
  <2>5. crashes = 0 /\ s \notin late => orphans[s] = 0 BY DEF WatcherInv
  <2> QED BY <2>4, <2>5
<1> QED BY <1>1, <1>2, <1>3, PTL DEF Spec

=============================================================================
