----------------------------- MODULE Datagrams -----------------------------
(***************************************************************************)
(* The datagram transport (datagram_io) and the daemon that archives what   *)
(* it is sent (record_datagrams).  A sender tries a Unix stream socket and  *)
(* a UDP multicast; when a datagram does not reach everybody it sends a     *)
(* small alert over the same channels.  The recorder serves one connection  *)
(* at a time; a recorder may be stopped, killed, and started again, also    *)
(* while another one runs.                                                  *)
(***************************************************************************)
EXTENDS Naturals, Sequences, FiniteSets, SequencesExt

CONSTANTS
  Datagrams,
  Kinds,      \* functions from Datagrams: the function called, "emit", "validated"
              \* or "alerting" (emit_validated_or_alert); whether the schema accepts
              \* it; whether it is larger than UDP_SAFE_LIMIT
  Recorders, None,
  MaxFaults,  \* failing calls, slow and killed senders
  MaxStarts   \* recorders started

ASSUME KindsAssumption ==
  Kinds \subseteq [Datagrams -> [caller : {"emit", "validated", "alerting"},
                                malformed : BOOLEAN, big : BOOLEAN]]
ASSUME BoundsAssumption == MaxFaults \in Nat /\ MaxStarts \in Nat

\* What a sender may transmit: the datagram, the alert of
\* emit_validated_or_alert, and the alert about the transport.
Parts == {"self", "malformed", "transport"}
Transmissions == Datagrams \X Parts
ASSUME NoneAssumption == None \notin Recorders \cup Transmissions

VARIABLES
  kind,
  pc, part,   \* [Datagrams -> where its sender stands, and what it transmits]
  unix, udp,  \* [Datagrams -> EmitReport.unix_ok, udp_ok of try_emit]
  answer,     \* [Datagrams -> what the caller is told]: None, TRUE, FALSE
  accepted,   \* transmissions whose write succeeded
  live,       \* transmissions that the live consumers got
  conn,       \* [Transmissions -> the recorder whose connection it is, or None]
  bytes,      \* [Transmissions -> what of it is in its connection: "none", "part", "whole"]
  at,         \* [Recorders -> where it stands]
  backlog, serving, \* [Recorders -> connections not accepted; the one it reads]
  flag,       \* [Recorders -> SHUTDOWN_FLAG]
  path,       \* the recorder whose socket the name leads to, or None
  log,        \* the archive: a transmission of which a part was sent is a torn line
  faults, starts,
  \* For the properties only:
  due,        \* transmissions that were whole before their connection was accepted
  disturbed,  \* recorders beside which another has started or ended since they started
  overlap     \* some recorder was started while another ran

sender == <<pc, part, unix, udp, answer, accepted, live>>
recorder == <<at, backlog, serving, flag, path, log>>
history == <<due, disturbed, overlap>>
vars == <<kind, sender, conn, bytes, recorder, faults, starts, history>>

Init ==
  /\ kind \in Kinds
  /\ pc = [m \in Datagrams |-> "start"] /\ part = [m \in Datagrams |-> "self"]
  /\ unix = [m \in Datagrams |-> FALSE] /\ udp = [m \in Datagrams |-> FALSE]
  /\ answer = [m \in Datagrams |-> None]
  /\ accepted = {} /\ live = {}
  /\ conn = [t \in Transmissions |-> None] 
  /\ bytes = [t \in Transmissions |-> "none"]
  /\ at = [r \in Recorders |-> "off"] /\ backlog = [r \in Recorders |-> <<>>]
  /\ serving = [r \in Recorders |-> None] /\ flag = [r \in Recorders |-> FALSE]
  /\ path = None /\ log = <<>>
  /\ faults = 0 /\ starts = 0
  /\ due = {} /\ disturbed = {} /\ overlap = FALSE

Now(m) == <<m, part[m]>>
Large(m) == part[m] = "self" /\ kind[m].big
Move(m, from, to) == pc[m] = from /\ pc' = [pc EXCEPT ![m] = to]
Fault == faults < MaxFaults /\ faults' = faults + 1

-----------------------------------------------------------------------------
(* The sender *)

\* emit_validated refuses what the schema refuses; emit_validated_or_alert then
\* emits an alert, which is not validated.
Validate(m) ==
  /\ IF kind[m].malformed /\ kind[m].caller # "emit"
     THEN /\ answer' = [answer EXCEPT ![m] = FALSE]
          /\ part' = [part EXCEPT ![m] = "malformed"]
          /\ Move(m, "start", IF kind[m].caller = "alerting" THEN "connect" ELSE "done")
     ELSE Move(m, "start", "connect") /\ UNCHANGED <<answer, part>>
  /\ UNCHANGED <<unix, udp, accepted, live, conn, bytes, recorder, faults, starts, history>>

Report(m, ok) == unix' = IF part[m] = "transport" THEN unix ELSE [unix EXCEPT ![m] = ok]

\* try_unix_stream: connect succeeds when somebody listens on the socket the
\* name leads to, before it is accepted.
Connect(m) ==
  /\ IF path # None /\ at[path] \in {"loop", "read", "close"}
     THEN /\ backlog' = [backlog EXCEPT ![path] = Append(@, Now(m))]
          /\ conn' = [conn EXCEPT ![Now(m)] = path]
          /\ Move(m, "connect", "write")
          /\ UNCHANGED unix
     ELSE /\ Move(m, "connect", "udp")
          /\ Report(m, FALSE)
          /\ UNCHANGED <<backlog, conn>>
  /\ UNCHANGED <<part, udp, answer, accepted, live, bytes, at, serving, flag, path, log, faults, starts, history>>

\* write_all: what does not fit the buffer of the connection waits for the recorder.
WritePart(m) ==
  /\ pc[m] = "write" /\ part[m] = "self"
  /\ conn[Now(m)] # None /\ bytes[Now(m)] = "none"
  /\ bytes' = [bytes EXCEPT ![Now(m)] = "part"]
  /\ UNCHANGED <<sender, conn, recorder, faults, starts, history>>

\* Whether the connection of t was not accepted yet.
Waits(t) == \E r \in Recorders : t \in Range(backlog[r])

\* The rest is written; that fails when the other end was closed.
Write(m) ==
  /\ Move(m, "write", "udp")
  /\ LET ok == conn[Now(m)] # None IN
     /\ bytes' = IF ok THEN [bytes EXCEPT ![Now(m)] = "whole"] ELSE bytes
     /\ accepted' = IF ok THEN accepted \cup {Now(m)} ELSE accepted
     /\ due' = IF ok /\ Waits(Now(m)) THEN due \cup {Now(m)} ELSE due
     /\ Report(m, ok)
  /\ UNCHANGED <<part, udp, answer, live, conn, recorder, faults, starts, disturbed, overlap>>

\* WRITE_TIMEOUT passes before the rest fits.
WriteTimeout(m) ==
  /\ bytes[Now(m)] = "part" /\ conn[Now(m)] # None
  /\ Move(m, "write", "udp")
  /\ Report(m, FALSE)
  /\ UNCHANGED <<part, udp, answer, accepted, live, conn, bytes, recorder, faults, starts, history>>

\* Mutant: only a failure of both channels is reported.
UdpSkipsQuietly(m) ==
  \E ok \in BOOLEAN :
    LET through == ok /\ ~Large(m)
        alarm == part[m] # "transport" /\ ~(unix[m] \/ through)
    IN
    /\ IF ok THEN UNCHANGED faults ELSE ~Large(m) /\ Fault
    /\ Move(m, "udp", IF alarm THEN "connect" ELSE "done")
    /\ live' = IF through THEN live \cup {Now(m)} ELSE live
    /\ udp' = IF part[m] = "transport" THEN udp ELSE [udp EXCEPT ![m] = through]
    /\ part' = IF alarm THEN [part EXCEPT ![m] = "transport"] ELSE part
    /\ answer' = IF ~alarm /\ answer[m] = None THEN [answer EXCEPT ![m] = TRUE] ELSE answer
    /\ UNCHANGED <<unix, accepted, conn, bytes, recorder, starts, history>>

\* try_udp_multicast, and what try_emit does about the report.
Udp(m) ==
  \E ok \in BOOLEAN :
    LET through == ok /\ ~Large(m)
        alarm == part[m] # "transport" /\ (Large(m) \/ ~(unix[m] \/ through))
    IN
    /\ IF ok THEN UNCHANGED faults ELSE ~Large(m) /\ Fault
    /\ Move(m, "udp", IF alarm THEN "connect" ELSE "done")
    /\ live' = IF through THEN live \cup {Now(m)} ELSE live
    /\ udp' = IF part[m] = "transport" THEN udp ELSE [udp EXCEPT ![m] = through]
    /\ part' = IF alarm THEN [part EXCEPT ![m] = "transport"] ELSE part
    /\ answer' = IF ~alarm /\ answer[m] = None THEN [answer EXCEPT ![m] = TRUE] ELSE answer
    /\ UNCHANGED <<unix, accepted, conn, bytes, recorder, starts, history>>

Kill(m) ==
  /\ Fault
  /\ pc[m] \in {"connect", "write", "udp"}
  /\ Move(m, pc[m], "killed")
  /\ UNCHANGED <<part, unix, udp, answer, accepted, live, conn, bytes, recorder, starts, history>>

-----------------------------------------------------------------------------
(* The recorder *)

Go(r, from, to) == at[r] = from /\ at' = [at EXCEPT ![r] = to]

Running == {r \in Recorders : at[r] # "off"}

\* cleanup_socket removes whatever has the name.
Cleanup(r) ==
  /\ Go(r, "off", "bind")
  /\ starts < MaxStarts /\ starts' = starts + 1
  /\ path' = None
  /\ disturbed' = (disturbed \ {r}) \cup Running
  /\ overlap' = (overlap \/ Running # {})
  /\ UNCHANGED <<sender, conn, bytes, backlog, serving, flag, log, faults, due>>

\* Mutant: a name that cannot be taken is not an error.
BindAnyway(r) ==
  /\ Go(r, "bind", "loop")
  /\ UNCHANGED path
  /\ backlog' = [backlog EXCEPT ![r] = <<>>]
  /\ flag' = [flag EXCEPT ![r] = FALSE]
  /\ UNCHANGED <<sender, conn, bytes, serving, log, faults, starts, history>>

Bind(r) ==
  /\ IF path = None
     THEN Go(r, "bind", "loop") /\ path' = r
     ELSE Go(r, "bind", "off") /\ UNCHANGED path
  /\ backlog' = [backlog EXCEPT ![r] = <<>>]
  /\ flag' = [flag EXCEPT ![r] = FALSE]
  /\ UNCHANGED <<sender, conn, bytes, serving, log, faults, starts, history>>

\* Mutant: the newest connection is accepted first.
AcceptLast(r) ==
  /\ ~flag[r]
  /\ backlog[r] # <<>>
  /\ Go(r, "loop", "read")
  /\ serving' = [serving EXCEPT ![r] = Last(backlog[r])]
  /\ backlog' = [backlog EXCEPT ![r] = Front(@)]
  /\ UNCHANGED <<sender, conn, bytes, flag, path, log, faults, starts, history>>

Accept(r) ==
  /\ ~flag[r]
  /\ backlog[r] # <<>>
  /\ Go(r, "loop", "read")
  /\ serving' = [serving EXCEPT ![r] = Head(backlog[r])]
  /\ backlog' = [backlog EXCEPT ![r] = Tail(@)]
  /\ UNCHANGED <<sender, conn, bytes, flag, path, log, faults, starts, history>>

\* The sender of t has closed its end.
Closed(t) == ~(pc[t[1]] = "write" /\ part[t[1]] = t[2])
HasLine(t) == bytes[t] = "whole" \/ (bytes[t] = "part" /\ Closed(t))

\* Mutant: a line is taken for transient trouble and skipped.
ReadSkips(r) ==
  LET t == serving[r] IN
  /\ Go(r, "read", "close")
  /\ \/ HasLine(t) /\ t[2] = "self" /\ log' = Append(log, t)
     \/ UNCHANGED log
  /\ UNCHANGED <<sender, conn, bytes, backlog, serving, flag, path, faults, starts, history>>

\* process_stream: what lines() returns is appended, which may fail; that is also
\* the part which an end of file cuts off, unless the cut is inside a character.  A
\* line that is not there yet is given up: after READ_TIMEOUT, or at once where an
\* accepted stream inherits O_NONBLOCK from its listener.
Read(r) ==
  LET t == serving[r] IN
  /\ Go(r, "read", "close")
  /\ \/ HasLine(t) /\ log' = Append(log, t) /\ UNCHANGED <<faults, due>>
     \/ HasLine(t) /\ Fault /\ due' = due \ {t} /\ UNCHANGED log
     \/ bytes[t] # "whole" /\ UNCHANGED <<log, faults, due>>
  /\ UNCHANGED <<sender, conn, bytes, backlog, serving, flag, path, starts, disturbed, overlap>>

Shut(set) == conn' = [t \in Transmissions |-> IF t \in set THEN None ELSE conn[t]]

Close(r) ==
  /\ Go(r, "close", "loop")
  /\ Shut({serving[r]})
  /\ serving' = [serving EXCEPT ![r] = None]
  /\ UNCHANGED <<sender, bytes, backlog, flag, path, log, faults, starts, history>>

Signal(r) ==
  /\ at[r] \in {"loop", "read", "close"} /\ ~flag[r]
  /\ flag' = [flag EXCEPT ![r] = TRUE]
  /\ UNCHANGED <<sender, conn, bytes, at, backlog, serving, path, log, faults, starts, history>>

Held(r) == {t \in Transmissions : conn[t] = r}

\* What waits to be accepted is dropped with the listener, and whatever has the name
\* is removed.
Leave(r) ==
  /\ flag[r]
  /\ Go(r, "loop", "off")
  /\ path' = None
  /\ Shut(Held(r))
  /\ backlog' = [backlog EXCEPT ![r] = <<>>]
  /\ due' = due \ Held(r)
  /\ disturbed' = disturbed \cup (Running \ {r})
  /\ UNCHANGED <<sender, bytes, serving, flag, log, faults, starts, overlap>>

\* A recorder that is killed leaves the name behind.
Crash(r) ==
  /\ at[r] # "off"
  /\ at' = [at EXCEPT ![r] = "off"]
  /\ Shut(Held(r))
  /\ backlog' = [backlog EXCEPT ![r] = <<>>]
  /\ serving' = [serving EXCEPT ![r] = None]
  /\ due' = due \ Held(r)
  /\ UNCHANGED <<sender, bytes, flag, path, log, faults, starts, disturbed, overlap>>

SenderStep(m) == Validate(m) \/ Connect(m) \/ WritePart(m) \/ Write(m) \/ WriteTimeout(m) \/ Udp(m)
RecorderStep(r) == Bind(r) \/ Accept(r) \/ Read(r) \/ Close(r) \/ Leave(r)

Next ==
  /\ UNCHANGED kind
  /\ \/ \E m \in Datagrams : SenderStep(m) \/ Kill(m)
     \/ \E r \in Recorders : RecorderStep(r) \/ Cleanup(r) \/ Signal(r) \/ Crash(r)

Spec == Init /\ [][Next]_vars

\* The processes that run go on; nobody has to start a recorder.
FairSpec ==
  /\ Spec
  /\ \A m \in Datagrams : WF_vars(SenderStep(m) /\ UNCHANGED kind)
  /\ \A r \in Recorders : WF_vars(RecorderStep(r) /\ UNCHANGED kind)

-----------------------------------------------------------------------------
(* Properties *)

\* A recorder that runs can be reached (cleanup_socket, bind, the end of run), also
\* after others were killed and left their name behind, and beside one that was
\* there first, until another one starts or ends: both remove whatever has the name.
RunningIsReachable ==
  \A r \in Recorders \ disturbed : at[r] \in {"loop", "read", "close"} => path = r

\* The archive has a transmission at most once, across all restarts and with any
\* number of recorders side by side, and until two have overlapped the alert about
\* a datagram is after it (process_stream, one connection at a time).
ArchiveInOrder ==
  \A i, j \in DOMAIN log :
    log[i][1] = log[j][1] /\ i < j =>
      log[i][2] # log[j][2] /\ (log[i][2] = "transport" => overlap)

\* try_emit is never silent: when a sender is through and the schema did not
\* simply refuse its datagram, somebody has been sent the datagram or an alert
\* about it even if one call failed, and the live consumers have if none did.
\* The one call that is not made up for is the alert's, for a datagram too
\* large for UDP.
NeverSilent ==
  \A m \in Datagrams :
    LET reached(set) == \E p \in Parts : <<m, p>> \in set
        refused == kind[m].caller = "validated" /\ answer[m] = FALSE
    IN  pc[m] = "done" /\ ~refused =>
          /\ faults = 0 => reached(live)
          /\ faults <= 1 => reached(live \cup accepted) \/ kind[m].big

\* What was written while its connection waited is archived in the end, unless its
\* recorder is stopped or killed or the append fails, also if the sender dies, other
\* recorders come and go or an accepted stream does not block (Accept, Read).  What
\* is written later may be lost although its sender was told that it is written.
WrittenIsArchived == []<>(due \subseteq Range(log))
=============================================================================
