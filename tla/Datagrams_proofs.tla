-------------------------- MODULE Datagrams_proofs --------------------------
(***************************************************************************)
(* Proofs about the datagrams, their senders and their recorders, and about *)
(* the hooks of a tool call, whose alerts the datagrams carry.              *)
(***************************************************************************)
EXTENDS Datagrams, ToolHooks, Batches, FiniteSetTheorems, SequenceTheorems, WellFoundedInduction, TLAPS

-----------------------------------------------------------------------------
(* The inductive invariants *)

KindTypes ==
  kind \in [Datagrams -> [caller : {"emit", "validated", "alerting"},
                          malformed : BOOLEAN, big : BOOLEAN]]
StandTypes ==
  /\ pc \in [Datagrams -> {"start", "connect", "write", "udp", "done", "killed"}]
  /\ part \in [Datagrams -> Parts]
ReportTypes ==
  /\ unix \in [Datagrams -> BOOLEAN] /\ udp \in [Datagrams -> BOOLEAN]
  /\ answer \in [Datagrams -> {None, TRUE, FALSE}]
SentTypes ==
  /\ accepted \subseteq Transmissions /\ live \subseteq Transmissions
  /\ faults \in Nat
SenderTypes == KindTypes /\ StandTypes /\ ReportTypes /\ SentTypes

Listening == {"loop", "read", "close"}
ConnTypes ==
  /\ conn \in [Transmissions -> Recorders \cup {None}] 
  /\ bytes \in [Transmissions -> {"none", "part", "whole"}]
ServerTypes ==
  /\ at \in [Recorders -> {"off", "bind"} \cup Listening]
  /\ flag \in [Recorders -> BOOLEAN]
  /\ path \in Recorders \cup {None}
QueueTypes ==
  /\ backlog \in [Recorders -> Seq(Transmissions)]
  /\ serving \in [Recorders -> Transmissions \cup {None}]
  /\ \A r \in Recorders : at[r] = "read" => serving[r] \in Transmissions
  /\ log \in Seq(Transmissions)
RecorderTypes == ConnTypes /\ ServerTypes /\ QueueTypes

\* Where a sender is in what it has to say, and who has been sent what it said: two
\* calls must fail for an alert about the transport to be sent to nobody.
HeardAt(m) ==
  LET reached(set) == \E p \in Parts : <<m, p>> \in set
      refused == kind[m].caller = "validated" /\ answer[m] = FALSE
  IN  /\ pc[m] = "start" => part[m] = "self"
      /\ pc[m] = "udp" /\ unix[m] /\ part[m] # "transport" => Now(m) \in accepted
      /\ part[m] = "transport" /\ ~kind[m].big => faults > 0
      /\ pc[m] = "done" /\ ~refused =>
           /\ faults = 0 => reached(live)
           /\ faults <= 1 => reached(live \cup accepted) \/ kind[m].big
HeardInv == \A m \in Datagrams : HeardAt(m)

\* Until two recorders have overlapped, one of them at most is there.
AloneInv == ~overlap => \A q, r \in Running : q = r

\* The parts of a datagram that its sender has opened a connection for.
Tried(m) ==
  (IF part[m] = "transport" THEN {"self", "malformed"} ELSE {})
    \cup (IF pc[m] \in {"write", "udp", "done", "killed"} THEN {part[m]} ELSE {})
Opened(t) == t[2] \in Tried(t[1])

\* A connection may be served before another one: the archive, the connection being
\* read and those that wait make one line.
MayPrecede(t, u) == t[1] = u[1] => t[2] # u[2] /\ (t[2] = "transport" => overlap)
AfterLog(t) == Opened(t) /\ \A i \in DOMAIN log : MayPrecede(log[i], t)
LineOf(r) ==
  /\ \A i \in DOMAIN backlog[r] : AfterLog(backlog[r][i])
  /\ \A i, j \in DOMAIN backlog[r] : i < j => MayPrecede(backlog[r][i], backlog[r][j])
  /\ at[r] = "read" =>
       /\ serving[r] \in Transmissions /\ AfterLog(serving[r])
       /\ \A i \in DOMAIN backlog[r] : MayPrecede(serving[r], backlog[r][i])
  /\ at[r] \in {"off", "bind"} => backlog[r] = <<>>
\* The connections that a recorder has yet to read.
Pending(r) ==
  {backlog[r][i] : i \in DOMAIN backlog[r]} \cup (IF at[r] = "read" THEN {serving[r]} ELSE {})
CrossInv == \A q, r \in Recorders : q # r => Pending(q) \cap Pending(r) = {}
LineInv ==
  /\ \A i \in DOMAIN log : Opened(log[i])
  /\ \A i, j \in DOMAIN log : i < j => MayPrecede(log[i], log[j])
  /\ \A r \in Recorders : LineOf(r)

-----------------------------------------------------------------------------
(* Types *)

LEMMA InitTypes == Init => SenderTypes /\ RecorderTypes
<1> SUFFICES ASSUME Init PROVE SenderTypes /\ RecorderTypes
  OBVIOUS
<1>1. KindTypes
  BY KindsAssumption DEF Init, KindTypes
<1>2. StandTypes /\ ReportTypes /\ SentTypes
  BY DEF Init, StandTypes, ReportTypes, SentTypes, Parts
<1>3. ConnTypes /\ ServerTypes /\ QueueTypes
  BY DEF Init, ConnTypes, ServerTypes, QueueTypes, Listening
<1>4. QED
  BY <1>1, <1>2, <1>3 DEF SenderTypes, RecorderTypes

LEMMA SenderTypesStep == SenderTypes /\ [Next]_vars => SenderTypes'
<1> SUFFICES ASSUME SenderTypes, [Next]_vars PROVE SenderTypes'
  OBVIOUS
<1>a. StandTypes /\ ReportTypes /\ SentTypes
  BY DEF SenderTypes
<1>b. KindTypes'
  <2>1. UNCHANGED kind
    BY DEF Next, vars
  <2>2. QED
    BY <2>1 DEF SenderTypes, KindTypes
<1>1. ASSUME NEW m \in Datagrams, Validate(m) PROVE StandTypes' /\ ReportTypes' /\ SentTypes'
  BY <1>1, <1>a DEF Validate, Move, Parts, StandTypes, ReportTypes, SentTypes
<1>2. ASSUME NEW m \in Datagrams, Connect(m) PROVE StandTypes' /\ ReportTypes' /\ SentTypes'
  BY <1>2, <1>a DEF Connect, Move, Report, StandTypes, ReportTypes, SentTypes
<1>3. ASSUME NEW m \in Datagrams, Write(m) PROVE StandTypes' /\ ReportTypes' /\ SentTypes'
  <2>1. StandTypes'
    BY <1>3, <1>a DEF Write, Move, StandTypes
  <2>2. ReportTypes'
    <3>1. PICK ok \in BOOLEAN : Report(m, ok)
      BY <1>3 DEF Write
    <3>2. QED
      BY <3>1, <1>3, <1>a DEF Write, Report, ReportTypes
  <2>3. SentTypes'
    BY <1>3, <1>a DEF Write, Now, Transmissions, StandTypes, SentTypes
  <2>4. QED
    BY <2>1, <2>2, <2>3
<1>w. ASSUME NEW m \in Datagrams, WriteTimeout(m) PROVE StandTypes' /\ ReportTypes' /\ SentTypes'
  <2>1. StandTypes'
    BY <1>w, <1>a DEF WriteTimeout, Move, StandTypes
  <2>2. ReportTypes'
    BY <1>w, <1>a DEF WriteTimeout, Report, ReportTypes
  <2>3. SentTypes'
    BY <1>w, <1>a DEF WriteTimeout, SentTypes
  <2>4. QED
    BY <2>1, <2>2, <2>3
<1>p. ASSUME NEW m \in Datagrams, WritePart(m) PROVE UNCHANGED sender /\ faults' = faults
  BY <1>p DEF WritePart
<1>4. ASSUME NEW m \in Datagrams, Udp(m) PROVE StandTypes' /\ ReportTypes' /\ SentTypes'
  <2>1. StandTypes'
    BY <1>4, <1>a DEF Udp, Move, Parts, StandTypes
  <2>2. ReportTypes'
    <3>1. \E through \in BOOLEAN :
            udp' = IF part[m] = "transport" THEN udp ELSE [udp EXCEPT ![m] = through]
      BY <1>4 DEF Udp
    <3>2. answer' = answer \/ answer' = [answer EXCEPT ![m] = TRUE]
      BY <1>4 DEF Udp
    <3>3. unix' = unix
      BY <1>4 DEF Udp
    <3>4. QED
      BY <3>1, <3>2, <3>3, <1>a DEF ReportTypes
  <2>3. SentTypes'
    BY <1>4, <1>a DEF Udp, Fault, Now, Transmissions, StandTypes, SentTypes
  <2>4. QED
    BY <2>1, <2>2, <2>3
<1>5. ASSUME NEW m \in Datagrams, Kill(m) PROVE StandTypes' /\ ReportTypes' /\ SentTypes'
  <2>1. StandTypes'
    BY <1>5, <1>a DEF Kill, Move, StandTypes
  <2>2. ReportTypes'
    BY <1>5, <1>a DEF Kill, ReportTypes
  <2>3. SentTypes'
    BY <1>5, <1>a DEF Kill, Fault, SentTypes
  <2>4. QED
    BY <2>1, <2>2, <2>3
<1>6. ASSUME NEW r \in Recorders, RecorderStep(r) \/ Cleanup(r) \/ Signal(r) \/ Crash(r)
      PROVE  UNCHANGED sender /\ (faults' = faults \/ Fault)
  BY <1>6 DEF RecorderStep, Bind, Accept, Read, Close, Leave, Cleanup, Signal, Crash
<1>7. ASSUME UNCHANGED sender, faults' = faults \/ Fault PROVE StandTypes' /\ ReportTypes' /\ SentTypes'
  <2>1. StandTypes'
    BY <1>7, <1>a DEF sender, StandTypes
  <2>2. ReportTypes'
    BY <1>7, <1>a DEF sender, ReportTypes
  <2>3. SentTypes'
    BY <1>7, <1>a DEF sender, Fault, SentTypes
  <2>4. QED
    BY <2>1, <2>2, <2>3
<1>8. CASE UNCHANGED vars
  <2>1. UNCHANGED sender /\ faults' = faults
    BY <1>8 DEF vars
  <2>2. QED
    BY <2>1, <1>7, <1>b DEF SenderTypes
<1>9. QED
  BY <1>1, <1>2, <1>3, <1>w, <1>p, <1>4, <1>5, <1>6, <1>7, <1>8, <1>b DEF Next, SenderStep, SenderTypes

LEMMA RecorderTypesStep == SenderTypes /\ RecorderTypes /\ [Next]_vars => RecorderTypes'
<1> SUFFICES ASSUME SenderTypes, RecorderTypes, [Next]_vars PROVE RecorderTypes'
  OBVIOUS
<1>a. ConnTypes /\ ServerTypes /\ QueueTypes
  BY DEF RecorderTypes
<1>1. ASSUME NEW m \in Datagrams, SenderStep(m) \/ Kill(m) PROVE RecorderTypes'
  <2>1. Now(m) \in Transmissions
    BY DEF SenderTypes, StandTypes, Now, Transmissions
  <2>2. CASE Connect(m)
    <3>1. CASE path # None /\ at[path] \in Listening
      <4>1. path \in Recorders /\ backlog[path] \in Seq(Transmissions)
        BY <3>1, <1>a DEF ServerTypes, QueueTypes
      <4>2. backlog' = [backlog EXCEPT ![path] = Append(@, Now(m))]
            /\ conn' = [conn EXCEPT ![Now(m)] = path]
        BY <2>2, <3>1 DEF Connect, Listening
      <4>3. ConnTypes' /\ QueueTypes'
        BY <4>1, <4>2, <2>1, <2>2, <1>a DEF Connect, ConnTypes, QueueTypes
      <4>4. ServerTypes'
        BY <2>2, <1>a DEF Connect, ServerTypes
      <4>5. QED
        BY <4>3, <4>4 DEF RecorderTypes
    <3>2. CASE ~(path # None /\ at[path] \in Listening)
      BY <2>2, <3>2, <1>a DEF Connect, Listening, RecorderTypes, ConnTypes, ServerTypes, QueueTypes
    <3>3. QED
      BY <3>1, <3>2
  <2>3. CASE Write(m) \/ WritePart(m) \/ WriteTimeout(m)
    BY <2>1, <2>3, <1>a DEF Write, WritePart, WriteTimeout, recorder, RecorderTypes, ConnTypes, ServerTypes, QueueTypes
  <2>4. CASE Validate(m) \/ Udp(m) \/ Kill(m)
    BY <2>4, <1>a DEF Validate, Udp, Kill, recorder, RecorderTypes, ConnTypes, ServerTypes, QueueTypes
  <2>5. QED
    BY <1>1, <2>2, <2>3, <2>4 DEF SenderStep
<1>2. ASSUME NEW r \in Recorders, Cleanup(r) \/ Bind(r) \/ Signal(r) \/ Accept(r) \/ Read(r)
      PROVE  ConnTypes' /\ ServerTypes'
  BY <1>2, <1>a DEF Cleanup, Bind, Signal, Accept, Read, Go, Listening, ConnTypes, ServerTypes
<1>3. ASSUME NEW r \in Recorders, Close(r) \/ Leave(r) \/ Crash(r) PROVE ConnTypes' /\ ServerTypes'
  <2>1. PICK set : Shut(set)
    BY <1>3 DEF Close, Leave, Crash
  <2>2. ConnTypes'
    BY <1>3, <2>1, <1>a DEF Close, Leave, Crash, Shut, ConnTypes
  <2>3. ServerTypes'
    BY <1>3, <1>a DEF Close, Leave, Crash, Go, Listening, ServerTypes
  <2>4. QED
    BY <2>2, <2>3
<1>4. ASSUME NEW r \in Recorders, Cleanup(r) \/ Bind(r) \/ Signal(r) \/ Close(r) \/ Leave(r) \/ Crash(r)
      PROVE  QueueTypes'
  <2>1. /\ log' = log
        /\ backlog' = backlog \/ backlog' = [backlog EXCEPT ![r] = <<>>]
        /\ serving' = serving \/ serving' = [serving EXCEPT ![r] = None]
    BY <1>4 DEF Cleanup, Bind, Signal, Close, Leave, Crash
  <2>2. backlog' \in [Recorders -> Seq(Transmissions)]
    <3>1. <<>> \in Seq(Transmissions)
      OBVIOUS
    <3>2. QED
      BY <2>1, <3>1, <1>a DEF QueueTypes
  <2>3. \A q \in Recorders : at'[q] = "read" => at[q] = "read" /\ serving'[q] = serving[q]
    BY <1>4, <1>a DEF Cleanup, Bind, Signal, Close, Leave, Crash, Go, ServerTypes, QueueTypes
  <2>4. serving' \in [Recorders -> Transmissions \cup {None}]
    BY <2>1, <1>a DEF QueueTypes
  <2>5. \A q \in Recorders : at'[q] = "read" => serving'[q] \in Transmissions
    BY <2>3, <1>a DEF QueueTypes
  <2>6. QED
    BY <2>1, <2>2, <2>4, <2>5, <1>a DEF QueueTypes
<1>5. ASSUME NEW r \in Recorders, Accept(r) PROVE QueueTypes'
  <2>1. /\ backlog[r] \in Seq(Transmissions) /\ backlog[r] # <<>> /\ UNCHANGED log
        /\ backlog' = [backlog EXCEPT ![r] = Tail(@)]
        /\ serving' = [serving EXCEPT ![r] = Head(backlog[r])]
        /\ at' = [at EXCEPT ![r] = "read"]
    BY <1>5, <1>a DEF Accept, Go, QueueTypes
  <2>2. Head(backlog[r]) \in Transmissions /\ Tail(backlog[r]) \in Seq(Transmissions)
    BY <2>1
  <2>3. /\ backlog' \in [Recorders -> Seq(Transmissions)]
        /\ serving' \in [Recorders -> Transmissions \cup {None}]
    BY <2>1, <2>2, <1>a DEF QueueTypes
  <2>4. \A q \in Recorders : at'[q] = "read" => serving'[q] \in Transmissions
    BY <2>1, <2>2, <1>a DEF QueueTypes, ServerTypes
  <2>5. QED
    BY <2>1, <2>3, <2>4, <1>a DEF QueueTypes
<1>6. ASSUME NEW r \in Recorders, Read(r) PROVE QueueTypes'
  <2>1. log' = log \/ (log' = Append(log, serving[r]) /\ at[r] = "read")
    BY <1>6 DEF Read, Go
  <2>2. log \in Seq(Transmissions) /\ (at[r] = "read" => serving[r] \in Transmissions)
    BY <1>a DEF QueueTypes
  <2>3. log' \in Seq(Transmissions)
    BY <2>1, <2>2
  <2>4. \A q \in Recorders : at'[q] = "read" => serving'[q] \in Transmissions
    BY <1>6, <1>a DEF Read, Go, QueueTypes, ServerTypes
  <2>5. UNCHANGED <<backlog, serving>>
    BY <1>6 DEF Read
  <2>6. QED
    BY <2>3, <2>4, <2>5, <1>a DEF QueueTypes
<1>7. CASE UNCHANGED vars
  BY <1>7, <1>a DEF vars, recorder, RecorderTypes, ConnTypes, ServerTypes, QueueTypes
<1>8. QED
  BY <1>1, <1>2, <1>3, <1>4, <1>5, <1>6, <1>7 DEF Next, RecorderStep, RecorderTypes

-----------------------------------------------------------------------------
(* Nobody is silent *)

LEMMA InitHeard == Init => HeardInv
  BY DEF Init, HeardInv, HeardAt

\* What was sent stays sent, and a step of another sender leaves this one where it is.
LEMMA Untouched ==
  ASSUME SenderTypes, [Next]_vars
  PROVE  /\ live \subseteq live' /\ accepted \subseteq accepted' /\ faults' >= faults
         /\ kind' = kind
         /\ \A m \in Datagrams : ~(SenderStep(m) \/ Kill(m)) =>
              /\ pc'[m] = pc[m] /\ part'[m] = part[m] /\ unix'[m] = unix[m]
              /\ answer'[m] = answer[m]
<1>1. ASSUME NEW u \in Datagrams, SenderStep(u) \/ Kill(u), UNCHANGED kind
      PROVE  /\ live \subseteq live' /\ accepted \subseteq accepted' /\ faults' >= faults
             /\ \A m \in Datagrams \ {u} :
                  /\ pc'[m] = pc[m] /\ part'[m] = part[m] /\ unix'[m] = unix[m]
                  /\ answer'[m] = answer[m]
  <2>1. CASE Validate(u)
    BY <2>1 DEF Validate, SenderTypes, StandTypes, ReportTypes, SentTypes, Move
  <2>2. CASE Connect(u)
    BY <2>2 DEF Connect, SenderTypes, StandTypes, ReportTypes, SentTypes, Move, Report
  <2>3. CASE Write(u) \/ WriteTimeout(u)
    BY <2>3 DEF Write, WriteTimeout, SenderTypes, StandTypes, ReportTypes, SentTypes, Move, Report
  <2>7. CASE WritePart(u)
    BY <2>7 DEF WritePart, sender, SenderTypes, StandTypes, ReportTypes, SentTypes
  <2>4. CASE Udp(u)
    BY <2>4 DEF Udp, SenderTypes, StandTypes, ReportTypes, SentTypes, Move, Fault
  <2>5. CASE Kill(u)
    BY <2>5 DEF Kill, SenderTypes, StandTypes, ReportTypes, SentTypes, Move, Fault
  <2>6. QED
    BY <1>1, <2>1, <2>2, <2>3, <2>4, <2>5, <2>7 DEF SenderStep
<1>2. ASSUME NEW r \in Recorders, RecorderStep(r) \/ Cleanup(r) \/ Signal(r) \/ Crash(r)
      PROVE  UNCHANGED sender /\ faults' >= faults
  BY <1>2 DEF RecorderStep, Bind, Accept, Read, Close, Leave, Cleanup, Signal, Crash, SenderTypes, SentTypes, Fault
<1>3. CASE UNCHANGED vars
  BY <1>3 DEF vars, sender, SenderTypes, KindTypes, StandTypes, ReportTypes, SentTypes
<1>4. CASE Next
  <2>1. UNCHANGED kind
    BY <1>4 DEF Next
  <2>2. CASE \E u \in Datagrams : SenderStep(u) \/ Kill(u)
    BY <2>1, <2>2, <1>1
  <2>3. CASE \E r \in Recorders : RecorderStep(r) \/ Cleanup(r) \/ Signal(r) \/ Crash(r)
    BY <2>1, <2>3, <1>2 DEF sender
  <2>4. QED
    BY <1>4, <2>2, <2>3 DEF Next
<1>5. QED
  BY <1>3, <1>4

LEMMA HeardInvStep == SenderTypes /\ HeardInv /\ [Next]_vars => HeardInv'
<1> SUFFICES ASSUME SenderTypes, HeardInv, [Next]_vars, NEW m \in Datagrams PROVE HeardAt(m)'
  BY DEF HeardInv
<1>a. /\ live \subseteq live' /\ accepted \subseteq accepted' /\ faults' >= faults /\ kind' = kind
      /\ faults \in Nat /\ faults' \in Nat
  BY Untouched, SenderTypesStep DEF SenderTypes, KindTypes, StandTypes, ReportTypes, SentTypes
<1>b. HeardAt(m) /\ part[m] \in Parts /\ unix[m] \in BOOLEAN
  BY DEF HeardInv, SenderTypes, KindTypes, StandTypes, ReportTypes, SentTypes
<1>1. CASE Validate(m)
  <2>1. part[m] = "self" /\ pc'[m] \in {"connect", "done"} /\ part'[m] \in {"self", "malformed"}
    BY <1>1, <1>b DEF Validate, Move, HeardAt, SenderTypes, KindTypes, StandTypes, ReportTypes, SentTypes
  <2>2. pc'[m] = "done" => kind[m].caller = "validated" /\ answer'[m] = FALSE
    BY <1>1, <1>b DEF Validate, Move, SenderTypes, KindTypes, StandTypes, ReportTypes, SentTypes
  <2>3. QED
    BY <2>1, <2>2, <1>a DEF HeardAt
<1>2. CASE Connect(m)
  <2>1. /\ pc'[m] \in {"write", "udp"} /\ part'[m] = part[m] /\ pc'[m] # "done"
        /\ pc'[m] = "udp" /\ part[m] # "transport" => ~unix'[m]
    BY <1>2 DEF Connect, Move, Report, SenderTypes, KindTypes, StandTypes, ReportTypes, SentTypes
  <2>2. QED
    BY <2>1, <1>a, <1>b DEF HeardAt
<1>3. CASE Write(m)
  <2>1. /\ pc'[m] = "udp" /\ part'[m] = part[m]
        /\ part[m] # "transport" /\ unix'[m] => Now(m) \in accepted'
    BY <1>3 DEF Write, Move, Report, SenderTypes, KindTypes, StandTypes, ReportTypes, SentTypes
  <2>2. QED
    BY <2>1, <1>a, <1>b DEF HeardAt, Now
<1>w. CASE WriteTimeout(m)
  <2>1. /\ pc'[m] = "udp" /\ part'[m] = part[m]
        /\ part[m] # "transport" => ~unix'[m]
    BY <1>w DEF WriteTimeout, Move, Report, SenderTypes, KindTypes, StandTypes, ReportTypes, SentTypes
  <2>2. QED
    BY <2>1, <1>a, <1>b DEF HeardAt
<1>p. CASE WritePart(m)
  BY <1>p, <1>b DEF WritePart, sender, HeardAt, Now
<1>4. CASE Udp(m)
  <2>1. PICK ok \in BOOLEAN :
          /\ ok => faults' = faults
          /\ ~ok => ~Large(m) /\ faults' = faults + 1
          /\ ok /\ ~Large(m) => Now(m) \in live'
          /\ IF part[m] # "transport" /\ (Large(m) \/ ~(unix[m] \/ (ok /\ ~Large(m))))
             THEN pc'[m] = "connect" /\ part'[m] = "transport"
             ELSE pc'[m] = "done" /\ part'[m] = part[m]
          /\ accepted' = accepted
    BY <1>4 DEF Udp, Move, Fault, SenderTypes, KindTypes, StandTypes, ReportTypes, SentTypes
  <2>2. pc[m] = "udp" /\ (Large(m) <=> part[m] = "self" /\ kind[m].big)
    BY <1>4 DEF Udp, Move, Large
  <2>3. CASE pc'[m] = "connect"
    <3>1. part'[m] = "transport" /\ (Large(m) \/ ~ok)
      BY <2>1, <2>3
    <3>2. ~kind[m].big => faults' > 0
      BY <2>1, <2>2, <3>1, <1>a
    <3>3. QED
      BY <2>3, <3>1, <3>2, <1>a DEF HeardAt
  <2>4. CASE pc'[m] = "done"
    <3>1. part'[m] = part[m] /\ ~Large(m)
      BY <2>1, <2>2, <2>4
    <3>2. CASE ok
      <4>1. <<m, part[m]>> \in live'
        BY <2>1, <3>1, <3>2 DEF Now
      <4>2. part[m] = "transport" /\ ~kind[m].big => faults' > 0
        BY <1>a, <1>b DEF HeardAt
      <4>3. QED
        BY <4>1, <4>2, <3>1, <2>4, <1>a, <1>b DEF HeardAt
    <3>3. CASE ~ok
      <4>1. faults' = faults + 1 /\ accepted' = accepted
        BY <2>1, <3>3
      <4>2. CASE part[m] = "transport"
        <5>1. faults' <= 1 => kind[m].big
          BY <4>1, <4>2, <1>a, <1>b DEF HeardAt
        <5>2. QED
          BY <5>1, <4>1, <4>2, <3>1, <2>4, <1>a DEF HeardAt
      <4>3. CASE part[m] # "transport"
        <5>1. unix[m]
          BY <2>1, <2>4, <3>1, <3>3, <4>3
        <5>2. <<m, part[m]>> \in accepted'
          BY <5>1, <4>1, <4>3, <2>2, <1>b DEF HeardAt, Now
        <5>3. QED
          BY <5>2, <4>1, <4>3, <3>1, <2>4, <1>a, <1>b DEF HeardAt
      <4>4. QED
        BY <4>2, <4>3
    <3>4. QED
      BY <3>2, <3>3
  <2>5. QED
    BY <2>1, <2>3, <2>4
<1>5. CASE Kill(m)
  <2>1. pc'[m] = "killed" /\ part'[m] = part[m] /\ (part[m] = "transport" /\ ~kind[m].big => faults > 0)
    BY <1>5, <1>b DEF HeardAt, Kill, Move, SenderTypes, KindTypes, StandTypes, ReportTypes, SentTypes
  <2>2. QED
    BY <2>1, <1>a, <1>b DEF HeardAt
<1>6. CASE ~(SenderStep(m) \/ Kill(m))
  <2>1. pc'[m] = pc[m] /\ part'[m] = part[m] /\ unix'[m] = unix[m] /\ answer'[m] = answer[m]
    BY <1>6, Untouched
  <2>2. /\ pc'[m] = "start" => part'[m] = "self"
        /\ pc'[m] = "udp" /\ unix'[m] /\ part'[m] # "transport" => Now(m)' \in accepted'
        /\ part'[m] = "transport" /\ ~kind'[m].big => faults' > 0
    BY <2>1, <1>a, <1>b DEF HeardAt, Now
  <2>3. ASSUME pc[m] = "done", ~(kind[m].caller = "validated" /\ answer[m] = FALSE)
        PROVE  /\ faults' = 0 => \E p \in Parts : <<m, p>> \in live'
               /\ faults' <= 1 => (\E p \in Parts : <<m, p>> \in live' \cup accepted') \/ kind[m].big
    <3>1. faults' = 0 => faults = 0
      BY <1>a
    <3>2. faults' <= 1 => faults <= 1
      BY <1>a
    <3>3. QED
      BY <2>3, <3>1, <3>2, <1>a, <1>b DEF HeardAt
  <2>4. QED
    BY <2>1, <2>2, <2>3, <1>a DEF HeardAt
<1>7. QED
  BY <1>1, <1>2, <1>3, <1>w, <1>p, <1>4, <1>5, <1>6 DEF SenderStep

\* Whatever is done to recorders and other senders: who is through with a datagram
\* that the schema did not simply refuse has told somebody of it.
THEOREM NobodyIsSilent == Spec => []NeverSilent
<1>1. Init => SenderTypes /\ HeardInv
  BY InitTypes, InitHeard
<1>2. SenderTypes /\ HeardInv /\ [Next]_vars => (SenderTypes /\ HeardInv)'
  BY SenderTypesStep, HeardInvStep
<1>3. HeardInv => NeverSilent
  BY DEF HeardInv, HeardAt, NeverSilent
<1>4. QED
  BY <1>1, <1>2, <1>3, PTL DEF Spec

-----------------------------------------------------------------------------
(* A recorder that runs can be reached *)

LEMMA ReachableStep == RecorderTypes /\ RunningIsReachable /\ [Next]_vars => RunningIsReachable'
<1> SUFFICES ASSUME RecorderTypes, RunningIsReachable, [Next]_vars PROVE RunningIsReachable'
  OBVIOUS
<1>a. ServerTypes /\ None \notin Recorders
  BY NoneAssumption DEF RecorderTypes
<1>1. ASSUME NEW r \in Recorders, Cleanup(r) PROVE RunningIsReachable'
  BY <1>1, <1>a DEF Cleanup, Go, Running, RunningIsReachable, ServerTypes, Listening
<1>2. ASSUME NEW r \in Recorders, Bind(r) PROVE RunningIsReachable'
  BY <1>2, <1>a DEF Bind, Go, history, RunningIsReachable, ServerTypes, Listening
<1>3. ASSUME NEW r \in Recorders, Accept(r) \/ Read(r) \/ Close(r) PROVE RunningIsReachable'
  BY <1>3, <1>a DEF Accept, Read, Close, Go, history, RunningIsReachable, ServerTypes, Listening
<1>4. ASSUME NEW r \in Recorders, Leave(r) \/ Crash(r) PROVE RunningIsReachable'
  BY <1>4, <1>a DEF Leave, Crash, Go, Running, RunningIsReachable, ServerTypes, Listening
<1>5. CASE UNCHANGED <<at, path, disturbed>>
  BY <1>5 DEF RunningIsReachable
<1>6. ASSUME NEW r \in Recorders, Signal(r) PROVE UNCHANGED <<at, path, disturbed>>
  BY <1>6 DEF Signal, history
<1>7. ASSUME NEW m \in Datagrams, SenderStep(m) \/ Kill(m) PROVE UNCHANGED <<at, path, disturbed>>
  BY <1>7 DEF SenderStep, Validate, Connect, WritePart, Write, WriteTimeout, Udp, Kill, recorder, history
<1>8. QED
  BY <1>1, <1>2, <1>3, <1>4, <1>5, <1>6, <1>7 DEF Next, RecorderStep, vars, recorder, history

\* The name a recorder took is its own until another one starts or ends, whatever was
\* left behind by those that were killed, before it or beside it.
THEOREM StaysReachable == Spec => []RunningIsReachable
<1> DEFINE IInv == SenderTypes /\ RecorderTypes /\ RunningIsReachable
<1>1. Init => IInv
  BY InitTypes DEF Init, RunningIsReachable
<1>2. IInv /\ [Next]_vars => IInv'
  BY SenderTypesStep, RecorderTypesStep, ReachableStep
<1>3. QED
  BY <1>1, <1>2, PTL DEF Spec

-----------------------------------------------------------------------------
(* The archive is in order *)

\* A sender never takes back a connection it has opened, nor opens one twice for a part.
LEMMA TriedGrows ==
  ASSUME SenderTypes, HeardInv, [Next]_vars
  PROVE  \A m \in Datagrams : Tried(m) \subseteq Tried(m)'
<1> SUFFICES ASSUME NEW m \in Datagrams PROVE Tried(m) \subseteq Tried(m)'
  OBVIOUS
<1>a. /\ pc \in [Datagrams -> {"start", "connect", "write", "udp", "done", "killed"}]
      /\ part \in [Datagrams -> Parts]
      /\ pc[m] = "start" => part[m] = "self"
  BY DEF SenderTypes, StandTypes, HeardInv, HeardAt
<1>1. CASE Validate(m)
  BY <1>1, <1>a DEF Validate, Move, Tried
<1>2. CASE Connect(m) \/ Write(m) \/ WriteTimeout(m) \/ Kill(m)
  BY <1>2, <1>a DEF Connect, Write, WriteTimeout, Kill, Move, Tried
<1>p. CASE WritePart(m)
  BY <1>p DEF WritePart, sender, Tried
<1>3. CASE Udp(m)
  <2>1. \/ pc'[m] = "connect" /\ part'[m] = "transport" /\ part[m] # "transport"
        \/ pc'[m] = "done" /\ part'[m] = part[m]
    BY <1>3, <1>a DEF Udp, Move
  <2>2. QED
    BY <2>1, <1>a DEF Tried, Parts
<1>4. CASE ~(SenderStep(m) \/ Kill(m))
  BY <1>4, Untouched DEF Tried
<1>5. QED
  BY <1>1, <1>2, <1>p, <1>3, <1>4 DEF SenderStep

LEMMA OverlapStays == overlap /\ [Next]_vars => overlap'
BY DEF Next, vars, history, SenderStep, Validate, Connect, WritePart, Write, WriteTimeout, Udp, Kill,
       RecorderStep, Bind, Accept, Read, Close, Leave, Cleanup, Signal, Crash

LEMMA PrecedeStays ==
  ASSUME [Next]_vars, NEW t, NEW u, MayPrecede(t, u)
  PROVE  MayPrecede(t, u)'
  BY OverlapStays DEF MayPrecede

LEMMA AloneStep == AloneInv /\ RecorderTypes /\ [Next]_vars => AloneInv'
<1> SUFFICES ASSUME AloneInv, RecorderTypes, [Next]_vars, ~overlap' PROVE \A q, r \in Running' : q = r
  BY DEF AloneInv
<1>a. ServerTypes /\ ~overlap
  BY OverlapStays DEF RecorderTypes
<1>1. ASSUME NEW r \in Recorders, Cleanup(r) PROVE \A p, q \in Running' : p = q
  BY <1>1, <1>a DEF Cleanup, Go, Running, ServerTypes
<1>2. ASSUME NEW r \in Recorders, Bind(r) \/ Accept(r) \/ Read(r) \/ Close(r) \/ Leave(r) \/ Crash(r)
      PROVE  Running' \subseteq Running
  BY <1>2, <1>a DEF Bind, Accept, Read, Close, Leave, Crash, Go, Running, ServerTypes
<1>3. ASSUME NEW r \in Recorders, Signal(r) PROVE UNCHANGED at
  BY <1>3 DEF Signal
<1>4. ASSUME NEW m \in Datagrams, SenderStep(m) \/ Kill(m) PROVE UNCHANGED at
  BY <1>4 DEF SenderStep, Validate, Connect, WritePart, Write, WriteTimeout, Udp, Kill, recorder
<1>5. CASE UNCHANGED at
  BY <1>5, <1>a DEF AloneInv, Running
<1>6. CASE Running' \subseteq Running
  BY <1>6, <1>a DEF AloneInv
<1>7. QED
  BY <1>1, <1>2, <1>3, <1>4, <1>5, <1>6 DEF Next, RecorderStep, vars, recorder

\* What is opened stays opened, so that a line whose entries do not change stays good.
LEMMA OpenedStays ==
  ASSUME SenderTypes, HeardInv, [Next]_vars, NEW t \in Transmissions, Opened(t)
  PROVE  Opened(t)'
  BY TriedGrows DEF Opened, Transmissions

LEMMA LineStays ==
  ASSUME SenderTypes, HeardInv, RecorderTypes, [Next]_vars, UNCHANGED log, NEW r \in Recorders, LineOf(r),
         at'[r] = at[r], backlog'[r] = backlog[r], serving'[r] = serving[r]
  PROVE  LineOf(r)'
<1>1. /\ \A i \in DOMAIN backlog[r] : backlog[r][i] \in Transmissions
  BY DEF RecorderTypes, QueueTypes
<1>2. \A t \in Transmissions : AfterLog(t) => AfterLog(t)'
  BY OpenedStays, PrecedeStays DEF AfterLog
<1>3. QED
  BY <1>1, <1>2, PrecedeStays DEF LineOf

LEMMA LogStays ==
  ASSUME SenderTypes, HeardInv, RecorderTypes, LineInv, [Next]_vars, UNCHANGED log
  PROVE  /\ \A i \in DOMAIN log' : Opened(log[i])'
         /\ \A i, j \in DOMAIN log' : i < j => MayPrecede(log[i], log[j])'
  BY OpenedStays, PrecedeStays DEF LineInv, RecorderTypes, QueueTypes

\* The connection a sender opens comes after all that are in the line.
LEMMA LineAppend ==
  ASSUME SenderTypes, HeardInv, RecorderTypes, LineInv, [Next]_vars,
         NEW m \in Datagrams, Connect(m), NEW t \in Transmissions, t = Now(m),
         NEW r \in Recorders, at[r] \in Listening, backlog' = [backlog EXCEPT ![r] = Append(@, t)]
  PROVE  LineOf(r)'
<1>a. /\ t[1] = m /\ t[2] = part[m] /\ part[m] \in Parts /\ pc[m] = "connect"
      /\ part'[m] = part[m] /\ pc'[m] \in {"write", "udp"} /\ UNCHANGED <<log, at, serving, overlap>>
  BY DEF Connect, Move, Now, history, SenderTypes, StandTypes
<1>b. \A u \in Transmissions : Opened(u) => MayPrecede(u, t)
  BY <1>a DEF Opened, MayPrecede, Tried, Parts
<1>c. Opened(t)'
  BY <1>a DEF Opened, Tried
<1>d. /\ log \in Seq(Transmissions) /\ backlog[r] \in Seq(Transmissions) /\ LineOf(r)
      /\ backlog'[r] = Append(backlog[r], t)
  BY DEF RecorderTypes, QueueTypes, LineInv
<1>e. /\ AfterLog(t)'
      /\ \A u \in Transmissions : AfterLog(u) => AfterLog(u)'
  BY <1>a, <1>b, <1>c, <1>d, OpenedStays DEF AfterLog, LineInv, MayPrecede
<1>1. \A i \in DOMAIN backlog[r] : backlog[r][i] \in Transmissions /\ AfterLog(backlog[r][i])
  BY <1>d DEF LineOf
<1>2. /\ Len(backlog'[r]) = Len(backlog[r]) + 1 /\ backlog'[r][Len(backlog[r]) + 1] = t
      /\ \A i \in DOMAIN backlog[r] : backlog'[r][i] = backlog[r][i]
      /\ \A i \in DOMAIN backlog'[r] : i \in DOMAIN backlog[r] \/ i = Len(backlog[r]) + 1
  BY <1>d
<1>3. \A i \in DOMAIN backlog'[r] : AfterLog(backlog[r][i])'
  BY <1>1, <1>2, <1>e
<1>4. \A i, j \in DOMAIN backlog'[r] : i < j => MayPrecede(backlog'[r][i], backlog'[r][j])
  <2> SUFFICES ASSUME NEW i \in DOMAIN backlog'[r], NEW j \in DOMAIN backlog'[r], i < j
               PROVE  MayPrecede(backlog'[r][i], backlog'[r][j])
    OBVIOUS
  <2>1. i \in DOMAIN backlog[r]
    BY <1>2, <1>d
  <2>2. CASE j \in DOMAIN backlog[r]
    BY <2>1, <2>2, <1>2, <1>d DEF LineOf
  <2>3. CASE j = Len(backlog[r]) + 1
    BY <2>1, <2>3, <1>1, <1>2, <1>b DEF AfterLog
  <2>4. QED
    BY <2>2, <2>3, <1>2
<1>5. ASSUME at[r] = "read"
      PROVE  /\ serving[r] \in Transmissions /\ AfterLog(serving[r])'
             /\ \A i \in DOMAIN backlog'[r] : MayPrecede(serving[r], backlog'[r][i])
  BY <1>5, <1>2, <1>a, <1>b, <1>d, <1>e DEF LineOf, AfterLog
<1>6. QED
  BY <1>3, <1>4, <1>5, <1>a DEF LineOf, MayPrecede, Listening

LEMMA LineConnect ==
  ASSUME SenderTypes, HeardInv, RecorderTypes, LineInv, [Next]_vars, NEW m \in Datagrams, Connect(m)
  PROVE  LineInv'
<1>a. UNCHANGED <<log, at, serving>> /\ backlog \in [Recorders -> Seq(Transmissions)]
  BY DEF Connect, Move, RecorderTypes, QueueTypes
<1>b. /\ \A i \in DOMAIN log' : Opened(log[i])'
      /\ \A i, j \in DOMAIN log' : i < j => MayPrecede(log[i], log[j])'
  BY <1>a, LogStays
<1>1. CASE path # None /\ at[path] \in Listening
  <2>1. PICK r \in Recorders, t \in Transmissions :
          at[r] \in Listening /\ t = Now(m) /\ backlog' = [backlog EXCEPT ![r] = Append(@, t)]
    BY <1>1 DEF Connect, Now, RecorderTypes, ServerTypes, SenderTypes, StandTypes, Transmissions, Listening
  <2>2. LineOf(r)'
    BY <2>1, LineAppend
  <2>3. \A q \in Recorders \ {r} : LineOf(q)'
    BY <2>1, <1>a, LineStays DEF LineInv
  <2>4. QED
    BY <2>2, <2>3, <1>b DEF LineInv
<1>2. CASE ~(path # None /\ at[path] \in Listening)
  <2>1. UNCHANGED backlog
    BY <1>2 DEF Connect, Listening
  <2>2. \A r \in Recorders : LineOf(r)'
    BY <2>1, <1>a, LineStays DEF LineInv
  <2>3. QED
    BY <2>2, <1>b DEF LineInv
<1>3. QED
  BY <1>1, <1>2

\* The connection that has waited longest is read next, and what is read comes after
\* all that is in the archive and before all that still waits.
LEMMA LineAccept ==
  ASSUME SenderTypes, HeardInv, RecorderTypes, LineInv, [Next]_vars, NEW r \in Recorders, Accept(r)
  PROVE  LineInv'
<1>a. /\ backlog[r] \in Seq(Transmissions) /\ backlog[r] # <<>> /\ LineOf(r) /\ UNCHANGED <<log, overlap>>
      /\ backlog'[r] = Tail(backlog[r]) /\ serving'[r] = Head(backlog[r]) /\ at'[r] = "read"
      /\ \A q \in Recorders \ {r} : /\ at'[q] = at[q] /\ backlog'[q] = backlog[q]
                                    /\ serving'[q] = serving[q]
  BY DEF Accept, Go, history, RecorderTypes, ServerTypes, QueueTypes, LineInv
<1>b. \A u \in Transmissions : AfterLog(u) => AfterLog(u)'
  BY <1>a, OpenedStays DEF AfterLog, MayPrecede
<1>c. \A i \in DOMAIN backlog[r] : \E u \in Transmissions : u = backlog[r][i] /\ AfterLog(u)'
  <2> SUFFICES ASSUME NEW i \in DOMAIN backlog[r]
               PROVE  \E u \in Transmissions : u = backlog[r][i] /\ AfterLog(u)'
    OBVIOUS
  <2>1. PICK u \in Transmissions : u = backlog[r][i] /\ AfterLog(u)
    BY <1>a DEF LineOf
  <2>2. QED
    BY <2>1, <1>b
<1>1. \A i \in DOMAIN backlog'[r] : i + 1 \in DOMAIN backlog[r] /\ backlog'[r][i] = backlog[r][i + 1]
  BY <1>a
<1>2. 1 \in DOMAIN backlog[r] /\ serving'[r] = backlog[r][1]
  BY <1>a
<1>3. LineOf(r)'
  <2>1. \A i \in DOMAIN backlog'[r] : AfterLog(backlog[r][i])'
    BY <1>1, <1>c
  <2>2. \A i, j \in DOMAIN backlog'[r] : i < j => MayPrecede(backlog'[r][i], backlog'[r][j])
    BY <1>1, <1>a DEF LineOf
  <2>3. serving'[r] \in Transmissions /\ AfterLog(serving[r])'
    BY <1>2, <1>c
  <2>4. \A i \in DOMAIN backlog'[r] : MayPrecede(serving'[r], backlog'[r][i])
    BY <1>1, <1>2, <1>a DEF LineOf
  <2>5. QED
    BY <2>1, <2>2, <2>3, <2>4, <1>a DEF LineOf, MayPrecede
<1>4. \A q \in Recorders \ {r} : LineOf(q)'
  BY <1>a, LineStays DEF LineInv
<1>5. QED
  BY <1>3, <1>4, <1>a, LogStays DEF LineInv

LEMMA LineRead ==
  ASSUME SenderTypes, HeardInv, RecorderTypes, AloneInv, CrossInv, LineInv, [Next]_vars,
         NEW r \in Recorders, Read(r)
  PROVE  LineInv'
<1> DEFINE t == serving[r]
<1>a. /\ at[r] = "read" /\ at'[r] = "close" /\ backlog' = backlog /\ overlap' = overlap /\ LineOf(r)
      /\ t \in Transmissions /\ AfterLog(t)
      /\ log' = log \/ log' = Append(log, t)
      /\ log \in Seq(Transmissions) /\ backlog \in [Recorders -> Seq(Transmissions)]
  BY DEF Read, Go, RecorderTypes, ServerTypes, QueueTypes, LineInv, LineOf
<1>b. /\ \A i \in DOMAIN backlog[r] : /\ backlog[r][i] \in Transmissions /\ AfterLog(backlog[r][i])
                                      /\ MayPrecede(t, backlog[r][i])
      /\ \A i, j \in DOMAIN backlog[r] : i < j => MayPrecede(backlog[r][i], backlog[r][j])
  BY <1>a DEF LineOf
<1>c. /\ \A i \in DOMAIN log : log[i] \in Transmissions /\ Opened(log[i]) /\ MayPrecede(log[i], t)
      /\ \A i, j \in DOMAIN log : i < j => MayPrecede(log[i], log[j])
  BY <1>a DEF LineInv, AfterLog
<1>d. \A i \in DOMAIN log' :
        \/ i \in DOMAIN log /\ log'[i] = log[i]
        \/ i \notin DOMAIN log /\ log'[i] = t /\ i = Len(log) + 1
  BY <1>a
<1>1. \A i \in DOMAIN log' : Opened(log[i])'
  <2> SUFFICES ASSUME NEW i \in DOMAIN log' PROVE Opened(log[i])'
    OBVIOUS
  <2>1. PICK u \in Transmissions : u = log'[i] /\ Opened(u)
    BY <1>a, <1>c, <1>d DEF AfterLog
  <2>2. QED
    BY <2>1, OpenedStays
<1>2. \A i, j \in DOMAIN log' : i < j => MayPrecede(log'[i], log'[j])
  <2> SUFFICES ASSUME NEW i \in DOMAIN log', NEW j \in DOMAIN log', i < j
               PROVE  MayPrecede(log'[i], log'[j])
    OBVIOUS
  <2>1. i \in DOMAIN log
    BY <1>a, <1>d
  <2>2. QED
    BY <2>1, <1>c, <1>d
<1>3. LineOf(r)'
  <2>1. \A i \in DOMAIN backlog'[r] : AfterLog(backlog[r][i])'
    <3> SUFFICES ASSUME NEW i \in DOMAIN backlog[r] PROVE AfterLog(backlog[r][i])'
      BY <1>a
    <3>1. PICK u \in Transmissions : u = backlog[r][i] /\ Opened(u) /\ MayPrecede(t, u)
                                     /\ \A k \in DOMAIN log : MayPrecede(log[k], u)
      BY <1>b DEF AfterLog
    <3>2. Opened(u)'
      BY <3>1, OpenedStays
    <3>3. \A k \in DOMAIN log' : MayPrecede(log'[k], u)
      BY <3>1, <1>d
    <3>4. QED
      BY <3>1, <3>2, <3>3, <1>a DEF AfterLog, MayPrecede
  <2>2. QED
    BY <2>1, <1>a, <1>b DEF LineOf, MayPrecede
<1>4. ASSUME NEW q \in Recorders \ {r} PROVE LineOf(q)'
  <2>a. at'[q] = at[q] /\ backlog' = backlog /\ serving' = serving /\ LineOf(q)
    BY DEF Read, Go, RecorderTypes, ServerTypes, LineInv
  <2>b. t \in Pending(r) /\ Pending(q) \cap Pending(r) = {}
    BY <1>a DEF Pending, CrossInv
  <2>c. ASSUME NEW u \in Pending(q), u \in Transmissions, AfterLog(u), overlap PROVE AfterLog(u)'
    <3>1. u # t
      BY <2>b
    <3>p. PICK m \in Datagrams, o \in Parts, n \in Datagrams, p \in Parts : t = <<m, o>> /\ u = <<n, p>>
      BY <1>a, <2>c DEF Transmissions
    <3>q. t[1] = m /\ t[2] = o /\ u[1] = n /\ u[2] = p
      BY <3>p
    <3>2. MayPrecede(t, u)
      BY <2>c, <3>1, <3>p, <3>q DEF MayPrecede
    <3>3. \A k \in DOMAIN log' : MayPrecede(log'[k], u)
      BY <3>2, <1>d, <2>c DEF AfterLog
    <3>4. Opened(u)'
      BY <2>c, OpenedStays DEF AfterLog
    <3>5. QED
      BY <3>3, <3>4, <1>a DEF AfterLog, MayPrecede
  <2>d. backlog[q] # <<>> \/ at[q] = "read" => overlap
    <3>1. at[q] = "off" => backlog[q] = <<>>
      BY <2>a DEF LineOf
    <3>2. r \in Running
      BY <1>a DEF Running
    <3>3. QED
      BY <3>1, <3>2 DEF AloneInv, Running
  <2>1. \A i \in DOMAIN backlog[q] : AfterLog(backlog[q][i])'
    <3> SUFFICES ASSUME NEW i \in DOMAIN backlog[q] PROVE AfterLog(backlog[q][i])'
      OBVIOUS
    <3>1. PICK u \in Transmissions : u = backlog[q][i] /\ AfterLog(u) /\ u \in Pending(q)
      BY <1>a, <2>a DEF LineOf, Pending
    <3>2. overlap
      BY <2>d, <1>a
    <3>3. AfterLog(u)'
      BY <3>1, <3>2, <2>c
    <3>4. QED
      BY <3>1, <3>3, <2>a DEF AfterLog
  <2>2. at[q] = "read" => AfterLog(serving[q])'
    <3> SUFFICES ASSUME at[q] = "read" PROVE AfterLog(serving[q])'
      OBVIOUS
    <3>1. PICK u \in Transmissions : u = serving[q] /\ AfterLog(u) /\ u \in Pending(q)
      BY <2>a DEF LineOf, Pending
    <3>2. AfterLog(u)'
      BY <3>1, <2>d, <2>c
    <3>3. QED
      BY <3>1, <3>2, <2>a DEF AfterLog
  <2>3. \A i, j \in DOMAIN backlog[q] : i < j => MayPrecede(backlog[q][i], backlog[q][j])'
    BY <2>a, <1>a, PrecedeStays DEF LineOf, MayPrecede
  <2>4. at[q] = "read" =>
          /\ serving[q] \in Transmissions
          /\ \A i \in DOMAIN backlog[q] : MayPrecede(serving[q], backlog[q][i])'
    BY <2>a, <1>a DEF LineOf, MayPrecede
  <2>5. QED
    BY <2>1, <2>2, <2>3, <2>4, <2>a DEF LineOf, MayPrecede
<1>5. \A i, j \in DOMAIN log' : i < j => MayPrecede(log[i], log[j])'
  BY <1>2, <1>a DEF MayPrecede
<1>6. QED
  BY <1>1, <1>3, <1>4, <1>5 DEF LineInv

LEMMA CrossStep == SenderTypes /\ RecorderTypes /\ LineInv /\ CrossInv /\ [Next]_vars => CrossInv'
<1> SUFFICES ASSUME SenderTypes, RecorderTypes, LineInv, CrossInv, [Next]_vars PROVE CrossInv'
  OBVIOUS
<1>a. /\ at \in [Recorders -> {"off", "bind"} \cup Listening]
      /\ backlog \in [Recorders -> Seq(Transmissions)]
      /\ serving \in [Recorders -> Transmissions \cup {None}]
  BY DEF RecorderTypes, ServerTypes, QueueTypes
<1>1. CASE \A r \in Recorders : Pending(r)' \subseteq Pending(r)
  BY <1>1 DEF CrossInv
<1>2. ASSUME NEW m \in Datagrams, Connect(m), path # None /\ at[path] \in Listening PROVE CrossInv'
  <2>1. PICK r \in Recorders, t \in Transmissions :
          t = Now(m) /\ backlog' = [backlog EXCEPT ![r] = Append(@, t)]
    BY <1>2 DEF Connect, Now, RecorderTypes, ServerTypes, SenderTypes, StandTypes, Transmissions, Listening
  <2>2. ~Opened(t)
    BY <1>2, <2>1 DEF Connect, Move, Now, Opened, Tried
  <2>3. \A q \in Recorders : t \notin Pending(q)
    BY <2>2 DEF Pending, LineInv, LineOf, AfterLog
  <2>4. UNCHANGED <<at, serving>>
    BY <1>2 DEF Connect
  <2>5. \A q \in Recorders \ {r} : Pending(q)' = Pending(q)
    BY <2>1, <2>4, <1>a DEF Pending
  <2>6. Pending(r)' \subseteq Pending(r) \cup {t}
    BY <2>1, <2>4, <1>a DEF Pending
  <2>7. QED
    BY <2>3, <2>5, <2>6 DEF CrossInv
<1>3. CASE UNCHANGED <<at, backlog, serving>>
  BY <1>3, <1>1 DEF Pending
<1>4. ASSUME NEW m \in Datagrams, SenderStep(m) \/ Kill(m),
             ~(Connect(m) /\ path # None /\ at[path] \in Listening)
      PROVE  UNCHANGED <<at, backlog, serving>>
  BY <1>4 DEF SenderStep, Validate, Connect, WritePart, Write, WriteTimeout, Udp, Kill, sender, recorder, Listening
<1>5. ASSUME NEW r \in Recorders, Signal(r) PROVE UNCHANGED <<at, backlog, serving>>
  BY <1>5 DEF Signal
<1>6. ASSUME NEW r \in Recorders, Accept(r) PROVE \A q \in Recorders : Pending(q)' \subseteq Pending(q)
  <2>1. /\ backlog[r] \in Seq(Transmissions) /\ backlog[r] # <<>> /\ at[r] = "loop"
        /\ backlog'[r] = Tail(backlog[r]) /\ serving'[r] = Head(backlog[r])
        /\ \A q \in Recorders \ {r} : /\ at'[q] = at[q] /\ backlog'[q] = backlog[q]
                                      /\ serving'[q] = serving[q]
    BY <1>6, <1>a DEF Accept, Go
  <2>2. \A i \in DOMAIN backlog'[r] : i + 1 \in DOMAIN backlog[r] /\ backlog'[r][i] = backlog[r][i + 1]
    BY <2>1
  <2>3. 1 \in DOMAIN backlog[r] /\ serving'[r] = backlog[r][1]
    BY <2>1
  <2>4. Pending(r)' \subseteq Pending(r)
    BY <2>2, <2>3 DEF Pending
  <2>5. \A q \in Recorders \ {r} : Pending(q)' = Pending(q)
    BY <2>1 DEF Pending
  <2>6. QED
    BY <2>4, <2>5
<1>7. ASSUME NEW r \in Recorders, Read(r) \/ Cleanup(r) \/ Close(r) \/ Bind(r) \/ Leave(r) \/ Crash(r)
      PROVE  \A q \in Recorders : Pending(q)' \subseteq Pending(q)
  <2>1. /\ at'[r] # "read" /\ (backlog'[r] = backlog[r] \/ backlog'[r] = <<>>)
        /\ \A q \in Recorders \ {r} : /\ at'[q] = at[q] /\ backlog'[q] = backlog[q]
                                      /\ serving'[q] = serving[q]
    BY <1>7, <1>a DEF Read, Cleanup, Close, Bind, Leave, Crash, Go
  <2>2. QED
    BY <2>1 DEF Pending
<1>8. QED
  BY <1>1, <1>2, <1>3, <1>4, <1>5, <1>6, <1>7 DEF Next, RecorderStep, vars, recorder

LEMMA LineInvStep ==
  SenderTypes /\ HeardInv /\ RecorderTypes /\ AloneInv /\ CrossInv /\ LineInv /\ [Next]_vars => LineInv'
<1> SUFFICES ASSUME SenderTypes, HeardInv, RecorderTypes, AloneInv, CrossInv, LineInv, [Next]_vars PROVE LineInv'
  OBVIOUS
<1>a. /\ at \in [Recorders -> {"off", "bind"} \cup Listening]
      /\ backlog \in [Recorders -> Seq(Transmissions)]
      /\ serving \in [Recorders -> Transmissions \cup {None}]
  BY DEF RecorderTypes, ServerTypes, QueueTypes
\* A recorder that begins to listen, lets go of a connection, or stops.
<1>b. ASSUME NEW r \in Recorders, UNCHANGED log, at'[r] # "read",
             \/ backlog'[r] = <<>>
             \/ backlog'[r] = backlog[r] /\ at'[r] \notin {"off", "bind"}
             \/ backlog'[r] = backlog[r] /\ at[r] \in {"off", "bind"},
             \A q \in Recorders \ {r} : at'[q] = at[q] /\ backlog'[q] = backlog[q] /\ serving'[q] = serving[q]
      PROVE  LineInv'
  <2>1. LineOf(r)'
    <3>1. CASE backlog'[r] = <<>>
      BY <3>1, <1>b DEF LineOf
    <3>2. CASE backlog'[r] = backlog[r] /\ backlog[r] # <<>>
      <4>1. LineOf(r) /\ \A i \in DOMAIN backlog[r] : backlog[r][i] \in Transmissions
        BY <1>a DEF LineInv
      <4>2. \A u \in Transmissions : AfterLog(u) => AfterLog(u)'
        BY <1>b, OpenedStays, PrecedeStays DEF AfterLog
      <4>3. QED
        BY <3>2, <4>1, <4>2, <1>b, PrecedeStays DEF LineOf
    <3>3. QED
      BY <3>1, <3>2, <1>b
  <2>2. \A q \in Recorders \ {r} : LineOf(q)'
    BY <1>b, LineStays DEF LineInv
  <2>3. QED
    BY <2>1, <2>2, <1>b, LogStays DEF LineInv
<1>1. ASSUME NEW m \in Datagrams, Connect(m) PROVE LineInv'
  BY <1>1, LineConnect
<1>2. ASSUME NEW r \in Recorders, Accept(r) PROVE LineInv'
  BY <1>2, LineAccept
<1>3. ASSUME NEW r \in Recorders, Read(r) PROVE LineInv'
  BY <1>3, LineRead
<1>4. ASSUME NEW r \in Recorders, Cleanup(r) \/ Close(r) PROVE LineInv'
  BY <1>4, <1>a, <1>b DEF Cleanup, Close, Go
<1>5. ASSUME NEW r \in Recorders, Bind(r) \/ Leave(r) \/ Crash(r) PROVE LineInv'
  BY <1>5, <1>a, <1>b DEF Bind, Leave, Crash, Go
<1>6. CASE UNCHANGED <<log, at, backlog, serving>>
  BY <1>6, LineStays, LogStays DEF LineInv
<1>7. ASSUME NEW r \in Recorders, Signal(r) PROVE UNCHANGED <<log, at, backlog, serving>>
  BY <1>7 DEF Signal
<1>8. ASSUME NEW m \in Datagrams, Validate(m) \/ WritePart(m) \/ Write(m) \/ WriteTimeout(m) \/ Udp(m) \/ Kill(m)
      PROVE  UNCHANGED <<log, at, backlog, serving>>
  BY <1>8 DEF Validate, WritePart, Write, WriteTimeout, Udp, Kill, sender, recorder
<1>9. QED
  BY <1>1, <1>2, <1>3, <1>4, <1>5, <1>6, <1>7, <1>8 DEF Next, SenderStep, RecorderStep, vars, recorder

\* The archive has a transmission once, whatever recorders run side by side, and until
\* two have overlapped the alert about a datagram is after it, however often recorders
\* are stopped, killed and started again.
THEOREM ArchivedInOrder == Spec => []ArchiveInOrder
<1> DEFINE IInv == SenderTypes /\ HeardInv /\ RecorderTypes /\ AloneInv /\ CrossInv /\ LineInv
<1>1. Init => IInv
  <2>1. Init => LineInv /\ AloneInv
    BY DEF Init, LineInv, LineOf, AloneInv, Running
  <2>2. Init => CrossInv
    BY DEF Init, CrossInv, Pending
  <2>3. QED
    BY <2>1, <2>2, InitTypes, InitHeard
<1>2. IInv /\ [Next]_vars => IInv'
  BY SenderTypesStep, HeardInvStep, RecorderTypesStep, AloneStep, CrossStep, LineInvStep
<1>3. IInv => ArchiveInOrder
  BY DEF LineInv, MayPrecede, ArchiveInOrder
<1>4. QED
  BY <1>1, <1>2, <1>3, PTL DEF Spec

-----------------------------------------------------------------------------
(* The hooks of a tool call *)

\* The least-number principle, in first-order form.
LEMMA LeastNumber ==
  ASSUME NEW T \in SUBSET Nat, T # {}
  PROVE  \E x \in T : \A y \in T : x <= y
<1>1. \E x \in T : \A y \in T : ~(<<y, x>> \in OpToRel(<, Nat))
  BY NatLessThanWellFounded, WFMin
<1>2. ASSUME NEW x \in T, NEW y \in T, ~(<<y, x>> \in OpToRel(<, Nat))
      PROVE  x <= y
  BY <1>2 DEF OpToRel
<1> QED BY <1>1, <1>2

LEMMA FirstIsLeast ==
  ASSUME NEW T \in SUBSET Nat, T # {}
  PROVE  First(T) \in T /\ \A y \in T : First(T) <= y
BY LeastNumber DEF First

\* The first rule that matches is a rule that matches.
LEMMA FirstMatches ==
  ASSUME NEW c \in Categories, NEW s, Matching(c, s) # {}
  PROVE  \E k \in Matching(c, s) : FirstRule(c, s) = Rules(c)[k]
<1>1. Matching(c, s) \in SUBSET Nat
  BY RulesAssumption DEF Matching
<1> QED
  BY <1>1, FirstIsLeast DEF FirstRule

\* What a hook that is alive has told Claude Code is what it decided, and what
\* it objected to is in the log by then, unless the log could not be written.
Noted == journal \cup unwritten

HookAt(h) ==
  /\ step[h] \in {"started", "decided", "logged"} => said[h] = Unset
  /\ step[h] \in {"logged", "answered"} => h \in Noted
  /\ step[h] \in {"answered", "done"} => said[h] = PreToolUseResponse(decide(h))
  /\ said[h] \in {"ask", "deny"} => h \in Noted /\ said[h] = PreToolUseResponse(decide(h))

\* Claude Code has concluded from what all of them said.
Concluded ==
  /\ \A h \in hooks : step[h] \in {"done", "dead"}
  /\ verdict = "ran" => \A h \in hooks : said[h] # "deny" /\ (said[h] = "ask" => approved)
  /\ verdict \in {"asking", "refused"} => \E h \in hooks : said[h] \in {"ask", "deny"}
  /\ verdict = "asking" => \A h \in hooks : said[h] # "deny"

HooksInv ==
  /\ hooks \subseteq {"llm_bash", "llm_tool", "llm_read", "subagent_bash", "subagent_tool"}
  /\ step \in [hooks -> {"started", "decided", "logged", "answered", "done", "dead"}]
  /\ DOMAIN said = hooks
  /\ verdict \in {"pending", "asking", "ran", "refused"}
  /\ \A h \in hooks : HookAt(h)
  /\ verdict # "pending" => Concluded

LEMMA InitHooks == HooksInit => HooksInv
BY UnsetAssumption DEF HooksInit, HooksInv, HookAt, DecisionKinds

\* The call and the configuration are chosen once.
LEMMA DecisionStays ==
  ASSUME UNCHANGED chosen, NEW h
  PROVE  decide(h)' = decide(h)
BY DEF chosen, decide, decide_llm_bash, decide_llm_tool, decide_subagent_bash, decide_subagent_tool, Objecting,
       Objection, Layer, validate_inspect, validate_writer, check_writer_and_name

Steps == {"started", "decided", "logged", "answered", "done", "dead"}

\* A step of one hook before Claude Code has concluded.
LEMMA HookStep ==
  ASSUME HooksInv, NEW h \in hooks, UNCHANGED <<chosen, verdict>>, Noted \subseteq Noted',
         step[h] \notin {"done", "dead"}, step' \in [hooks -> Steps], DOMAIN said' = hooks,
         \A g \in hooks \ {h} : step'[g] = step[g] /\ said'[g] = said[g],
         HookAt(h)'
  PROVE  HooksInv'
<1>1. \A g \in hooks : decide(g)' = decide(g)
  BY DecisionStays
<1>2. hooks' = hooks
  BY DEF chosen
<1>3. ASSUME NEW g \in hooks, g # h PROVE HookAt(g)'
  <2>1. step'[g] = step[g] /\ said'[g] = said[g] /\ HookAt(g)
    BY <1>3 DEF HooksInv
  <2> QED
    BY <1>1, <2>1 DEF HookAt
<1>4. verdict = "pending"
  BY DEF HooksInv, Concluded
<1> QED
  BY <1>2, <1>3, <1>4 DEF HooksInv, Steps

LEMMA HooksInvStep == HooksInv /\ [HooksNext]_hookVars => HooksInv'
<1> SUFFICES ASSUME HooksInv, [HooksNext]_hookVars PROVE HooksInv'
  OBVIOUS
<1>0. step \in [hooks -> Steps] /\ DOMAIN said = hooks /\ \A h \in hooks : HookAt(h)
  BY DEF HooksInv, Steps
<1>a. ASSUME UNCHANGED chosen PROVE \A h : decide(h)' = decide(h)
  BY <1>a, DecisionStays
<1>b. ASSUME NEW h \in hooks, step' = step \/ \E to \in Steps : step' = [step EXCEPT ![h] = to],
             said' = said \/ \E what : said' = [said EXCEPT ![h] = what]
      PROVE  /\ step' \in [hooks -> Steps] /\ DOMAIN said' = hooks
             /\ \A g \in hooks \ {h} : step'[g] = step[g] /\ said'[g] = said[g]
  BY <1>0, <1>b
<1>1. ASSUME NEW h \in hooks, Decide(h) PROVE HooksInv'
  <2>1. UNCHANGED <<chosen, verdict, Noted>> /\ step[h] = "started" /\ said[h] = Unset
    BY <1>0, <1>1 DEF Decide, HookAt, Noted, records
  <2>2. CASE Objects(decide(h))
    <3>1. step' = [step EXCEPT ![h] = "decided"] /\ said' = said
      BY <1>1, <2>2 DEF Decide
    <3>2. HookAt(h)'
      BY <1>0, <2>1, <3>1, UnsetAssumption DEF HookAt, DecisionKinds
    <3> QED
      BY <1>b, <2>1, <3>1, <3>2, HookStep DEF Steps
  <2>3. CASE ~Objects(decide(h))
    <3>1. step' = [step EXCEPT ![h] = "done"] /\ said' = [said EXCEPT ![h] = "allow"]
      BY <1>1, <2>3 DEF Decide
    <3>2. PreToolUseResponse(decide(h)') = "allow"
      BY <1>a, <2>1, <2>3 DEF Objects, PreToolUseResponse
    <3>3. HookAt(h)'
      BY <1>0, <2>1, <3>1, <3>2 DEF HookAt
    <3> QED
      BY <1>b, <2>1, <3>1, <3>3, HookStep DEF Steps
  <2> QED
    BY <2>2, <2>3
<1>2. ASSUME NEW h \in hooks, Cut(h) PROVE HooksInv'
  <2>1. /\ UNCHANGED <<chosen, verdict, Noted, said>> /\ step[h] = "started"
        /\ said[h] = Unset /\ step' = [step EXCEPT ![h] = "dead"]
    BY <1>0, <1>2 DEF Cut, HookAt, Noted, records
  <2>2. HookAt(h)'
    BY <1>0, <2>1, UnsetAssumption DEF HookAt, DecisionKinds
  <2> QED
    BY <1>b, <2>1, <2>2, HookStep DEF Steps
<1>3. ASSUME NEW h \in hooks, Log(h) PROVE HooksInv'
  <2>1. /\ UNCHANGED <<chosen, verdict, said>> /\ step[h] = "decided" /\ Noted' = Noted \cup {h}
        /\ said[h] = Unset /\ step' = [step EXCEPT ![h] = "logged"]
    BY <1>0, <1>3 DEF Log, HookAt, Noted, records
  <2>2. HookAt(h)'
    BY <1>0, <2>1, UnsetAssumption DEF HookAt, DecisionKinds
  <2> QED
    BY <1>b, <2>1, <2>2, HookStep DEF Steps
<1>4. ASSUME NEW h \in hooks, Answer(h) PROVE HooksInv'
  <2>1. /\ UNCHANGED <<chosen, verdict, Noted>> /\ step[h] = "logged" /\ h \in Noted
        /\ step' = [step EXCEPT ![h] = "answered"] /\ said' = [said EXCEPT ![h] = PreToolUseResponse(decide(h))]
    BY <1>0, <1>4 DEF Answer, HookAt, Noted, records
  <2>2. PreToolUseResponse(decide(h)') = PreToolUseResponse(decide(h))
    BY <1>a, <2>1
  <2>3. HookAt(h)'
    BY <1>0, <2>1, <2>2 DEF HookAt
  <2> QED
    BY <1>b, <2>1, <2>3, HookStep DEF Steps
<1>5. ASSUME NEW h \in hooks, Emit(h) PROVE HooksInv'
  <2>1. /\ UNCHANGED <<chosen, verdict, Noted, said>> /\ step[h] = "answered"
        /\ step' = [step EXCEPT ![h] = "done"]
    BY <1>5 DEF Emit, Noted, records
  <2>2. decide(h)' = decide(h)
    BY <1>a, <2>1
  <2>3. HookAt(h)'
    BY <1>0, <2>1, <2>2 DEF HookAt
  <2> QED
    BY <1>b, <2>1, <2>3, HookStep DEF Steps
<1>6. ASSUME NEW h \in hooks, Die(h) PROVE HooksInv'
  <2>1. /\ UNCHANGED <<chosen, verdict, Noted, said>> /\ step[h] \notin {"done", "dead"}
        /\ step' = [step EXCEPT ![h] = "dead"]
    BY <1>6 DEF Die, Noted, records
  <2>2. decide(h)' = decide(h)
    BY <1>a, <2>1
  <2>3. HookAt(h)'
    BY <1>0, <2>1, <2>2 DEF HookAt
  <2> QED
    BY <1>b, <2>1, <2>3, HookStep DEF Steps
<1>7. ASSUME NEW h \in hooks, Unreadable(h) PROVE HooksInv'
  <2>1. /\ UNCHANGED <<chosen, verdict, Noted>> /\ step[h] = "started"
        /\ step' = [step EXCEPT ![h] = "dead"] /\ said' = [said EXCEPT ![h] = "allow"]
    BY <1>7 DEF Unreadable, Noted, records
  <2>2. HookAt(h)'
    BY <1>0, <2>1 DEF HookAt
  <2> QED
    BY <1>b, <2>1, <2>2, HookStep DEF Steps
<1>8. ASSUME Conclude PROVE HooksInv'
  <2>1. /\ UNCHANGED <<chosen, step, said, Noted, approved>>
        /\ \A h \in hooks : step[h] \in {"done", "dead"}
    BY <1>8 DEF Conclude, Noted, records
  <2>2. /\ verdict' \in {"refused", "asking", "ran"}
        /\ verdict' = "refused" => \E h \in hooks : said[h] = "deny"
        /\ verdict' # "refused" => \A h \in hooks : said[h] # "deny"
        /\ verdict' = "asking" => \E h \in hooks : said[h] = "ask"
        /\ verdict' = "ran" => \A h \in hooks : said[h] # "ask"
    <3>1. CASE \E h \in hooks : said[h] = "deny"
      BY <1>8, <3>1 DEF Conclude, Noted, records
    <3>2. CASE (\A h \in hooks : said[h] # "deny") /\ \E h \in hooks : said[h] = "ask"
      BY <1>8, <3>2 DEF Conclude, Noted, records
    <3>3. CASE \A h \in hooks : said[h] \notin {"deny", "ask"}
      BY <1>8, <3>3 DEF Conclude, Noted, records
    <3> QED
      BY <3>1, <3>2, <3>3
  <2>3. Concluded'
    BY <2>1, <2>2 DEF Concluded, chosen
  <2>4. \A h \in hooks : HookAt(h)'
    BY <1>0, <1>a, <2>1 DEF HookAt
  <2> QED
    BY <1>0, <2>1, <2>2, <2>3, <2>4 DEF HooksInv, chosen
<1>9. ASSUME NEW yes \in BOOLEAN, UserDecides(yes) PROVE HooksInv'
  <2>1. UNCHANGED <<chosen, step, said, Noted>> /\ verdict = "asking"
    BY <1>9 DEF UserDecides, Noted, records
  <2>2. Concluded
    BY <2>1 DEF HooksInv
  <2>3. verdict' \in {"ran", "refused"} /\ (verdict' = "ran" => approved')
    BY <1>9 DEF UserDecides, Noted, records
  <2>4. Concluded'
    BY <2>1, <2>2, <2>3 DEF Concluded, chosen
  <2>5. \A h \in hooks : HookAt(h)'
    BY <1>0, <1>a, <2>1 DEF HookAt
  <2> QED
    BY <1>0, <2>1, <2>3, <2>4, <2>5 DEF HooksInv, chosen
<1>10. CASE UNCHANGED hookVars
  <2>1. UNCHANGED <<chosen, step, said, Noted, verdict, approved>>
    BY <1>10 DEF hookVars, chosen, Noted, records
  <2>2. \A h \in hooks : HookAt(h)'
    BY <1>0, <1>a, <2>1 DEF HookAt
  <2>3. Concluded => Concluded'
    BY <2>1 DEF Concluded, chosen
  <2> QED
    BY <2>1, <2>2, <2>3 DEF HooksInv, chosen
<1> QED
  BY <1>1, <1>2, <1>3, <1>4, <1>5, <1>6, <1>7, <1>8, <1>9, <1>10 DEF HooksNext

\* What it objects to it does not allow.
LEMMA ResponseObjects ==
  ASSUME NEW h, PreToolUseResponse(decide(h)) \in {"ask", "deny"}
  PROVE  decide(h).kind \in {"ask", "deny"}
BY DEF PreToolUseResponse

\* A hook of the session objects only to what is not clean.
LEMMA CleanIsAllowed ==
  ASSUME Clean, NEW h \in {"llm_bash", "llm_tool", "llm_read"}
  PROVE  decide(h).kind \notin {"ask", "deny"}
<1>0. Allow.kind \notin {"ask", "deny"}
  BY DEF Allow, Decision
<1>1. CASE h = "llm_bash"
  <2>1. SUFFICES ASSUME call.command # Unset, Objecting(call.command) # {} PROVE FALSE
    BY <1>0, <1>1, <2>1 DEF decide, decide_llm_bash
  <2>2. PICK i \in Objecting(call.command) : TRUE
    BY <2>1
  <2>3. i \in DOMAIN BashOrder /\ Objection(call.command, BashOrder[i]) # Unset
    BY <2>2 DEF Objecting
  <2> DEFINE category == BashOrder[i]
  <2>4. category \in Categories
    BY <2>3 DEF BashOrder, Categories
  <2>5. /\ Enabled(category) /\ Matching(category, call.command.id) # {}
        /\ FirstRule(category, call.command.id).pattern \notin config.allowPatterns
    BY <2>3 DEF Objection, check_category, Enabled
  <2>6. PICK k \in Matching(category, call.command.id) :
           FirstRule(category, call.command.id) = Rules(category)[k]
    BY <2>4, <2>5, FirstMatches
  <2> QED
    BY <2>1, <2>3, <2>5, <2>6 DEF Clean
<1>2. CASE h = "llm_tool"
  <2>1. SUFFICES ASSUME call.target # Unset PROVE decide_llm_tool(call).kind \notin {"ask", "deny"}
    BY <1>0, <1>2 DEF decide, decide_llm_tool
  <2>2. /\ Matching("floor", call.target) = {}
        /\ \/ call.target \in config.allowPaths
           \/ \A c \in {"probing", "gaming"} : Enabled(c) => Matching(c, call.target) = {}
    BY <2>1 DEF Clean
  <2>3. CASE call.target \in config.allowPaths
    BY <1>0, <2>1, <2>2, <2>3 DEF decide_llm_tool
  <2>4. CASE \A c \in {"probing", "gaming"} : Enabled(c) => Matching(c, call.target) = {}
    <3>1. Layer("probing", call.target) = Unset /\ Layer("gaming", call.target) = Unset
      BY <2>4 DEF Layer, Enabled
    <3> QED
      BY <1>0, <2>1, <2>2, <3>1 DEF decide_llm_tool
  <2> QED
    BY <2>2, <2>3, <2>4
<1>3. CASE h = "llm_read"
  BY <1>0, <1>3 DEF decide
<1> QED
  BY <1>1, <1>2, <1>3

\* A command that destroys is denied, whatever the other categories say of it.
LEMMA DestructionIsDenied ==
  ASSUME call.command # Unset, Destroys(call.command)
  PROVE  decide("llm_bash").kind = "deny"
<1> DEFINE id == call.command.id
           rule == FirstRule("destruction", id)
<1>1. /\ Enabled("destruction") /\ ~ call.command.blank
      /\ Matching("destruction", id) # {}
      /\ \A k \in Matching("destruction", id) :
            /\ Rules("destruction")[k].pattern \notin config.allowPatterns
            /\ Severity(Rules("destruction")[k], config.severity["destruction"]) = "block"
  BY DEF Destroys
<1>2. "destruction" \in Categories
  BY DEF Categories
<1>3. /\ rule.pattern \notin config.allowPatterns
      /\ Severity(rule, config.severity["destruction"]) = "block"
  BY <1>1, <1>2, FirstMatches
<1>4. /\ parse_severity(config.severity["destruction"]) = config.severity["destruction"]
      /\ parse_severity(config.severity["destruction"]) # Unset
  BY <1>1 DEF Enabled, parse_severity
<1>5. Objection(call.command, "destruction") = Decision("deny", "destruction")
  BY <1>1, <1>3, <1>4 DEF Objection, check_category, make_decision
<1>6. Decision("deny", "destruction") # Unset
  BY <1>2, UnsetAssumption DEF Decision, DecisionKinds
<1>7. BashOrder[1] = "destruction" /\ DOMAIN BashOrder = 1 .. 7
  BY DEF BashOrder
<1>8. 1 \in Objecting(call.command) /\ Objecting(call.command) \subseteq 1 .. 7
  BY <1>5, <1>6, <1>7 DEF Objecting
<1>9. First(Objecting(call.command)) = 1
  <2>1. Objecting(call.command) \in SUBSET Nat
    BY <1>8
  <2>2. First(Objecting(call.command)) \in 1 .. 7 /\ First(Objecting(call.command)) <= 1
    BY <1>8, <2>1, FirstIsLeast
  <2> QED
    BY <2>2
<1> QED
  BY <1>1, <1>5, <1>7, <1>8, <1>9 DEF decide, decide_llm_bash, Decision

LEMMA HooksInvDecides == HooksInv => ToolRunsAsDecided
<1> SUFFICES ASSUME HooksInv PROVE ToolRunsAsDecided
  OBVIOUS
<1> DEFINE alive(h) == h \in hooks /\ step[h] # "dead"
<1>1. ASSUME verdict = "ran", NEW h \in hooks, alive(h)
      PROVE  said[h] = PreToolUseResponse(decide(h)) /\ said[h] # "deny" /\ (said[h] = "ask" => approved)
  BY <1>1 DEF HooksInv, Concluded, HookAt
<1>2. ASSUME verdict = "ran", NEW h \in hooks, alive(h)
      PROVE  decide(h).kind # "deny" /\ (decide(h).kind = "ask" => approved)
  BY <1>1, <1>2 DEF PreToolUseResponse
<1>3. ASSUME verdict = "ran", alive("llm_tool"), call.target # Unset
      PROVE  Matching("floor", call.target) = {}
  <2>1. decide("llm_tool").kind # "deny"
    BY <1>2, <1>3
  <2>2. decide("llm_tool") = decide_llm_tool(call)
    BY DEF decide
  <2> QED
    BY <1>3, <2>1, <2>2 DEF decide_llm_tool, Deny, Decision
<1>4. ASSUME verdict = "ran", alive("subagent_tool")
      PROVE  call.tool \in DOMAIN config.grants
  <2>1. decide("subagent_tool").kind # "deny"
    BY <1>2, <1>4
  <2>2. decide("subagent_tool") = decide_subagent_tool(call)
    BY DEF decide
  <2> QED
    BY <1>4, <2>1, <2>2 DEF decide_subagent_tool, Deny, Decision
<1>5. verdict = "ran" => \A h \in hooks : said[h] # "deny" /\ (said[h] = "ask" => approved)
  BY DEF HooksInv, Concluded
<1>6. \A h \in hooks : said[h] \in {"ask", "deny"} => h \in journal \cup unwritten
  BY DEF HooksInv, HookAt, Noted
<1>7. (alive("llm_bash") /\ call.command # Unset) => ~ (verdict = "ran" /\ Destroys(call.command))
  BY <1>2, DestructionIsDenied
<1>8. ASSUME verdict \in {"asking", "refused"}, hooks \cap {"subagent_bash", "subagent_tool"} = {}
      PROVE  ~ Clean
  <2>1. PICK h \in hooks : said[h] \in {"ask", "deny"}
    BY <1>8 DEF HooksInv, Concluded
  <2>2. decide(h).kind \in {"ask", "deny"}
    BY <2>1, ResponseObjects DEF HooksInv, HookAt
  <2>3. h \in {"llm_bash", "llm_tool", "llm_read"}
    BY <1>8, <2>1 DEF HooksInv
  <2> QED
    BY <2>2, <2>3, CleanIsAllowed
<1> QED
  BY <1>2, <1>3, <1>4, <1>5, <1>6, <1>7, <1>8 DEF ToolRunsAsDecided

\* A call of a session runs only past hooks that let it: nothing on the floor is
\* reached, a denial refuses the call and a question is put to the user unless the
\* hook died, also when the log or the datagrams could not be written; a destructive
\* command does not run, a subagent reaches no tool it has no grant for, no objection is
\* answered before the log has it or has failed to take it, and nothing clean is refused
\* (run_pre_hook and the decide functions of the hooks).
THEOREM CallsRunAsDecided == HooksSpec => []ToolRunsAsDecided
<1>1. HooksInit => HooksInv
  BY InitHooks
<1>2. HooksInv /\ [HooksNext]_hookVars => HooksInv'
  BY HooksInvStep
<1>3. HooksInv => ToolRunsAsDecided
  BY HooksInvDecides
<1> QED
  BY <1>1, <1>2, <1>3, PTL DEF HooksSpec

-----------------------------------------------------------------------------
(* split_jsonl_batches: arithmetic *)

LEMMA Division ==
  ASSUME NEW a \in Nat, NEW n \in Nat \ {0}
  PROVE  /\ a \div n \in Nat /\ a % n \in Nat
         /\ a = n * (a \div n) + (a % n) /\ a % n < n
OBVIOUS

LEMMA TimesMonotone ==
  ASSUME NEW a \in Nat, NEW b \in Nat, NEW n \in Nat, a <= b
  PROVE  a * n <= b * n /\ n * a <= n * b
OBVIOUS

LEMMA TimesCancels ==
  ASSUME NEW a \in Nat, NEW b \in Nat, NEW n \in Nat, a * n < b * n
  PROVE  a < b
OBVIOUS

LEMMA TimesSucc ==
  ASSUME NEW i \in Nat, NEW b \in Nat
  PROVE  i * b \in Nat /\ (i + 1) * b = i * b + b
OBVIOUS

\* The fewest batches of at most max_batch.
Fewest(t, max_batch) == (t + max_batch - 1) \div max_batch

LEMMA FewestIsCeiling ==
  ASSUME NEW t \in Nat \ {0}, NEW hi \in Nat \ {0}
  PROVE  /\ Fewest(t, hi) \in Nat \ {0}
         /\ t <= Fewest(t, hi) * hi
         /\ (Fewest(t, hi) - 1) * hi < t
         /\ hi < t => Fewest(t, hi) > 1
<1> DEFINE n == Fewest(t, hi)
<1>1. t + hi - 1 \in Nat OBVIOUS
<1>2. /\ n \in Nat /\ (t + hi - 1) % hi \in Nat
      /\ t + hi - 1 = hi * n + ((t + hi - 1) % hi) /\ (t + hi - 1) % hi < hi
  BY <1>1, Division DEF Fewest
<1> HIDE DEF n
<1>3. hi * n = n * hi BY <1>2
<1>4. t <= n * hi BY <1>2, <1>3
<1>5. n # 0 BY <1>4
<1>6. n * hi = (n - 1) * hi + hi
  <2>1. n - 1 \in Nat BY <1>2, <1>5
  <2> QED BY <2>1, <1>2, TimesSucc
<1>7. (n - 1) * hi \in Nat BY <1>2, <1>5
<1>8. (n - 1) * hi < t BY <1>2, <1>3, <1>6, <1>7
<1>9. hi < t => n > 1
  <2>1. ASSUME hi < t, n = 1 PROVE FALSE BY <1>4, <2>1
  <2> QED BY <1>2, <1>5, <2>1
<1> QED BY <1>2, <1>4, <1>5, <1>8, <1>9 DEF n

\* With a share of every batch kept, and the rest spread over the first ones,
\* no batch is larger than max_batch.
LEMMA EvenShare ==
  ASSUME NEW t \in Nat \ {0}, NEW n \in Nat \ {0}, NEW lo \in Nat \ {0}, NEW hi \in Nat \ {0},
         n * lo <= t, t <= n * hi
  PROVE  /\ t \div n \in Nat /\ t % n \in Nat /\ t % n < n
         /\ t = n * (t \div n) + (t % n)
         /\ lo <= t \div n /\ t \div n <= hi
         /\ t % n # 0 => t \div n < hi
<1> DEFINE b == t \div n
           r == t % n
<1>1. b \in Nat /\ r \in Nat /\ t = n * b + r /\ r < n BY Division
<1> HIDE DEF b, r
<1>2. n * (b + 1) = n * b + n BY <1>1
<1>3. lo <= b
  <2>1. ASSUME b < lo PROVE FALSE
    <3>1. n * (b + 1) <= n * lo BY <1>1, <2>1, TimesMonotone
    <3> QED BY <3>1, <1>1, <1>2
  <2> QED BY <1>1, <2>1
<1>4. b <= hi
  <2>1. ASSUME hi < b PROVE FALSE
    <3>1. n * (hi + 1) <= n * b BY <1>1, <2>1, TimesMonotone
    <3>2. n * (hi + 1) = n * hi + n OBVIOUS
    <3> QED BY <3>1, <3>2, <1>1
  <2> QED BY <1>1, <2>1
<1>5. r # 0 => b < hi
  <2>1. ASSUME r # 0, b = hi PROVE FALSE BY <2>1, <1>1
  <2> QED BY <1>1, <1>4, <2>1
<1> QED BY <1>1, <1>3, <1>4, <1>5 DEF b, r

-----------------------------------------------------------------------------
(* compute_batches *)

\* The bounds as validate_args leaves them.
Bounds(lo, hi) == lo \in Nat \ {0} /\ hi \in Nat \ {0} /\ lo <= hi

\* One batch is enough.
LEMMA OneBatch ==
  ASSUME NEW t \in Nat \ {0}, NEW lo, NEW hi, Bounds(lo, hi), t <= hi
  PROVE  LET s == compute_batches(t, lo, hi) IN
         /\ s \in Seq(Nat) /\ Len(s) = 1 /\ s[1] = t
         /\ Before(t, lo, hi, 0) = 0 /\ Before(t, lo, hi, 1) = t
         /\ WellDivided(s, t, lo, hi)
<1> USE DEF Bounds
<1>1. compute_batches(t, lo, hi) = <<t>> BY DEF compute_batches
<1>2. <<t>> \in Seq(Nat) /\ Len(<<t>>) = 1 /\ <<t>>[1] = t /\ DOMAIN <<t>> = {1} OBVIOUS
<1>3. Before(t, lo, hi, 0) = 0 /\ Before(t, lo, hi, 1) = t BY DEF Before
<1>4. (\E k \in 1..t : k * lo <= t /\ t <= k * hi) => lo <= t
  <2>1. ASSUME NEW k \in 1..t, k * lo <= t PROVE lo <= t
    <3>1. 1 * lo <= k * lo BY TimesMonotone
    <3>2. k * lo \in Nat /\ 1 * lo = lo OBVIOUS
    <3> QED BY <3>1, <3>2, <2>1
  <2> QED BY <2>1
<1>5. WellDivided(<<t>>, t, lo, hi)
  <2>1. (1 - 1) * hi < t OBVIOUS
  <2> QED BY <1>2, <1>4, <2>1 DEF WellDivided
<1> QED BY <1>1, <1>2, <1>3, <1>5

\* They can be even.
LEMMA EvenBatches ==
  ASSUME NEW t \in Nat \ {0}, NEW lo, NEW hi, Bounds(lo, hi), hi < t,
         Fewest(t, hi) * lo <= t
  PROVE  LET s == compute_batches(t, lo, hi) IN
         /\ s \in Seq(Nat) /\ Len(s) = Fewest(t, hi)
         /\ Before(t, lo, hi, 0) = 0 /\ Before(t, lo, hi, Len(s)) = t
         /\ \A i \in 0..(Len(s) - 1) : Before(t, lo, hi, i + 1) = Before(t, lo, hi, i) + s[i + 1]
         /\ WellDivided(s, t, lo, hi)
<1> USE DEF Bounds
<1> DEFINE n == Fewest(t, hi)
           b == t \div n
           r == t % n
           s == compute_batches(t, lo, hi)
           f(i) == b + (IF i <= r THEN 1 ELSE 0)
           B(i) == Before(t, lo, hi, i)
<1>1. n \in Nat \ {0} /\ t <= n * hi /\ (n - 1) * hi < t BY FewestIsCeiling
<1>2. /\ b \in Nat /\ r \in Nat /\ r < n /\ t = n * b + r
      /\ lo <= b /\ b <= hi /\ (r # 0 => b < hi)
  BY <1>1, EvenShare
<1>3. s = [i \in 1..n |-> f(i)] BY DEF compute_batches, Fewest
<1>4. \A i : B(i) = i * b + (IF i <= r THEN i ELSE r) BY DEF Before, Fewest
<1> HIDE DEF n, b, r, s, B
<1>5. \A i \in 1..n : f(i) \in Nat /\ lo <= f(i) /\ 1 <= f(i) /\ f(i) <= hi BY <1>1, <1>2
<1> HIDE DEF f
<1>6. s \in Seq(Nat) /\ Len(s) = n /\ DOMAIN s = 1..n /\ \A i \in 1..n : s[i] = f(i)
  BY <1>1, <1>3, <1>5
<1>7. B(0) = 0
  <2>1. 0 * b = 0 BY <1>2
  <2> QED BY <2>1, <1>2, <1>4
<1>8. B(n) = t
  <2>1. ~(n <= r) BY <1>1, <1>2
  <2> QED BY <2>1, <1>1, <1>2, <1>4
<1>9. ASSUME NEW i \in 0..(n - 1) PROVE B(i + 1) = B(i) + s[i + 1]
  <2>1. i \in Nat /\ i + 1 \in 1..n BY <1>1
  <2>2. i * b \in Nat /\ (i + 1) * b = i * b + b BY <1>2, <2>1, TimesSucc
  <2>3. s[i + 1] = b + (IF i + 1 <= r THEN 1 ELSE 0) BY <1>6, <2>1 DEF f
  <2>4. B(i) = i * b + (IF i <= r THEN i ELSE r) BY <1>4
  <2>5. B(i + 1) = (i + 1) * b + (IF i + 1 <= r THEN i + 1 ELSE r) BY <1>4
  <2> QED BY <2>1, <2>2, <2>3, <2>4, <2>5, <1>2
<1>10. WellDivided(s, t, lo, hi) BY <1>1, <1>5, <1>6 DEF WellDivided
<1> QED BY <1>6, <1>7, <1>8, <1>9, <1>10 DEF n, s, B

\* The last takes what is left.
LEMMA TailBatch ==
  ASSUME NEW t \in Nat \ {0}, NEW lo, NEW hi, Bounds(lo, hi), hi < t,
         t < Fewest(t, hi) * lo
  PROVE  LET s == compute_batches(t, lo, hi) IN
         /\ s \in Seq(Nat) /\ Len(s) = Fewest(t, hi)
         /\ Before(t, lo, hi, 0) = 0 /\ Before(t, lo, hi, Len(s)) = t
         /\ \A i \in 0..(Len(s) - 1) : Before(t, lo, hi, i + 1) = Before(t, lo, hi, i) + s[i + 1]
         /\ WellDivided(s, t, lo, hi)
<1> USE DEF Bounds
<1> DEFINE n == Fewest(t, hi)
           s == compute_batches(t, lo, hi)
           tail == t - (n - 1) * lo
           f(i) == IF i < n THEN lo ELSE tail
           B(i) == Before(t, lo, hi, i)
<1>1. /\ n \in Nat \ {0} /\ t <= n * hi /\ (n - 1) * hi < t /\ n > 1
  BY FewestIsCeiling
<1>2. s = [i \in 1..n |-> f(i)]
  <2>1. ~(n * lo <= t) BY <1>1
  <2> QED BY <2>1 DEF compute_batches, Fewest
<1>3. \A i : B(i) = IF i < n THEN i * lo ELSE t
  <2>1. ~(n * lo <= t) BY <1>1
  <2> QED BY <2>1 DEF Before, Fewest
<1> HIDE DEF n, s, B
<1>4. n - 1 \in Nat /\ (n - 1) * lo \in Nat /\ n * lo = (n - 1) * lo + lo
  <2>1. n - 1 \in Nat BY <1>1
  <2> QED BY <1>1, <2>1, TimesSucc
<1>5. (n - 1) * lo <= (n - 1) * hi BY <1>4, TimesMonotone
<1>6. tail \in Nat /\ 1 <= tail /\ tail < lo
  <2>1. t < n * lo BY DEF n
  <2>2. (n - 1) * hi \in Nat BY <1>4
  <2> QED BY <1>1, <1>4, <1>5, <2>1, <2>2
<1>7. tail + (n - 1) * lo = t BY <1>4
<1> HIDE DEF tail
<1>8. \A i \in 1..n : f(i) \in Nat /\ 1 <= f(i) /\ f(i) <= hi /\ (i < n => f(i) = lo)
  BY <1>1, <1>6
<1>9. s \in Seq(Nat) /\ Len(s) = n /\ DOMAIN s = 1..n /\ \A i \in 1..n : s[i] = f(i)
  <2> HIDE DEF f
  <2> QED BY <1>1, <1>2, <1>8
<1>10. B(0) = 0
  <2>1. 0 * lo = 0 OBVIOUS
  <2> QED BY <2>1, <1>1, <1>3
<1>11. B(n) = t BY <1>1, <1>3
<1>12. ASSUME NEW i \in 0..(n - 1) PROVE B(i + 1) = B(i) + s[i + 1]
  <2>1. i \in Nat /\ i + 1 \in 1..n /\ i < n BY <1>1
  <2>2. i * lo \in Nat /\ (i + 1) * lo = i * lo + lo BY <2>1, TimesSucc
  <2>3. B(i) = i * lo BY <1>3, <2>1
  <2>4. CASE i + 1 < n
    <3>1. B(i + 1) = (i + 1) * lo /\ s[i + 1] = lo BY <2>1, <2>4, <1>3, <1>9
    <3> QED BY <3>1, <2>2, <2>3
  <2>5. CASE i + 1 = n
    <3>1. B(i + 1) = t /\ s[i + 1] = tail BY <2>1, <2>5, <1>3, <1>9, <1>1
    <3>2. i = n - 1 BY <2>1, <2>5, <1>1
    <3> QED BY <3>1, <3>2, <2>3, <1>4, <1>6, <1>7
  <2> QED BY <1>1, <2>1, <2>4, <2>5
<1>13. ~ \E k \in 1..t : k * lo <= t /\ t <= k * hi
  <2>1. ASSUME NEW k \in 1..t, k * lo <= t, t <= k * hi PROVE FALSE
    <3>1. (n - 1) * hi < k * hi
      <4>1. k * hi \in Nat /\ (n - 1) * hi \in Nat BY <1>4
      <4> QED BY <4>1, <2>1, <1>1
    <3>2. n - 1 < k BY <3>1, <1>4, TimesCancels
    <3>3. n <= k BY <3>2, <1>1
    <3>4. n * lo <= k * lo BY <3>3, <1>1, TimesMonotone
    <3>5. t < n * lo BY DEF n
    <3>6. k * lo \in Nat /\ n * lo \in Nat BY <1>1
    <3> QED BY <3>4, <3>5, <3>6, <2>1
  <2> QED BY <2>1
<1>14. WellDivided(s, t, lo, hi) BY <1>1, <1>8, <1>9, <1>13 DEF WellDivided
<1> QED BY <1>9, <1>10, <1>11, <1>12, <1>14 DEF n, s, B

\* The batches are well divided, and Before counts the records in them.
LEMMA Divides ==
  ASSUME NEW t \in Nat \ {0}, NEW lo, NEW hi, Bounds(lo, hi)
  PROVE  LET s == compute_batches(t, lo, hi) IN
         /\ s \in Seq(Nat) /\ Len(s) > 0
         /\ Before(t, lo, hi, 0) = 0 /\ Before(t, lo, hi, Len(s)) = t
         /\ \A i \in 0..(Len(s) - 1) : Before(t, lo, hi, i + 1) = Before(t, lo, hi, i) + s[i + 1]
         /\ \A i \in 1..Len(s) : s[i] > 0
         /\ WellDivided(s, t, lo, hi)
<1> DEFINE s == compute_batches(t, lo, hi)
<1>0. Fewest(t, hi) \in Nat \ {0} BY FewestIsCeiling DEF Bounds
<1>1. CASE t <= hi
  <2>1. /\ s \in Seq(Nat) /\ Len(s) = 1 /\ s[1] = t
        /\ Before(t, lo, hi, 0) = 0 /\ Before(t, lo, hi, 1) = t
        /\ WellDivided(s, t, lo, hi)
    BY <1>1, OneBatch
  <2> HIDE DEF s
  <2>2. \A i \in 0..(Len(s) - 1) : i = 0 BY <2>1
  <2>3. \A i \in 1..Len(s) : i = 1 BY <2>1
  <2> QED BY <2>1, <2>2, <2>3 DEF s
<1>2. CASE hi < t /\ Fewest(t, hi) * lo <= t
  <2>1. /\ s \in Seq(Nat) /\ Len(s) > 0
        /\ Before(t, lo, hi, 0) = 0 /\ Before(t, lo, hi, Len(s)) = t
        /\ \A i \in 0..(Len(s) - 1) : Before(t, lo, hi, i + 1) = Before(t, lo, hi, i) + s[i + 1]
        /\ WellDivided(s, t, lo, hi)
    BY <1>0, <1>2, EvenBatches
  <2>2. \A i \in 1..Len(s) : s[i] > 0
    <3> HIDE DEF s
    <3> QED BY <2>1 DEF WellDivided
  <2> QED BY <2>1, <2>2
<1>3. CASE hi < t /\ t < Fewest(t, hi) * lo
  <2>1. /\ s \in Seq(Nat) /\ Len(s) > 0
        /\ Before(t, lo, hi, 0) = 0 /\ Before(t, lo, hi, Len(s)) = t
        /\ \A i \in 0..(Len(s) - 1) : Before(t, lo, hi, i + 1) = Before(t, lo, hi, i) + s[i + 1]
        /\ WellDivided(s, t, lo, hi)
    BY <1>0, <1>3, TailBatch
  <2>2. \A i \in 1..Len(s) : s[i] > 0
    <3> HIDE DEF s
    <3> QED BY <2>1 DEF WellDivided
  <2> QED BY <2>1, <2>2
<1> QED BY <1>0, <1>1, <1>2, <1>3 DEF Bounds

LEMMA BeforeIsNat ==
  ASSUME NEW t \in Nat \ {0}, NEW lo, NEW hi, Bounds(lo, hi), NEW i \in Nat
  PROVE  Before(t, lo, hi, i) \in Int
<1> USE DEF Bounds
<1>1. Fewest(t, hi) \in Nat \ {0} BY FewestIsCeiling
<1>2. t \div Fewest(t, hi) \in Nat /\ t % Fewest(t, hi) \in Nat BY <1>1, Division
<1>3. i * (t \div Fewest(t, hi)) \in Nat /\ i * lo \in Nat BY <1>2, TimesSucc
<1> QED BY <1>1, <1>2, <1>3 DEF Before, Fewest

-----------------------------------------------------------------------------
(* The dispatchers *)

LEMMA BoundsOfJob ==
  ASSUME NEW j \in Jobs, validate_args(j)
  PROVE  Bounds(j.min_batch, j.max_batch)
BY JobsAssumption DEF validate_args, Bounds

\* What a dispatcher at work knows of its batches.
LEMMA DivisionOf ==
  ASSUME BatchTypes, NEW d \in Dispatchers, DispatcherInv(d), jobPc[d] \in Divided
  PROVE  /\ sizes[d] \in Seq(Nat) /\ Len(sizes[d]) > 0
         /\ BeforeOf(d, 0) = 0 /\ BeforeOf(d, Len(sizes[d])) = total[d]
         /\ \A i \in 0..(Len(sizes[d]) - 1) : BeforeOf(d, i + 1) = BeforeOf(d, i) + sizes[d][i + 1]
         /\ \A i \in 1..Len(sizes[d]) : sizes[d][i] > 0
         /\ WellDivided(sizes[d], total[d], job[d].min_batch, job[d].max_batch)
<1>1. total[d] \in Nat \ {0} BY DEF BatchTypes, DispatcherInv
<1>2. Bounds(job[d].min_batch, job[d].max_batch) BY BoundsOfJob DEF DispatcherInv
<1>3. sizes[d] = compute_batches(total[d], job[d].min_batch, job[d].max_batch)
  BY DEF DispatcherInv
<1> DEFINE t == total[d]
           lo == job[d].min_batch
           hi == job[d].max_batch
           s == sizes[d]
<1>4. /\ s \in Seq(Nat) /\ Len(s) > 0
      /\ Before(t, lo, hi, 0) = 0 /\ Before(t, lo, hi, Len(s)) = t
      /\ \A i \in 0..(Len(s) - 1) : Before(t, lo, hi, i + 1) = Before(t, lo, hi, i) + s[i + 1]
      /\ \A i \in 1..Len(s) : s[i] > 0
      /\ WellDivided(s, t, lo, hi)
  <2> HIDE DEF t, lo, hi
  <2>1. s = compute_batches(t, lo, hi) BY <1>3 DEF t, lo, hi
  <2>2. t \in Nat \ {0} /\ Bounds(lo, hi) BY <1>1, <1>2 DEF t, lo, hi
  <2> DEFINE c == compute_batches(t, lo, hi)
  <2>3. /\ c \in Seq(Nat) /\ Len(c) > 0
        /\ Before(t, lo, hi, 0) = 0 /\ Before(t, lo, hi, Len(c)) = t
        /\ \A i \in 0..(Len(c) - 1) : Before(t, lo, hi, i + 1) = Before(t, lo, hi, i) + c[i + 1]
        /\ \A i \in 1..Len(c) : c[i] > 0
        /\ WellDivided(c, t, lo, hi)
    BY <2>2, Divides
  <2>4. s = c BY <2>1
  <2> HIDE DEF c, s
  <2> QED BY <2>3, <2>4
<1> QED BY <1>4 DEF BeforeOf

LEMMA InvInit == BatchesInit => BatchesInv
<1> SUFFICES ASSUME BatchesInit PROVE BatchesInv OBVIOUS
<1>1. BatchTypes
  <2>1. <<>> \in [DOMAIN <<>> -> [by : Dispatchers \cup {Nobody}, from : Nat, upto : Nat]]
    OBVIOUS
  <2> QED BY <2>1 DEF BatchesInit, BatchTypes
<1>2. ASSUME NEW d \in Dispatchers PROVE DispatcherInv(d) /\ BatchFiles(d)
  BY DEF BatchesInit, DispatcherInv, BatchFiles, JobAt, Divided
<1> QED BY <1>1, <1>2 DEF BatchesInv

\* A step of d that leaves the jobs and the batches of the others alone keeps
\* what is known of them, and a step that leaves the files alone keeps what is
\* known of all files.
LEMMA OthersKept ==
  ASSUME BatchesInv, NEW d \in Dispatchers, NEW e \in Dispatchers, d # e,
         /\ jobPc'[e] = jobPc[e] /\ job'[e] = job[e] /\ total'[e] = total[e]
         /\ num'[e] = num[e] /\ offset'[e] = offset[e] /\ filled'[e] = filled[e]
         /\ sizes'[e] = sizes[e]
  PROVE  DispatcherInv(e)'
BY DEF BatchesInv, DispatcherInv, JobAt, BeforeOf

LEMMA FilesKept ==
  ASSUME BatchesInv, NEW e \in Dispatchers,
         UNCHANGED batchFile,
         /\ jobPc'[e] = jobPc[e] /\ job'[e] = job[e] /\ total'[e] = total[e]
         /\ num'[e] = num[e] /\ offset'[e] = offset[e] /\ filled'[e] = filled[e],
         Disturbed(e) => Disturbed(e)'
  PROVE  BatchFiles(e)'
BY DEF BatchesInv, BatchFiles, JobAt, BeforeOf, Path

\* Whoever is disturbed stays so: a job is not given back.
LEMMA StillDisturbed ==
  ASSUME BatchesInv, NEW d \in Dispatchers, UNCHANGED job, Disturbed(d)
  PROVE  Disturbed(d)'
BY DEF Disturbed

LEMMA DispatchStep ==
  ASSUME BatchesInv, NEW d \in Dispatchers, Dispatch(d)
  PROVE  BatchesInv'
<1> PICK j \in Jobs : /\ job' = [job EXCEPT ![d] = j]
                      /\ JobTo(d, IF validate_args(j) THEN "read" ELSE "failed")
  BY DEF Dispatch
<1>0. JobAt(d, "new") /\ UNCHANGED <<total, sizes, num, offset, filled, batchFile, broken>>
  BY DEF Dispatch
<1>1. BatchTypes' BY <1>0 DEF BatchesInv, BatchTypes, JobTo
<1>2. job'[d] = j /\ jobPc'[d] = (IF validate_args(j) THEN "read" ELSE "failed")
      /\ \A e \in Dispatchers \ {d} : job'[e] = job[e] /\ jobPc'[e] = jobPc[e]
  BY DEF BatchesInv, BatchTypes, JobTo
<1>3. DispatcherInv(d)' /\ BatchFiles(d)'
  BY <1>0, <1>2 DEF BatchesInv, DispatcherInv, BatchFiles, JobAt, Divided
<1>4. ASSUME NEW e \in Dispatchers \ {d} PROVE DispatcherInv(e)' /\ BatchFiles(e)'
  <2>1. DispatcherInv(e)' BY <1>0, <1>2, OthersKept
  <2>2. ASSUME Disturbed(e) PROVE Disturbed(e)'
    <3>1. PICK c \in Dispatchers \ {e} : job[c] # NoJob /\ job[c].directory = job[e].directory
      BY <2>2 DEF Disturbed
    <3>2. CASE c # d BY <3>1, <3>2, <1>2 DEF Disturbed
    <3>3. CASE c = d
      \* A new dispatcher has no job yet.
      BY <3>1, <3>3, <1>0 DEF BatchesInv, DispatcherInv, JobAt
    <3> QED BY <3>2, <3>3
  <2>3. BatchFiles(e)' BY <2>2, <1>0, <1>2, FilesKept
  <2> QED BY <2>1, <2>3
<1> QED BY <1>1, <1>3, <1>4 DEF BatchesInv

LEMMA ReadStep ==
  ASSUME BatchesInv, NEW d \in Dispatchers, read_validated_lines(d)
  PROVE  BatchesInv'
<1> DEFINE input == job[d].input
           t == Cardinality({i \in DOMAIN input : input[i] = "record"})
<1>0. JobAt(d, "read") /\ UNCHANGED <<job, num, offset, filled, batchFile, broken>>
  BY DEF read_validated_lines
<1>1. job[d] \in Jobs /\ validate_args(job[d]) /\ num[d] = 0 /\ offset[d] = 0
  BY <1>0 DEF BatchesInv, DispatcherInv, JobAt
<1>2. t \in Nat
  <2>1. input \in Seq({"record", "blank", "malformed"}) BY <1>1, JobsAssumption
  <2>2. DOMAIN input = 1..Len(input) /\ Len(input) \in Nat BY <2>1
  <2>3. IsFiniteSet(1..Len(input))
    <3> DEFINE n == Len(input)
    <3>1. n \in Int BY <2>2
    <3> HIDE DEF n
    <3>2. IsFiniteSet(1..n) BY <3>1, FS_Interval
    <3> QED BY <3>2 DEF n
  <2>4. IsFiniteSet({i \in DOMAIN input : input[i] = "record"}) BY <2>2, <2>3, FS_Subset
  <2> QED BY <2>4, FS_CardinalityType
<1>3. CASE JobTo(d, "failed") /\ UNCHANGED <<total, sizes>>
  <2>1. BatchTypes' BY <1>0, <1>3 DEF BatchesInv, BatchTypes, JobTo
  <2>2. jobPc'[d] = "failed" /\ \A e \in Dispatchers \ {d} : jobPc'[e] = jobPc[e]
    BY <1>3 DEF BatchesInv, BatchTypes, JobTo
  <2>3. DispatcherInv(d)' /\ BatchFiles(d)'
    BY <1>0, <2>2 DEF DispatcherInv, BatchFiles, JobAt, Divided
  <2>4. ASSUME NEW e \in Dispatchers \ {d} PROVE DispatcherInv(e)' /\ BatchFiles(e)'
    <3>1. DispatcherInv(e)' BY <1>0, <1>3, <2>2, OthersKept
    <3>2. Disturbed(e) => Disturbed(e)' BY <1>0, StillDisturbed
    <3>3. BatchFiles(e)' BY <1>0, <1>3, <2>2, <3>2, FilesKept
    <3> QED BY <3>1, <3>3
  <2> QED BY <2>1, <2>3, <2>4 DEF BatchesInv
<1>4. CASE /\ t # 0 /\ JobTo(d, "create") /\ total' = [total EXCEPT ![d] = t]
           /\ sizes' = [sizes EXCEPT ![d] =
                          compute_batches(t, job[d].min_batch, job[d].max_batch)]
  <2> DEFINE s == compute_batches(t, job[d].min_batch, job[d].max_batch)
  <2>1. s \in Seq(Nat) /\ Len(s) > 0 /\ Before(t, job[d].min_batch, job[d].max_batch, 0) = 0
    <3>1. t \in Nat \ {0} BY <1>2, <1>4
    <3>2. Bounds(job[d].min_batch, job[d].max_batch) BY <1>1, BoundsOfJob
    <3> HIDE DEF t
    <3> QED BY <3>1, <3>2, Divides
  <2> HIDE DEF s, t
  <2>2. /\ jobPc' = [jobPc EXCEPT ![d] = "create"] /\ total' = [total EXCEPT ![d] = t]
        /\ sizes' = [sizes EXCEPT ![d] = s]
    BY <1>4 DEF JobTo, s
  <2>3. BatchTypes' BY <1>0, <1>2, <2>1, <2>2 DEF BatchesInv, BatchTypes
  <2>4. /\ jobPc'[d] = "create" /\ total'[d] = t /\ sizes'[d] = s
        /\ \A e \in Dispatchers \ {d} : /\ jobPc'[e] = jobPc[e] /\ total'[e] = total[e]
                                        /\ sizes'[e] = sizes[e]
    BY <2>2 DEF BatchesInv, BatchTypes
  <2>5. DispatcherInv(d)'
    <3>1. Len(s) \in Nat BY <2>1
    <3>2. /\ job'[d] \in Jobs /\ validate_args(job'[d]) /\ total'[d] # 0
          /\ sizes'[d] = compute_batches(total'[d], job'[d].min_batch, job'[d].max_batch)
      BY <1>0, <1>1, <1>4, <2>4 DEF s
    <3>3. num'[d] = 0 /\ offset'[d] = BeforeOf(d, num[d])'
      BY <1>0, <1>1, <2>1, <2>4 DEF BeforeOf
    <3>4. num'[d] <= Len(sizes'[d]) /\ num'[d] < Len(sizes'[d])
      BY <3>1, <3>3, <2>1, <2>4
    <3> QED BY <1>0, <2>4, <3>2, <3>3, <3>4 DEF DispatcherInv, JobAt
  <2>6. BatchFiles(d)' BY <1>0, <1>1, <2>4 DEF BatchFiles, JobAt
  <2>7. ASSUME NEW e \in Dispatchers \ {d} PROVE DispatcherInv(e)' /\ BatchFiles(e)'
    <3>1. DispatcherInv(e)' BY <1>0, <2>4, OthersKept
    <3>2. Disturbed(e) => Disturbed(e)' BY <1>0, StillDisturbed
    <3>3. BatchFiles(e)' BY <1>0, <2>4, <3>2, FilesKept
    <3> QED BY <3>1, <3>3
  <2> QED BY <2>3, <2>5, <2>6, <2>7 DEF BatchesInv
<1> QED BY <1>3, <1>4 DEF read_validated_lines

LEMMA CreateStep ==
  ASSUME BatchesInv, NEW d \in Dispatchers, CreateBatch(d)
  PROVE  BatchesInv'
<1>0. /\ JobAt(d, "create") /\ JobTo(d, "write")
      /\ batchFile' = Named(Path(d), [by |-> d, from |-> offset[d], upto |-> offset[d]])
      /\ filled' = [filled EXCEPT ![d] = 0]
      /\ UNCHANGED <<job, total, sizes, num, offset, broken>>
  BY DEF CreateBatch
<1>1. /\ jobPc'[d] = "write" /\ filled'[d] = 0
      /\ \A e \in Dispatchers \ {d} : jobPc'[e] = jobPc[e] /\ filled'[e] = filled[e]
  BY <1>0 DEF BatchesInv, BatchTypes, JobTo
<1>2. /\ DOMAIN batchFile' = DOMAIN batchFile \cup {Path(d)}
      /\ batchFile'[Path(d)] = [by |-> d, from |-> offset[d], upto |-> offset[d]]
      /\ \A x \in DOMAIN batchFile \ {Path(d)} : batchFile'[x] = batchFile[x]
  BY <1>0 DEF Named
<1>3. BatchTypes'
  <2>1. batchFile' \in [DOMAIN batchFile' -> [by : Dispatchers \cup {Nobody}, from : Nat, upto : Nat]]
    <3>1. batchFile' = [x \in DOMAIN batchFile' |-> batchFile'[x]] BY <1>0 DEF Named
    <3>2. offset[d] \in Nat BY DEF BatchesInv, BatchTypes
    <3>3. \A x \in DOMAIN batchFile' :
            batchFile'[x] \in [by : Dispatchers \cup {Nobody}, from : Nat, upto : Nat]
      BY <1>2, <3>2 DEF BatchesInv, BatchTypes
    <3> QED BY <3>1, <3>3
  <2> QED BY <1>0, <2>1 DEF BatchesInv, BatchTypes, JobTo
<1>4. DispatcherInv(d)'
  <2>1. jobPc[d] = "create" BY <1>0 DEF JobAt
  <2>2. num[d] \in Nat /\ num[d] < Len(sizes[d]) BY <2>1 DEF BatchesInv, BatchTypes, DispatcherInv, Divided
  <2>3. Len(sizes[d]) \in Nat BY DEF BatchesInv, BatchTypes
  <2>4. 0 < sizes[d][num[d] + 1]
    <3>1. num[d] + 1 \in 1..Len(sizes[d]) BY <2>2, <2>3
    <3>2. \A i \in 1..Len(sizes[d]) : sizes[d][i] > 0 BY <2>1, DivisionOf DEF BatchesInv, Divided
    <3>3. sizes[d][num[d] + 1] \in Nat BY <3>1 DEF BatchesInv, BatchTypes
    <3> QED BY <3>1, <3>2, <3>3
  <2> QED BY <1>0, <1>1, <2>1, <2>2, <2>4 DEF BatchesInv, DispatcherInv, Divided, JobAt, BeforeOf
<1>5. BatchFiles(d)'
  <2>1. jobPc[d] = "create" BY <1>0 DEF JobAt
  <2>2. num[d] \in Nat BY DEF BatchesInv, BatchTypes
  <2>3. Path(d)' = Path(d) BY <1>0 DEF Path
  <2>4. ASSUME NEW i \in 1..num[d]
        PROVE LET x == <<job[d].directory, i>> IN
              x \in DOMAIN batchFile /\ x # Path(d)
    <3>1. <<job[d].directory, i>> \in DOMAIN batchFile
      BY <2>1 DEF BatchesInv, BatchFiles, Divided
    <3>2. i # num[d] + 1 BY <2>2
    <3> QED BY <3>1, <3>2 DEF Path
  <2>5. Disturbed(d) => Disturbed(d)' BY <1>0, StillDisturbed
  <2>6. ASSUME NEW i \in 1..num'[d]
        PROVE LET x == <<job'[d].directory, i>> IN
              /\ x \in DOMAIN batchFile'
              /\ batchFile'[x].by # d => Disturbed(d)'
              /\ batchFile'[x].by = d => /\ batchFile'[x].from = BeforeOf(d, i - 1)'
                                         /\ batchFile'[x].upto = BeforeOf(d, i)'
    <3> DEFINE x == <<job[d].directory, i>>
    <3>1. i \in 1..num[d] BY <1>0
    <3>2. x \in DOMAIN batchFile /\ x # Path(d) BY <2>4, <3>1
    <3>3. batchFile'[x] = batchFile[x] BY <1>2, <3>2
    <3>4. /\ batchFile[x].by # d => Disturbed(d)
          /\ batchFile[x].by = d => /\ batchFile[x].from = BeforeOf(d, i - 1)
                                    /\ batchFile[x].upto = BeforeOf(d, i)
      BY <2>1, <3>1 DEF BatchesInv, BatchFiles, Divided
    <3> QED BY <1>0, <1>2, <2>5, <3>2, <3>3, <3>4 DEF BeforeOf
  <2>7. /\ Path(d)' \in DOMAIN batchFile'
        /\ batchFile'[Path(d)'].by = d
        /\ batchFile'[Path(d)'].from = offset'[d]
        /\ batchFile'[Path(d)'].upto = offset'[d] + filled'[d]
    <3>1. offset[d] \in Nat BY DEF BatchesInv, BatchTypes
    <3> QED BY <1>0, <1>1, <1>2, <2>3, <3>1
  <2> QED BY <1>1, <2>6, <2>7 DEF BatchFiles
<1>6. ASSUME NEW e \in Dispatchers \ {d} PROVE DispatcherInv(e)' /\ BatchFiles(e)'
  <2>1. DispatcherInv(e)' BY <1>0, <1>1, OthersKept
  <2>2. Disturbed(e) => Disturbed(e)' BY <1>0, StillDisturbed
  \* A file of e that d takes.
  <2>3. ASSUME NEW i, <<job[e].directory, i>> = Path(d), job[e] # NoJob PROVE Disturbed(e)'
    <3>1. job[e].directory = job[d].directory BY <2>3 DEF Path
    <3>2. job[d] \in Jobs BY <1>0 DEF BatchesInv, DispatcherInv, JobAt, Divided
    <3>3. job[d] # NoJob BY <3>2, JobsAssumption
    <3> QED BY <1>0, <3>1, <3>3 DEF Disturbed
  <2>4. CASE jobPc[e] \notin Divided
    <3>1. jobPc'[e] \notin Divided /\ ~JobAt(e, "write")'
      BY <1>1, <2>4 DEF JobAt, Divided
    <3> QED BY <2>1, <3>1 DEF BatchFiles, Divided
  <2>5. CASE jobPc[e] \in Divided
    <3>0. job[e] # NoJob /\ jobPc'[e] \in Divided
      BY <1>1, <2>5, JobsAssumption DEF BatchesInv, DispatcherInv
    <3>1. ASSUME NEW i \in 1..num'[e]
          PROVE LET x == <<job'[e].directory, i>> IN
                /\ x \in DOMAIN batchFile'
                /\ batchFile'[x].by # e => Disturbed(e)'
                /\ batchFile'[x].by = e => /\ batchFile'[x].from = BeforeOf(e, i - 1)'
                                           /\ batchFile'[x].upto = BeforeOf(e, i)'
      <4> DEFINE x == <<job[e].directory, i>>
      <4>1. i \in 1..num[e] BY <1>0
      <4>2. /\ x \in DOMAIN batchFile
            /\ batchFile[x].by # e => Disturbed(e)
            /\ batchFile[x].by = e => /\ batchFile[x].from = BeforeOf(e, i - 1)
                                      /\ batchFile[x].upto = BeforeOf(e, i)
        BY <2>5, <4>1 DEF BatchesInv, BatchFiles
      <4>3. CASE x = Path(d)
        BY <4>2, <4>3, <2>3, <3>0, <1>0, <1>2
      <4>4. CASE x # Path(d)
        BY <4>2, <4>4, <2>2, <1>0, <1>2 DEF BeforeOf
      <4> QED BY <4>3, <4>4
    <3>2. ASSUME JobAt(e, "write")'
          PROVE /\ Path(e)' \in DOMAIN batchFile'
                /\ batchFile'[Path(e)'].by # e => Disturbed(e)'
                /\ batchFile'[Path(e)'].by = e =>
                     /\ batchFile'[Path(e)'].from = offset'[e]
                     /\ batchFile'[Path(e)'].upto = offset'[e] + filled'[e]
      <4>1. Path(e)' = Path(e) /\ JobAt(e, "write") BY <1>0, <1>1, <3>2 DEF Path, JobAt
      <4>2. /\ Path(e) \in DOMAIN batchFile
            /\ batchFile[Path(e)].by # e => Disturbed(e)
            /\ batchFile[Path(e)].by = e => /\ batchFile[Path(e)].from = offset[e]
                                            /\ batchFile[Path(e)].upto = offset[e] + filled[e]
        BY <4>1 DEF BatchesInv, BatchFiles
      <4>3. CASE Path(e) = Path(d)
        <5>1. Disturbed(e)' BY <4>3, <2>3, <3>0 DEF Path
        <5> QED BY <4>1, <4>3, <5>1, <1>2
      <4>4. CASE Path(e) # Path(d)
        BY <4>1, <4>2, <4>4, <2>2, <1>0, <1>1, <1>2
      <4> QED BY <4>3, <4>4
    <3> QED BY <2>1, <3>1, <3>2 DEF BatchFiles
  <2> QED BY <2>4, <2>5
<1> QED BY <1>3, <1>4, <1>5, <1>6 DEF BatchesInv

LEMMA WriteStep ==
  ASSUME BatchesInv, NEW d \in Dispatchers, WriteLines(d)
  PROVE  BatchesInv'
<1> DEFINE size == sizes[d][num[d] + 1]
<1> PICK k \in filled[d] + 1 .. size :
       /\ filled' = [filled EXCEPT ![d] = k]
       /\ batchFile' = [batchFile EXCEPT ![Path(d)] =
                          IF @.by = d THEN [@ EXCEPT !.upto = offset[d] + k]
                          ELSE [@ EXCEPT !.by = Nobody]]
       /\ IF k < size THEN UNCHANGED <<jobPc, num, offset>>
          ELSE /\ num' = [num EXCEPT ![d] = @ + 1]
               /\ offset' = [offset EXCEPT ![d] = @ + k]
               /\ JobTo(d, IF num[d] + 1 = Len(sizes[d]) THEN "print" ELSE "create")
  BY DEF WriteLines
<1>0. JobAt(d, "write") /\ UNCHANGED <<job, total, sizes, broken>> BY DEF WriteLines
<1>1. jobPc[d] = "write" /\ jobPc[d] \in Divided BY <1>0 DEF JobAt, Divided
<1>2. /\ num[d] \in Nat /\ offset[d] \in Nat /\ filled[d] \in Nat /\ Len(sizes[d]) \in Nat
      /\ num[d] < Len(sizes[d]) /\ size \in Nat /\ filled[d] < size
  <2>1. num[d] \in Nat /\ offset[d] \in Nat /\ filled[d] \in Nat /\ Len(sizes[d]) \in Nat
    BY DEF BatchesInv, BatchTypes
  <2>2. num[d] < Len(sizes[d]) /\ filled[d] < size
    BY <1>0, <1>1 DEF BatchesInv, DispatcherInv, JobAt
  <2>3. num[d] + 1 \in 1..Len(sizes[d]) BY <2>1, <2>2
  <2>4. size \in Nat BY <2>3 DEF BatchesInv, BatchTypes
  <2> QED BY <2>1, <2>2, <2>4
<1>3. k \in Nat /\ k <= size BY <1>2
<1>4. /\ Path(d) \in DOMAIN batchFile
      /\ batchFile[Path(d)].by # d => Disturbed(d)
      /\ batchFile[Path(d)].by = d => /\ batchFile[Path(d)].from = offset[d]
                                      /\ batchFile[Path(d)].upto = offset[d] + filled[d]
      /\ batchFile[Path(d)] \in [by : Dispatchers \cup {Nobody}, from : Nat, upto : Nat]
  BY <1>0 DEF BatchesInv, BatchFiles, BatchTypes
<1>5. /\ DOMAIN batchFile' = DOMAIN batchFile
      /\ \A x \in DOMAIN batchFile \ {Path(d)} : batchFile'[x] = batchFile[x]
      /\ batchFile[Path(d)].by = d =>
           /\ batchFile'[Path(d)].by = d /\ batchFile'[Path(d)].from = offset[d]
           /\ batchFile'[Path(d)].upto = offset[d] + k
      /\ batchFile[Path(d)].by # d => batchFile'[Path(d)].by = Nobody
  <2>1. batchFile'[Path(d)] = IF batchFile[Path(d)].by = d
                              THEN [batchFile[Path(d)] EXCEPT !.upto = offset[d] + k]
                              ELSE [batchFile[Path(d)] EXCEPT !.by = Nobody]
    BY <1>4 DEF BatchesInv, BatchTypes
  <2> QED BY <1>4, <2>1 DEF BatchesInv, BatchTypes
<1>6. batchFile' \in [DOMAIN batchFile' -> [by : Dispatchers \cup {Nobody}, from : Nat, upto : Nat]]
  <2>1. offset[d] + k \in Nat BY <1>2, <1>3
  <2>2. [batchFile[Path(d)] EXCEPT !.upto = offset[d] + k]
          \in [by : Dispatchers \cup {Nobody}, from : Nat, upto : Nat]
    BY <1>4, <2>1
  <2>3. [batchFile[Path(d)] EXCEPT !.by = Nobody]
          \in [by : Dispatchers \cup {Nobody}, from : Nat, upto : Nat]
    BY <1>4
  <2> QED BY <1>4, <1>5, <2>2, <2>3 DEF BatchesInv, BatchTypes
<1>7. /\ \A e \in Dispatchers \ {d} :
           /\ jobPc'[e] = jobPc[e] /\ filled'[e] = filled[e] /\ num'[e] = num[e]
           /\ offset'[e] = offset[e]
      /\ filled'[d] = k
      /\ k < size => jobPc'[d] = "write" /\ num'[d] = num[d] /\ offset'[d] = offset[d]
      /\ ~(k < size) => /\ num'[d] = num[d] + 1 /\ offset'[d] = offset[d] + k
                        /\ jobPc'[d] = IF num[d] + 1 = Len(sizes[d]) THEN "print" ELSE "create"
  BY <1>1 DEF BatchesInv, BatchTypes, JobTo
<1>8. BatchTypes'
  <2>1. num[d] + 1 \in Nat /\ offset[d] + k \in Nat BY <1>2, <1>3
  <2>2. num' \in [Dispatchers -> Nat] /\ offset' \in [Dispatchers -> Nat]
    BY <2>1 DEF BatchesInv, BatchTypes
  <2>3. filled' \in [Dispatchers -> Nat] BY <1>3 DEF BatchesInv, BatchTypes
  <2>4. jobPc' \in [Dispatchers -> {"new", "read", "create", "write", "print", "done", "failed"}]
    BY DEF BatchesInv, BatchTypes, JobTo
  <2> QED BY <1>0, <1>6, <2>2, <2>3, <2>4 DEF BatchesInv, BatchTypes
<1>9. Nobody # d /\ \A e \in Dispatchers : Nobody # e BY JobsAssumption
<1>10. /\ BeforeOf(d, num[d]) = offset[d]
       /\ BeforeOf(d, num[d] + 1) = offset[d] + size
       /\ \A i : BeforeOf(d, i)' = BeforeOf(d, i)
  <2>1. num[d] \in 0..(Len(sizes[d]) - 1) BY <1>2
  <2>2. BeforeOf(d, num[d] + 1) = BeforeOf(d, num[d]) + size
    BY <1>1, <2>1, DivisionOf DEF BatchesInv
  <2>3. BeforeOf(d, num[d]) = offset[d] BY <1>1 DEF BatchesInv, DispatcherInv
  <2> QED BY <1>0, <2>2, <2>3 DEF BeforeOf
<1>11. DispatcherInv(d)'
  <2>1. /\ job'[d] \in Jobs /\ validate_args(job'[d]) /\ total'[d] # 0
        /\ sizes'[d] = compute_batches(total'[d], job'[d].min_batch, job'[d].max_batch)
    BY <1>0, <1>1 DEF BatchesInv, DispatcherInv
  <2>2. CASE k < size
    <3>1. offset'[d] = BeforeOf(d, num[d])' BY <1>7, <1>10, <2>2
    <3> QED BY <1>0, <1>2, <1>7, <2>1, <2>2, <3>1 DEF DispatcherInv, JobAt
  <2>3. CASE ~(k < size)
    <3>0. k = size BY <1>2, <1>3, <2>3
    <3>1. offset'[d] = BeforeOf(d, num[d])' BY <1>7, <1>10, <2>3, <3>0
    <3>2. num'[d] <= Len(sizes'[d]) BY <1>0, <1>2, <1>7, <2>3
    <3>3. CASE num[d] + 1 = Len(sizes[d])
      BY <1>0, <1>7, <2>1, <2>3, <3>1, <3>2, <3>3 DEF DispatcherInv, JobAt
    <3>4. CASE num[d] + 1 # Len(sizes[d])
      <4>1. num'[d] < Len(sizes'[d]) BY <1>0, <1>2, <1>7, <2>3, <3>4
      <4> QED BY <1>0, <1>7, <2>1, <2>3, <3>1, <3>2, <3>4, <4>1 DEF DispatcherInv, JobAt
    <3> QED BY <3>3, <3>4
  <2> QED BY <2>2, <2>3
<1>12. Path(d) = <<job[d].directory, num[d] + 1>> BY DEF Path
<1>13. BatchFiles(d)'
  <2>1. Disturbed(d) => Disturbed(d)' BY <1>0, StillDisturbed
  <2>2. ASSUME NEW i \in 1..num[d]
        PROVE LET x == <<job[d].directory, i>> IN
              /\ x \in DOMAIN batchFile'
              /\ batchFile'[x].by # d => Disturbed(d)'
              /\ batchFile'[x].by = d => /\ batchFile'[x].from = BeforeOf(d, i - 1)'
                                         /\ batchFile'[x].upto = BeforeOf(d, i)'
    <3> DEFINE x == <<job[d].directory, i>>
    <3>1. /\ x \in DOMAIN batchFile
          /\ batchFile[x].by # d => Disturbed(d)
          /\ batchFile[x].by = d => /\ batchFile[x].from = BeforeOf(d, i - 1)
                                    /\ batchFile[x].upto = BeforeOf(d, i)
      BY <1>1 DEF BatchesInv, BatchFiles
    <3>2. i # num[d] + 1 BY <1>2
    <3>3. x # Path(d) BY <1>12, <3>2
    <3>4. batchFile'[x] = batchFile[x] BY <1>5, <3>1, <3>3
    <3> QED BY <1>5, <1>10, <2>1, <3>1, <3>4
  <2>3. CASE k < size
    <3>1. Path(d)' = Path(d) /\ num'[d] = num[d] BY <1>0, <1>7, <2>3 DEF Path
    <3>2. /\ Path(d)' \in DOMAIN batchFile'
          /\ batchFile'[Path(d)'].by # d => Disturbed(d)'
          /\ batchFile'[Path(d)'].by = d => /\ batchFile'[Path(d)'].from = offset'[d]
                                            /\ batchFile'[Path(d)'].upto = offset'[d] + filled'[d]
      BY <1>4, <1>5, <1>7, <1>9, <2>1, <2>3, <3>1
    <3> QED BY <1>0, <2>2, <3>1, <3>2 DEF BatchFiles
  <2>4. CASE ~(k < size)
    <3>0. k = size BY <1>2, <1>3, <2>4
    <3>1. num'[d] = num[d] + 1 /\ ~JobAt(d, "write")' BY <1>7, <2>4 DEF JobAt
    <3>2. ASSUME NEW i, i = num[d] + 1
          PROVE LET x == <<job[d].directory, i>> IN
                /\ x \in DOMAIN batchFile'
                /\ batchFile'[x].by # d => Disturbed(d)'
                /\ batchFile'[x].by = d => /\ batchFile'[x].from = BeforeOf(d, i - 1)'
                                           /\ batchFile'[x].upto = BeforeOf(d, i)'
      <4>1. i - 1 = num[d] BY <1>2, <3>2
      <4>2. BeforeOf(d, i - 1)' = offset[d] /\ BeforeOf(d, i)' = offset[d] + k
        BY <1>10, <3>0, <3>2, <4>1
      <4> QED BY <1>4, <1>5, <1>9, <1>12, <2>1, <3>2, <4>2
    <3>3. \A i \in 1..num'[d] : i \in 1..num[d] \/ i = num[d] + 1 BY <1>2, <3>1
    <3>4. ASSUME NEW i \in 1..num'[d]
          PROVE LET x == <<job[d].directory, i>> IN
                /\ x \in DOMAIN batchFile'
                /\ batchFile'[x].by # d => Disturbed(d)'
                /\ batchFile'[x].by = d => /\ batchFile'[x].from = BeforeOf(d, i - 1)'
                                           /\ batchFile'[x].upto = BeforeOf(d, i)'
      BY <2>2, <3>2, <3>3
    <3> QED BY <1>0, <3>1, <3>4 DEF BatchFiles
  <2> QED BY <2>3, <2>4
<1>14. ASSUME NEW e \in Dispatchers \ {d} PROVE DispatcherInv(e)' /\ BatchFiles(e)'
  <2>1. DispatcherInv(e)' BY <1>0, <1>7, OthersKept
  <2>2. Disturbed(e) => Disturbed(e)' BY <1>0, StillDisturbed
  \* Where d writes there is no file of e, now or before.
  <2>3. batchFile'[Path(d)].by # e BY <1>5, <1>9
  <2>4. ASSUME NEW i, <<job[e].directory, i>> = Path(d), job[e] # NoJob PROVE Disturbed(e)'
    <3>1. job[e].directory = job[d].directory BY <2>4 DEF Path
    <3>2. job[d] \in Jobs BY <1>1 DEF BatchesInv, DispatcherInv
    <3>3. job[d] # NoJob BY <3>2, JobsAssumption
    <3> QED BY <1>0, <3>1, <3>3 DEF Disturbed
  <2>5. CASE jobPc[e] \notin Divided
    <3>1. jobPc'[e] \notin Divided /\ ~JobAt(e, "write")'
      BY <1>7, <2>5 DEF JobAt, Divided
    <3> QED BY <2>1, <3>1 DEF BatchFiles, Divided
  <2>6. CASE jobPc[e] \in Divided
    <3>0. job[e] # NoJob
      BY <2>6, JobsAssumption DEF BatchesInv, DispatcherInv
    <3>1. ASSUME NEW i \in 1..num'[e]
          PROVE LET x == <<job'[e].directory, i>> IN
                /\ x \in DOMAIN batchFile'
                /\ batchFile'[x].by # e => Disturbed(e)'
                /\ batchFile'[x].by = e => /\ batchFile'[x].from = BeforeOf(e, i - 1)'
                                           /\ batchFile'[x].upto = BeforeOf(e, i)'
      <4> DEFINE x == <<job[e].directory, i>>
      <4>1. i \in 1..num[e] BY <1>7
      <4>2. /\ x \in DOMAIN batchFile
            /\ batchFile[x].by # e => Disturbed(e)
            /\ batchFile[x].by = e => /\ batchFile[x].from = BeforeOf(e, i - 1)
                                      /\ batchFile[x].upto = BeforeOf(e, i)
        BY <2>6, <4>1 DEF BatchesInv, BatchFiles
      <4>3. CASE x = Path(d)
        BY <4>2, <4>3, <2>3, <2>4, <3>0, <1>0, <1>5
      <4>4. CASE x # Path(d)
        BY <4>2, <4>4, <2>2, <1>0, <1>5 DEF BeforeOf
      <4> QED BY <4>3, <4>4
    <3>2. ASSUME JobAt(e, "write")'
          PROVE /\ Path(e)' \in DOMAIN batchFile'
                /\ batchFile'[Path(e)'].by # e => Disturbed(e)'
                /\ batchFile'[Path(e)'].by = e =>
                     /\ batchFile'[Path(e)'].from = offset'[e]
                     /\ batchFile'[Path(e)'].upto = offset'[e] + filled'[e]
      <4>1. Path(e)' = Path(e) /\ JobAt(e, "write") BY <1>0, <1>7, <3>2 DEF Path, JobAt
      <4>2. /\ Path(e) \in DOMAIN batchFile
            /\ batchFile[Path(e)].by # e => Disturbed(e)
            /\ batchFile[Path(e)].by = e => /\ batchFile[Path(e)].from = offset[e]
                                            /\ batchFile[Path(e)].upto = offset[e] + filled[e]
        BY <4>1 DEF BatchesInv, BatchFiles
      <4>3. CASE Path(e) = Path(d)
        <5>1. Disturbed(e)' BY <4>3, <2>4, <3>0 DEF Path
        <5> QED BY <4>1, <4>2, <4>3, <5>1, <2>3, <1>5
      <4>4. CASE Path(e) # Path(d)
        BY <4>1, <4>2, <4>4, <2>2, <1>0, <1>5, <1>7
      <4> QED BY <4>3, <4>4
    <3> QED BY <2>1, <3>1, <3>2 DEF BatchFiles
  <2> QED BY <2>5, <2>6
<1> QED BY <1>8, <1>11, <1>13, <1>14 DEF BatchesInv

\* The manifest is printed, or d stops: only where d is changes.
LEMMA StopStep ==
  ASSUME BatchesInv, NEW d \in Dispatchers, Manifest(d) \/ BreakDown(d)
  PROVE  BatchesInv'
<1>1. /\ (JobTo(d, "done") /\ JobAt(d, "print")) \/ JobTo(d, "failed")
      /\ UNCHANGED <<job, total, sizes, num, offset, filled, batchFile>>
  BY DEF Manifest, BreakDown
<1>2. /\ (jobPc'[d] = "done" /\ jobPc[d] = "print") \/ jobPc'[d] = "failed"
      /\ \A e \in Dispatchers \ {d} : jobPc'[e] = jobPc[e]
  BY <1>1 DEF BatchesInv, BatchTypes, JobTo, JobAt
<1>3. BatchTypes' BY <1>1 DEF BatchesInv, BatchTypes, JobTo
<1>4. DispatcherInv(d)'
  BY <1>1, <1>2 DEF BatchesInv, DispatcherInv, Divided, JobAt, BeforeOf
<1>5. Disturbed(d) => Disturbed(d)' BY <1>1, StillDisturbed
<1>6. BatchFiles(d)'
  BY <1>1, <1>2, <1>5 DEF BatchesInv, BatchFiles, Divided, JobAt, BeforeOf
<1>7. ASSUME NEW e \in Dispatchers \ {d} PROVE DispatcherInv(e)' /\ BatchFiles(e)'
  <2>1. DispatcherInv(e)' BY <1>1, <1>2, OthersKept
  <2>2. Disturbed(e) => Disturbed(e)' BY <1>1, StillDisturbed
  <2>3. BatchFiles(e)' BY <1>1, <1>2, <2>2, FilesKept
  <2> QED BY <2>1, <2>3
<1> QED BY <1>3, <1>4, <1>6, <1>7 DEF BatchesInv

LEMMA InvNext == BatchesInv /\ [BatchesNext]_batchVars => BatchesInv'
<1> SUFFICES ASSUME BatchesInv, [BatchesNext]_batchVars PROVE BatchesInv' OBVIOUS
<1>1. CASE UNCHANGED batchVars
  BY <1>1 DEF batchVars, BatchesInv, BatchTypes, DispatcherInv, BatchFiles, JobAt, BeforeOf,
              Path, Disturbed
<1>2. ASSUME NEW d \in Dispatchers,
             Dispatch(d) \/ read_validated_lines(d) \/ CreateBatch(d) \/ WriteLines(d)
               \/ Manifest(d) \/ BreakDown(d)
      PROVE BatchesInv'
  BY <1>2, DispatchStep, ReadStep, CreateStep, WriteStep, StopStep
<1> QED BY <1>1, <1>2 DEF BatchesNext

LEMMA InvPromise == BatchesInv => BatchesAsPromised
<1> SUFFICES ASSUME BatchesInv, NEW d \in Dispatchers, JobAt(d, "done")
             PROVE LET file(i) == batchFile[<<job[d].directory, i>>]
                       own(i) == i \in DOMAIN sizes[d] /\ file(i).by = d
                   IN  /\ WellDivided(sizes[d], total[d], job[d].min_batch, job[d].max_batch)
                       /\ \A i \in DOMAIN sizes[d] :
                            /\ own(i) \/ Disturbed(d)
                            /\ own(i) =>
                                 /\ file(i).upto - file(i).from = sizes[d][i]
                                 /\ i = 1 => file(i).from = 0
                                 /\ i = Len(sizes[d]) => file(i).upto = total[d]
                                 /\ own(i + 1) => file(i + 1).from = file(i).upto
  BY DEF BatchesAsPromised
<1> DEFINE file(i) == batchFile[<<job[d].directory, i>>]
           own(i) == i \in DOMAIN sizes[d] /\ file(i).by = d
<1>1. jobPc[d] \in Divided /\ num[d] = Len(sizes[d]) BY DEF BatchesInv, DispatcherInv, Divided, JobAt
<1>2. /\ sizes[d] \in Seq(Nat) /\ Len(sizes[d]) > 0
      /\ BeforeOf(d, 0) = 0 /\ BeforeOf(d, Len(sizes[d])) = total[d]
      /\ \A i \in 0..(Len(sizes[d]) - 1) : BeforeOf(d, i + 1) = BeforeOf(d, i) + sizes[d][i + 1]
      /\ WellDivided(sizes[d], total[d], job[d].min_batch, job[d].max_batch)
  BY <1>1, DivisionOf DEF BatchesInv
<1>3. DOMAIN sizes[d] = 1..num[d] /\ Len(sizes[d]) \in Nat BY <1>1, <1>2
<1>4. ASSUME NEW i \in 1..num[d]
      PROVE /\ file(i).by # d => Disturbed(d)
            /\ file(i).by = d => file(i).from = BeforeOf(d, i - 1) /\ file(i).upto = BeforeOf(d, i)
  BY <1>1 DEF BatchesInv, BatchFiles
<1>5. \A i \in 0..Len(sizes[d]) : BeforeOf(d, i) \in Int
  <2>1. total[d] \in Nat \ {0} /\ job[d] \in Jobs /\ validate_args(job[d])
    BY <1>1 DEF BatchesInv, DispatcherInv, BatchTypes
  <2>2. Bounds(job[d].min_batch, job[d].max_batch) BY <2>1, BoundsOfJob
  <2>3. ASSUME NEW i \in Nat
        PROVE Before(total[d], job[d].min_batch, job[d].max_batch, i) \in Int
    BY <2>1, <2>2, BeforeIsNat
  <2>4. \A i \in 0..Len(sizes[d]) : i \in Nat BY <1>3
  <2> QED BY <2>3, <2>4 DEF BeforeOf
<1>6. ASSUME NEW i \in DOMAIN sizes[d]
      PROVE /\ own(i) \/ Disturbed(d)
            /\ own(i) => /\ file(i).upto - file(i).from = sizes[d][i]
                         /\ i = 1 => file(i).from = 0
                         /\ i = Len(sizes[d]) => file(i).upto = total[d]
                         /\ own(i + 1) => file(i + 1).from = file(i).upto
  <2>1. i \in 1..num[d] /\ i - 1 \in 0..(Len(sizes[d]) - 1) /\ i - 1 + 1 = i BY <1>1, <1>3
  <2>2. BeforeOf(d, i) = BeforeOf(d, i - 1) + sizes[d][i] BY <1>2, <2>1
  <2>3. sizes[d][i] \in Nat /\ BeforeOf(d, i - 1) \in Int BY <1>2, <1>3, <1>5, <2>1
  <2>4. ASSUME own(i) PROVE /\ file(i).upto - file(i).from = sizes[d][i]
                            /\ i = 1 => file(i).from = 0
                            /\ i = Len(sizes[d]) => file(i).upto = total[d]
    <3>1. file(i).from = BeforeOf(d, i - 1) /\ file(i).upto = BeforeOf(d, i)
      BY <1>4, <2>1, <2>4
    <3>2. i = 1 => BeforeOf(d, i - 1) = 0
      <4>1. 1 - 1 = 0 OBVIOUS
      <4> QED BY <1>2, <4>1
    <3> QED BY <1>2, <2>2, <2>3, <3>1, <3>2
  <2>5. ASSUME own(i), own(i + 1) PROVE file(i + 1).from = file(i).upto
    <3>1. i + 1 \in 1..num[d] /\ i + 1 - 1 = i BY <1>3, <2>1, <2>5
    <3> QED BY <1>4, <2>1, <2>5, <3>1
  <2>6. own(i) \/ Disturbed(d) BY <1>4, <2>1
  <2> QED BY <2>4, <2>5, <2>6
<1> HIDE DEF file, own
<1>7. \A i \in DOMAIN sizes[d] :
        /\ own(i) \/ Disturbed(d)
        /\ own(i) => /\ file(i).upto - file(i).from = sizes[d][i]
                     /\ i = 1 => file(i).from = 0
                     /\ i = Len(sizes[d]) => file(i).upto = total[d]
                     /\ own(i + 1) => file(i + 1).from = file(i).upto
  BY <1>6
<1> QED BY <1>2, <1>7 DEF file, own

\* The files that a manifest of split_jsonl_batches names hold every record of
\* the input once and in order, in the fewest batches of at most max_batch,
\* all but perhaps the last of at least min_batch, whatever other dispatchers
\* do elsewhere, fail or are killed.
THEOREM BatchesHold == BatchesSpec => []BatchesAsPromised
<1>1. BatchesSpec => []BatchesInv BY InvInit, InvNext, PTL DEF BatchesSpec
<1> QED BY <1>1, InvPromise, PTL

=============================================================================
