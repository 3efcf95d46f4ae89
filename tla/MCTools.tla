------------------------------ MODULE MCTools ------------------------------
(***************************************************************************)
(* The tools that share no state, checked in one run: gates, tool hooks,   *)
(* launcher, dependency resolution, guardrails, announce, the batch         *)
(* dispatcher and the diff of exchanges.  A behaviour takes one of them,    *)
(* its subject, from every initial state it has; the others stay where      *)
(* they start.                                                             *)
(***************************************************************************)
EXTENDS MCSubjects

VARIABLE subject

Subjects == {"gates", "hooks", "launcher", "deps", "guardrails", "announce", "batches",
             "exchanges"}

GatesRest ==
  /\ stage = CHOOSE s \in Stages : TRUE
  /\ draft = NoFile /\ result = NoFile /\ world = {}
  /\ writing = NoAnswer /\ truncated = FALSE
  /\ told = NoAnswer /\ answer = NoAnswer
  /\ gateFaults = 0 /\ gateMoves = 0

HooksRest ==
  /\ call = CHOOSE c \in Calls : c.tool = "Bash"
  /\ config = CHOOSE c \in Configs : TRUE
  /\ hooks = {"llm_bash"}
  /\ step = [h \in hooks |-> "started"] /\ said = [h \in hooks |-> Unset]
  /\ journal = {} /\ unwritten = {} /\ alerts = {} /\ verdict = "pending" /\ approved = FALSE
  /\ died = 0

LauncherRest ==
  /\ inherited = CHOOSE e \in Environments : TRUE
  /\ app = AppState_new(CHOOSE l \in scan_library([d \in Directories |-> {}]) : TRUE, <<>>)
  /\ touched = {} /\ gone = {} /\ outcome = NoValue

\* The launcher is started with exemptions over one of the two profiles files, and
\* without any over the other.
Environment == inherited = NoValue <=> Len(app.profiles) = 2

DepsRest ==
  /\ project = [f \in {A} |-> File(<<>>, <<>>)]
  /\ readConfig = CHOOSE c \in ReadConfigs : TRUE
  /\ target = A
  /\ injected = Nothing

AnnounceRest ==
  AnnounceInit /\ settings = BadToml

ToolsInit ==
  /\ subject \in Subjects
  /\ IF subject = "gates" THEN GatesInit ELSE GatesRest
  /\ IF subject = "hooks" THEN HooksInit ELSE HooksRest
  /\ IF subject = "launcher" THEN LauncherInit /\ Environment ELSE LauncherRest
  /\ IF subject = "deps" THEN DepsInit ELSE DepsRest
  /\ IF subject = "announce" THEN AnnounceInit ELSE AnnounceRest
  /\ GuardInit /\ BatchesInit /\ ExchangesInit

ToolsNext ==
  \/ /\ subject = "gates" /\ GatesNext
     /\ UNCHANGED <<subject, hookVars, launchVars, depsVars, guardVars, announceVars, batchVars,
                   exchangeVars>>
  \/ /\ subject = "hooks" /\ HooksNext
     /\ UNCHANGED <<subject, gateVars, launchVars, depsVars, guardVars, announceVars, batchVars,
                   exchangeVars>>
  \/ /\ subject = "launcher" /\ LauncherNext
     /\ UNCHANGED <<subject, gateVars, hookVars, depsVars, guardVars, announceVars, batchVars,
                   exchangeVars>>
  \/ /\ subject = "deps" /\ DepsNext
     /\ UNCHANGED <<subject, gateVars, hookVars, launchVars, guardVars, announceVars, batchVars,
                   exchangeVars>>
  \/ /\ subject = "guardrails" /\ GuardNext
     /\ UNCHANGED <<subject, gateVars, hookVars, launchVars, depsVars, announceVars, batchVars,
                   exchangeVars>>
  \/ /\ subject = "announce" /\ AnnounceNext
     /\ UNCHANGED <<subject, gateVars, hookVars, launchVars, depsVars, guardVars, batchVars,
                   exchangeVars>>
  \/ /\ subject = "batches" /\ BatchesNext
     /\ UNCHANGED <<subject, gateVars, hookVars, launchVars, depsVars, guardVars, announceVars,
                   exchangeVars>>
  \/ /\ subject = "exchanges" /\ ExchangesNext
     /\ UNCHANGED <<subject, gateVars, hookVars, launchVars, depsVars, guardVars, announceVars,
                   batchVars>>

=============================================================================
