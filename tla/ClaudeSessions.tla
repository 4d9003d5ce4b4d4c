--------------------------- MODULE ClaudeSessions ---------------------------
(* Sessions of Claude Code with local backends, recorded at launch and at exit *)
(* and opened again later (claude_resume.go, package claudesession). What was  *)
(* computed is kept by Claude Code: the conversation, as large as its next turn *)
(* sends, and the runs of workflows, numbered. A record holds the context per  *)
(* slot of the launch that made it, its port, and the run to go on with. The    *)
(* recorded router port, and which session "latest" means, are left out.       *)
EXTENDS Integers, FiniteSets

CONSTANTS
  Sessions, Clients,  \* processes of ggrun that hold a Claude Code
  Ports,
  Slots,              \* the contexts per slot that the planner may come up with
  Trained,            \* the longest context of the model
  Headroom,           \* resumeContextHeadroom
  MaxWorkflows,       \* bound: runs of a session
  NoRecord, NoClient

ASSUME SessionAssumption ==
  /\ Slots \subseteq 1..Trained /\ Trained \in Nat /\ Headroom \in Nat \ {0} /\ MaxWorkflows \in Nat
  /\ NoRecord \notin [slot : Nat, port : Ports, run : Nat]
  /\ NoClient \notin [session : Sessions, slot : Nat, port : Ports, run : Nat, owns : BOOLEAN,
                      resumed : BOOLEAN, checked : BOOLEAN, leaving : BOOLEAN]

VARIABLES
  records, minted,
  conversation, workflows,  \* of each session, as Claude Code keeps them
  clients,                  \* of each client: its session, how it was opened, and the run it knows
  widened,                  \* history: sessions served with more context than was recorded
  unsettled                 \* history: sessions last left by a kill, a failed save, or two clients at once
claudeKept == <<conversation, workflows>>
sessionVars == <<records, minted, claudeKept, clients, widened, unsettled>>

SessionsInit ==
  /\ records = [s \in Sessions |-> NoRecord] /\ minted = {}
  /\ conversation = [s \in Sessions |-> 0] /\ workflows = conversation
  /\ clients = [c \in Clients |-> NoClient]
  /\ widened = {} /\ unsettled = {}

On == {c \in Clients : clients[c] # NoClient}
With(s) == {c \in On : clients[c].session = s}
Owners(port) == {c \in On : clients[c].owns /\ clients[c].port = port}

\* Something to open: a transcript, or a run.
Recoverable(s) ==
  records[s] # NoRecord /\ (conversation[s] > 0 \/ workflows[s] > 0 \/ records[s].run > 0)

MutShapeFits(s, slot) ==
  \/ slot >= records[s].slot
  \/ conversation[s] > 0

\* No mismatch: the slot has not shrunk, or what will be sent leaves it a quarter.
ShapeFits(s, slot) ==
  \/ slot >= records[s].slot
  \/ conversation[s] > 0 /\ 4 * conversation[s] <= 3 * slot

\* A plan too small for the conversation is made again, if it can be.
Ensured(s, planned) ==
  LET need == conversation[s] + Headroom IN
  {planned} \cup (IF conversation[s] > 0 /\ planned < need /\ need <= Trained THEN {need} ELSE {})

\* The run that a client is told to go on with.
RunOf(s) == IF records[s].run > 0 THEN records[s].run ELSE workflows[s]

Opens(c, s, slot, port, owns, resumed, checked) ==
  /\ clients' = [clients EXCEPT ![c] = [session |-> s, slot |-> slot, port |-> port, owns |-> owns,
       resumed |-> resumed, checked |-> checked, run |-> IF resumed THEN RunOf(s) ELSE 0, leaving |-> FALSE]]
  /\ unsettled' = IF With(s) = {} THEN unsettled ELSE unsettled \cup {s}

-----------------------------------------------------------------------------
\* A fresh launch. A record that cannot be written does not stop it.
Fresh(c, s, slot, port) ==
  /\ clients[c] = NoClient /\ s \notin minted /\ Owners(port) = {}
  /\ minted' = minted \cup {s}
  /\ \E saved \in {NoRecord, [slot |-> slot, port |-> port, run |-> 0]} : records' = [records EXCEPT ![s] = saved]
  /\ Opens(c, s, slot, port, TRUE, FALSE, FALSE)
  /\ UNCHANGED <<claudeKept, widened>>

\* A launch that opens a recorded session again, as it was recorded or with other
\* flags; refused after it has loaded when the session would not fit.
Relaunch(c, s, planned, port, force) ==
  /\ clients[c] = NoClient /\ Recoverable(s) /\ Owners(port) = {}
  /\ \E slot \in IF force THEN {planned} ELSE Ensured(s, planned) :
       /\ force \/ ShapeFits(s, slot)
       /\ Opens(c, s, slot, port, TRUE, TRUE, ~force)
       /\ widened' = IF slot > records[s].slot THEN widened \cup {s} ELSE widened
  /\ UNCHANGED <<records, minted, claudeKept>>

\* Something serves on the recorded port: the session is opened there, unchecked.
Attach(c, s) ==
  /\ clients[c] = NoClient /\ Recoverable(s)
  /\ \E o \in Owners(records[s].port) :
       /\ Opens(c, s, clients[o].slot, records[s].port, FALSE, TRUE, FALSE)
       /\ widened' = IF clients[o].slot > records[s].slot THEN widened \cup {s} ELSE widened
  /\ UNCHANGED <<records, minted, claudeKept>>

\* A turn, which the backend rejects unless the conversation fits its slot; Claude
\* Code compacts it before it outgrows the slot.
Turn(c) ==
  /\ c \in On /\ ~clients[c].leaving
  /\ \E o \in Owners(clients[c].port) :
       /\ conversation[clients[c].session] <= clients[o].slot
       /\ \E tokens \in 1..clients[o].slot :
            conversation' = [conversation EXCEPT ![clients[c].session] = tokens]
       /\ widened' = IF records[clients[c].session] # NoRecord /\ clients[o].slot > records[clients[c].session].slot
                     THEN widened \cup {clients[c].session} ELSE widened
  /\ UNCHANGED <<records, minted, workflows, clients, unsettled>>

\* A run of a workflow has its first result.
Workflow(c) ==
  /\ c \in On /\ ~clients[c].leaving /\ workflows[clients[c].session] < MaxWorkflows
  /\ workflows' = [workflows EXCEPT ![clients[c].session] = @ + 1]
  /\ UNCHANGED <<records, minted, conversation, clients, widened, unsettled>>

\* Claude Code has exited; the newest run is looked up.
Leaves(c) ==
  /\ c \in On /\ ~clients[c].leaving
  /\ clients' = [clients EXCEPT ![c].leaving = TRUE,
       ![c].run = IF workflows[clients[c].session] > 0 THEN workflows[clients[c].session] ELSE @]
  /\ LET s == clients[c].session IN
       unsettled' = IF With(s) = {c} THEN unsettled \ {s} ELSE unsettled \cup {s}
  /\ UNCHANGED <<records, minted, claudeKept, widened>>

\* What is recorded then: of a resumed session only the run.
Refreshed(k) ==
  IF k.resumed /\ records[k.session] # NoRecord
  THEN [records[k.session] EXCEPT !.run = k.run]
  ELSE [slot |-> k.slot, port |-> k.port, run |-> k.run]

MutRecords(c) ==
  /\ c \in On /\ clients[c].leaving
  /\ LET k == clients[c] IN
       records' = IF k.resumed THEN records ELSE [records EXCEPT ![k.session] = Refreshed(k)]
  /\ clients' = [clients EXCEPT ![c] = NoClient]
  /\ UNCHANGED <<minted, claudeKept, widened, unsettled>>

Records(c) ==
  /\ c \in On /\ clients[c].leaving
  /\ LET k == clients[c] IN records' = [records EXCEPT ![k.session] = Refreshed(k)]
  /\ clients' = [clients EXCEPT ![c] = NoClient]
  /\ UNCHANGED <<minted, claudeKept, widened, unsettled>>

\* The record cannot be written, or ggrun is killed before, with its backend.
Vanishes(c) ==
  /\ c \in On /\ clients' = [clients EXCEPT ![c] = NoClient]
  /\ unsettled' = unsettled \cup {clients[c].session}
  /\ UNCHANGED <<records, minted, claudeKept, widened>>

SessionsNext ==
  \/ \E c \in Clients, s \in Sessions :
       \/ \E slot \in Slots, port \in Ports :
            Fresh(c, s, slot, port) \/ \E force \in BOOLEAN : Relaunch(c, s, slot, port, force)
       \/ Attach(c, s)
  \/ \E c \in Clients : Turn(c) \/ Workflow(c) \/ Leaves(c) \/ Records(c) \/ Vanishes(c)

-----------------------------------------------------------------------------
\* A session that a launch opens again unforced fits the slot it gets, unless it
\* has ever had more context than its record tells.
ResumedFits ==
  [][\A c \in Clients : clients[c] = NoClient /\ clients'[c] # NoClient /\ clients'[c].checked =>
       LET s == clients'[c].session IN s \notin widened => conversation[s] <= clients'[c].slot]_sessionVars

\* A session that was left cleanly, by the only client it had, is opened again with
\* its newest run.
NewestRunResumed ==
  [][\A c \in Clients : clients[c] = NoClient /\ clients'[c] # NoClient /\ clients'[c].resumed =>
       LET s == clients'[c].session IN
       s \notin unsettled /\ With(s) = {} => clients'[c].run = workflows[s]]_sessionVars
=============================================================================
