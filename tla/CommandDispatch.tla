--------------------------- MODULE CommandDispatch ---------------------------
(***************************************************************************)
(* One device's remote commands, from the operator's POST to the result    *)
(* rows: the server's commands table and its request handlers              *)
(* (server/src/index.js), the push over the agent's WebSocket, and the two *)
(* goroutines of the agent that execute commands independently of each     *)
(* other: the main loop, which polls (agent/main.go), and the WebSocket    *)
(* loop, which is pushed to (agent/ws.go).                                 *)
(*                                                                         *)
(* Every awaited query of a handler is a step of its own; an HTTP request  *)
(* of the agent is a record in "requests" from the moment it is sent until *)
(* the server has answered or forgotten it, so that a request the agent    *)
(* has given up on can still be applied later.                             *)
(*                                                                         *)
(* An operator Op_Variant, above Op, is a plausible wrong version of Op.   *)
(* No specification uses it: PROJECT.json names the property it breaks.    *)
(***************************************************************************)
EXTENDS Naturals, Sequences

CONSTANTS
  Command,      \* the commands operators dispatch to the device
  None,         \* no command, no outcome
  MaxTries,     \* attempts of one status upload (StatusUploadPolicy: 3)
  MaxFaults     \* bound on failed attempts, disconnects, crashes, restarts

ASSUME MaxTriesAssumption == MaxTries \in Nat \ {0}
ASSUME MaxFaultsAssumption == MaxFaults \in Nat
ASSUME NoneAssumption == None \notin Command /\ None \notin {"completed", "failed"}

VARIABLES
  (* the server *)
  status,       \* commands.status of every command; "none" before the INSERT
  order,        \* commands.created_at, as a rank; 0 before the INSERT
  rows,         \* outcomes of the command_results rows of every command
  pushing,      \* POST handlers between the INSERT and the push
  registered,   \* connectedAgents holds an open socket of the device
  wire,         \* pushed commands the agent has not read yet
  requests,     \* status uploads on their way to, or inside, the server
  (* the agent *)
  pc,           \* what each goroutine is doing
  cmd,          \* the command it is doing it with
  try,          \* the attempt of the status upload it waits for
  outcome,      \* the status it is uploading
  (* bookkeeping *)
  faults,       \* faults so far
  inserted,     \* commands inserted so far: the clock behind "order"
  taken,        \* commands some goroutine has ever picked up
  ended,        \* outcomes of the executions that ended, per command
  runs,         \* executions begun, per goroutine and command
  unsure,       \* executions begun without an answer to command-started
  disturbed     \* commands that a fault has hit

serverVars == <<status, order, rows, pushing, registered, wire, requests>>
agentVars  == <<pc, cmd, try, outcome>>
history    == <<faults, inserted, taken, ended, runs, unsure, disturbed>>
vars       == <<serverVars, agentVars, history>>

-----------------------------------------------------------------------------
Worker  == {"poll", "ws"}
Outcome == {"completed", "failed"}
Status  == {"none", "pending", "running"} \cup Outcome
PC      == {"idle", "start", "execute", "report"}
Stage   == {"started", "result", "row"}

(* A status upload.  "row" is a command-result whose UPDATE is done and whose *)
(* INSERT is not; "live" says that the sender still waits for the answer.     *)
Request == [stage: Stage, worker: Worker, cmd: Command,
            outcome: Outcome \cup {None}, try: 1..MaxTries, live: BOOLEAN]

TypeOK ==
  /\ status \in [Command -> Status]
  /\ order \in [Command -> Nat]
  /\ rows \in [Command -> SUBSET Outcome]
  /\ pushing \subseteq Command
  /\ registered \in BOOLEAN
  /\ wire \in Seq(Command)
  /\ requests \subseteq Request
  /\ pc \in [Worker -> PC]
  /\ cmd \in [Worker -> Command \cup {None}]
  /\ try \in [Worker -> 1..MaxTries]
  /\ outcome \in [Worker -> Outcome \cup {None}]
  /\ faults \in 0..MaxFaults
  /\ inserted \in Nat
  /\ taken \subseteq Command
  /\ ended \in [Command -> SUBSET Outcome]
  /\ runs \in [Worker -> [Command -> Nat]]
  /\ unsure \in [Worker -> [Command -> Nat]]
  /\ disturbed \subseteq Command

Init ==
  /\ status = [c \in Command |-> "none"]
  /\ order = [c \in Command |-> 0]
  /\ rows = [c \in Command |-> {}]
  /\ pushing = {}
  /\ registered = FALSE
  /\ wire = <<>>
  /\ requests = {}
  /\ pc = [w \in Worker |-> "idle"]
  /\ cmd = [w \in Worker |-> None]
  /\ try = [w \in Worker |-> 1]
  /\ outcome = [w \in Worker |-> None]
  /\ faults = 0
  /\ inserted = 0
  /\ taken = {}
  /\ ended = [c \in Command |-> {}]
  /\ runs = [w \in Worker |-> [c \in Command |-> 0]]
  /\ unsure = [w \in Worker |-> [c \in Command |-> 0]]
  /\ disturbed = {}

-----------------------------------------------------------------------------
(* Operator side: POST /api/devices/:id/commands *)

(* The first await: the row is inserted as pending. *)
Dispatch(c) ==
  /\ status[c] = "none"
  /\ status' = [status EXCEPT ![c] = "pending"]
  /\ order' = [order EXCEPT ![c] = inserted + 1]
  /\ inserted' = inserted + 1
  /\ pushing' = pushing \cup {c}
  /\ UNCHANGED <<rows, registered, wire, requests, agentVars,
                 faults, taken, ended, runs, unsure, disturbed>>

Push_Claims(c) ==
  /\ c \in pushing
  /\ pushing' = pushing \ {c}
  /\ wire' = IF registered THEN Append(wire, c) ELSE wire
  /\ status' = [status EXCEPT ![c] = IF registered THEN "running" ELSE @]
  /\ UNCHANGED <<order, rows, registered, requests, agentVars, history>>

(* After the device row is touched (the second await): the command goes to  *)
(* the registered socket, if there is one, and stays pending either way.    *)
Push(c) ==
  /\ c \in pushing
  /\ pushing' = pushing \ {c}
  /\ wire' = IF registered THEN Append(wire, c) ELSE wire
  /\ UNCHANGED <<status, order, rows, registered, requests, agentVars, history>>

(* The second await throws: the operator gets a 500, the row is there. *)
PushFails(c) ==
  /\ c \in pushing
  /\ faults < MaxFaults
  /\ faults' = faults + 1
  /\ pushing' = pushing \ {c}
  /\ UNCHANGED <<status, order, rows, registered, wire, requests, agentVars,
                 inserted, taken, ended, runs, unsure, disturbed>>

-----------------------------------------------------------------------------
(* The agent's WebSocket.  The socket's goroutine notices a broken           *)
(* connection, and dials again, only when it reads: never while it executes. *)

Connect ==
  /\ ~registered
  /\ pc["ws"] = "idle"
  /\ registered' = TRUE
  /\ wire' = <<>>
  /\ UNCHANGED <<status, order, rows, pushing, requests, agentVars, history>>

Disconnect ==
  /\ registered
  /\ faults < MaxFaults
  /\ faults' = faults + 1
  /\ registered' = FALSE
  /\ wire' = <<>>
  /\ UNCHANGED <<status, order, rows, pushing, requests, agentVars,
                 inserted, taken, ended, runs, unsure, disturbed>>

-----------------------------------------------------------------------------
(* The agent's two goroutines *)

Live(w) == {r \in requests : r.worker = w /\ r.live}

Upload(w, stage, c, o, t) ==
  [stage |-> stage, worker |-> w, cmd |-> c, outcome |-> o, try |-> t, live |-> TRUE]

(* markCommandStarted, first attempt: where both goroutines begin. *)
Begin(w, c) ==
  /\ pc' = [pc EXCEPT ![w] = "start"]
  /\ cmd' = [cmd EXCEPT ![w] = c]
  /\ try' = [try EXCEPT ![w] = 1]
  /\ outcome' = [outcome EXCEPT ![w] = None]
  /\ requests' = requests \cup {Upload(w, "started", c, None, 1)}
  /\ taken' = taken \cup {c}
  /\ UNCHANGED <<status, order, rows, pushing, registered,
                 faults, inserted, ended, runs, unsure, disturbed>>

(* Back to the select / ReadMessage at the top of the loop. *)
BecomeIdle(w) ==
  /\ pc' = [pc EXCEPT ![w] = "idle"]
  /\ cmd' = [cmd EXCEPT ![w] = None]
  /\ try' = [try EXCEPT ![w] = 1]
  /\ outcome' = [outcome EXCEPT ![w] = None]

Offered_Unfinished(c) == status[c] \in {"pending", "running"}
Offered_WhenOffline(c) == status[c] = "pending" /\ ~registered

Offered(c) == status[c] = "pending"

(* GET next-command: the oldest pending row.  Nothing claims it.  The SELECT, *)
(* its answer and the sending of command-started are one step: what happens   *)
(* in between can as well happen while command-started is on its way.         *)
Poll(c) ==
  /\ pc["poll"] = "idle"
  /\ Offered(c)
  /\ \A d \in Command : Offered(d) => order[c] <= order[d]
  /\ Begin("poll", c)
  /\ UNCHANGED wire

Receive ==
  /\ pc["ws"] = "idle"
  /\ wire # <<>>
  /\ Begin("ws", Head(wire))
  /\ wire' = Tail(wire)

(* ExecuteCommandDetailed / ExecuteCommandStreaming returns; the result is *)
(* posted, first attempt.                                                  *)
ExecuteEnds(w, o) ==
  /\ pc[w] = "execute"
  /\ pc' = [pc EXCEPT ![w] = "report"]
  /\ outcome' = [outcome EXCEPT ![w] = o]
  /\ ended' = [ended EXCEPT ![cmd[w]] = @ \cup {o}]
  /\ requests' = requests \cup {Upload(w, "result", cmd[w], o, 1)}
  /\ UNCHANGED <<cmd, try, status, order, rows, pushing, registered, wire,
                 faults, inserted, taken, runs, unsure, disturbed>>

(* The attempt a goroutine waits for ends without an answer: a timeout, a    *)
(* broken connection, an error status.  The server may or may not have the   *)
(* request.  A request the server has forgotten (Restart) is no new fault.   *)
AttemptFails(w) ==
  /\ pc[w] \in {"start", "report"}
  /\ \/ Live(w) = {} /\ UNCHANGED faults
     \/ Live(w) # {} /\ faults < MaxFaults /\ faults' = faults + 1
  /\ disturbed' = disturbed \cup {cmd[w]}

Orphan(r) == [r EXCEPT !.live = FALSE]

(* What is left of the requests of w: its failed attempt may survive it. *)
Abandoned(w, kept) ==
  (requests \ Live(w)) \cup (IF kept THEN {Orphan(r) : r \in Live(w)} ELSE {})

Retry(w) ==
  /\ AttemptFails(w)
  /\ try[w] < MaxTries
  /\ try' = [try EXCEPT ![w] = @ + 1]
  /\ \E kept \in BOOLEAN :
       requests' = Abandoned(w, kept) \cup
         {Upload(w, IF pc[w] = "start" THEN "started" ELSE "result",
                 cmd[w], outcome[w], try[w] + 1)}
  /\ UNCHANGED <<pc, cmd, outcome, status, order, rows, pushing, registered, wire,
                 inserted, taken, ended, runs, unsure>>

(* An unanswered command-started is logged and the command is executed all  *)
(* the same.                                                                *)
GiveUpStart(w) ==
  /\ pc[w] = "start"
  /\ AttemptFails(w)
  /\ pc' = [pc EXCEPT ![w] = "execute"]
  /\ runs' = [runs EXCEPT ![w][cmd[w]] = @ + 1]
  /\ unsure' = [unsure EXCEPT ![w][cmd[w]] = @ + 1]
  /\ try' = [try EXCEPT ![w] = 1]
  /\ \E kept \in BOOLEAN : requests' = Abandoned(w, kept)
  /\ UNCHANGED <<cmd, outcome, status, order, rows, pushing, registered, wire,
                 inserted, taken, ended>>

(* A result that could not be posted is logged and forgotten. *)
GiveUpReport(w) ==
  /\ pc[w] = "report"
  /\ AttemptFails(w)
  /\ BecomeIdle(w)
  /\ \E kept \in BOOLEAN : requests' = Abandoned(w, kept)
  /\ UNCHANGED <<status, order, rows, pushing, registered, wire,
                 inserted, taken, ended, runs, unsure>>

(* The agent process dies and comes back with both goroutines idle. *)
AgentCrash ==
  /\ faults < MaxFaults
  /\ faults' = faults + 1
  /\ disturbed' = disturbed \cup {cmd[w] : w \in {v \in Worker : pc[v] # "idle"}}
  /\ pc' = [w \in Worker |-> "idle"]
  /\ cmd' = [w \in Worker |-> None]
  /\ try' = [w \in Worker |-> 1]
  /\ outcome' = [w \in Worker |-> None]
  /\ \E Kept \in SUBSET {r \in requests : r.live} :
       requests' = {r \in requests : ~r.live} \cup {Orphan(r) : r \in Kept}
  /\ registered' = FALSE
  /\ wire' = <<>>
  /\ UNCHANGED <<status, order, rows, pushing,
                 inserted, taken, ended, runs, unsure>>

-----------------------------------------------------------------------------
(* Server side: the two status uploads *)

(* POST command-started: an UPDATE no current status can refuse.  If the    *)
(* sender still waits, the answer lets it execute the command.              *)
ApplyStarted(r) ==
  /\ r.stage = "started"
  /\ status' = [status EXCEPT ![r.cmd] = "running"]
  /\ requests' = requests \ {r}
  /\ IF r.live
     THEN /\ pc' = [pc EXCEPT ![r.worker] = "execute"]
          /\ try' = [try EXCEPT ![r.worker] = 1]
          /\ runs' = [runs EXCEPT ![r.worker][r.cmd] = @ + 1]
     ELSE UNCHANGED <<pc, try, runs>>
  /\ UNCHANGED <<order, rows, pushing, registered, wire, cmd, outcome,
                 faults, inserted, taken, ended, unsure, disturbed>>

ApplyResult_NoStatus(r) ==
  /\ r.stage = "result"
  /\ requests' = (requests \ {r}) \cup {[r EXCEPT !.stage = "row"]}
  /\ UNCHANGED <<status, order, rows, pushing, registered, wire, agentVars, history>>

ApplyResult_Requeues(r) ==
  /\ r.stage = "result"
  /\ status' = [status EXCEPT ![r.cmd] = IF r.outcome = "failed" THEN "pending" ELSE r.outcome]
  /\ requests' = (requests \ {r}) \cup {[r EXCEPT !.stage = "row"]}
  /\ UNCHANGED <<order, rows, pushing, registered, wire, agentVars, history>>

(* POST command-result, first await: the UPDATE, again whatever the status. *)
ApplyResult(r) ==
  /\ r.stage = "result"
  /\ status' = [status EXCEPT ![r.cmd] = r.outcome]
  /\ requests' = (requests \ {r}) \cup {[r EXCEPT !.stage = "row"]}
  /\ UNCHANGED <<order, rows, pushing, registered, wire, agentVars, history>>

InsertRow_WhenRunning(r) ==
  /\ r.stage = "row"
  /\ rows' = [rows EXCEPT ![r.cmd] =
                IF status[r.cmd] = "running" THEN @ \cup {r.outcome} ELSE @]
  /\ requests' = requests \ {r}
  /\ IF r.live THEN BecomeIdle(r.worker) ELSE UNCHANGED agentVars
  /\ UNCHANGED <<status, order, pushing, registered, wire, history>>

(* Second await: the command_results row; then the sender gets its answer. *)
InsertRow(r) ==
  /\ r.stage = "row"
  /\ rows' = [rows EXCEPT ![r.cmd] = @ \cup {r.outcome}]
  /\ requests' = requests \ {r}
  /\ IF r.live THEN BecomeIdle(r.worker) ELSE UNCHANGED agentVars
  /\ UNCHANGED <<status, order, pushing, registered, wire, history>>

(* The server process restarts: rows survive; sockets, and the handlers that *)
(* were awaiting a query, do not.                                            *)
Restart ==
  /\ faults < MaxFaults
  /\ faults' = faults + 1
  /\ disturbed' = disturbed \cup {r.cmd : r \in requests}
  /\ requests' = {}
  /\ pushing' = {}
  /\ registered' = FALSE
  /\ wire' = <<>>
  /\ UNCHANGED <<status, order, rows, agentVars, inserted, taken, ended, runs, unsure>>

-----------------------------------------------------------------------------
Operator == \E c \in Command : Dispatch(c) \/ Push(c) \/ PushFails(c)

Agent ==
  \/ \E c \in Command : Poll(c)
  \/ Receive
  \/ \E w \in Worker, o \in Outcome : ExecuteEnds(w, o)
  \/ \E w \in Worker : Retry(w) \/ GiveUpStart(w) \/ GiveUpReport(w)
  \/ AgentCrash

Server ==
  \/ \E r \in requests : ApplyStarted(r) \/ ApplyResult(r) \/ InsertRow(r)
  \/ Restart

Next == Operator \/ Agent \/ Server \/ Connect \/ Disconnect

Spec == Init /\ [][Next]_vars

(* What the code's scheduling gives: tickers fire, goroutines run, HTTP      *)
(* requests are answered or time out, the reconnect loop dials again.  That  *)
(* an execution ends is an assumption on the commands: the agent sets no     *)
(* time limit on them.                                                       *)
Fairness ==
  /\ \A c \in Command : WF_vars(Push(c)) /\ WF_vars(Poll(c))
  /\ WF_vars(Receive)
  /\ WF_vars(Connect)
  /\ \A w \in Worker :
       /\ WF_vars(\E o \in Outcome : ExecuteEnds(w, o))
       /\ WF_vars(Live(w) = {} /\ (Retry(w) \/ GiveUpStart(w) \/ GiveUpReport(w)))
  /\ WF_vars(\E r \in requests : ApplyStarted(r) \/ ApplyResult(r) \/ InsertRow(r))

FairSpec == Spec /\ Fairness

-----------------------------------------------------------------------------
(* Properties *)

Finished(c) == status[c] \in Outcome

(* No command is lost: one that no goroutine has picked up is still a pending *)
(* row the next poll can return, whatever happened to its push (no socket, a  *)
(* socket that broke, a handler that failed or a server that restarted).      *)
UntakenStaysOffered ==
  \A c \in Command : status[c] # "none" /\ c \notin taken => Offered(c)

(* The operator never sees an outcome nobody produced: a final status, and    *)
(* every result row, is the outcome of an execution of that command that      *)
(* ended, through retries, abandoned requests and restarts.                   *)
ResultsAreReal ==
  \A c \in Command : /\ Finished(c) => status[c] \in ended[c]
                     /\ rows[c] \subseteq ended[c]

(* A poll-driven execution is repeated only if an earlier one was begun       *)
(* without an answer to its command-started: one answered command-started     *)
(* takes the command out of the poller's sight for good.                      *)
PollRerunNeedsUnansweredStart ==
  \A c \in Command : runs["poll"][c] <= unsure["poll"][c] + 1

(* A push is executed at most once: what is pushed is never sent again, not   *)
(* after a reconnect and not after a server restart.                          *)
PushRunsAtMostOnce == \A c \in Command : runs["ws"][c] <= 1

(* A row is left at "running" with nobody working on it, and no upload that   *)
(* could still finish it, only if a fault hit that very command.              *)
Handled(c) == \/ \E w \in Worker : cmd[w] = c /\ pc[w] # "idle"
              \/ \E r \in requests : r.cmd = c

OrphanedRunningNeedsFault ==
  \A c \in Command : status[c] = "running" => Handled(c) \/ c \in disturbed

(* A final status is backed by a result row, unless an upload that still has  *)
(* to insert it is on its way or a fault hit that command (the UPDATE and the *)
(* INSERT are two statements, not one transaction).                           *)
FinishedHasRow ==
  \A c \in Command : Finished(c) =>
    \/ status[c] \in rows[c]
    \/ \E r \in requests : r.cmd = c /\ r.stage = "row" /\ r.outcome = status[c]
    \/ c \in disturbed

(* A row never becomes pending again: what the poller was once denied it is   *)
(* denied for ever.                                                           *)
NeverPendingAgain ==
  [][\A c \in Command : status[c] \notin {"none", "pending"} => status'[c] # "pending"]_vars

(* Every inserted command is eventually begun, unless a fault hit it on the   *)
(* way: the poller comes to every pending row.                                *)
EventuallyBegun ==
  \A c \in Command :
    status[c] = "pending" ~> (\E w \in Worker : runs[w][c] > 0) \/ c \in disturbed

(* Without faults every command ends, and stays, at a final status, even when *)
(* both goroutines execute it.                                                *)
SettlesWithoutFaults ==
  \A c \in Command : status[c] = "pending" ~> [](Finished(c) \/ faults > 0)

-----------------------------------------------------------------------------
(* What the runs check and the theorems state, part by part above. *)

(* Every repetition of a command has its reason: the poller's an unanswered   *)
(* command-started, and of a push there is none.                              *)
ExecutionsExplained == PollRerunNeedsUnansweredStart /\ PushRunsAtMostOnce

(* What the operator reads of a finished command happened, and is all there. *)
OutcomesKept == ResultsAreReal /\ FinishedHasRow

(* No command is left behind without a fault of its own: not before it is     *)
(* begun, and not while it is running.                                        *)
NothingStranded == UntakenStaysOffered /\ OrphanedRunningNeedsFault
=============================================================================
