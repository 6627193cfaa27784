--------------------------- MODULE ActionDispatch ---------------------------
(***************************************************************************)
(* One device's admin actions (force-heartbeat, restart-service, ...): the *)
(* device_actions table and its handlers (server/src/index.js), the push   *)
(* over the WebSocket, and the two goroutines of the agent that execute    *)
(* actions, the main loop and the WebSocket loop (agent/actions.go).       *)
(*                                                                         *)
(* Unlike a command, an action is claimed: GET next-action itself sets the *)
(* row to running, and nothing is uploaded before the execution.  A pushed *)
(* action is executed without being claimed.                               *)
(*                                                                         *)
(* An operator Op_Variant, above Op, is a plausible wrong version of Op.   *)
(* No specification uses it: PROJECT.json names the property it breaks.    *)
(***************************************************************************)
EXTENDS Naturals, Sequences, FiniteSets

CONSTANTS
  Action,       \* the actions operators ask for
  Restarting,   \* those of type restart-service
  None,
  MaxPolls,     \* attempts of one GET (BackendPollPolicy: 2)
  MaxTries,     \* attempts of one upload (StatusUploadPolicy: 3)
  MaxFaults     \* bound on failed attempts, disconnects, crashes, restarts

ASSUME RestartingAssumption == Restarting \subseteq Action
ASSUME TriesAssumption ==
  MaxPolls \in Nat \ {0} /\ MaxTries \in Nat \ {0} /\ MaxPolls <= MaxTries
ASSUME FaultsAssumption == MaxFaults \in Nat
ASSUME ActionAssumption == IsFiniteSet(Action) /\ None \notin Action

VARIABLES
  (* the server *)
  status,       \* device_actions.status of every action; "none" before the INSERT
  order,        \* device_actions.requested_at, as a rank
  pushing,      \* POST handlers between the INSERT and the push
  registered,   \* connectedAgents holds an open socket of the device
  wire,         \* pushed actions the agent has not read yet
  requests,     \* claims and results on their way to, or inside, the server
  (* the agent *)
  pc,           \* what each goroutine is doing
  doing,        \* the action it is doing it with
  try,          \* the attempt of the request it waits for
  outcome,      \* the status it is uploading
  helpers,      \* restart helpers started whose two seconds are not over
  (* bookkeeping *)
  faults,       \* faults so far
  ended,        \* outcomes of the executions that ended, per action
  runs,         \* executions begun, per goroutine and action
  disturbed     \* actions that a fault has hit

agentVars == <<pc, doing, try, outcome>>
vars == <<status, order, pushing, registered, wire, requests, agentVars, helpers,
          faults, ended, runs, disturbed>>

-----------------------------------------------------------------------------
Worker  == {"poll", "ws"}
Outcome == {"success", "failed"}
Status  == {"none", "pending", "running"} \cup Outcome

(* "claim" has not chosen a row yet, "mark" has chosen one and not written it. *)
Request == [stage: {"claim", "mark", "result"}, worker: Worker,
            action: Action \cup {None}, outcome: Outcome \cup {None},
            try: 1..MaxTries, live: BOOLEAN]

TypeOK ==
  /\ status \in [Action -> Status]
  /\ order \in [Action -> 0..Cardinality(Action)]
  /\ pushing \subseteq Action
  /\ registered \in BOOLEAN
  /\ wire \in Seq(Action)
  /\ requests \subseteq Request
  /\ pc \in [Worker -> {"idle", "fetch", "execute", "report"}]
  /\ doing \in [Worker -> Action \cup {None}]
  /\ try \in [Worker -> 1..MaxTries]
  /\ outcome \in [Worker -> Outcome \cup {None}]
  /\ helpers \in Nat
  /\ faults \in 0..MaxFaults
  /\ ended \in [Action -> SUBSET Outcome]
  /\ runs \in [Worker -> [Action -> Nat]]
  /\ disturbed \subseteq Action

Init ==
  /\ status = [a \in Action |-> "none"]
  /\ order = [a \in Action |-> 0]
  /\ pushing = {}
  /\ registered = FALSE
  /\ wire = <<>>
  /\ requests = {}
  /\ pc = [w \in Worker |-> "idle"]
  /\ doing = [w \in Worker |-> None]
  /\ try = [w \in Worker |-> 1]
  /\ outcome = [w \in Worker |-> None]
  /\ helpers = 0
  /\ faults = 0
  /\ ended = [a \in Action |-> {}]
  /\ runs = [w \in Worker |-> [a \in Action |-> 0]]
  /\ disturbed = {}

Inserted == {a \in Action : status[a] # "none"}

Fault == faults < MaxFaults /\ faults' = faults + 1

-----------------------------------------------------------------------------
(* Operator side: createDeviceAction *)

Create(a) ==
  /\ status[a] = "none"
  /\ status' = [status EXCEPT ![a] = "pending"]
  /\ order' = [order EXCEPT ![a] = Cardinality(Inserted) + 1]
  /\ pushing' = pushing \cup {a}
  /\ UNCHANGED <<registered, wire, requests, agentVars, helpers,
                 faults, ended, runs, disturbed>>

(* The INSERT has returned: the action goes to the registered socket, if there *)
(* is one, and stays pending either way.                                       *)
Push(a) ==
  /\ a \in pushing
  /\ pushing' = pushing \ {a}
  /\ wire' = IF registered THEN Append(wire, a) ELSE wire
  /\ UNCHANGED <<status, order, registered, requests, agentVars, helpers,
                 faults, ended, runs, disturbed>>

Connect ==
  /\ ~registered
  /\ pc["ws"] = "idle"
  /\ registered' = TRUE
  /\ wire' = <<>>
  /\ UNCHANGED <<status, order, pushing, requests, agentVars, helpers,
                 faults, ended, runs, disturbed>>

Disconnect ==
  /\ registered
  /\ Fault
  /\ registered' = FALSE
  /\ wire' = <<>>
  /\ UNCHANGED <<status, order, pushing, requests, agentVars, helpers,
                 ended, runs, disturbed>>

-----------------------------------------------------------------------------
(* The agent *)

Live(w) == {r \in requests : r.worker = w /\ r.live}

Ask(w, stage, a, o, t) ==
  [stage |-> stage, worker |-> w, action |-> a, outcome |-> o, try |-> t, live |-> TRUE]

BecomeIdle(w) ==
  /\ pc' = [pc EXCEPT ![w] = "idle"]
  /\ doing' = [doing EXCEPT ![w] = None]
  /\ try' = [try EXCEPT ![w] = 1]
  /\ outcome' = [outcome EXCEPT ![w] = None]

(* ProcessAction: the execution starts at once, nothing is uploaded first. *)
Begin(w, a) ==
  /\ pc' = [pc EXCEPT ![w] = "execute"]
  /\ doing' = [doing EXCEPT ![w] = a]
  /\ try' = [try EXCEPT ![w] = 1]
  /\ runs' = [runs EXCEPT ![w][a] = @ + 1]

(* The action ticker: FetchNextAction, first attempt. *)
Poll ==
  /\ pc["poll"] = "idle"
  /\ pc' = [pc EXCEPT !["poll"] = "fetch"]
  /\ requests' = requests \cup {Ask("poll", "claim", None, None, 1)}
  /\ UNCHANGED <<status, order, pushing, registered, wire, doing, try, outcome, helpers,
                 faults, ended, runs, disturbed>>

Receive ==
  /\ pc["ws"] = "idle"
  /\ wire # <<>>
  /\ Begin("ws", Head(wire))
  /\ wire' = Tail(wire)
  /\ UNCHANGED <<status, order, pushing, registered, requests, outcome, helpers,
                 faults, ended, disturbed>>

ExecuteEnds_FailureKept(w, o) ==
  /\ pc[w] = "execute"
  /\ pc' = [pc EXCEPT ![w] = "report"]
  /\ outcome' = [outcome EXCEPT ![w] = o]
  /\ ended' = [ended EXCEPT ![doing[w]] = @ \cup {o}]
  /\ requests' = IF o = "failed" THEN requests
                 ELSE requests \cup {Ask(w, "result", doing[w], o, 1)}
  /\ helpers' = IF doing[w] \in Restarting /\ o = "success" THEN helpers + 1 ELSE helpers
  /\ UNCHANGED <<status, order, pushing, registered, wire, doing, try,
                 faults, runs, disturbed>>

(* executeAction returns and the result is posted, first attempt.  A restart *)
(* succeeds by starting a helper that restarts the service two seconds later. *)
ExecuteEnds(w, o) ==
  /\ pc[w] = "execute"
  /\ pc' = [pc EXCEPT ![w] = "report"]
  /\ outcome' = [outcome EXCEPT ![w] = o]
  /\ ended' = [ended EXCEPT ![doing[w]] = @ \cup {o}]
  /\ requests' = requests \cup {Ask(w, "result", doing[w], o, 1)}
  /\ helpers' = IF doing[w] \in Restarting /\ o = "success" THEN helpers + 1 ELSE helpers
  /\ UNCHANGED <<status, order, pushing, registered, wire, doing, try,
                 faults, runs, disturbed>>

(* The attempt a goroutine waits for ends without an answer.  The server may  *)
(* or may not have the request; if it forgot it (Restart) it is no new fault. *)
AttemptFails(w) ==
  /\ pc[w] \in {"fetch", "report"}
  /\ IF Live(w) = {} THEN UNCHANGED faults ELSE Fault
  /\ disturbed' = disturbed \cup ({doing[w]} \ {None})

Orphan(r) == [r EXCEPT !.live = FALSE]

Abandoned(w, kept) ==
  (requests \ Live(w)) \cup (IF kept THEN {Orphan(r) : r \in Live(w)} ELSE {})

Attempts(w) == IF pc[w] = "fetch" THEN MaxPolls ELSE MaxTries

Retry(w) ==
  /\ AttemptFails(w)
  /\ try[w] < Attempts(w)
  /\ try' = [try EXCEPT ![w] = @ + 1]
  /\ \E kept \in BOOLEAN :
       requests' = Abandoned(w, kept) \cup
         {Ask(w, IF pc[w] = "fetch" THEN "claim" ELSE "result",
              doing[w], outcome[w], try[w] + 1)}
  /\ UNCHANGED <<status, order, pushing, registered, wire, pc, doing, outcome, helpers,
                 ended, runs>>

(* A failed poll, or a result that could not be posted, is logged and forgotten. *)
GiveUp(w) ==
  /\ AttemptFails(w)
  /\ BecomeIdle(w)
  /\ \E kept \in BOOLEAN : requests' = Abandoned(w, kept)
  /\ UNCHANGED <<status, order, pushing, registered, wire, helpers, ended, runs>>

(* The process is gone, and back with both goroutines idle.  A request it was *)
(* waiting for may have reached the server.                                   *)
ProcessEnds ==
  /\ pc' = [w \in Worker |-> "idle"]
  /\ doing' = [w \in Worker |-> None]
  /\ try' = [w \in Worker |-> 1]
  /\ outcome' = [w \in Worker |-> None]
  /\ registered' = FALSE
  /\ wire' = <<>>
  /\ \E Kept \in SUBSET {r \in requests : r.live} :
       requests' = {r \in requests : ~r.live} \cup {Orphan(r) : r \in Kept}

AgentCrash ==
  /\ Fault
  /\ ProcessEnds
  /\ disturbed' = disturbed \cup ({doing[w] : w \in Worker} \ {None})
  /\ UNCHANGED <<status, order, pushing, helpers, ended, runs>>

ServiceRestart_Abrupt ==
  /\ helpers > 0
  /\ helpers' = helpers - 1
  /\ ProcessEnds
  /\ UNCHANGED <<status, order, pushing, faults, ended, runs, disturbed>>

(* The helper stops the service and starts it again.  The stop waits for     *)
(* runAgent to return, which the main loop does between two actions; the     *)
(* WebSocket goroutine is not waited for.                                    *)
ServiceRestart ==
  /\ helpers > 0
  /\ pc["poll"] = "idle"
  /\ helpers' = helpers - 1
  /\ ProcessEnds
  /\ UNCHANGED <<status, order, pushing, faults, ended, runs, disturbed>>

-----------------------------------------------------------------------------
(* The server's handlers *)

Claimable_WhenOffline(a) == status[a] = "pending" /\ ~registered

Claimable(a) == status[a] = "pending"

Oldest(a) == Claimable(a) /\ \A b \in Action : Claimable(b) => order[a] <= order[b]

(* claimNextAction, the subquery: the row is chosen on what was committed when *)
(* the statement began.  No row: the agent is told so.                         *)
Choose(r) ==
  /\ r.stage = "claim"
  /\ \/ \E a \in Action :
          /\ Oldest(a)
          /\ requests' = (requests \ {r}) \cup {[r EXCEPT !.stage = "mark", !.action = a]}
          /\ UNCHANGED agentVars
     \/ /\ \A a \in Action : ~Claimable(a)
        /\ requests' = requests \ {r}
        /\ IF r.live THEN BecomeIdle(r.worker) ELSE UNCHANGED agentVars
  /\ UNCHANGED <<status, order, pushing, registered, wire, helpers,
                 faults, ended, runs, disturbed>>

Mark_Unclaimed(r) ==
  /\ r.stage = "mark"
  /\ requests' = requests \ {r}
  /\ IF r.live THEN Begin(r.worker, r.action) ELSE UNCHANGED <<pc, doing, try, runs>>
  /\ UNCHANGED <<status, order, pushing, registered, wire, outcome, helpers,
                 faults, ended, disturbed>>

(* The UPDATE of the chosen row, which looks at its id only, and the answer.  *)
(* An answer nobody waits for takes the action with it.                       *)
Mark(r) ==
  /\ r.stage = "mark"
  /\ status' = [status EXCEPT ![r.action] = "running"]
  /\ requests' = requests \ {r}
  /\ IF r.live
     THEN Begin(r.worker, r.action) /\ UNCHANGED disturbed
     ELSE /\ disturbed' = disturbed \cup {r.action}
          /\ UNCHANGED <<pc, doing, try, runs>>
  /\ UNCHANGED <<order, pushing, registered, wire, outcome, helpers,
                 faults, ended>>

ApplyResult_AlwaysSuccess(r) ==
  /\ r.stage = "result"
  /\ status' = [status EXCEPT ![r.action] = "success"]
  /\ requests' = requests \ {r}
  /\ IF r.live THEN BecomeIdle(r.worker) ELSE UNCHANGED agentVars
  /\ UNCHANGED <<order, pushing, registered, wire, helpers,
                 faults, ended, runs, disturbed>>

(* POST action-result: an UPDATE no current status can refuse.  What follows *)
(* it (the device row, a health event) can fail only into a retried upload.  *)
ApplyResult(r) ==
  /\ r.stage = "result"
  /\ status' = [status EXCEPT ![r.action] = r.outcome]
  /\ requests' = requests \ {r}
  /\ IF r.live THEN BecomeIdle(r.worker) ELSE UNCHANGED agentVars
  /\ UNCHANGED <<order, pushing, registered, wire, helpers,
                 faults, ended, runs, disturbed>>

(* The server process restarts: rows survive; sockets and handlers do not. *)
Restart ==
  /\ Fault
  /\ disturbed' = disturbed \cup ({r.action : r \in requests} \ {None})
  /\ requests' = {}
  /\ pushing' = {}
  /\ registered' = FALSE
  /\ wire' = <<>>
  /\ UNCHANGED <<status, order, agentVars, helpers, ended, runs>>

-----------------------------------------------------------------------------
Operator == \E a \in Action : Create(a) \/ Push(a)

Agent ==
  \/ Poll \/ Receive
  \/ \E w \in Worker, o \in Outcome : ExecuteEnds(w, o)
  \/ \E w \in Worker : Retry(w) \/ GiveUp(w)
  \/ AgentCrash \/ ServiceRestart

Handle(r) == Choose(r) \/ Mark(r) \/ ApplyResult(r)

Next ==
  \/ Operator \/ Agent \/ Connect \/ Disconnect
  \/ \E r \in requests : Handle(r)
  \/ Restart

Spec == Init /\ [][Next]_vars

(* Tickers fire, goroutines run, executions end (each action makes a bounded  *)
(* number of requests and starts a process at most), requests are answered.   *)
Fairness ==
  /\ \A a \in Action : WF_vars(Push(a))
  /\ WF_vars(Poll) /\ WF_vars(Receive) /\ WF_vars(Connect)
  /\ \A w \in Worker :
       /\ WF_vars(\E o \in Outcome : ExecuteEnds(w, o))
       /\ WF_vars(Live(w) = {} /\ (Retry(w) \/ GiveUp(w)))
       /\ WF_vars(\E r \in Live(w) : Handle(r))

FairSpec == Spec /\ Fairness

-----------------------------------------------------------------------------
(* Properties *)

Finished(a) == status[a] \in Outcome

(* The claim makes a polled execution unique: through retried polls, lost     *)
(* answers and overtaken statements the poller never begins an action twice.  *)
PolledOnce == \A a \in Action : runs["poll"][a] <= 1

(* So does the push: with the previous property an action, restart-service    *)
(* included, is executed at most twice, once by each goroutine.               *)
PushedOnce == \A a \in Action : runs["ws"][a] <= 1

(* Each goroutine begins an action at most once: executions are claimed or *)
(* pushed, and neither is ever repeated.                                   *)
ExecutedOnce == PolledOnce /\ PushedOnce

(* Final statuses are outcomes of executions of that action that ended. *)
OutcomesAreReal == \A a \in Action : Finished(a) => status[a] \in ended[a]

(* A row is left running, with no goroutine and no request that could still   *)
(* finish it, only if a fault hit that action: a lost claim answer, a lost    *)
(* result, a crash.  The restart an action asks for is none of these.         *)
StrandedNeedsFault ==
  \A a \in Action : status[a] = "running" =>
    \/ \E w \in Worker : doing[w] = a
    \/ \E r \in requests : r.action = a
    \/ a \in disturbed

(* A pending action is begun, unless its claim was answered to nobody: there *)
(* the claim turns a lost answer into a lost action.                         *)
EventuallyBegun ==
  \A a \in Action :
    status[a] = "pending" ~> (\E w \in Worker : runs[w][a] > 0) \/ a \in disturbed

(* Without faults every action reaches, and keeps, a final status: also a     *)
(* pushed restart whose goroutine dies in the restart before its result is in. *)
SettlesWithoutFaults ==
  \A a \in Action : status[a] = "pending" ~> [](Finished(a) \/ faults > 0)
=============================================================================
