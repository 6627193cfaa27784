------------------------ MODULE CommandDispatchProofs ------------------------
(***************************************************************************)
(* Safety of CommandDispatch for any set of commands, any number of        *)
(* attempts and any number of faults.                                      *)
(***************************************************************************)
EXTENDS CommandDispatch, TLAPS

-----------------------------------------------------------------------------
(* The strengthening.  LiveMatches ties an upload whose sender waits to what *)
(* the sender is doing; the rest say what an upload is evidence of.          *)

LiveMatches ==
  \A r \in requests : r.live =>
    /\ cmd[r.worker] = r.cmd
    /\ pc[r.worker] = IF r.stage = "started" THEN "start" ELSE "report"

LiveUnique ==
  \A r, s \in requests : r.live /\ s.live /\ r.worker = s.worker => r = s

BusyHasCommand == \A w \in Worker : pc[w] # "idle" => cmd[w] \in Command

TakenFirst ==
  /\ \A r \in requests : r.cmd \in taken
  /\ \A w \in Worker : pc[w] # "idle" => cmd[w] \in taken

OutcomesEnded ==
  /\ \A r \in requests : r.stage # "started" => r.outcome \in ended[r.cmd]
  /\ \A w \in Worker : pc[w] = "report" => outcome[w] \in ended[cmd[w]]

OrphansDisturbed == \A r \in requests : ~r.live => r.cmd \in disturbed

(* A row at "running" has a goroutine at work whose result is not applied. *)
RunningHasWorker ==
  \A c \in Command : status[c] = "running" =>
    \/ c \in disturbed
    \/ \E w \in Worker :
         /\ cmd[w] = c /\ pc[w] # "idle"
         /\ \A r \in requests : r.live /\ r.worker = w => r.stage # "row"

(* An answered start has moved the row on. *)
AnsweredStartLeft ==

    /\ \A c \in Command : runs["poll"][c] > unsure["poll"][c] => status[c] \notin {"none", "pending"}

    /\ pc["poll"] = "start" => runs["poll"][cmd["poll"]] <= unsure["poll"][cmd["poll"]]

(* A command is in at most one place on its way to the WebSocket goroutine:  *)
(* not inserted, with its POST handler, once on the wire, or with the        *)
(* goroutine; and it leaves each of them for good.                           *)
Unpushed(c) ==
  /\ \A i \in 1..Len(wire) : wire[i] # c
  /\ cmd["ws"] # c
  /\ runs["ws"][c] = 0

PushedOnce ==
  /\ \A c \in Command : status[c] = "none" => c \notin pushing /\ Unpushed(c)
  /\ \A c \in pushing : Unpushed(c)
  /\ \A i \in 1..Len(wire) : cmd["ws"] # wire[i] /\ runs["ws"][wire[i]] = 0
  /\ \A i, j \in 1..Len(wire) : wire[i] = wire[j] => i = j
  /\ pc["ws"] = "start" => runs["ws"][cmd["ws"]] = 0

IInv ==
  /\ TypeOK
  /\ LiveMatches
  /\ LiveUnique
  /\ BusyHasCommand
  /\ TakenFirst
  /\ OutcomesEnded
  /\ OrphansDisturbed
  /\ RunningHasWorker
  /\ AnsweredStartLeft
  /\ UntakenStaysOffered
  /\ ResultsAreReal
  /\ PollRerunNeedsUnansweredStart
  /\ FinishedHasRow
  /\ PushedOnce
  /\ PushRunsAtMostOnce

(* A retry stays within the attempts the policy allows. *)
LEMMA RetryTry ==
  ASSUME TypeOK, NEW w \in Worker, try[w] < MaxTries
  PROVE  try[w] + 1 \in 1..MaxTries
BY MaxTriesAssumption DEF TypeOK

(* An abandoned upload only loses its sender. *)
LEMMA OrphanFields ==
  ASSUME NEW r \in Request
  PROVE  /\ Orphan(r) \in Request
         /\ Orphan(r).stage = r.stage
         /\ Orphan(r).worker = r.worker
         /\ Orphan(r).cmd = r.cmd
         /\ Orphan(r).outcome = r.outcome
         /\ ~ Orphan(r).live
BY DEF Orphan, Request

(* The POST inserts a row nobody has touched. *)
LEMMA DispatchKeeps ==
  ASSUME IInv, NEW c \in Command, Dispatch(c)
  PROVE  IInv'
<1>1. TypeOK'
  <2>1. TypeOK
    BY DEF IInv
  <2> QED
    BY <2>1, SMTT(30) DEF Dispatch, agentVars, Status, TypeOK
<1>2. ResultsAreReal'
  BY SMTT(30) DEF Dispatch, IInv, TypeOK, ResultsAreReal, Finished, Status,
      Outcome
<1>3. FinishedHasRow'
  <2>1. \A d \in Command : Finished(d)' => Finished(d) /\ status'[d] = status[d]
    BY DEF Dispatch, IInv, TypeOK, Finished, Outcome
  <2> QED
    BY <2>1 DEF Dispatch, IInv, FinishedHasRow
<1>4. PushedOnce'
  <2>1. PushedOnce /\ status \in [Command -> Status] /\ pushing \subseteq Command
    BY DEF IInv, TypeOK
  <2>2. /\ status[c] = "none" /\ status' = [status EXCEPT ![c] = "pending"]
        /\ pushing' = pushing \cup {c}
        /\ UNCHANGED <<wire, cmd, runs, pc>>
    BY DEF Dispatch, agentVars
  <2>3. \A d \in Command : Unpushed(d)' <=> Unpushed(d)
    BY <2>2 DEF Unpushed
  <2>4. \A d \in Command : status'[d] = "none" => d # c /\ status[d] = "none"
    BY <2>1, <2>2
  <2>5. Unpushed(c)
    BY <2>1, <2>2 DEF PushedOnce
  <2>6. \A d \in Command : status'[d] = "none" => d \notin pushing' /\ Unpushed(d)'
    BY <2>1, <2>2, <2>3, <2>4 DEF PushedOnce
  <2>7. \A d \in pushing' : Unpushed(d)'
    BY <2>1, <2>2, <2>3, <2>5 DEF PushedOnce
  <2> QED
    BY <2>1, <2>2, <2>6, <2>7 DEF PushedOnce
<1>5. /\ LiveMatches' /\ LiveUnique'
      /\ BusyHasCommand' /\ TakenFirst'
      /\ OutcomesEnded' /\ OrphansDisturbed'
      /\ RunningHasWorker' /\ AnsweredStartLeft'
      /\ UntakenStaysOffered' /\ PollRerunNeedsUnansweredStart'
      /\ PushRunsAtMostOnce'
  BY DEF Dispatch, IInv, agentVars, LiveMatches, LiveUnique, BusyHasCommand,
      TakenFirst, OutcomesEnded, OrphansDisturbed, RunningHasWorker,
      AnsweredStartLeft, UntakenStaysOffered, Offered,
      PollRerunNeedsUnansweredStart, PushRunsAtMostOnce
<1> QED
  BY <1>1, <1>2, <1>3, <1>4, <1>5 DEF IInv

(* A command moves from its POST handler to the wire; the row is not touched. *)
LEMMA PushKeeps ==
  ASSUME IInv, NEW c \in Command, Push(c)
  PROVE  IInv'
<1>1. TypeOK'
  BY DEF Push, IInv, serverVars, agentVars, history, TypeOK
<1>2. TakenFirst'
  BY DEF Push, IInv, serverVars, agentVars, history, TakenFirst
<1>3. OutcomesEnded'
  BY DEF Push, IInv, serverVars, agentVars, history, OutcomesEnded
<1>4. OrphansDisturbed'
  BY DEF Push, IInv, serverVars, agentVars, history, OrphansDisturbed
<1>5. RunningHasWorker'
  BY DEF Push, IInv, serverVars, agentVars, history, RunningHasWorker
<1>6. AnsweredStartLeft'
  BY DEF Push, IInv, serverVars, agentVars, history, AnsweredStartLeft
<1>7. UntakenStaysOffered'
  BY DEF Push, IInv, serverVars, agentVars, history, UntakenStaysOffered,
      Offered
<1>8. ResultsAreReal'
  BY DEF Push, IInv, serverVars, agentVars, history, ResultsAreReal, Finished
<1>9. PollRerunNeedsUnansweredStart'
  BY DEF Push, IInv, serverVars, agentVars, history,
      PollRerunNeedsUnansweredStart
<1>10. FinishedHasRow'
  BY DEF Push, IInv, serverVars, agentVars, history, FinishedHasRow, Finished
<1>11. PushedOnce'
  BY DEF Push, IInv, serverVars, agentVars, history, PushedOnce, Unpushed
<1>12. PushRunsAtMostOnce'
  BY DEF Push, IInv, serverVars, agentVars, history, PushRunsAtMostOnce
<1>13. /\ LiveMatches' /\ LiveUnique'
      /\ BusyHasCommand'
  BY DEF Push, IInv, agentVars, LiveMatches, LiveUnique, BusyHasCommand
<1> QED
  BY <1>1, <1>2, <1>3, <1>4, <1>5, <1>6, <1>7, <1>8, <1>9, <1>10, <1>11, <1>12,
      <1>13 DEF IInv

(* A POST handler that throws only forgets the push. *)
LEMMA PushFailsKeeps ==
  ASSUME IInv, NEW c \in Command, PushFails(c)
  PROVE  IInv'
<1>1. TypeOK'
  BY MaxFaultsAssumption DEF PushFails, IInv, serverVars, agentVars, history,
      TypeOK
<1>2. /\ LiveMatches' /\ LiveUnique'
      /\ BusyHasCommand' /\ TakenFirst'
      /\ OutcomesEnded' /\ OrphansDisturbed'
      /\ RunningHasWorker' /\ AnsweredStartLeft'
      /\ UntakenStaysOffered' /\ ResultsAreReal'
      /\ PollRerunNeedsUnansweredStart' /\ FinishedHasRow'
      /\ PushedOnce' /\ PushRunsAtMostOnce'
  BY DEF PushFails, IInv, agentVars, LiveMatches, LiveUnique, BusyHasCommand,
      TakenFirst, OutcomesEnded, OrphansDisturbed, RunningHasWorker,
      AnsweredStartLeft, UntakenStaysOffered, Offered, ResultsAreReal, Finished,
      PollRerunNeedsUnansweredStart, FinishedHasRow, PushedOnce, Unpushed,
      PushRunsAtMostOnce
<1> QED
  BY <1>1, <1>2 DEF IInv

(* The poll goroutine takes a pending command and sends command-started. *)
LEMMA PollKeeps ==
  ASSUME IInv, NEW c \in Command, Poll(c)
  PROVE  IInv'
<1> DEFINE u == Upload("poll", "started", c, None, 1)
<1>1. requests' = requests \cup {u}
  BY DEF Poll, Begin
<1>2. /\ u \in Request /\ u.stage = "started" /\ u.worker = "poll" /\ u.cmd = c
      /\ u.outcome = None /\ u.live
  BY MaxTriesAssumption DEF Upload, Request, Worker, Stage, Outcome, IInv,
      TypeOK
<1> HIDE DEF u
<1>3. \A s \in requests : s.live => s.worker # "poll"
  BY DEF Poll, IInv, LiveMatches
<1>4. TypeOK'
  <2>1. TypeOK
    BY DEF IInv
  <2>2. requests' \subseteq Request
    BY <2>1, <1>1, <1>2 DEF TypeOK
  <2>3. 1 \in 1..MaxTries
    BY MaxTriesAssumption
  <2>4. /\ pc' = [pc EXCEPT !["poll"] = "start"]
        /\ cmd' = [cmd EXCEPT !["poll"] = c]
        /\ try' = [try EXCEPT !["poll"] = 1]
        /\ outcome' = [outcome EXCEPT !["poll"] = None]
        /\ taken' = taken \cup {c}
    BY DEF Poll, Begin
  <2>5. UNCHANGED <<status, order, rows, pushing, registered, wire,
                    faults, inserted, ended, runs, unsure, disturbed>>
    BY DEF Poll, Begin
  <2>6. /\ pc' \in [Worker -> PC]
        /\ cmd' \in [Worker -> Command \cup {None}]
        /\ outcome' \in [Worker -> Outcome \cup {None}]
    BY <2>1, <2>4 DEF Worker, PC, TypeOK
  <2>7. try' \in [Worker -> 1..MaxTries] /\ taken' \subseteq Command
    BY <2>1, <2>3, <2>4 DEF TypeOK
  <2> QED
    BY <2>1, <2>2, <2>5, <2>6, <2>7 DEF TypeOK
<1>5. LiveMatches'
  <2>1. SUFFICES ASSUME NEW q \in requests', q.live
               PROVE  /\ cmd'[q.worker] = q.cmd

                        /\ pc'[q.worker] = IF q.stage = "started" THEN "start" ELSE "report"
    BY DEF LiveMatches
  <2>2. CASE q = u
    BY <2>2, <1>2 DEF Poll, Begin, IInv, TypeOK, Worker
  <2>3. CASE q \in requests
    BY <2>1, <2>3, <1>3 DEF Poll, Begin, IInv, TypeOK, LiveMatches
  <2> QED
    BY <2>2, <2>3, <1>1
<1>6. LiveUnique'
  BY <1>1, <1>2, <1>3 DEF Poll, Begin, Offered, IInv, LiveUnique
<1>7. BusyHasCommand'
  BY DEF Poll, Begin, Offered, IInv, agentVars, BusyHasCommand, TypeOK
<1>8. TakenFirst'
  BY <1>1, <1>2, <1>3 DEF Poll, Begin, Offered, IInv, agentVars, TakenFirst,
      TypeOK
<1>9. OutcomesEnded'
  BY <1>1, <1>2, <1>3 DEF Poll, Begin, Offered, IInv, agentVars, OutcomesEnded
<1>10. OrphansDisturbed'
  BY <1>1, <1>2, <1>3 DEF Poll, Begin, Offered, IInv, OrphansDisturbed
<1>11. RunningHasWorker'
  BY <1>1, <1>2, <1>3 DEF Poll, Begin, Offered, IInv, agentVars,
      RunningHasWorker
<1>12. AnsweredStartLeft'
  BY DEF Poll, Begin, Offered, IInv, agentVars, AnsweredStartLeft, TypeOK
<1>13. /\ UntakenStaysOffered' /\ ResultsAreReal'
      /\ PollRerunNeedsUnansweredStart' /\ FinishedHasRow'
      /\ PushedOnce' /\ PushRunsAtMostOnce'
  BY DEF Poll, Begin, Offered, IInv, UntakenStaysOffered, ResultsAreReal,
      Finished, PollRerunNeedsUnansweredStart, FinishedHasRow, agentVars,
      PushedOnce, Unpushed, PushRunsAtMostOnce
<1> QED
  BY <1>4, <1>5, <1>6, <1>7, <1>8, <1>9, <1>10, <1>11, <1>12, <1>13 DEF IInv

(* The WebSocket goroutine takes the head of the wire and sends command-started. *)
LEMMA ReceiveKeeps ==
  ASSUME IInv, Receive
  PROVE  IInv'
<1>1. PICK c \in Command : c = Head(wire) /\ wire' = Tail(wire) /\ Begin("ws", c)
  BY DEF Receive, IInv, TypeOK
<1> DEFINE u == Upload("ws", "started", c, None, 1)
<1>2. requests' = requests \cup {u}
  BY <1>1 DEF Receive, Begin
<1>3. /\ u \in Request /\ u.stage = "started" /\ u.worker = "ws" /\ u.cmd = c
      /\ u.outcome = None /\ u.live
  BY MaxTriesAssumption, <1>1 DEF Upload, Request, Worker, Stage, Outcome, IInv,
      TypeOK
<1> HIDE DEF u
<1>4. \A s \in requests : s.live => s.worker # "ws"
  BY DEF Receive, IInv, LiveMatches
<1>5. TypeOK'
  <2>1. TypeOK
    BY DEF IInv
  <2>2. requests' \subseteq Request
    BY <2>1, <1>2, <1>3 DEF TypeOK
  <2>3. 1 \in 1..MaxTries
    BY MaxTriesAssumption
  <2>4. wire' \in Seq(Command) /\ c \in Command
    BY <2>1, <1>1 DEF Receive, TypeOK
  <2>5. Begin("ws", c)
    BY <1>1
  <2>6. /\ pc' \in [Worker -> PC] /\ cmd' \in [Worker -> Command \cup {None}]
        /\ try' \in [Worker -> 1..MaxTries] /\ outcome' \in [Worker -> Outcome
          \cup {None}]
        /\ taken' \subseteq Command
    BY <2>1, <2>3, <2>4, <2>5 DEF Begin, Worker, PC, TypeOK
  <2>7. UNCHANGED <<status, order, rows, pushing, registered,
        faults, inserted, ended, runs, unsure, disturbed>>
    BY <2>5 DEF Begin
  <2> QED
    BY <2>1, <2>2, <2>4, <2>6, <2>7 DEF TypeOK
<1>6. LiveMatches'
  <2>1. SUFFICES ASSUME NEW q \in requests', q.live
               PROVE  /\ cmd'[q.worker] = q.cmd

                        /\ pc'[q.worker] = IF q.stage = "started" THEN "start" ELSE "report"
    BY DEF LiveMatches
  <2>2. CASE q = u
    BY <2>2, <1>1, <1>3 DEF Begin, IInv, TypeOK, Worker
  <2>3. CASE q \in requests
    BY <2>1, <2>3, <1>1, <1>4 DEF Begin, IInv, TypeOK, LiveMatches
  <2> QED
    BY <2>2, <2>3, <1>2
<1>7. LiveUnique'
  BY <1>1, <1>2, <1>3, <1>4 DEF Receive, Begin, IInv, LiveUnique
<1>8. BusyHasCommand'
  BY DEF Receive, Begin, IInv, agentVars, BusyHasCommand, TypeOK
<1>9. TakenFirst'
  BY <1>1, <1>2, <1>3, <1>4 DEF Receive, Begin, IInv, agentVars, TakenFirst,
      TypeOK
<1>10. OutcomesEnded'
  BY <1>1, <1>2, <1>3, <1>4 DEF Receive, Begin, IInv, agentVars, OutcomesEnded
<1>11. OrphansDisturbed'
  BY <1>1, <1>2, <1>3, <1>4 DEF Receive, Begin, IInv, OrphansDisturbed
<1>12. RunningHasWorker'
  BY <1>1, <1>2, <1>3, <1>4 DEF Receive, Begin, IInv, agentVars,
      RunningHasWorker
<1>13. PushedOnce'
  BY <1>1, <1>2, <1>3, <1>4 DEF Receive, Begin, IInv, agentVars, PushedOnce,
      Unpushed, TypeOK
<1>14. /\ AnsweredStartLeft' /\ UntakenStaysOffered'
      /\ ResultsAreReal' /\ PollRerunNeedsUnansweredStart'
      /\ FinishedHasRow' /\ PushRunsAtMostOnce'
  BY DEF Receive, Begin, IInv, agentVars, AnsweredStartLeft,
      UntakenStaysOffered, Offered, ResultsAreReal, Finished,
      PollRerunNeedsUnansweredStart, FinishedHasRow, PushRunsAtMostOnce
<1> QED
  BY <1>5, <1>6, <1>7, <1>8, <1>9, <1>10, <1>11, <1>12, <1>13, <1>14 DEF IInv

(* The result a goroutine posts is that of the execution that just ended. *)
LEMMA ExecuteEndsKeeps ==
  ASSUME IInv, NEW w \in Worker, NEW o \in Outcome, ExecuteEnds(w, o)
  PROVE  IInv'
<1>1. cmd[w] \in Command
  BY DEF ExecuteEnds, IInv, BusyHasCommand
<1> DEFINE u == Upload(w, "result", cmd[w], o, 1)
<1>2. requests' = requests \cup {u}
  BY DEF ExecuteEnds
<1>3. /\ u \in Request /\ u.stage = "result" /\ u.worker = w /\ u.cmd = cmd[w]
      /\ u.outcome = o /\ u.live
  BY MaxTriesAssumption, <1>1 DEF Upload, Request, Worker, Stage, Outcome, IInv,
      TypeOK
<1> HIDE DEF u
<1>4. \A s \in requests : s.live => s.worker # w
  BY DEF ExecuteEnds, IInv, LiveMatches
<1>5. TypeOK'
  BY <1>1, <1>2, <1>3, <1>4 DEF ExecuteEnds, IInv, TypeOK, PC
<1>6. LiveMatches'
  BY <1>1, <1>2, <1>3, <1>4 DEF ExecuteEnds, IInv, agentVars, LiveMatches,
      TypeOK
<1>7. LiveUnique'
  BY <1>1, <1>2, <1>3, <1>4 DEF ExecuteEnds, IInv, LiveUnique
<1>8. TakenFirst'
  BY <1>1, <1>2, <1>3, <1>4 DEF ExecuteEnds, IInv, agentVars, TakenFirst
<1>9. OutcomesEnded'
  <2>1. /\ \A c \in Command : ended[c] \subseteq ended'[c]
        /\ o \in ended'[cmd[w]]
    BY <1>1 DEF ExecuteEnds, IInv, TypeOK
  <2>2. /\ requests \subseteq Request
        /\ \A v \in Worker : v # w => pc'[v] = pc[v] /\ outcome'[v] = outcome[v]
        /\ outcome'[w] = o /\ UNCHANGED cmd
    BY DEF ExecuteEnds, IInv, TypeOK
  <2>3. \A r \in requests' : r.stage # "started" => r.outcome \in ended'[r.cmd]
    BY <1>2, <1>3, <2>1, <2>2 DEF IInv, OutcomesEnded, Request
  <2>4. \A v \in Worker : pc[v] = "report" => cmd[v] \in Command
    BY DEF IInv, BusyHasCommand
  <2>5. \A v \in Worker : pc'[v] = "report" => outcome'[v] \in ended'[cmd'[v]]
    BY <2>1, <2>2, <2>4 DEF IInv, OutcomesEnded
  <2> QED
    BY <2>3, <2>5 DEF OutcomesEnded
<1>10. OrphansDisturbed'
  BY <1>1, <1>2, <1>3, <1>4 DEF ExecuteEnds, IInv, OrphansDisturbed
<1>11. RunningHasWorker'
  BY <1>1, <1>2, <1>3, <1>4 DEF ExecuteEnds, IInv, agentVars, RunningHasWorker
<1>12. /\ BusyHasCommand' /\ AnsweredStartLeft'
      /\ UntakenStaysOffered' /\ ResultsAreReal'
      /\ PollRerunNeedsUnansweredStart' /\ FinishedHasRow'
      /\ PushedOnce' /\ PushRunsAtMostOnce'
  BY DEF ExecuteEnds, IInv, agentVars, BusyHasCommand, AnsweredStartLeft,
      UntakenStaysOffered, Offered, ResultsAreReal, Finished,
      PollRerunNeedsUnansweredStart, FinishedHasRow, PushedOnce, Unpushed,
      PushRunsAtMostOnce
<1> QED
  BY <1>5, <1>6, <1>7, <1>8, <1>9, <1>10, <1>11, <1>12 DEF IInv

(* A retry replaces the live upload by the next attempt; the old may survive. *)
LEMMA RetryKeeps ==
  ASSUME IInv, NEW w \in Worker, Retry(w)
  PROVE  IInv'
<1>1. cmd[w] \in Command
  BY DEF Retry, AttemptFails, IInv, BusyHasCommand
<1>2. \A s \in Live(w) : s \in requests /\ s.live /\ s.worker = w
      /\ s.cmd = cmd[w] /\ s \in Request
  BY DEF Live, IInv, LiveMatches, TypeOK
<1> DEFINE stage == IF pc[w] = "start" THEN "started" ELSE "result"
<1> DEFINE u == Upload(w, stage, cmd[w], outcome[w], try[w] + 1)
<1>3. PICK kept \in BOOLEAN : requests' = Abandoned(w, kept) \cup {u}
  BY DEF Retry
<1>4. /\ u \in Request /\ u.stage = stage /\ u.worker = w /\ u.cmd = cmd[w]
      /\ u.outcome = outcome[w] /\ u.live
  BY MaxTriesAssumption, RetryTry, <1>1 DEF Retry, Upload, Request, Worker,
      Stage, Outcome, IInv, TypeOK
<1> HIDE DEF u
<1>5. \A q \in requests' : \/ q = u \/ q \in requests \ Live(w)
         \/ /\ q \in Request /\ ~ q.live
            /\ \E s \in Live(w) : /\ q.stage = s.stage /\ q.worker = s.worker
                                  /\ q.cmd = s.cmd /\ q.outcome = s.outcome
  BY <1>3, <1>2, OrphanFields DEF Abandoned
<1>6. requests \ Live(w) \subseteq requests'
  BY <1>3 DEF Abandoned
<1>7. TypeOK'
  BY <1>1, <1>2, <1>3, <1>4, <1>5, <1>6, MaxTriesAssumption,
      MaxFaultsAssumption, NoneAssumption, SMTT(10) DEF Retry, AttemptFails,
      IInv, serverVars, agentVars, history, TypeOK
<1>8. LiveMatches'
  BY <1>1, <1>2, <1>3, <1>4, <1>5, <1>6 DEF Retry, AttemptFails, IInv,
      agentVars, LiveMatches
<1>9. LiveUnique'
  <2>1. \A q \in requests' : q.live => q = u \/ (q \in requests /\ q.worker # w)
    BY <1>5 DEF Live
  <2> QED
    BY <2>1, <1>4 DEF IInv, LiveUnique
<1>10. TakenFirst'
  BY <1>1, <1>2, <1>3, <1>4, <1>5, <1>6 DEF Retry, AttemptFails, IInv,
      agentVars, TakenFirst
<1>11. OutcomesEnded'
  BY <1>1, <1>2, <1>3, <1>4, <1>5, <1>6 DEF Retry, AttemptFails, IInv,
      agentVars, OutcomesEnded
<1>12. OrphansDisturbed'
  BY <1>1, <1>2, <1>3, <1>4, <1>5, <1>6 DEF Retry, AttemptFails, IInv,
      OrphansDisturbed
<1>13. RunningHasWorker'
  BY <1>1, <1>2, <1>3, <1>4, <1>5, <1>6 DEF Retry, AttemptFails, IInv,
      agentVars, RunningHasWorker
<1>14. FinishedHasRow'
  BY <1>1, <1>2, <1>3, <1>4, <1>5, <1>6 DEF Retry, AttemptFails, IInv,
      FinishedHasRow, Finished
<1>15. /\ BusyHasCommand' /\ AnsweredStartLeft'
      /\ UntakenStaysOffered' /\ ResultsAreReal'
      /\ PollRerunNeedsUnansweredStart' /\ PushedOnce'
      /\ PushRunsAtMostOnce'
  BY DEF Retry, AttemptFails, IInv, agentVars, BusyHasCommand,
      AnsweredStartLeft, UntakenStaysOffered, Offered, ResultsAreReal, Finished,
      PollRerunNeedsUnansweredStart, PushedOnce, Unpushed, PushRunsAtMostOnce
<1> QED
  BY <1>7, <1>8, <1>9, <1>10, <1>11, <1>12, <1>13, <1>14, <1>15 DEF IInv

(* An unanswered command-started: the execution begins all the same. *)
LEMMA GiveUpStartKeeps ==
  ASSUME IInv, NEW w \in Worker, GiveUpStart(w)
  PROVE  IInv'
<1>1. cmd[w] \in Command
  BY DEF GiveUpStart, AttemptFails, IInv, BusyHasCommand
<1>2. \A s \in Live(w) : s \in requests /\ s.live /\ s.worker = w
      /\ s.cmd = cmd[w] /\ s \in Request
  BY DEF Live, IInv, LiveMatches, TypeOK
<1>3. PICK kept \in BOOLEAN : requests' = Abandoned(w, kept)
  BY DEF GiveUpStart
<1>4. \A q \in requests' :
         \/ q \in requests \ Live(w)
         \/ /\ q \in Request /\ ~ q.live
            /\ \E s \in Live(w) : /\ q.stage = s.stage /\ q.worker = s.worker
                                  /\ q.cmd = s.cmd /\ q.outcome = s.outcome
  BY <1>2, <1>3, OrphanFields DEF Abandoned
<1>5. requests \ Live(w) \subseteq requests'
  BY <1>3 DEF Abandoned
<1>6. TypeOK'
  <2>1. TypeOK
    BY DEF IInv
  <2>2. requests' \subseteq Request
    BY <2>1, <1>4 DEF TypeOK
  <2>3. pc' \in [Worker -> PC] /\ disturbed' \subseteq Command
    BY <2>1, <1>1 DEF GiveUpStart, AttemptFails, TypeOK, PC
  <2>4. try' \in [Worker -> 1..MaxTries] /\ faults' \in 0..MaxFaults
    BY <2>1, MaxTriesAssumption, MaxFaultsAssumption DEF GiveUpStart, AttemptFails, TypeOK
  <2>5. /\ runs' \in [Worker -> [Command -> Nat]]
        /\ unsure' \in [Worker -> [Command -> Nat]]
    BY <2>1, <1>1 DEF GiveUpStart, TypeOK
  <2> QED
    BY <2>1, <2>2, <2>3, <2>4, <2>5 DEF GiveUpStart, TypeOK
<1>7. LiveMatches'
  <2>1. \A q \in requests' : q.live => q \in requests /\ q.worker # w
    BY <1>4 DEF Live
  <2> QED
    BY <2>1 DEF GiveUpStart, AttemptFails, IInv, TypeOK, LiveMatches
<1>8. LiveUnique'
  BY <1>1, <1>2, <1>3, <1>4, <1>5 DEF GiveUpStart, AttemptFails, IInv,
      LiveUnique
<1>9. TakenFirst'
  BY <1>1, <1>2, <1>3, <1>4, <1>5 DEF GiveUpStart, AttemptFails, IInv,
      agentVars, TakenFirst
<1>10. OutcomesEnded'
  BY <1>1, <1>2, <1>3, <1>4, <1>5 DEF GiveUpStart, AttemptFails, IInv,
      agentVars, OutcomesEnded
<1>11. OrphansDisturbed'
  BY <1>1, <1>2, <1>3, <1>4, <1>5 DEF GiveUpStart, AttemptFails, IInv,
      OrphansDisturbed
<1>12. RunningHasWorker'
  BY <1>1, <1>2, <1>3, <1>4, <1>5 DEF GiveUpStart, AttemptFails, IInv,
      agentVars, RunningHasWorker
<1>13. AnsweredStartLeft'
  BY DEF GiveUpStart, AttemptFails, IInv, agentVars, AnsweredStartLeft, TypeOK
<1>14. PollRerunNeedsUnansweredStart'
  BY DEF GiveUpStart, AttemptFails, IInv, PollRerunNeedsUnansweredStart, TypeOK
<1>15. FinishedHasRow'
  BY <1>1, <1>2, <1>3, <1>4, <1>5 DEF GiveUpStart, AttemptFails, IInv,
      FinishedHasRow, Finished
<1>16. PushedOnce'
  <2>1. \A d \in Command : d # cmd["ws"] => runs'["ws"][d] = runs["ws"][d]
    BY DEF GiveUpStart, AttemptFails, IInv, TypeOK, Worker
  <2>2. pc'["ws"] = "start" => pc["ws"] = "start" /\ runs'["ws"] = runs["ws"]
    BY DEF GiveUpStart, AttemptFails, IInv, TypeOK, Worker
  <2>3. \A i \in 1..Len(wire) : wire[i] \in Command
    BY DEF IInv, TypeOK
  <2>4. UNCHANGED <<status, pushing, wire, cmd>>
    BY DEF GiveUpStart
  <2>5. \A d \in Command : Unpushed(d) => Unpushed(d)'
    BY <2>1, <2>4 DEF Unpushed
  <2>6. PushedOnce /\ pushing \subseteq Command
    BY DEF IInv, TypeOK
  <2> QED
    BY <2>1, <2>2, <2>3, <2>4, <2>5, <2>6 DEF PushedOnce
<1>17. PushRunsAtMostOnce'
  BY DEF GiveUpStart, AttemptFails, IInv, PushRunsAtMostOnce, TypeOK,
      PushedOnce, LiveMatches, BusyHasCommand
<1>18. /\ BusyHasCommand' /\ UntakenStaysOffered'
      /\ ResultsAreReal'
  BY DEF GiveUpStart, AttemptFails, IInv, agentVars, BusyHasCommand,
      UntakenStaysOffered, Offered, ResultsAreReal, Finished
<1> QED
  BY <1>6, <1>7, <1>8, <1>9, <1>10, <1>11, <1>12, <1>13, <1>14, <1>15, <1>16,
      <1>17, <1>18 DEF IInv

(* An unanswered command-result: the goroutine forgets the command. *)
LEMMA GiveUpReportKeeps ==
  ASSUME IInv, NEW w \in Worker, GiveUpReport(w)
  PROVE  IInv'
<1>1. cmd[w] \in Command
  BY DEF GiveUpReport, AttemptFails, IInv, BusyHasCommand
<1>2. \A s \in Live(w) : s \in requests /\ s.live /\ s.worker = w
      /\ s.cmd = cmd[w] /\ s \in Request
  BY DEF Live, IInv, LiveMatches, TypeOK
<1>3. PICK kept \in BOOLEAN : requests' = Abandoned(w, kept)
  BY DEF GiveUpReport
<1>4. \A q \in requests' :
         \/ q \in requests \ Live(w)
         \/ /\ q \in Request /\ ~ q.live
            /\ \E s \in Live(w) : /\ q.stage = s.stage /\ q.worker = s.worker
                                  /\ q.cmd = s.cmd /\ q.outcome = s.outcome
  BY <1>2, <1>3, OrphanFields DEF Abandoned
<1>5. requests \ Live(w) \subseteq requests'
  BY <1>3 DEF Abandoned
<1>6. TypeOK'
  BY <1>1, <1>2, <1>3, <1>4, <1>5, MaxTriesAssumption, MaxFaultsAssumption DEF
      GiveUpReport, AttemptFails, BecomeIdle, IInv, serverVars, agentVars,
      history, TypeOK, PC
<1>7. LiveMatches'
  <2>1. \A q \in requests' : q.live => q \in requests /\ q.worker # w
    BY <1>4 DEF Live
  <2> QED
    BY <2>1 DEF GiveUpReport, AttemptFails, BecomeIdle, IInv, TypeOK,
        LiveMatches
<1>8. LiveUnique'
  BY <1>1, <1>2, <1>3, <1>4, <1>5 DEF GiveUpReport, AttemptFails, BecomeIdle,
      IInv, LiveUnique
<1>9. BusyHasCommand'
  BY DEF GiveUpReport, AttemptFails, BecomeIdle, IInv, agentVars,
      BusyHasCommand, TypeOK
<1>10. TakenFirst'
  BY <1>1, <1>2, <1>3, <1>4, <1>5 DEF GiveUpReport, AttemptFails, BecomeIdle,
      IInv, agentVars, TakenFirst, TypeOK, LiveMatches, BusyHasCommand, Worker
<1>11. OutcomesEnded'
  <2>1. \A q \in requests' : \E s \in requests :
          q.stage = s.stage /\ q.cmd = s.cmd /\ q.outcome = s.outcome
    BY <1>2, <1>4
  <2> QED
    BY <2>1 DEF GiveUpReport, AttemptFails, BecomeIdle, IInv, TypeOK,
        OutcomesEnded
<1>12. OrphansDisturbed'
  BY <1>1, <1>2, <1>3, <1>4, <1>5 DEF GiveUpReport, AttemptFails, BecomeIdle,
      IInv, OrphansDisturbed
<1>13. RunningHasWorker'
  BY <1>1, <1>2, <1>3, <1>4, <1>5 DEF GiveUpReport, AttemptFails, BecomeIdle,
      IInv, agentVars, RunningHasWorker
<1>14. FinishedHasRow'
  BY <1>1, <1>2, <1>3, <1>4, <1>5 DEF GiveUpReport, AttemptFails, BecomeIdle,
      IInv, FinishedHasRow, Finished
<1>15. PushedOnce'
  <2>1. PushedOnce /\ wire \in Seq(Command) /\ None \notin Command
    BY NoneAssumption DEF IInv, TypeOK
  <2>2. UNCHANGED <<status, pushing, wire, runs>>
    BY DEF GiveUpReport
  <2>3. /\ cmd'["ws"] \in {cmd["ws"], None}
        /\ pc'["ws"] = "start" => pc["ws"] = "start" /\ cmd'["ws"] = cmd["ws"]
    BY DEF GiveUpReport, BecomeIdle, IInv, TypeOK, Worker
  <2>4. \A i \in 1..Len(wire) : wire[i] \in Command
    BY <2>1
  <2>5. \A c \in Command : Unpushed(c) => Unpushed(c)'
    BY <2>1, <2>2, <2>3 DEF Unpushed
  <2>6. pushing \subseteq Command
    BY DEF IInv, TypeOK
  <2> QED
    BY <2>1, <2>2, <2>3, <2>4, <2>5, <2>6 DEF PushedOnce
<1>16. /\ AnsweredStartLeft' /\ UntakenStaysOffered'
      /\ ResultsAreReal' /\ PollRerunNeedsUnansweredStart'
      /\ PushRunsAtMostOnce'
  BY DEF GiveUpReport, AttemptFails, BecomeIdle, IInv, agentVars,
      AnsweredStartLeft, UntakenStaysOffered, Offered, ResultsAreReal, Finished,
      PollRerunNeedsUnansweredStart, PushRunsAtMostOnce
<1> QED
  BY <1>6, <1>7, <1>8, <1>9, <1>10, <1>11, <1>12, <1>13, <1>14, <1>15, <1>16 DEF
      IInv

(* Both goroutines forget what they did; their uploads may survive. *)
LEMMA AgentCrashKeeps ==
  ASSUME IInv, AgentCrash
  PROVE  IInv'
<1>1. PICK Kept \in SUBSET {r \in requests : r.live} :
      requests' = {r \in requests : ~r.live} \cup {Orphan(r) : r \in Kept}
  BY DEF AgentCrash
<1>2. requests \subseteq Request
  BY DEF IInv, TypeOK
<1>3. \A q \in requests' :
         \/ q \in requests /\ ~ q.live
         \/ /\ q \in Request /\ ~ q.live
            /\ \E s \in requests : /\ s.live
                                   /\ q.stage = s.stage /\ q.worker = s.worker
                                   /\ q.cmd = s.cmd /\ q.outcome = s.outcome
  BY <1>1, <1>2, OrphanFields
<1>4. \A s \in requests : ~ s.live => s \in requests'
  BY <1>1
<1>5. \A s \in requests : s.live => s.worker \in Worker /\ pc[s.worker] # "idle"
      /\ cmd[s.worker] = s.cmd
  BY <1>2 DEF IInv, LiveMatches, Request
<1>6. \A s \in requests : s.live => s.cmd \in disturbed'
  BY <1>5 DEF AgentCrash
<1>7. disturbed' \subseteq Command
  BY DEF AgentCrash, IInv, TypeOK, BusyHasCommand
<1>8. TypeOK'
  <2>1. TypeOK
    BY DEF IInv
  <2>2. requests' \subseteq Request
    BY <1>2, <1>3
  <2>3. 1 \in 1..MaxTries
    BY MaxTriesAssumption
  <2>4. registered' \in BOOLEAN
    BY DEF AgentCrash
  <2> QED
    BY <2>1, <2>2, <2>3, <2>4, MaxFaultsAssumption, <1>7, SMTT(30) DEF
        AgentCrash, PC, TypeOK
<1>9. LiveMatches'
  BY <1>1, <1>2, <1>3, <1>4, <1>5, <1>6, <1>7 DEF AgentCrash, IInv, agentVars,
      LiveMatches
<1>10. LiveUnique'
  BY <1>1, <1>2, <1>3, <1>4, <1>5, <1>6, <1>7 DEF AgentCrash, IInv, LiveUnique
<1>11. TakenFirst'
  BY <1>1, <1>2, <1>3, <1>4, <1>5, <1>6, <1>7 DEF AgentCrash, IInv, agentVars,
      TakenFirst
<1>12. OutcomesEnded'
  BY <1>1, <1>2, <1>3, <1>4, <1>5, <1>6, <1>7 DEF AgentCrash, IInv, agentVars,
      OutcomesEnded
<1>13. OrphansDisturbed'
  BY <1>1, <1>2, <1>3, <1>4, <1>5, <1>6, <1>7 DEF AgentCrash, IInv,
      OrphansDisturbed
<1>14. AnsweredStartLeft'
  BY DEF AgentCrash, IInv, agentVars, AnsweredStartLeft, TypeOK, LiveMatches,
      BusyHasCommand, Worker
<1>15. FinishedHasRow'
  BY <1>1, <1>2, <1>3, <1>4, <1>5, <1>6, <1>7 DEF AgentCrash, IInv,
      FinishedHasRow, Finished
<1>16. PushedOnce'
  <2>1. PushedOnce /\ pushing \subseteq Command /\ None \notin Command
    BY NoneAssumption DEF IInv, TypeOK
  <2>2. /\ wire' = <<>> /\ cmd'["ws"] = None /\ pc'["ws"] = "idle"
        /\ UNCHANGED <<status, pushing, runs>>
    BY DEF AgentCrash, Worker
  <2>3. Len(wire') = 0
    BY <2>2
  <2>4. \A c \in Command : Unpushed(c) => Unpushed(c)'
    BY <2>1, <2>2, <2>3 DEF Unpushed
  <2> QED
    BY <2>1, <2>2, <2>3, <2>4 DEF PushedOnce
<1>17. /\ BusyHasCommand' /\ RunningHasWorker'
      /\ UntakenStaysOffered' /\ ResultsAreReal'
      /\ PollRerunNeedsUnansweredStart' /\ PushRunsAtMostOnce'
  BY DEF AgentCrash, IInv, agentVars, BusyHasCommand, RunningHasWorker,
      UntakenStaysOffered, Offered, ResultsAreReal, Finished,
      PollRerunNeedsUnansweredStart, PushRunsAtMostOnce
<1> QED
  BY <1>8, <1>9, <1>10, <1>11, <1>12, <1>13, <1>14, <1>15, <1>16, <1>17 DEF IInv

(* The UPDATE of command-result; the INSERT is still to come. *)
LEMMA ApplyResultKeeps ==
  ASSUME IInv, NEW r \in requests, ApplyResult(r)
  PROVE  IInv'
<1>1. r \in Request
  BY DEF IInv, TypeOK
<1>2. r.outcome \in ended[r.cmd] /\ r.cmd \in Command
  BY <1>1 DEF ApplyResult, IInv, OutcomesEnded, Request
<1>3. r.outcome \in Outcome
  BY <1>2 DEF IInv, TypeOK
<1> DEFINE u == [r EXCEPT !.stage = "row"]
<1>4. requests' = (requests \ {r}) \cup {u}
  BY DEF ApplyResult
<1>5. /\ u \in Request /\ u.stage = "row" /\ u.worker = r.worker /\ u.cmd = r.cmd
      /\ u.outcome = r.outcome /\ u.live = r.live
  BY MaxTriesAssumption, <1>1 DEF Request, Stage
<1> HIDE DEF u
<1>6. TypeOK'
  <2>1. TypeOK
    BY DEF IInv
  <2>2. requests' \subseteq Request
    BY <2>1, <1>4, <1>5 DEF TypeOK
  <2> QED
    BY <2>1, <2>2, <1>2, <1>3, SMTT(30) DEF ApplyResult, agentVars, history,
        Status, TypeOK
<1>7. LiveMatches'
  BY <1>1, <1>2, <1>3, <1>4, <1>5 DEF ApplyResult, IInv, agentVars, LiveMatches
<1>8. LiveUnique'
  BY <1>1, <1>2, <1>3, <1>4, <1>5 DEF ApplyResult, IInv, LiveUnique
<1>9. TakenFirst'
  BY <1>1, <1>2, <1>3, <1>4, <1>5 DEF ApplyResult, IInv, serverVars, agentVars,
      history, TakenFirst
<1>10. OutcomesEnded'
  BY <1>1, <1>2, <1>3, <1>4, <1>5 DEF ApplyResult, IInv, serverVars, agentVars,
      history, OutcomesEnded
<1>11. OrphansDisturbed'
  BY <1>1, <1>2, <1>3, <1>4, <1>5 DEF ApplyResult, IInv, serverVars, agentVars,
      history, OrphansDisturbed
<1>12. RunningHasWorker'
  <2> SUFFICES ASSUME NEW d \in Command, status'[d] = "running", d \notin disturbed
             PROVE  \E w \in Worker :
                      /\ cmd[w] = d /\ pc[w] # "idle"
                      /\ \A s \in requests' : s.live
                        /\ s.worker = w => s.stage # "row"
    BY DEF RunningHasWorker, ApplyResult, agentVars, history
  <2>1. d # r.cmd /\ status[d] = "running"
    BY <1>2, <1>3 DEF ApplyResult, IInv, TypeOK, Outcome
  <2>2. PICK w \in Worker :
          /\ cmd[w] = d /\ pc[w] # "idle"
          /\ \A s \in requests : s.live /\ s.worker = w => s.stage # "row"
    BY <2>1 DEF IInv, RunningHasWorker
  <2>3. ~ (u.live /\ u.worker = w)
    BY <2>1, <2>2, <1>5 DEF IInv, LiveMatches
  <2> QED
    BY <2>2, <2>3, <1>4
<1>13. AnsweredStartLeft'
  BY <1>1, <1>2, <1>3, <1>4, <1>5 DEF ApplyResult, IInv, serverVars, agentVars,
      history, AnsweredStartLeft, TypeOK, LiveMatches, BusyHasCommand, Worker,
      PC, Outcome, Status, Stage
<1>14. UntakenStaysOffered'
  BY DEF ApplyResult, IInv, serverVars, agentVars, history, UntakenStaysOffered,
      Offered, TypeOK, TakenFirst
<1>15. ResultsAreReal'
  BY <1>1, <1>2, <1>3, <1>4, <1>5 DEF ApplyResult, IInv, serverVars, agentVars,
      history, ResultsAreReal, Finished
<1>16. PollRerunNeedsUnansweredStart'
  BY DEF ApplyResult, IInv, serverVars, agentVars, history,
      PollRerunNeedsUnansweredStart
<1>17. FinishedHasRow'
  BY <1>1, <1>2, <1>3, <1>4, <1>5 DEF ApplyResult, IInv, serverVars, agentVars,
      history, FinishedHasRow, Finished
<1>18. PushedOnce'
  BY <1>1, <1>2, <1>3, <1>4, <1>5 DEF ApplyResult, IInv, serverVars, agentVars,
      history, PushedOnce, Unpushed, TypeOK, LiveMatches, BusyHasCommand,
      Worker, PC, Outcome, Status, Stage
<1>19. PushRunsAtMostOnce'
  BY DEF ApplyResult, IInv, serverVars, agentVars, history, PushRunsAtMostOnce
<1>20. BusyHasCommand'
  BY DEF ApplyResult, IInv, agentVars, BusyHasCommand
<1> QED
  BY <1>6, <1>7, <1>8, <1>9, <1>10, <1>11, <1>12, <1>13, <1>14, <1>15, <1>16,
      <1>17, <1>18, <1>19, <1>20 DEF IInv

(* The server forgets its handlers and sockets; the rows survive. *)
LEMMA RestartKeeps ==
  ASSUME IInv, Restart
  PROVE  IInv'
<1>1. requests \subseteq Request
  BY DEF IInv, TypeOK
<1>2. \A q \in Request : q.cmd \in Command
  BY DEF Request
<1>3. TypeOK'
  <2>1. TypeOK
    BY DEF IInv
  <2>2. registered' \in BOOLEAN
    BY DEF Restart
  <2>3. disturbed' \subseteq Command
    BY <2>1, <1>1, <1>2 DEF Restart, TypeOK
  <2> QED
    BY <2>1, <2>2, <2>3, MaxFaultsAssumption, SMTT(30) DEF Restart, agentVars,
        TypeOK
<1>4. /\ LiveMatches' /\ LiveUnique'
      /\ BusyHasCommand' /\ TakenFirst'
      /\ OutcomesEnded' /\ OrphansDisturbed'
      /\ RunningHasWorker' /\ AnsweredStartLeft'
      /\ UntakenStaysOffered' /\ ResultsAreReal'
      /\ PollRerunNeedsUnansweredStart' /\ FinishedHasRow'
      /\ PushedOnce' /\ PushRunsAtMostOnce'
  BY DEF Restart, IInv, agentVars, LiveMatches, LiveUnique, BusyHasCommand,
      TakenFirst, OutcomesEnded, OrphansDisturbed, RunningHasWorker,
      AnsweredStartLeft, UntakenStaysOffered, Offered, ResultsAreReal, Finished,
      PollRerunNeedsUnansweredStart, FinishedHasRow, PushedOnce, Unpushed,
      PushRunsAtMostOnce
<1> QED
  BY <1>3, <1>4 DEF IInv

(* A fresh socket carries nothing. *)
LEMMA ConnectKeeps ==
  ASSUME IInv, Connect
  PROVE  IInv'
<1>1. TypeOK'
  BY DEF Connect, IInv, serverVars, agentVars, history, TypeOK
<1>2. TakenFirst'
  BY DEF Connect, IInv, serverVars, agentVars, history, TakenFirst
<1>3. OutcomesEnded'
  BY DEF Connect, IInv, serverVars, agentVars, history, OutcomesEnded
<1>4. OrphansDisturbed'
  BY DEF Connect, IInv, serverVars, agentVars, history, OrphansDisturbed
<1>5. RunningHasWorker'
  BY DEF Connect, IInv, serverVars, agentVars, history, RunningHasWorker
<1>6. AnsweredStartLeft'
  BY DEF Connect, IInv, serverVars, agentVars, history, AnsweredStartLeft
<1>7. UntakenStaysOffered'
  BY DEF Connect, IInv, serverVars, agentVars, history, UntakenStaysOffered,
      Offered
<1>8. ResultsAreReal'
  BY DEF Connect, IInv, serverVars, agentVars, history, ResultsAreReal, Finished
<1>9. PollRerunNeedsUnansweredStart'
  BY DEF Connect, IInv, serverVars, agentVars, history,
      PollRerunNeedsUnansweredStart
<1>10. FinishedHasRow'
  BY DEF Connect, IInv, serverVars, agentVars, history, FinishedHasRow, Finished
<1>11. PushedOnce'
  BY DEF Connect, IInv, serverVars, agentVars, history, PushedOnce, Unpushed
<1>12. PushRunsAtMostOnce'
  BY DEF Connect, IInv, serverVars, agentVars, history, PushRunsAtMostOnce
<1>13. /\ LiveMatches' /\ LiveUnique'
      /\ BusyHasCommand'
  BY DEF Connect, IInv, agentVars, LiveMatches, LiveUnique, BusyHasCommand
<1> QED
  BY <1>1, <1>2, <1>3, <1>4, <1>5, <1>6, <1>7, <1>8, <1>9, <1>10, <1>11, <1>12,
      <1>13 DEF IInv

(* What was on the wire is lost; the rows still offer it. *)
LEMMA DisconnectKeeps ==
  ASSUME IInv, Disconnect
  PROVE  IInv'
<1>1. TypeOK'
  <2>1. TypeOK
    BY DEF IInv
  <2>2. registered' \in BOOLEAN
    BY DEF Disconnect
  <2> QED
    BY <2>1, <2>2, MaxFaultsAssumption, SMTT(30) DEF Disconnect, agentVars,
        TypeOK
<1>2. /\ LiveMatches' /\ LiveUnique'
      /\ BusyHasCommand' /\ TakenFirst'
      /\ OutcomesEnded' /\ OrphansDisturbed'
      /\ RunningHasWorker' /\ AnsweredStartLeft'
      /\ UntakenStaysOffered' /\ ResultsAreReal'
      /\ PollRerunNeedsUnansweredStart' /\ FinishedHasRow'
      /\ PushedOnce' /\ PushRunsAtMostOnce'
  BY DEF Disconnect, IInv, agentVars, LiveMatches, LiveUnique, BusyHasCommand,
      TakenFirst, OutcomesEnded, OrphansDisturbed, RunningHasWorker,
      AnsweredStartLeft, UntakenStaysOffered, Offered, ResultsAreReal, Finished,
      PollRerunNeedsUnansweredStart, FinishedHasRow, PushedOnce, Unpushed,
      PushRunsAtMostOnce
<1> QED
  BY <1>1, <1>2 DEF IInv

(* command-started of a sender that still waits: it is answered. *)
LEMMA ApplyStartedLiveKeeps ==
  ASSUME IInv, NEW r \in requests, r.live, ApplyStarted(r)
  PROVE  IInv'
<1>1. r \in Request /\ r.cmd \in Command /\ r.worker \in Worker
  BY DEF IInv, TypeOK, Request
<1>2. requests' = requests \ {r}
  BY DEF ApplyStarted
<1>3. cmd[r.worker] = r.cmd /\ pc[r.worker] = "start" /\ r.stage = "started"
  BY <1>1 DEF ApplyStarted, IInv, LiveMatches
<1>4. \A s \in requests' : s \in requests /\ (s.live => s.worker # r.worker)
  BY <1>2 DEF IInv, LiveUnique
<1>5. /\ status' = [status EXCEPT ![r.cmd] = "running"]
         /\ pc' = [pc EXCEPT ![r.worker] = "execute"]
         /\ try' = [try EXCEPT ![r.worker] = 1]
         /\ runs' = [runs EXCEPT ![r.worker][r.cmd] = @ + 1]
  BY DEF ApplyStarted
<1>6. UNCHANGED <<order, rows, pushing, registered, wire, cmd, outcome,
      faults, inserted, taken, ended, unsure, disturbed>>
  BY DEF ApplyStarted
<1>7. TypeOK'
  <2>1. TypeOK
    BY DEF IInv
  <2>2. requests' \subseteq Request
    BY <2>1, <1>2 DEF TypeOK
  <2>3. 1 \in 1..MaxTries
    BY MaxTriesAssumption
  <2>4. /\ status' \in [Command -> Status] /\ pc' \in [Worker -> PC]
        /\ try' \in [Worker -> 1..MaxTries]
          /\ runs' \in [Worker -> [Command -> Nat]]
    BY <2>1, <2>3, <1>1, <1>5 DEF TypeOK, Status, PC
  <2> QED
    BY <2>1, <2>2, <2>4, <1>6 DEF TypeOK
<1>8. LiveMatches'
  BY <1>1, <1>2, <1>3, <1>4, <1>5, <1>6 DEF IInv, agentVars, LiveMatches
<1>9. LiveUnique'
  BY <1>1, <1>2, <1>3, <1>4, <1>5, <1>6 DEF IInv, LiveUnique
<1>10. BusyHasCommand'
  BY <1>1, <1>2, <1>3, <1>4, <1>5, <1>6 DEF IInv, agentVars, BusyHasCommand
<1>11. TakenFirst'
  BY <1>1, <1>2, <1>3, <1>4, <1>5, <1>6 DEF IInv, agentVars, TakenFirst
<1>12. OutcomesEnded'
  BY <1>1, <1>2, <1>3, <1>4, <1>5, <1>6 DEF IInv, agentVars, OutcomesEnded
<1>13. OrphansDisturbed'
  BY <1>1, <1>2, <1>3, <1>4, <1>5, <1>6 DEF IInv, OrphansDisturbed
<1>14. RunningHasWorker'
  BY <1>1, <1>2, <1>3, <1>4, <1>5, <1>6 DEF IInv, agentVars, RunningHasWorker
<1>15. AnsweredStartLeft'
  BY <1>1, <1>2, <1>3, <1>4, <1>5, <1>6 DEF IInv, agentVars, AnsweredStartLeft,
      TypeOK
<1>16. UntakenStaysOffered'
  BY <1>1, <1>2, <1>3, <1>4, <1>5, <1>6 DEF IInv, UntakenStaysOffered, Offered,
      TypeOK, TakenFirst
<1>17. ResultsAreReal'
  BY <1>1, <1>2, <1>3, <1>4, <1>5, <1>6 DEF IInv, ResultsAreReal, Finished,
      TypeOK, OutcomesEnded, Worker, PC, Outcome, Status, Stage
<1>18. PollRerunNeedsUnansweredStart'
  <2>1. CASE r.worker = "poll"
    <3>1. runs["poll"][r.cmd] <= unsure["poll"][r.cmd]
      BY <2>1, <1>3 DEF IInv, AnsweredStartLeft
    <3>2. runs["poll"] \in [Command -> Nat] /\ unsure["poll"] \in [Command -> Nat]
      BY DEF IInv, TypeOK, Worker
    <3>3. runs'["poll"] = [runs["poll"] EXCEPT ![r.cmd] = @ + 1]
      BY <2>1, <1>1, <1>5 DEF IInv, TypeOK
    <3> QED
      BY <3>1, <3>2, <3>3, <1>1, <1>6 DEF IInv, PollRerunNeedsUnansweredStart
  <2>2. CASE r.worker = "ws"
    BY <2>2, <1>1, <1>5, <1>6 DEF IInv, TypeOK, PollRerunNeedsUnansweredStart
  <2> QED
    BY <2>1, <2>2, <1>1 DEF Worker
<1>19. FinishedHasRow'
  <2>1. \A d \in Command : Finished(d)' => Finished(d) /\ status'[d] = status[d]
    BY <1>1, <1>5 DEF IInv, TypeOK, Finished, Outcome
  <2> QED
    BY <2>1, <1>2, <1>3, <1>6 DEF IInv, FinishedHasRow
<1>20. PushedOnce'
  <2>1. \A d \in Command : d # cmd["ws"] => runs'["ws"][d] = runs["ws"][d]
    BY <1>1, <1>3, <1>5 DEF IInv, TypeOK, Worker
  <2>2. pc'["ws"] = "start" => pc["ws"] = "start" /\ runs'["ws"] = runs["ws"]
    BY <1>1, <1>3, <1>5 DEF IInv, TypeOK, Worker
  <2>3. \A i \in 1..Len(wire) : wire[i] \in Command
    BY DEF IInv, TypeOK
  <2>4. \A d \in Command : status'[d] = "none" => status[d] = "none"
    BY <1>1, <1>5 DEF IInv, TypeOK
  <2>5. \A d \in Command : Unpushed(d) => Unpushed(d)'
    BY <2>1, <1>6 DEF Unpushed
  <2>6. \A i \in 1..Len(wire) : cmd["ws"] # wire[i] /\ runs'["ws"][wire[i]] = 0
    BY <2>1, <2>3 DEF IInv, PushedOnce
  <2>7. \A d \in pushing : d \in Command
    BY DEF IInv, TypeOK
  <2>8. pc'["ws"] = "start" => runs'["ws"][cmd["ws"]] = 0
    BY <2>2 DEF IInv, PushedOnce
  <2> QED
    BY <2>4, <2>5, <2>6, <2>7, <2>8, <1>6 DEF IInv, PushedOnce
<1>21. PushRunsAtMostOnce'
  BY <1>1, <1>2, <1>3, <1>4, <1>5, <1>6 DEF IInv, PushRunsAtMostOnce, TypeOK,
      PushedOnce, LiveMatches, BusyHasCommand
<1> QED
  BY <1>7, <1>8, <1>9, <1>10, <1>11, <1>12, <1>13, <1>14, <1>15, <1>16, <1>17,
      <1>18, <1>19, <1>20, <1>21 DEF IInv

(* command-started of a sender that has moved on: only the row changes. *)
LEMMA ApplyStartedOrphanKeeps ==
  ASSUME IInv, NEW r \in requests, ~ r.live, ApplyStarted(r)
  PROVE  IInv'
<1>1. r \in Request /\ r.cmd \in Command /\ r.worker \in Worker
  BY DEF IInv, TypeOK, Request
<1>2. requests' = requests \ {r}
  BY DEF ApplyStarted
<1>3. r.cmd \in disturbed
  BY DEF IInv, OrphansDisturbed
<1>4. status' = [status EXCEPT ![r.cmd] = "running"] /\ r.stage = "started"
  BY DEF ApplyStarted
<1>5. UNCHANGED <<agentVars, runs, order, rows, pushing, registered, wire,
      faults, inserted, taken, ended, unsure, disturbed>>
  BY DEF ApplyStarted, agentVars
<1>6. TypeOK'
  BY <1>1, <1>2, <1>3, <1>4, <1>5 DEF IInv, serverVars, agentVars, history,
      TypeOK, PC, Status, Outcome, Worker
<1>7. LiveMatches'
  BY <1>1, <1>2, <1>3, <1>4, <1>5 DEF IInv, agentVars, LiveMatches
<1>8. LiveUnique'
  BY <1>1, <1>2, <1>3, <1>4, <1>5 DEF IInv, LiveUnique
<1>9. BusyHasCommand'
  BY <1>1, <1>2, <1>3, <1>4, <1>5 DEF IInv, agentVars, BusyHasCommand
<1>10. TakenFirst'
  BY <1>1, <1>2, <1>3, <1>4, <1>5 DEF IInv, agentVars, TakenFirst
<1>11. OutcomesEnded'
  BY <1>1, <1>2, <1>3, <1>4, <1>5 DEF IInv, agentVars, OutcomesEnded
<1>12. OrphansDisturbed'
  BY <1>1, <1>2, <1>3, <1>4, <1>5 DEF IInv, OrphansDisturbed
<1>13. RunningHasWorker'
  BY <1>1, <1>2, <1>3, <1>4, <1>5 DEF IInv, agentVars, RunningHasWorker
<1>14. AnsweredStartLeft'
  BY <1>1, <1>2, <1>3, <1>4, <1>5 DEF IInv, agentVars, AnsweredStartLeft
<1>15. UntakenStaysOffered'
  BY <1>1, <1>2, <1>3, <1>4, <1>5 DEF IInv, UntakenStaysOffered, Offered,
      TypeOK, TakenFirst
<1>16. ResultsAreReal'
  BY <1>1, <1>2, <1>3, <1>4, <1>5 DEF IInv, ResultsAreReal, Finished, TypeOK,
      OutcomesEnded, Worker, PC, Outcome, Status, Stage
<1>17. PollRerunNeedsUnansweredStart'
  BY <1>1, <1>2, <1>3, <1>4, <1>5 DEF IInv, PollRerunNeedsUnansweredStart
<1>18. FinishedHasRow'
  BY <1>1, <1>2, <1>3, <1>4, <1>5 DEF IInv, FinishedHasRow, Finished
<1>19. PushedOnce'
  BY <1>1, <1>2, <1>3, <1>4, <1>5 DEF IInv, agentVars, PushedOnce, Unpushed
<1>20. PushRunsAtMostOnce'
  BY <1>1, <1>2, <1>3, <1>4, <1>5 DEF IInv, PushRunsAtMostOnce
<1> QED
  BY <1>6, <1>7, <1>8, <1>9, <1>10, <1>11, <1>12, <1>13, <1>14, <1>15, <1>16,
      <1>17, <1>18, <1>19, <1>20 DEF IInv

(* The INSERT of command-result for a sender that still waits. *)
LEMMA InsertRowLiveKeeps ==
  ASSUME IInv, NEW r \in requests, r.live, InsertRow(r)
  PROVE  IInv'
<1>1. r \in Request /\ r.cmd \in Command /\ r.worker \in Worker
  BY DEF IInv, TypeOK, Request
<1>2. requests' = requests \ {r}
  BY DEF InsertRow
<1>3. r.outcome \in ended[r.cmd] /\ r.stage = "row"
  BY <1>1 DEF InsertRow, IInv, OutcomesEnded
<1>4. r.outcome \in Outcome
  BY <1>1, <1>3 DEF IInv, TypeOK
<1>5. cmd[r.worker] = r.cmd /\ pc[r.worker] = "report"
  BY <1>1, <1>3 DEF IInv, LiveMatches
<1>6. \A s \in requests' : s \in requests /\ (s.live => s.worker # r.worker)
  BY <1>2 DEF IInv, LiveUnique
<1>7. /\ rows' = [rows EXCEPT ![r.cmd] = @ \cup {r.outcome}]
         /\ pc' = [pc EXCEPT ![r.worker] = "idle"]
         /\ cmd' = [cmd EXCEPT ![r.worker] = None]
         /\ try' = [try EXCEPT ![r.worker] = 1]
         /\ outcome' = [outcome EXCEPT ![r.worker] = None]
  BY DEF InsertRow, BecomeIdle
<1>8. UNCHANGED <<status, order, pushing, registered, wire, history>>
  BY DEF InsertRow
<1>9. TypeOK'
  BY <1>1, <1>2, <1>3, <1>4, <1>5, <1>6, <1>7, <1>8, MaxTriesAssumption,
      MaxFaultsAssumption DEF IInv, serverVars, agentVars, history, TypeOK, PC
<1>10. LiveMatches'
  BY <1>1, <1>2, <1>3, <1>4, <1>5, <1>6, <1>7, <1>8 DEF IInv, agentVars,
      LiveMatches
<1>11. LiveUnique'
  BY <1>1, <1>2, <1>3, <1>4, <1>5, <1>6, <1>7, <1>8 DEF IInv, LiveUnique
<1>12. BusyHasCommand'
  BY <1>1, <1>2, <1>3, <1>4, <1>5, <1>6, <1>7, <1>8 DEF IInv, agentVars,
      BusyHasCommand, TypeOK
<1>13. TakenFirst'
  BY <1>1, <1>2, <1>3, <1>4, <1>5, <1>6, <1>7, <1>8 DEF IInv, serverVars,
      agentVars, history, TakenFirst, TypeOK
<1>14. OutcomesEnded'
  BY <1>1, <1>2, <1>3, <1>4, <1>5, <1>6, <1>7, <1>8 DEF IInv, serverVars,
      agentVars, history, OutcomesEnded, TypeOK
<1>15. OrphansDisturbed'
  BY <1>1, <1>2, <1>3, <1>4, <1>5, <1>6, <1>7, <1>8 DEF IInv, serverVars,
      agentVars, history, OrphansDisturbed
<1>16. RunningHasWorker'
  BY <1>1, <1>2, <1>3, <1>4, <1>5, <1>6, <1>7, <1>8 DEF IInv, serverVars,
      agentVars, history, RunningHasWorker
<1>17. AnsweredStartLeft'
  BY <1>1, <1>2, <1>3, <1>4, <1>5, <1>6, <1>7, <1>8 DEF IInv, serverVars,
      agentVars, history, AnsweredStartLeft
<1>18. UntakenStaysOffered'
  BY <1>1, <1>2, <1>3, <1>4, <1>5, <1>6, <1>7, <1>8 DEF IInv, serverVars,
      agentVars, history, UntakenStaysOffered, Offered
<1>19. ResultsAreReal'
  BY <1>1, <1>2, <1>3, <1>4, <1>5, <1>6, <1>7, <1>8 DEF IInv, serverVars,
      agentVars, history, ResultsAreReal, Finished
<1>20. PollRerunNeedsUnansweredStart'
  BY <1>1, <1>2, <1>3, <1>4, <1>5, <1>6, <1>7, <1>8 DEF IInv, serverVars,
      agentVars, history, PollRerunNeedsUnansweredStart
<1>21. FinishedHasRow'
  BY <1>1, <1>2, <1>3, <1>4, <1>5, <1>6, <1>7, <1>8 DEF IInv, serverVars,
      agentVars, history, FinishedHasRow, Finished, TypeOK, LiveMatches
<1>22. PushedOnce'
  <2>1. \A d \in Command : cmd["ws"] # d => cmd'["ws"] # d
    BY <1>1, <1>7, NoneAssumption DEF IInv, TypeOK, Worker
  <2>2. pc'["ws"] = "start" => pc["ws"] = "start" /\ cmd'["ws"] = cmd["ws"]
    BY <1>1, <1>5, <1>7 DEF IInv, TypeOK, Worker
  <2>3. \A i \in 1..Len(wire) : wire[i] \in Command
    BY DEF IInv, TypeOK
  <2>4. \A d \in Command : Unpushed(d) => Unpushed(d)'
    BY <2>1, <1>8 DEF Unpushed, history
  <2>5. \A d \in pushing : d \in Command
    BY DEF IInv, TypeOK
  <2>6. \A i \in 1..Len(wire) : cmd'["ws"] # wire[i] /\ runs["ws"][wire[i]] = 0
    BY <2>1, <2>3 DEF IInv, PushedOnce
  <2> QED
    BY <2>2, <2>4, <2>5, <2>6, <1>8 DEF IInv, PushedOnce, history
<1>23. PushRunsAtMostOnce'
  BY <1>1, <1>2, <1>3, <1>4, <1>5, <1>6, <1>7, <1>8 DEF IInv, serverVars,
      agentVars, history, PushRunsAtMostOnce
<1> QED
  BY <1>9, <1>10, <1>11, <1>12, <1>13, <1>14, <1>15, <1>16, <1>17, <1>18, <1>19,
      <1>20, <1>21, <1>22, <1>23 DEF IInv

(* The INSERT of command-result for a sender that has moved on. *)
LEMMA InsertRowOrphanKeeps ==
  ASSUME IInv, NEW r \in requests, ~ r.live, InsertRow(r)
  PROVE  IInv'
<1>1. r \in Request /\ r.cmd \in Command /\ r.worker \in Worker
  BY DEF IInv, TypeOK, Request
<1>2. requests' = requests \ {r}
  BY DEF InsertRow
<1>3. r.outcome \in ended[r.cmd] /\ r.stage = "row"
  BY <1>1 DEF InsertRow, IInv, OutcomesEnded
<1>4. r.outcome \in Outcome
  BY <1>1, <1>3 DEF IInv, TypeOK
<1>5. r.cmd \in disturbed
  BY DEF IInv, OrphansDisturbed
<1>6. rows' = [rows EXCEPT ![r.cmd] = @ \cup {r.outcome}]
  BY DEF InsertRow
<1>7. UNCHANGED <<status, order, pushing, registered, wire, agentVars, history>>
  BY DEF InsertRow
<1>8. TypeOK'
  BY <1>1, <1>2, <1>3, <1>4, <1>5, <1>6, <1>7 DEF IInv, serverVars, agentVars,
      history, TypeOK
<1>9. LiveMatches'
  BY <1>1, <1>2, <1>3, <1>4, <1>5, <1>6, <1>7 DEF IInv, agentVars, LiveMatches
<1>10. LiveUnique'
  BY <1>1, <1>2, <1>3, <1>4, <1>5, <1>6, <1>7 DEF IInv, LiveUnique
<1>11. BusyHasCommand'
  BY <1>1, <1>2, <1>3, <1>4, <1>5, <1>6, <1>7 DEF IInv, agentVars,
      BusyHasCommand
<1>12. TakenFirst'
  BY <1>1, <1>2, <1>3, <1>4, <1>5, <1>6, <1>7 DEF IInv, serverVars, agentVars,
      history, TakenFirst
<1>13. OutcomesEnded'
  BY <1>1, <1>2, <1>3, <1>4, <1>5, <1>6, <1>7 DEF IInv, serverVars, agentVars,
      history, OutcomesEnded
<1>14. OrphansDisturbed'
  BY <1>1, <1>2, <1>3, <1>4, <1>5, <1>6, <1>7 DEF IInv, serverVars, agentVars,
      history, OrphansDisturbed
<1>15. RunningHasWorker'
  BY <1>1, <1>2, <1>3, <1>4, <1>5, <1>6, <1>7 DEF IInv, serverVars, agentVars,
      history, RunningHasWorker
<1>16. AnsweredStartLeft'
  BY <1>1, <1>2, <1>3, <1>4, <1>5, <1>6, <1>7 DEF IInv, serverVars, agentVars,
      history, AnsweredStartLeft
<1>17. UntakenStaysOffered'
  BY <1>1, <1>2, <1>3, <1>4, <1>5, <1>6, <1>7 DEF IInv, serverVars, agentVars,
      history, UntakenStaysOffered, Offered
<1>18. ResultsAreReal'
  BY <1>1, <1>2, <1>3, <1>4, <1>5, <1>6, <1>7 DEF IInv, serverVars, agentVars,
      history, ResultsAreReal, Finished
<1>19. PollRerunNeedsUnansweredStart'
  BY <1>1, <1>2, <1>3, <1>4, <1>5, <1>6, <1>7 DEF IInv, serverVars, agentVars,
      history, PollRerunNeedsUnansweredStart
<1>20. FinishedHasRow'
  BY <1>1, <1>2, <1>3, <1>4, <1>5, <1>6, <1>7 DEF IInv, serverVars, agentVars,
      history, FinishedHasRow, Finished
<1>21. PushedOnce'
  BY <1>1, <1>2, <1>3, <1>4, <1>5, <1>6, <1>7 DEF IInv, serverVars, agentVars,
      history, PushedOnce, Unpushed
<1>22. PushRunsAtMostOnce'
  BY <1>1, <1>2, <1>3, <1>4, <1>5, <1>6, <1>7 DEF IInv, serverVars, agentVars,
      history, PushRunsAtMostOnce
<1> QED
  BY <1>8, <1>9, <1>10, <1>11, <1>12, <1>13, <1>14, <1>15, <1>16, <1>17, <1>18,
      <1>19, <1>20, <1>21, <1>22 DEF IInv

-----------------------------------------------------------------------------
(* The theorems *)

(* No variable changes. *)
LEMMA StutterKeeps ==
  ASSUME IInv, UNCHANGED vars
  PROVE  IInv'
<1> USE DEF vars, serverVars, agentVars, history
<1>1. TypeOK' /\ LiveMatches' /\ LiveUnique' /\ BusyHasCommand' /\ TakenFirst'
  BY DEF IInv, TypeOK, LiveMatches, LiveUnique, BusyHasCommand, TakenFirst
<1>2. OutcomesEnded' /\ OrphansDisturbed' /\ RunningHasWorker' /\ AnsweredStartLeft'
  BY DEF IInv, OutcomesEnded, OrphansDisturbed, RunningHasWorker, AnsweredStartLeft
<1>3. UntakenStaysOffered' /\ ResultsAreReal' /\ PollRerunNeedsUnansweredStart'
  BY DEF IInv, UntakenStaysOffered, Offered, ResultsAreReal, Finished,
         PollRerunNeedsUnansweredStart
<1>4. FinishedHasRow' /\ PushedOnce' /\ PushRunsAtMostOnce'
  BY DEF IInv, FinishedHasRow, Finished, PushedOnce, Unpushed, PushRunsAtMostOnce
<1> QED
  BY <1>1, <1>2, <1>3, <1>4 DEF IInv

(* The strengthened invariant holds in every reachable state: of one device's *)
(* commands table, requests on their way, and two goroutines, for any number  *)
(* of commands, retries and faults.                                           *)
THEOREM Safety == Spec => []IInv
<1>1. Init => IInv
  <2> SUFFICES ASSUME Init PROVE IInv
    OBVIOUS
  <2>1. <<>> \in Seq(Command) /\ 1 \in 1..MaxTries /\ 0 \in 0..MaxFaults
    BY MaxTriesAssumption, MaxFaultsAssumption
  <2>2. registered \in BOOLEAN
    BY DEF Init
  <2>3. TypeOK
    BY <2>1, <2>2 DEF Init, TypeOK, Status, PC
  <2>4. LiveMatches /\ LiveUnique /\ BusyHasCommand /\ TakenFirst /\ OutcomesEnded
    BY DEF Init, LiveMatches, LiveUnique, BusyHasCommand, TakenFirst, OutcomesEnded
  <2>5. OrphansDisturbed /\ RunningHasWorker /\ UntakenStaysOffered
    BY DEF Init, OrphansDisturbed, RunningHasWorker, UntakenStaysOffered
  <2>6. ResultsAreReal /\ FinishedHasRow
    BY DEF Init, ResultsAreReal, FinishedHasRow, Finished, Outcome
  <2>7. AnsweredStartLeft /\ PollRerunNeedsUnansweredStart /\ PushRunsAtMostOnce
    BY DEF Init, AnsweredStartLeft, PollRerunNeedsUnansweredStart,
           PushRunsAtMostOnce, Worker
  <2>8. PushedOnce
    BY NoneAssumption DEF Init, PushedOnce, Unpushed, Worker
  <2> QED
    BY <2>3, <2>4, <2>5, <2>6, <2>7, <2>8 DEF IInv
<1>2. IInv /\ [Next]_vars => IInv'
  <2> SUFFICES ASSUME IInv, [Next]_vars PROVE IInv'
    OBVIOUS
  <2>1. CASE Operator
    BY <2>1, DispatchKeeps, PushKeeps, PushFailsKeeps DEF Operator
  <2>2. CASE Agent
    BY <2>2, PollKeeps, ReceiveKeeps, ExecuteEndsKeeps, RetryKeeps,
       GiveUpStartKeeps, GiveUpReportKeeps, AgentCrashKeeps DEF Agent
  <2>3. CASE Server
    <3>1. ASSUME NEW r \in requests, ApplyStarted(r) PROVE IInv'
      BY <3>1, ApplyStartedLiveKeeps, ApplyStartedOrphanKeeps
    <3>2. ASSUME NEW r \in requests, InsertRow(r) PROVE IInv'
      BY <3>2, InsertRowLiveKeeps, InsertRowOrphanKeeps
    <3> QED
      BY <2>3, <3>1, <3>2, ApplyResultKeeps, RestartKeeps DEF Server
  <2>4. CASE Connect \/ Disconnect
    BY <2>4, ConnectKeeps, DisconnectKeeps
  <2>5. CASE UNCHANGED vars
    BY <2>5, StutterKeeps
  <2> QED
    BY <2>1, <2>2, <2>3, <2>4, <2>5 DEF Next
<1> QED
  BY <1>1, <1>2, PTL DEF Spec

(* The commands table, the agent and the requests between them keep their     *)
(* types: no upload names a command or an outcome that does not exist, and no *)
(* upload is tried more than MaxTries times.                                  *)
THEOREM TypeCorrect == Spec => []TypeOK
<1>1. IInv => TypeOK
  BY DEF IInv
<1> QED
  BY <1>1, Safety, PTL

(* A command nobody has picked up is never lost.                              *)
THEOREM NoCommandLost == Spec => []UntakenStaysOffered
<1>1. IInv => UntakenStaysOffered
  BY DEF IInv
<1> QED
  BY <1>1, Safety, PTL

(* Final statuses and result rows are outcomes of executions that ended.      *)
THEOREM NoInventedResult == Spec => []ResultsAreReal
<1>1. IInv => ResultsAreReal
  BY DEF IInv
<1> QED
  BY <1>1, Safety, PTL

(* The poll path repeats an execution only after an unanswered                *)
(* command-started.                                                           *)
THEOREM PollRerunBound == Spec => []PollRerunNeedsUnansweredStart
<1>1. IInv => PollRerunNeedsUnansweredStart
  BY DEF IInv
<1> QED
  BY <1>1, Safety, PTL

(* The push path executes a command at most once.                             *)
THEOREM PushAtMostOnce == Spec => []PushRunsAtMostOnce
<1>1. IInv => PushRunsAtMostOnce
  BY DEF IInv
<1> QED
  BY <1>1, Safety, PTL

(* A command is abandoned at "running" only if a fault hit it.                *)
THEOREM OrphansNeedFaults == Spec => []OrphanedRunningNeedsFault
<1>1. IInv => OrphanedRunningNeedsFault
  BY DEF IInv, RunningHasWorker, OrphanedRunningNeedsFault, Handled
<1> QED
  BY <1>1, Safety, PTL

(* A final status has its result row, or one on the way, unless a fault hit   *)
(* the command.                                                               *)
THEOREM ResultRowKept == Spec => []FinishedHasRow
<1>1. IInv => FinishedHasRow
  BY DEF IInv
<1> QED
  BY <1>1, Safety, PTL

(* No step ever offers a command to the poller a second time.                 *)
THEOREM NeverOfferedAgain == Spec => NeverPendingAgain
<1>1. IInv /\ [Next]_vars =>
        [\A c \in Command : status[c] \notin {"none", "pending"} => status'[c] # "pending"]_vars
  <2> SUFFICES ASSUME IInv, [Next]_vars, NEW c \in Command,
                      status[c] \notin {"none", "pending"}
               PROVE  status'[c] # "pending" \/ UNCHANGED vars
    OBVIOUS
  <2>0. status \in [Command -> Status]
    BY DEF IInv, TypeOK
  <2>1. CASE Operator
    BY <2>0, <2>1 DEF Operator, Dispatch, Push, PushFails
  <2>2. CASE Agent
    BY <2>2 DEF Agent, Poll, Receive, Begin, ExecuteEnds, Retry, GiveUpStart,
                GiveUpReport, AgentCrash
  <2>3. ASSUME NEW r \in requests, ApplyStarted(r) PROVE status'[c] # "pending"
    BY <2>0, <2>3 DEF ApplyStarted
  <2>4. ASSUME NEW r \in requests, ApplyResult(r) PROVE status'[c] # "pending"
    <3>1. r.outcome \in Outcome
      <4>1. r \in Request /\ r.outcome \in ended[r.cmd]
        BY <2>4 DEF ApplyResult, IInv, TypeOK, OutcomesEnded
      <4> QED
        BY <4>1 DEF IInv, TypeOK, Request
    <3> QED
      BY <2>0, <2>4, <3>1 DEF ApplyResult, Outcome
  <2>5. ASSUME NEW r \in requests, InsertRow(r) PROVE status'[c] # "pending"
    BY <2>5 DEF InsertRow
  <2>6. CASE Restart \/ Connect \/ Disconnect
    BY <2>6 DEF Restart, Connect, Disconnect
  <2> QED
    BY <2>1, <2>2, <2>3, <2>4, <2>5, <2>6 DEF Next, Server
<1> QED
  BY <1>1, Safety, PTL DEF Spec, NeverPendingAgain

(* Every repetition of a command has its reason. *)
THEOREM RepetitionsExplained == Spec => []ExecutionsExplained
BY PollRerunBound, PushAtMostOnce, PTL DEF ExecutionsExplained

(* What is shown of a finished command happened, and its result row is kept. *)
THEOREM OutcomesAreKept == Spec => []OutcomesKept
BY NoInventedResult, ResultRowKept, PTL DEF OutcomesKept

(* A command is left behind, pending or running, only by a fault of its own. *)
THEOREM NothingIsStranded == Spec => []NothingStranded
BY NoCommandLost, OrphansNeedFaults, PTL DEF NothingStranded
==============================================================================
