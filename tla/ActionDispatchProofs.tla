------------------------- MODULE ActionDispatchProofs -------------------------
(***************************************************************************)
(* Safety of the device actions for any number of actions, attempts and    *)
(* faults.                                                                 *)
(***************************************************************************)
EXTENDS ActionDispatch, FiniteSetTheorems, TLAPS

(* Only a poll has no action yet; only a result has an outcome. *)
Shapes ==
  /\ \A r \in requests :
       /\ r.stage # "claim" => r.action \in Action
       /\ r.stage = "result" => r.outcome \in Outcome
  /\ \A w \in Worker :
       /\ pc[w] \in {"execute", "report"} => doing[w] \in Action
       /\ pc[w] = "report" => outcome[w] \in Outcome

Typed == TypeOK /\ Shapes

-----------------------------------------------------------------------------
(* What the steps that share a request do to it. *)

LEMMA AskTypes ==
  ASSUME NEW w \in Worker, NEW stage \in {"claim", "result"}, NEW a \in Action \cup {None},
         NEW o \in Outcome \cup {None}, NEW t \in 1 .. MaxTries
  PROVE  /\ Ask(w, stage, a, o, t) \in Request
         /\ Ask(w, stage, a, o, t).stage = stage
         /\ Ask(w, stage, a, o, t).worker = w
         /\ Ask(w, stage, a, o, t).action = a
         /\ Ask(w, stage, a, o, t).outcome = o
         /\ Ask(w, stage, a, o, t).live
BY DEF Ask, Request

LEMMA OrphanTypes ==
  ASSUME NEW r \in Request
  PROVE  /\ Orphan(r) \in Request
         /\ Orphan(r).stage = r.stage /\ Orphan(r).worker = r.worker
         /\ Orphan(r).action = r.action /\ Orphan(r).outcome = r.outcome
         /\ ~Orphan(r).live
BY DEF Orphan, Request

LEMMA MarkTypes ==
  ASSUME NEW r \in Request, NEW a \in Action
  PROVE  /\ [r EXCEPT !.stage = "mark", !.action = a] \in Request
         /\ [r EXCEPT !.stage = "mark", !.action = a].stage = "mark"
         /\ [r EXCEPT !.stage = "mark", !.action = a].worker = r.worker
         /\ [r EXCEPT !.stage = "mark", !.action = a].action = a
         /\ [r EXCEPT !.stage = "mark", !.action = a].live = r.live
BY DEF Request

(* A request left after an attempt was given up was there before, with the  *)
(* same contents; of the worker that gave up, nothing is live.              *)
LEMMA AbandonedTypes ==
  ASSUME TypeOK, NEW w \in Worker, NEW kept \in BOOLEAN, NEW r \in Abandoned(w, kept)
  PROVE  /\ r \in Request
         /\ \E q \in requests : /\ r.stage = q.stage /\ r.worker = q.worker
                                /\ r.action = q.action /\ r.outcome = q.outcome
         /\ r.live => r \in requests /\ r.worker # w
<1>1. CASE r \in requests \ Live(w)
  BY <1>1 DEF Live, TypeOK
<1>2. CASE \E q \in Live(w) : r = Orphan(q)
  <2> PICK q \in Live(w) : r = Orphan(q)
    BY <1>2
  <2>1. q \in requests /\ q \in Request
    BY DEF Live, TypeOK
  <2> QED
    BY <2>1, OrphanTypes
<1> QED
  BY <1>1, <1>2 DEF Abandoned

(* So it is when the process ends: nothing is live. *)
LEMMA EndTypes ==
  ASSUME TypeOK, ProcessEnds, NEW r \in requests'
  PROVE  /\ r \in Request
         /\ \E q \in requests : /\ r.stage = q.stage /\ r.worker = q.worker
                                /\ r.action = q.action /\ r.outcome = q.outcome
         /\ ~r.live
<1> PICK Kept \in SUBSET {q \in requests : q.live} :
       requests' = {q \in requests : ~q.live} \cup {Orphan(q) : q \in Kept}
  BY DEF ProcessEnds
<1>1. CASE r \in {q \in requests : ~q.live}
  BY <1>1 DEF TypeOK
<1>2. CASE \E q \in Kept : r = Orphan(q)
  <2> PICK q \in Kept : r = Orphan(q)
    BY <1>2
  <2>1. q \in requests /\ q \in Request
    BY DEF TypeOK
  <2> QED
    BY <2>1, OrphanTypes
<1> QED
  BY <1>1, <1>2

LEMMA FaultTypes == TypeOK /\ Fault => faults' \in 0 .. MaxFaults
BY FaultsAssumption DEF TypeOK, Fault

LEMMA AttemptTypes ==
  ASSUME TypeOK, NEW w \in Worker, AttemptFails(w)
  PROVE  faults' \in 0 .. MaxFaults /\ disturbed' \subseteq Action
BY FaultTypes DEF AttemptFails, TypeOK

(* A worker that begins or ends something leaves the other one alone. *)
LEMMA IdleTypes ==
  ASSUME TypeOK, NEW w \in Worker, BecomeIdle(w)
  PROVE  /\ pc' \in [Worker -> {"idle", "fetch", "execute", "report"}]
         /\ doing' \in [Worker -> Action \cup {None}]
         /\ try' \in [Worker -> 1 .. MaxTries]
         /\ outcome' \in [Worker -> Outcome \cup {None}]
         /\ pc'[w] = "idle" /\ doing'[w] = None
         /\ \A v \in Worker \ {w} : pc'[v] = pc[v] /\ doing'[v] = doing[v] /\ outcome'[v] = outcome[v]
BY TriesAssumption DEF BecomeIdle, TypeOK

LEMMA BeginTypes ==
  ASSUME TypeOK, NEW w \in Worker, NEW a \in Action, Begin(w, a)
  PROVE  /\ pc' \in [Worker -> {"idle", "fetch", "execute", "report"}]
         /\ doing' \in [Worker -> Action \cup {None}]
         /\ try' \in [Worker -> 1 .. MaxTries]
         /\ runs' \in [Worker -> [Action -> Nat]]
         /\ pc'[w] = "execute" /\ doing'[w] = a
         /\ \A v \in Worker \ {w} : pc'[v] = pc[v] /\ doing'[v] = doing[v]
         /\ \A v \in Worker, b \in Action :
              runs'[v][b] = IF v = w /\ b = a THEN runs[v][b] + 1 ELSE runs[v][b]
<1>1. runs \in [Worker -> [Action -> Nat]] /\ runs[w][a] + 1 \in Nat
  BY DEF TypeOK
<1>2. runs' = [runs EXCEPT ![w][a] = runs[w][a] + 1]
  BY DEF Begin
<1>3. runs' \in [Worker -> [Action -> Nat]]
  BY <1>1, <1>2
<1>4. \A v \in Worker, b \in Action :
        runs'[v][b] = IF v = w /\ b = a THEN runs[v][b] + 1 ELSE runs[v][b]
  BY <1>1, <1>2
<1> QED
  BY <1>3, <1>4, TriesAssumption DEF Begin, TypeOK

LEMMA EndIdles ==
  ASSUME ProcessEnds
  PROVE  /\ pc' \in [Worker -> {"idle", "fetch", "execute", "report"}]
         /\ doing' \in [Worker -> Action \cup {None}]
         /\ try' \in [Worker -> 1 .. MaxTries]
         /\ outcome' \in [Worker -> Outcome \cup {None}]
         /\ \A w \in Worker : pc'[w] = "idle" /\ doing'[w] = None
BY TriesAssumption DEF ProcessEnds

LEMMA TypeInit == Init => Typed
<1> SUFFICES ASSUME Init PROVE Typed
  OBVIOUS
<1>1. try \in [Worker -> 1 .. MaxTries]
  BY TriesAssumption DEF Init
<1>2. faults \in 0 .. MaxFaults
  BY FaultsAssumption DEF Init
<1>3. order \in [Action -> 0 .. Cardinality(Action)]
  BY FS_CardinalityType, ActionAssumption DEF Init
<1>4. runs \in [Worker -> [Action -> Nat]]
  BY DEF Init
<1>5. registered \in BOOLEAN
  BY DEF Init
<1> QED
  BY <1>1, <1>2, <1>3, <1>4, <1>5 DEF Init, Typed, TypeOK, Shapes, Status

LEMMA TypeStep == Typed /\ [Next]_vars => Typed'
<1> SUFFICES ASSUME TypeOK, Shapes, [Next]_vars PROVE TypeOK' /\ Shapes'
  BY DEF Typed
<1>1. ASSUME NEW a \in Action, Create(a) PROVE TypeOK' /\ Shapes'
  <2>1. Cardinality(Inserted) + 1 \in 0 .. Cardinality(Action)
    <3>1. Inserted \in SUBSET Action /\ Inserted # Action
      BY <1>1 DEF Create, Inserted
    <3>2. IsFiniteSet(Inserted) /\ Cardinality(Inserted) <= Cardinality(Action)
      BY <3>1, FS_Subset, ActionAssumption
    <3>3. Cardinality(Inserted) # Cardinality(Action)
      BY <3>1, FS_Subset, ActionAssumption
    <3> QED
      BY <3>2, <3>3, FS_CardinalityType, ActionAssumption
  <2>2. order' \in [Action -> 0 .. Cardinality(Action)]
    BY <1>1, <2>1 DEF Create, TypeOK
  <2>3. status' \in [Action -> Status] /\ pushing' \subseteq Action
    BY <1>1 DEF Create, TypeOK, Status
  <2> QED
    BY <1>1, <2>2, <2>3 DEF Create, TypeOK, Shapes, agentVars
<1>2. ASSUME NEW a \in Action, Push(a) PROVE TypeOK' /\ Shapes'
  <2>1. wire' \in Seq(Action)
    BY <1>2 DEF Push, TypeOK
  <2> QED
    BY <1>2, <2>1 DEF Push, TypeOK, Shapes, agentVars
<1>3. CASE Connect
  BY <1>3 DEF Connect, TypeOK, Shapes, agentVars
<1>4. CASE Disconnect
  <2>1. registered' \in BOOLEAN
    BY <1>4 DEF Disconnect
  <2> QED
    BY <1>4, <2>1, FaultTypes DEF Disconnect, TypeOK, Shapes, agentVars
<1>5. CASE Poll
  <2>1. PICK new \in Request : new.stage = "claim" /\ requests' = requests \cup {new}
    BY <1>5, AskTypes, TriesAssumption DEF Poll, Worker
  <2> QED
    BY <1>5, <2>1 DEF Poll, TypeOK, Shapes
<1>6. CASE Receive
  <2>1. Head(wire) \in Action /\ wire' \in Seq(Action)
    BY <1>6 DEF Receive, TypeOK
  <2>2. "ws" \in Worker /\ Begin("ws", Head(wire))
    BY <1>6 DEF Receive, Worker
  <2>3. /\ pc' \in [Worker -> {"idle", "fetch", "execute", "report"}]
        /\ doing' \in [Worker -> Action \cup {None}]
        /\ try' \in [Worker -> 1 .. MaxTries]
        /\ runs' \in [Worker -> [Action -> Nat]]
        /\ pc'["ws"] = "execute" /\ doing'["ws"] \in Action
        /\ \A v \in Worker \ {"ws"} : pc'[v] = pc[v] /\ doing'[v] = doing[v]
    BY <2>1, <2>2, BeginTypes
  <2>4. UNCHANGED <<status, order, pushing, registered, requests, outcome, helpers, faults, ended, disturbed>>
    BY <1>6 DEF Receive
  <2> QED
    BY <2>1, <2>3, <2>4 DEF TypeOK, Shapes
<1>7. ASSUME NEW w \in Worker, NEW o \in Outcome, ExecuteEnds(w, o) PROVE TypeOK' /\ Shapes'
  <2>1. doing[w] \in Action /\ 1 \in 1 .. MaxTries
    BY <1>7, TriesAssumption DEF ExecuteEnds, Shapes
  <2>2. PICK new \in Request : /\ new.action = doing[w] /\ new.outcome = o
                               /\ requests' = requests \cup {new}
    BY <1>7, <2>1, AskTypes DEF ExecuteEnds
  <2>3. ended' \in [Action -> SUBSET Outcome] /\ helpers' \in Nat
    BY <1>7, <2>1 DEF ExecuteEnds, TypeOK
  <2>4. pc' = [pc EXCEPT ![w] = "report"] /\ outcome' = [outcome EXCEPT ![w] = o]
    BY <1>7 DEF ExecuteEnds
  <2>5. UNCHANGED <<status, order, pushing, registered, wire, doing, try, faults, runs, disturbed>>
    BY <1>7 DEF ExecuteEnds
  <2> QED
    BY <2>1, <2>2, <2>3, <2>4, <2>5 DEF TypeOK, Shapes
<1>8. ASSUME NEW w \in Worker, Retry(w) PROVE TypeOK' /\ Shapes'
  <2>1. try[w] + 1 \in 1 .. MaxTries /\ pc[w] \in {"fetch", "report"}
    BY <1>8, TriesAssumption DEF Retry, Attempts, AttemptFails, TypeOK
  <2> DEFINE stage == IF pc[w] = "fetch" THEN "claim" ELSE "result"
  <2>2. PICK kept \in BOOLEAN, new \in Request :
          /\ new.stage = stage /\ new.action = doing[w] /\ new.outcome = outcome[w]
          /\ requests' = Abandoned(w, kept) \cup {new}
    <3>1. PICK kept \in BOOLEAN :
            requests' = Abandoned(w, kept) \cup {Ask(w, stage, doing[w], outcome[w], try[w] + 1)}
      BY <1>8 DEF Retry
    <3>2. doing[w] \in Action \cup {None} /\ outcome[w] \in Outcome \cup {None}
      BY DEF TypeOK
    <3> QED
      BY <2>1, <3>1, <3>2, AskTypes
  <2>3. requests' \subseteq Request
    BY <2>2, AbandonedTypes
  <2>4. ASSUME NEW r \in requests'
        PROVE  /\ r.stage # "claim" => r.action \in Action
               /\ r.stage = "result" => r.outcome \in Outcome
    <3>1. CASE r = new
      BY <2>1, <2>2, <3>1 DEF Shapes
    <3>2. CASE r \in Abandoned(w, kept)
      BY <3>2, AbandonedTypes DEF Shapes
    <3> QED
      BY <2>2, <2>4, <3>1, <3>2
  <2>5. try' \in [Worker -> 1 .. MaxTries]
    BY <1>8, <2>1 DEF Retry, TypeOK
  <2>6. UNCHANGED <<status, order, pushing, registered, wire, pc, doing, outcome, helpers, ended, runs>>
    BY <1>8 DEF Retry
  <2>7. faults' \in 0 .. MaxFaults /\ disturbed' \subseteq Action
    BY <1>8, AttemptTypes DEF Retry
  <2> QED
    BY <2>3, <2>4, <2>5, <2>6, <2>7 DEF TypeOK, Shapes
<1>9. ASSUME NEW w \in Worker, GiveUp(w) PROVE TypeOK' /\ Shapes'
  <2>1. PICK kept \in BOOLEAN : requests' = Abandoned(w, kept)
    BY <1>9 DEF GiveUp
  <2>2. requests' \subseteq Request
    BY <2>1, AbandonedTypes
  <2>3. \A r \in requests' : /\ r.stage # "claim" => r.action \in Action
                             /\ r.stage = "result" => r.outcome \in Outcome
    BY <2>1, AbandonedTypes DEF Shapes
  <2>4. faults' \in 0 .. MaxFaults /\ disturbed' \subseteq Action
    BY <1>9, AttemptTypes DEF GiveUp
  <2>5. BecomeIdle(w) /\ UNCHANGED <<status, order, pushing, registered, wire, helpers, ended, runs>>
    BY <1>9 DEF GiveUp
  <2> QED
    BY <2>2, <2>3, <2>4, <2>5, IdleTypes DEF TypeOK, Shapes
<1>10. CASE AgentCrash \/ ServiceRestart
  <2>1. ProcessEnds
    BY <1>10 DEF AgentCrash, ServiceRestart
  <2>2. requests' \subseteq Request
    BY <2>1, EndTypes
  <2>3. \A r \in requests' : /\ r.stage # "claim" => r.action \in Action
                             /\ r.stage = "result" => r.outcome \in Outcome
    BY <2>1, EndTypes DEF Shapes
  <2>4. registered' \in BOOLEAN
    BY <2>1 DEF ProcessEnds
  <2>7. wire' \in Seq(Action)
    BY <2>1 DEF ProcessEnds
  <2>5. faults' \in 0 .. MaxFaults /\ disturbed' \subseteq Action /\ helpers' \in Nat
    BY <1>10, FaultTypes DEF AgentCrash, ServiceRestart, TypeOK
  <2>6. UNCHANGED <<status, order, pushing, ended, runs>>
    BY <1>10 DEF AgentCrash, ServiceRestart
  <2> QED
    BY <2>1, <2>2, <2>3, <2>4, <2>5, <2>6, <2>7, EndIdles DEF TypeOK, Shapes
<1>11. ASSUME NEW r \in requests, Choose(r) PROVE TypeOK' /\ Shapes'
  <2>1. r \in Request /\ r.worker \in Worker
    BY DEF TypeOK, Request
  <2>2. UNCHANGED <<status, order, pushing, registered, wire, helpers, faults, ended, runs, disturbed>>
    BY <1>11 DEF Choose
  <2>3. CASE \E a \in Action :
               /\ requests' = (requests \ {r}) \cup {[r EXCEPT !.stage = "mark", !.action = a]}
               /\ UNCHANGED agentVars
    <3>1. PICK new \in Request : /\ new.stage = "mark" /\ new.action \in Action
                                 /\ requests' = (requests \ {r}) \cup {new}
      BY <2>1, <2>3, MarkTypes
    <3> QED
      BY <2>2, <2>3, <3>1 DEF TypeOK, Shapes, agentVars
  <2>4. CASE requests' = requests \ {r} /\ (BecomeIdle(r.worker) \/ UNCHANGED agentVars)
    BY <2>1, <2>2, <2>4, IdleTypes DEF TypeOK, Shapes, agentVars
  <2> QED
    BY <1>11, <2>3, <2>4 DEF Choose
<1>12. ASSUME NEW r \in requests, Mark(r) PROVE TypeOK' /\ Shapes'
  <2>1. r.worker \in Worker /\ r.action \in Action
    BY <1>12 DEF TypeOK, Request, Mark, Shapes
  <2>2. status' \in [Action -> Status] /\ disturbed' \subseteq Action
    BY <1>12, <2>1 DEF Mark, TypeOK, Status
  <2>3. Begin(r.worker, r.action) \/ UNCHANGED <<pc, doing, try, runs>>
    BY <1>12 DEF Mark
  <2>4. requests' = requests \ {r} /\ UNCHANGED <<order, pushing, registered, wire, outcome, helpers, faults, ended>>
    BY <1>12 DEF Mark
  <2>5. CASE Begin(r.worker, r.action)
    <3>1. /\ pc' \in [Worker -> {"idle", "fetch", "execute", "report"}]
          /\ doing' \in [Worker -> Action \cup {None}]
          /\ try' \in [Worker -> 1 .. MaxTries]
          /\ runs' \in [Worker -> [Action -> Nat]]
          /\ pc'[r.worker] = "execute" /\ doing'[r.worker] \in Action
          /\ \A v \in Worker \ {r.worker} : pc'[v] = pc[v] /\ doing'[v] = doing[v]
      BY <2>1, <2>5, BeginTypes
    <3> QED
      BY <2>1, <2>2, <2>4, <3>1 DEF TypeOK, Shapes
  <2>6. CASE UNCHANGED <<pc, doing, try, runs>>
    BY <2>2, <2>4, <2>6 DEF TypeOK, Shapes
  <2> QED
    BY <2>3, <2>5, <2>6
<1>13. ASSUME NEW r \in requests, ApplyResult(r) PROVE TypeOK' /\ Shapes'
  <2>1. r.worker \in Worker /\ r.action \in Action /\ r.outcome \in Outcome
    BY <1>13 DEF TypeOK, Request, ApplyResult, Shapes
  <2>2. status' \in [Action -> Status]
    BY <1>13, <2>1 DEF ApplyResult, TypeOK, Status
  <2>3. BecomeIdle(r.worker) \/ UNCHANGED agentVars
    BY <1>13 DEF ApplyResult
  <2> QED
    BY <1>13, <2>1, <2>2, <2>3, IdleTypes DEF ApplyResult, TypeOK, Shapes, agentVars
<1>14. CASE Restart
  <2>1. \A r \in requests : r.action \in Action \cup {None}
    BY DEF TypeOK, Request
  <2>2. disturbed' \subseteq Action /\ faults' \in 0 .. MaxFaults
    BY <1>14, <2>1, FaultTypes DEF Restart, TypeOK
  <2>3. registered' \in BOOLEAN
    BY <1>14 DEF Restart
  <2> QED
    BY <1>14, <2>2, <2>3 DEF Restart, TypeOK, Shapes, agentVars
<1>15. CASE UNCHANGED vars
  BY <1>15 DEF vars, TypeOK, Shapes, agentVars
<1> QED
  BY <1>1, <1>2, <1>3, <1>4, <1>5, <1>6, <1>7, <1>8, <1>9, <1>10, <1>11, <1>12, <1>13, <1>14, <1>15
     DEF Next, Operator, Agent, Handle

(* Every variable keeps its type, for any actions, attempts and faults. *)
THEOREM TypeCorrect == Spec => []TypeOK
<1>1. Typed => TypeOK
  BY DEF Typed
<1> QED
  BY <1>1, TypeInit, TypeStep, PTL DEF Spec

-----------------------------------------------------------------------------
(* How the requests change, action by action: the later layers only look at  *)
(* these.                                                                     *)

LEMMA ResultRequests ==
  ASSUME Typed, NEW w \in Worker, NEW o \in Outcome, ExecuteEnds(w, o)
  PROVE  \E new \in Request :
           /\ requests' = requests \cup {new}
           /\ new.stage = "result" /\ new.worker = w /\ new.action = doing[w]
           /\ new.outcome = o /\ new.live
<1>1. doing[w] \in Action /\ 1 \in 1 .. MaxTries
  BY TriesAssumption DEF ExecuteEnds, Typed, Shapes
<1> QED
  BY <1>1, AskTypes DEF ExecuteEnds

LEMMA RetryRequests ==
  ASSUME Typed, NEW w \in Worker, Retry(w)
  PROVE  \E kept \in BOOLEAN, new \in Request :
           /\ requests' = Abandoned(w, kept) \cup {new}
           /\ new.stage = IF pc[w] = "fetch" THEN "claim" ELSE "result"
           /\ new.worker = w /\ new.action = doing[w] /\ new.outcome = outcome[w] /\ new.live
<1> DEFINE stage == IF pc[w] = "fetch" THEN "claim" ELSE "result"
<1>1. try[w] + 1 \in 1 .. MaxTries
  BY TriesAssumption DEF Retry, Attempts, AttemptFails, Typed, TypeOK
<1>2. PICK kept \in BOOLEAN :
        requests' = Abandoned(w, kept) \cup {Ask(w, stage, doing[w], outcome[w], try[w] + 1)}
  BY DEF Retry
<1>3. doing[w] \in Action \cup {None} /\ outcome[w] \in Outcome \cup {None}
  BY DEF Typed, TypeOK
<1>4. stage \in {"claim", "result"}
  OBVIOUS
<1> DEFINE new == Ask(w, stage, doing[w], outcome[w], try[w] + 1)
<1>5. /\ new \in Request /\ new.stage = stage /\ new.worker = w /\ new.action = doing[w]
      /\ new.outcome = outcome[w] /\ new.live
  BY <1>1, <1>3, <1>4, AskTypes
<1>6. requests' = Abandoned(w, kept) \cup {new}
  BY <1>2
<1> HIDE DEF new
<1> QED
  BY <1>5, <1>6

LEMMA PollRequests ==
  ASSUME Typed, Poll
  PROVE  \E new \in Request :
           requests' = requests \cup {new} /\ new.stage = "claim" /\ new.worker = "poll" /\ new.live
BY AskTypes, TriesAssumption DEF Poll, Worker

(* A poll takes a pending action, or none and ends. *)
LEMMA ChooseRequests ==
  ASSUME Typed, NEW r \in requests, Choose(r)
  PROVE  \/ \E new \in Request :
              /\ requests' = (requests \ {r}) \cup {new}
              /\ new.stage = "mark" /\ new.worker = r.worker /\ new.live = r.live
              /\ new.action \in Action /\ status[new.action] = "pending"
              /\ UNCHANGED agentVars
         \/ /\ requests' = requests \ {r}
            /\ \/ r.live /\ BecomeIdle(r.worker)
               \/ ~r.live /\ UNCHANGED agentVars
<1>1. CASE \E a \in Action :
             /\ Oldest(a)
             /\ requests' = (requests \ {r}) \cup {[r EXCEPT !.stage = "mark", !.action = a]}
             /\ UNCHANGED agentVars
  <2>1. PICK a \in Action :
          /\ status[a] = "pending"
          /\ requests' = (requests \ {r}) \cup {[r EXCEPT !.stage = "mark", !.action = a]}
          /\ UNCHANGED agentVars
    BY <1>1 DEF Oldest, Claimable
  <2> DEFINE new == [r EXCEPT !.stage = "mark", !.action = a]
  <2>2. r \in Request
    BY DEF Typed, TypeOK
  <2>3. /\ new \in Request /\ new.stage = "mark" /\ new.worker = r.worker
        /\ new.action = a /\ new.live = r.live
    BY <2>2, MarkTypes
  <2>4. requests' = (requests \ {r}) \cup {new}
    BY <2>1
  <2> HIDE DEF new
  <2> QED
    BY <2>1, <2>3, <2>4
<1>2. CASE ~\E a \in Action :
             /\ Oldest(a)
             /\ requests' = (requests \ {r}) \cup {[r EXCEPT !.stage = "mark", !.action = a]}
             /\ UNCHANGED agentVars
  BY <1>2 DEF Choose
<1> QED
  BY <1>1, <1>2

-----------------------------------------------------------------------------
(* A result says how an execution ended. *)
OutcomesEnded ==
  /\ \A r \in requests : r.stage = "result" => r.outcome \in ended[r.action]
  /\ \A w \in Worker : pc[w] = "report" => outcome[w] \in ended[doing[w]]
  /\ OutcomesAreReal

LEMMA OutcomesStep == Typed /\ OutcomesEnded /\ [Next]_vars => OutcomesEnded'
<1> SUFFICES ASSUME Typed, OutcomesEnded, [Next]_vars PROVE OutcomesEnded'
  OBVIOUS
<1> USE DEF OutcomesEnded, OutcomesAreReal, Finished
<1>1. CASE UNCHANGED <<requests, pc, outcome, doing, status, ended>>
  BY <1>1
<1>2. ASSUME NEW a \in Action, Create(a) \/ Push(a) PROVE OutcomesEnded'
  <2>1. \A b \in Action : status'[b] \in {status[b], "pending"}
    BY <1>2 DEF Create, Push, Typed, TypeOK
  <2>2. UNCHANGED <<requests, pc, outcome, doing, ended>>
    BY <1>2 DEF Create, Push, agentVars
  <2> QED
    BY <2>1, <2>2 DEF Outcome
<1>3. CASE Poll
  <2>1. \A w \in Worker : pc'[w] = "report" => pc[w] = "report"
    BY <1>3 DEF Poll, Typed, TypeOK
  <2>2. UNCHANGED <<outcome, doing, status, ended>>
    BY <1>3 DEF Poll
  <2> QED
    BY <1>3, <2>1, <2>2, PollRequests
<1>4. ASSUME NEW w \in Worker, NEW o \in Outcome, ExecuteEnds(w, o) PROVE OutcomesEnded'
  <2>1. PICK new \in Request : requests' = requests \cup {new} /\ new.action = doing[w] /\ new.outcome = o
    BY <1>4, ResultRequests
  <2>2. doing[w] \in Action
    BY <1>4 DEF ExecuteEnds, Typed, Shapes
  <2>3. \A a \in Action : ended[a] \subseteq ended'[a]
    BY <1>4, <2>2 DEF ExecuteEnds, Typed, TypeOK
  <2>4. o \in ended'[doing[w]]
    BY <1>4, <2>2 DEF ExecuteEnds, Typed, TypeOK
  <2>5. /\ \A v \in Worker : v # w => pc'[v] = pc[v] /\ outcome'[v] = outcome[v]
        /\ outcome'[w] = o
        /\ UNCHANGED <<doing, status>>
    BY <1>4 DEF ExecuteEnds, Typed, TypeOK
  <2>6. \A r \in requests : r.stage = "result" => r.action \in Action
    BY DEF Typed, Shapes
  <2>7. \A v \in Worker : pc[v] = "report" => doing[v] \in Action
    BY DEF Typed, Shapes
  <2>8. \A r \in requests' : r.stage = "result" => r.outcome \in ended'[r.action]
    BY <2>1, <2>3, <2>4, <2>6
  <2>9. \A v \in Worker : pc'[v] = "report" => outcome'[v] \in ended'[doing'[v]]
    BY <2>3, <2>4, <2>5, <2>7
  <2>10. \A a \in Action : status'[a] \in Outcome => status'[a] \in ended'[a]
    BY <2>3, <2>5
  <2> QED
    BY <2>8, <2>9, <2>10
<1>5. ASSUME NEW w \in Worker, Retry(w) PROVE OutcomesEnded'
  <2>1. PICK kept \in BOOLEAN, new \in Request :
          /\ requests' = Abandoned(w, kept) \cup {new}
          /\ new.stage = IF pc[w] = "fetch" THEN "claim" ELSE "result"
          /\ new.action = doing[w] /\ new.outcome = outcome[w]
    BY <1>5, RetryRequests
  <2>2. pc[w] \in {"fetch", "report"} /\ UNCHANGED <<pc, outcome, doing, status, ended>>
    BY <1>5 DEF Retry, AttemptFails
  <2>3. \A r \in Abandoned(w, kept) : r.stage = "result" => r.outcome \in ended[r.action]
    BY AbandonedTypes DEF Typed
  <2> QED
    BY <2>1, <2>2, <2>3
<1>6. ASSUME NEW w \in Worker, GiveUp(w) PROVE OutcomesEnded'
  <2>1. PICK kept \in BOOLEAN : requests' = Abandoned(w, kept)
    BY <1>6 DEF GiveUp
  <2>2. \A r \in Abandoned(w, kept) : r.stage = "result" => r.outcome \in ended[r.action]
    BY AbandonedTypes DEF Typed
  <2>3. BecomeIdle(w) /\ UNCHANGED <<status, ended>>
    BY <1>6 DEF GiveUp
  <2> QED
    BY <2>1, <2>2, <2>3, IdleTypes DEF Typed
<1>7. CASE AgentCrash \/ ServiceRestart
  <2>1. ProcessEnds /\ UNCHANGED <<status, ended>>
    BY <1>7 DEF AgentCrash, ServiceRestart
  <2>2. \A r \in requests' : r.stage = "result" => r.outcome \in ended[r.action]
    BY <2>1, EndTypes DEF Typed
  <2> QED
    BY <2>1, <2>2, EndIdles
<1>8. ASSUME NEW r \in requests, Choose(r) PROVE OutcomesEnded'
  <2>1. UNCHANGED <<status, ended>> /\ r.worker \in Worker
    BY <1>8 DEF Choose, Typed, TypeOK, Request
  <2>2. \A q \in requests' : q \in requests \/ q.stage = "mark"
    BY <1>8, ChooseRequests
  <2>3. UNCHANGED agentVars \/ BecomeIdle(r.worker)
    BY <1>8, ChooseRequests
  <2> QED
    BY <2>1, <2>2, <2>3, IdleTypes DEF Typed, agentVars
<1>9. ASSUME NEW r \in requests, Mark(r) PROVE OutcomesEnded'
  <2>1. r.worker \in Worker /\ r.action \in Action
    BY <1>9 DEF Typed, TypeOK, Request, Mark, Shapes
  <2>2. requests' = requests \ {r} /\ UNCHANGED <<ended, outcome>>
    BY <1>9 DEF Mark
  <2>3. \A a \in Action : status'[a] \in {status[a], "running"}
    BY <1>9, <2>1 DEF Mark, Typed, TypeOK
  <2>4. \A v \in Worker : pc'[v] = "report" => pc[v] = "report" /\ doing'[v] = doing[v]
    <3>1. CASE UNCHANGED <<pc, doing, try, runs>>
      BY <3>1
    <3>2. CASE Begin(r.worker, r.action)
      BY <2>1, <3>2, BeginTypes DEF Typed
    <3> QED
      BY <1>9, <3>1, <3>2 DEF Mark
  <2> QED
    BY <2>2, <2>3, <2>4 DEF Outcome
<1>10. ASSUME NEW r \in requests, ApplyResult(r) PROVE OutcomesEnded'
  <2>1. r.worker \in Worker /\ r.action \in Action /\ r.stage = "result"
    BY <1>10 DEF Typed, TypeOK, Request, ApplyResult, Shapes
  <2>2. requests' = requests \ {r} /\ UNCHANGED ended
    BY <1>10 DEF ApplyResult
  <2>3. \A a \in Action : status'[a] = status[a] \/ (a = r.action /\ status'[a] = r.outcome)
    BY <1>10, <2>1 DEF ApplyResult, Typed, TypeOK
  <2>4. UNCHANGED agentVars \/ BecomeIdle(r.worker)
    BY <1>10 DEF ApplyResult
  <2> QED
    BY <2>1, <2>2, <2>3, <2>4, IdleTypes DEF Typed, agentVars
<1>11. CASE Receive
  <2>1. "ws" \in Worker /\ Head(wire) \in Action /\ Begin("ws", Head(wire))
    BY <1>11 DEF Receive, Worker, Typed, TypeOK
  <2>2. \A v \in Worker : pc'[v] = "report" => pc[v] = "report" /\ doing'[v] = doing[v]
    BY <2>1, BeginTypes DEF Typed
  <2> QED
    BY <1>11, <2>2 DEF Receive
<1>12. CASE Connect \/ Disconnect \/ UNCHANGED vars
  BY <1>1, <1>12 DEF Connect, Disconnect, vars, agentVars
<1>13. CASE Restart
  BY <1>13 DEF Restart, agentVars
<1> QED
  BY <1>2, <1>3, <1>4, <1>5, <1>6, <1>7, <1>8, <1>9, <1>10, <1>11, <1>12, <1>13
     DEF Next, Operator, Agent, Handle

(* Final statuses are outcomes of executions of that action that ended. *)
THEOREM NoInventedOutcome == Spec => []OutcomesAreReal
<1>1. Init => OutcomesEnded
  BY DEF Init, OutcomesEnded, OutcomesAreReal, Finished, Outcome
<1>2. OutcomesEnded => OutcomesAreReal
  BY DEF OutcomesEnded
<1> QED
  BY <1>1, <1>2, TypeInit, TypeStep, OutcomesStep, PTL DEF Spec

-----------------------------------------------------------------------------
(* A worker waits for one request at a time, and only the poller claims. *)
OneAttempt ==
  /\ \A r \in requests : r.live =>
       \/ r.stage \in {"claim", "mark"} /\ r.worker = "poll" /\ pc["poll"] = "fetch"
       \/ r.stage = "result" /\ pc[r.worker] = "report" /\ r.action = doing[r.worker]
  /\ \A r, q \in requests : r.live /\ q.live /\ r.worker = q.worker => r = q
  /\ \A w \in Worker : pc[w] \in {"idle", "fetch"} => doing[w] = None
  /\ pc["ws"] # "fetch"

LEMMA OneAttemptStep == Typed /\ OneAttempt /\ [Next]_vars => OneAttempt'
<1> SUFFICES ASSUME Typed, OneAttempt, [Next]_vars PROVE OneAttempt'
  OBVIOUS
<1> USE DEF OneAttempt
<1>1. CASE UNCHANGED <<requests, pc, doing>>
  BY <1>1
<1>w. "poll" \in Worker /\ "ws" \in Worker /\ \A r \in requests : r.worker \in Worker
  BY DEF Worker, Typed, TypeOK, Request
<1>2. ASSUME NEW a \in Action, Create(a) \/ Push(a) PROVE OneAttempt'
  BY <1>1, <1>2 DEF Create, Push, agentVars
<1>3. CASE Poll
  <2>1. PICK new \in Request : /\ requests' = requests \cup {new}
                               /\ new.stage = "claim" /\ new.worker = "poll"
    BY <1>3, PollRequests
  <2>2. \A r \in requests : r.live => r.worker # "poll"
    BY <1>3 DEF Poll
  <2>3. pc'["poll"] = "fetch" /\ (\A w \in Worker : w # "poll" => pc'[w] = pc[w]) /\ UNCHANGED doing
    BY <1>3, <1>w DEF Poll, Typed, TypeOK
  <2>4. doing["poll"] = None
    BY <1>3, <1>w DEF Poll
  <2> QED
    BY <1>w, <2>1, <2>2, <2>3, <2>4
<1>4. ASSUME NEW w \in Worker, NEW o \in Outcome, ExecuteEnds(w, o) PROVE OneAttempt'
  <2>1. PICK new \in Request :
          /\ requests' = requests \cup {new}
          /\ new.stage = "result" /\ new.worker = w /\ new.action = doing[w]
    BY <1>4, ResultRequests
  <2>2. \A r \in requests : r.live => r.worker # w
    BY <1>4 DEF ExecuteEnds
  <2>3. pc'[w] = "report" /\ (\A v \in Worker : v # w => pc'[v] = pc[v]) /\ UNCHANGED doing
    BY <1>4 DEF ExecuteEnds, Typed, TypeOK
  <2>4. pc[w] = "execute"
    BY <1>4 DEF ExecuteEnds
  <2> QED
    BY <1>w, <2>1, <2>2, <2>3, <2>4
<1>5. ASSUME NEW w \in Worker, Retry(w) PROVE OneAttempt'
  <2>1. PICK kept \in BOOLEAN, new \in Request :
          /\ requests' = Abandoned(w, kept) \cup {new}
          /\ new.stage = IF pc[w] = "fetch" THEN "claim" ELSE "result"
          /\ new.worker = w /\ new.action = doing[w]
    BY <1>5, RetryRequests
  <2>2. pc[w] \in {"fetch", "report"} /\ UNCHANGED <<pc, doing>>
    BY <1>5 DEF Retry, AttemptFails
  <2>3. \A r \in Abandoned(w, kept) : r.live => r \in requests /\ r.worker # w
    BY AbandonedTypes DEF Typed
  <2>4. pc[w] = "fetch" => w = "poll"
    BY DEF Worker
  <2> QED
    BY <2>1, <2>2, <2>3, <2>4
<1>6. ASSUME NEW w \in Worker, GiveUp(w) PROVE OneAttempt'
  <2>1. PICK kept \in BOOLEAN : requests' = Abandoned(w, kept)
    BY <1>6 DEF GiveUp
  <2>2. \A r \in Abandoned(w, kept) : r.live => r \in requests /\ r.worker # w
    BY AbandonedTypes DEF Typed
  <2>3. /\ pc'[w] = "idle" /\ doing'[w] = None
        /\ \A v \in Worker \ {w} : pc'[v] = pc[v] /\ doing'[v] = doing[v]
    BY <1>6, IdleTypes DEF GiveUp, Typed
  <2> QED
    BY <1>w, <2>1, <2>2, <2>3
<1>7. CASE AgentCrash \/ ServiceRestart
  <2>1. ProcessEnds
    BY <1>7 DEF AgentCrash, ServiceRestart
  <2>2. \A r \in requests' : ~r.live
    BY <2>1, EndTypes DEF Typed
  <2> QED
    BY <1>w, <2>1, <2>2, EndIdles
<1>8. ASSUME NEW r \in requests, requests' = requests \ {r}, r.live, NEW d, d # "fetch",
             pc'[r.worker] = d, d = "idle" => doing'[r.worker] = None,
             \A v \in Worker \ {r.worker} : pc'[v] = pc[v] /\ doing'[v] = doing[v]
      PROVE  OneAttempt'
  <2>1. \A q \in requests' : q.live => q.worker # r.worker
    BY <1>8
  <2> QED
    BY <1>w, <1>8, <2>1
<1>9. ASSUME NEW r \in requests, requests' = requests \ {r}, UNCHANGED <<pc, doing>> PROVE OneAttempt'
  BY <1>9
<1>10. ASSUME NEW r \in requests, requests' = requests \ {r}, r.live, BecomeIdle(r.worker) PROVE OneAttempt'
  <2>1. /\ pc'[r.worker] = "idle" /\ doing'[r.worker] = None
        /\ \A v \in Worker \ {r.worker} : pc'[v] = pc[v] /\ doing'[v] = doing[v]
    BY <1>w, <1>10, IdleTypes DEF Typed
  <2> QED
    BY <1>8, <1>10, <2>1
<1>11. ASSUME NEW r \in requests, Choose(r) PROVE OneAttempt'
  <2>1. CASE \E new \in Request :
               /\ requests' = (requests \ {r}) \cup {new}
               /\ new.stage = "mark" /\ new.worker = r.worker /\ new.live = r.live
               /\ UNCHANGED agentVars
    <3>1. r.stage = "claim"
      BY <1>11 DEF Choose
    <3> QED
      BY <2>1, <3>1 DEF agentVars
  <2>2. CASE requests' = requests \ {r} /\ ((r.live /\ BecomeIdle(r.worker)) \/ (~r.live /\ UNCHANGED agentVars))
    BY <1>9, <1>10, <2>2 DEF agentVars
  <2> QED
    BY <1>11, <2>1, <2>2, ChooseRequests
<1>12. ASSUME NEW r \in requests, Mark(r) PROVE OneAttempt'
  <2>1. requests' = requests \ {r} /\ r.action \in Action
    BY <1>12 DEF Mark, Typed, Shapes
  <2>2. CASE r.live
    <3>1. Begin(r.worker, r.action)
      BY <1>12, <2>2 DEF Mark
    <3>2. /\ pc'[r.worker] = "execute"
          /\ \A v \in Worker \ {r.worker} : pc'[v] = pc[v] /\ doing'[v] = doing[v]
      BY <1>w, <2>1, <3>1, BeginTypes DEF Typed
    <3> QED
      BY <1>8, <2>1, <2>2, <3>2
  <2>3. CASE ~r.live
    BY <1>9, <1>12, <2>3 DEF Mark
  <2> QED
    BY <2>2, <2>3
<1>13. ASSUME NEW r \in requests, ApplyResult(r) PROVE OneAttempt'
  BY <1>9, <1>10, <1>13 DEF ApplyResult, agentVars
<1>14. CASE Receive
  <2>1. Head(wire) \in Action /\ Begin("ws", Head(wire))
    BY <1>14 DEF Receive, Typed, TypeOK
  <2>2. pc'["ws"] = "execute" /\ \A v \in Worker \ {"ws"} : pc'[v] = pc[v] /\ doing'[v] = doing[v]
    BY <1>w, <2>1, BeginTypes DEF Typed
  <2>3. \A r \in requests : r.live => r.worker # "ws"
    BY <1>14 DEF Receive
  <2>4. UNCHANGED requests
    BY <1>14 DEF Receive
  <2> QED
    BY <1>w, <2>2, <2>3, <2>4
<1>15. CASE Connect \/ Disconnect \/ UNCHANGED vars
  BY <1>1, <1>15 DEF Connect, Disconnect, vars, agentVars
<1>16. CASE Restart
  BY <1>16 DEF Restart, agentVars
<1> QED
  BY <1>2, <1>3, <1>4, <1>5, <1>6, <1>7, <1>11, <1>12, <1>13, <1>14, <1>15, <1>16
     DEF Next, Operator, Agent, Handle

-----------------------------------------------------------------------------
(* A row is running while the poller has the action, or else a fault hit it. *)
(* The goroutine of the socket settles no row: the poller's claim did it.     *)
Claimed == \A a \in Action : status[a] = "running" => doing["poll"] = a \/ a \in disturbed

LEMMA ClaimedStep == Typed /\ OneAttempt /\ Claimed /\ [Next]_vars => Claimed'
<1> SUFFICES ASSUME Typed, OneAttempt, Claimed, [Next]_vars PROVE Claimed'
  OBVIOUS
<1> USE DEF Claimed
<1>w. "poll" \in Worker /\ "ws" \in Worker /\ \A r \in requests : r.worker \in Worker
  BY DEF Worker, Typed, TypeOK, Request
<1>1. CASE UNCHANGED <<status, doing>> /\ disturbed \subseteq disturbed'
  BY <1>1
<1>2. ASSUME NEW a \in Action, Create(a) \/ Push(a) PROVE Claimed'
  <2>1. \A b \in Action : status'[b] \in {status[b], "pending"}
    BY <1>2 DEF Create, Push, Typed, TypeOK
  <2> QED
    BY <1>2, <2>1 DEF Create, Push, agentVars
<1>3. CASE Poll \/ Connect \/ Disconnect \/ UNCHANGED vars
  BY <1>1, <1>3 DEF Poll, Connect, Disconnect, vars, agentVars
<1>4. ASSUME NEW w \in Worker, NEW o \in Outcome, ExecuteEnds(w, o) PROVE Claimed'
  BY <1>1, <1>4 DEF ExecuteEnds
<1>5. ASSUME NEW w \in Worker, Retry(w) PROVE Claimed'
  BY <1>1, <1>5 DEF Retry, AttemptFails
<1>6. ASSUME NEW w \in Worker, BecomeIdle(w), UNCHANGED status, disturbed \subseteq disturbed',
             doing[w] \in disturbed' \cup {None} \/ w # "poll"
      PROVE  Claimed'
  <2>1. w # "poll" => doing'["poll"] = doing["poll"]
    BY <1>w, <1>6, IdleTypes DEF Typed
  <2>2. \A a \in Action : a # None
    BY ActionAssumption
  <2> QED
    BY <1>6, <2>1, <2>2
<1>7. ASSUME NEW w \in Worker, GiveUp(w) PROVE Claimed'
  BY <1>6, <1>7 DEF GiveUp, AttemptFails
<1>8. CASE AgentCrash
  BY <1>8, <1>w, ActionAssumption DEF AgentCrash
<1>9. CASE ServiceRestart
  <2>1. doing["poll"] = None
    BY <1>9, <1>w DEF ServiceRestart, OneAttempt
  <2> QED
    BY <1>9, <2>1, ActionAssumption DEF ServiceRestart
<1>10. ASSUME NEW r \in requests, Choose(r) PROVE Claimed'
  <2>1. UNCHANGED <<status, disturbed>>
    BY <1>10 DEF Choose
  <2>2. CASE UNCHANGED agentVars
    BY <2>1, <2>2 DEF agentVars
  <2>3. CASE r.live /\ BecomeIdle(r.worker)
    <3>1. doing[r.worker] = None
      BY <1>10, <1>w, <2>3 DEF Choose, OneAttempt
    <3> QED
      BY <1>6, <1>w, <2>1, <2>3, <3>1
  <2> QED
    BY <1>10, <2>2, <2>3, ChooseRequests
<1>11. ASSUME NEW r \in requests, Mark(r) PROVE Claimed'
  <2>1. r.action \in Action /\ r.stage = "mark"
    BY <1>11 DEF Mark, Typed, Shapes
  <2>2. \A a \in Action : a # r.action => status'[a] = status[a]
    BY <1>11, <2>1 DEF Mark, Typed, TypeOK
  <2>3. CASE r.live
    <3>1. r.worker = "poll" /\ doing["poll"] = None
      BY <1>w, <2>1, <2>3 DEF OneAttempt
    <3>2. Begin("poll", r.action) /\ UNCHANGED disturbed
      BY <1>11, <2>3, <3>1 DEF Mark
    <3>3. doing'["poll"] = r.action
      BY <1>w, <2>1, <3>2, BeginTypes DEF Typed
    <3> QED
      BY <2>2, <3>1, <3>2, <3>3, ActionAssumption
  <2>4. CASE ~r.live
    BY <1>11, <2>2, <2>4 DEF Mark
  <2> QED
    BY <2>3, <2>4
<1>12. ASSUME NEW r \in requests, ApplyResult(r) PROVE Claimed'
  <2>1. r.action \in Action /\ r.outcome \in Outcome /\ r.stage = "result"
    BY <1>12 DEF ApplyResult, Typed, Shapes
  <2>2. status'[r.action] # "running" /\ \A a \in Action : a # r.action => status'[a] = status[a]
    BY <1>12, <2>1 DEF ApplyResult, Typed, TypeOK, Outcome
  <2>3. UNCHANGED disturbed
    BY <1>12 DEF ApplyResult
  <2>4. CASE UNCHANGED agentVars
    BY <2>2, <2>3, <2>4 DEF agentVars
  <2>5. CASE r.live /\ BecomeIdle(r.worker)
    <3>1. r.action = doing[r.worker]
      BY <2>1, <2>5 DEF OneAttempt
    <3>2. r.worker # "poll" => doing'["poll"] = doing["poll"]
      BY <1>w, <2>5, IdleTypes DEF Typed
    <3> QED
      BY <2>2, <2>3, <3>1, <3>2
  <2> QED
    BY <1>12, <2>4, <2>5 DEF ApplyResult
<1>13. CASE Receive
  <2>1. Head(wire) \in Action /\ Begin("ws", Head(wire)) /\ UNCHANGED <<status, disturbed>>
    BY <1>13 DEF Receive, Typed, TypeOK
  <2>2. doing'["poll"] = doing["poll"]
    BY <1>w, <2>1, BeginTypes DEF Typed
  <2> QED
    BY <2>1, <2>2
<1>14. CASE Restart
  BY <1>1, <1>14 DEF Restart, agentVars
<1> QED
  BY <1>2, <1>3, <1>4, <1>5, <1>7, <1>8, <1>9, <1>10, <1>11, <1>12, <1>13, <1>14
     DEF Next, Operator, Agent, Handle

(* A row left running with nobody to finish it was hit by a fault: the       *)
(* restart an action asks for strands nothing.                               *)
THEOREM StrandedRowsNeedFaults == Spec => []StrandedNeedsFault
<1>1. Init => OneAttempt /\ Claimed
  BY DEF Init, OneAttempt, Claimed, Worker
<1>2. Claimed => StrandedNeedsFault
  BY DEF Claimed, StrandedNeedsFault, Worker
<1> QED
  BY <1>1, <1>2, TypeInit, TypeStep, OneAttemptStep, ClaimedStep, PTL DEF Spec

-----------------------------------------------------------------------------
(* An action waits to be begun by the poller only as long as it is pending, *)
(* or in the one claim whose answer the poller waits for.                   *)
PollOnce ==
  /\ PolledOnce
  /\ \A a \in Action : status[a] \in {"none", "pending"} => runs["poll"][a] = 0
  /\ \A r \in requests : r.live /\ r.stage = "mark" => runs["poll"][r.action] = 0

LEMMA PollOnceStep == Typed /\ OneAttempt /\ PollOnce /\ [Next]_vars => PollOnce'
<1> SUFFICES ASSUME Typed, OneAttempt, PollOnce, [Next]_vars PROVE PollOnce'
  OBVIOUS
<1> USE DEF PollOnce, PolledOnce
<1>w. "poll" \in Worker /\ "ws" \in Worker /\ \A r \in requests : r.worker \in Worker
  BY DEF Worker, Typed, TypeOK, Request
<1>1. ASSUME \A r \in requests' : r.live /\ r.stage = "mark" => r \in requests,
             UNCHANGED runs,
             \A a \in Action : status'[a] \in {"none", "pending"} => status[a] \in {"none", "pending"}
      PROVE  PollOnce'
  BY <1>1
<1>2. ASSUME NEW a \in Action, Create(a) \/ Push(a) PROVE PollOnce'
  BY <1>1, <1>2 DEF Create, Push, Typed, TypeOK
<1>3. CASE Connect \/ Disconnect \/ UNCHANGED vars \/ Restart
  BY <1>1, <1>3 DEF Connect, Disconnect, vars, Restart
<1>4. CASE Poll
  BY <1>1, <1>4, PollRequests DEF Poll
<1>5. ASSUME NEW w \in Worker, NEW o \in Outcome, ExecuteEnds(w, o) PROVE PollOnce'
  <2>1. \A r \in requests' : r.stage = "mark" => r \in requests
    BY <1>5, ResultRequests
  <2> QED
    BY <1>1, <1>5, <2>1 DEF ExecuteEnds
<1>6. ASSUME NEW w \in Worker, Retry(w) \/ GiveUp(w) PROVE PollOnce'
  <2>1. \A kept \in BOOLEAN : \A r \in Abandoned(w, kept) : r.live => r \in requests
    BY AbandonedTypes DEF Typed
  <2>2. \A r \in requests' : r.live /\ r.stage = "mark" => r \in requests
    <3>1. CASE Retry(w)
      BY <2>1, <3>1, RetryRequests
    <3>2. CASE GiveUp(w)
      BY <2>1, <3>2 DEF GiveUp
    <3> QED
      BY <1>6, <3>1, <3>2
  <2> QED
    BY <1>1, <1>6, <2>2 DEF Retry, GiveUp
<1>7. CASE AgentCrash \/ ServiceRestart
  <2>1. \A r \in requests' : ~r.live
    BY <1>7, EndTypes DEF AgentCrash, ServiceRestart, Typed
  <2> QED
    BY <1>1, <1>7, <2>1 DEF AgentCrash, ServiceRestart
<1>8. ASSUME NEW r \in requests, Choose(r) PROVE PollOnce'
  <2>1. \A q \in requests' : q.stage = "mark" =>
          q \in requests \/ (q.action \in Action /\ status[q.action] = "pending")
    BY <1>8, ChooseRequests
  <2>2. UNCHANGED <<status, runs>>
    BY <1>8 DEF Choose
  <2> QED
    BY <2>1, <2>2
<1>9. ASSUME NEW r \in requests, Mark(r) PROVE PollOnce'
  <2>1. r.action \in Action /\ r.stage = "mark" /\ requests' = requests \ {r}
    BY <1>9 DEF Mark, Typed, Shapes
  <2>2. status'[r.action] = "running" /\ \A a \in Action : a # r.action => status'[a] = status[a]
    BY <1>9, <2>1 DEF Mark, Typed, TypeOK
  <2>3. CASE r.live
    <3>1. r.worker = "poll"
      BY <2>1, <2>3 DEF OneAttempt
    <3>2. Begin("poll", r.action)
      BY <1>9, <2>3, <3>1 DEF Mark
    <3>3. \A a \in Action : runs'["poll"][a] = IF a = r.action THEN runs["poll"][a] + 1 ELSE runs["poll"][a]
      BY <1>w, <2>1, <3>2, BeginTypes DEF Typed
    <3>4. \A q \in requests' : ~(q.live /\ q.stage = "mark")
      BY <2>1, <2>3, <3>1 DEF OneAttempt
    <3>5. runs["poll"][r.action] = 0
      BY <2>1, <2>3
    <3>6. \A a \in Action : runs'["poll"][a] <= 1
      BY <3>3, <3>5
    <3>7. \A a \in Action : status'[a] \in {"none", "pending"} => runs'["poll"][a] = 0
      BY <2>2, <3>3
    <3> QED
      BY <3>4, <3>6, <3>7
  <2>4. CASE ~r.live
    <3>1. UNCHANGED runs
      BY <1>9, <2>4 DEF Mark
    <3> QED
      BY <2>1, <2>2, <3>1
  <2> QED
    BY <2>3, <2>4
<1>10. ASSUME NEW r \in requests, ApplyResult(r) PROVE PollOnce'
  <2>1. r.action \in Action /\ r.outcome \in Outcome
    BY <1>10 DEF ApplyResult, Typed, Shapes
  <2>2. \A a \in Action : status'[a] \in {"none", "pending"} => status'[a] = status[a]
    BY <1>10, <2>1 DEF ApplyResult, Typed, TypeOK, Outcome
  <2> QED
    BY <1>1, <1>10, <2>2 DEF ApplyResult
<1>11. CASE Receive
  <2>1. Head(wire) \in Action /\ Begin("ws", Head(wire)) /\ UNCHANGED <<status, requests>>
    BY <1>11 DEF Receive, Typed, TypeOK
  <2>2. \A a \in Action : runs'["poll"][a] = runs["poll"][a]
    BY <1>w, <2>1, BeginTypes DEF Typed
  <2>3. \A r \in requests : r.stage = "mark" => r.action \in Action
    BY DEF Typed, Shapes
  <2> QED
    BY <2>1, <2>2, <2>3
<1> QED
  BY <1>2, <1>3, <1>4, <1>5, <1>6, <1>7, <1>8, <1>9, <1>10, <1>11
     DEF Next, Operator, Agent, Handle

-----------------------------------------------------------------------------
(* A pushed action is in one place: about to be sent, sent, or begun. *)
PushOnce ==
  /\ PushedOnce
  /\ \A a \in pushing : /\ runs["ws"][a] = 0
                        /\ \A i \in 1 .. Len(wire) : wire[i] # a
  /\ \A i \in 1 .. Len(wire) : runs["ws"][wire[i]] = 0
  /\ \A i, j \in 1 .. Len(wire) : wire[i] = wire[j] => i = j
  /\ \A a \in Action : status[a] = "none" => /\ a \notin pushing
                                             /\ runs["ws"][a] = 0
                                             /\ \A i \in 1 .. Len(wire) : wire[i] # a

LEMMA PushOnceStep == Typed /\ OneAttempt /\ PushOnce /\ [Next]_vars => PushOnce'
<1> SUFFICES ASSUME Typed, OneAttempt, PushOnce, [Next]_vars PROVE PushOnce'
  OBVIOUS
<1> USE DEF PushOnce, PushedOnce
<1>w. "poll" \in Worker /\ "ws" \in Worker
  BY DEF Worker
<1>1. ASSUME pushing' \subseteq pushing, wire' = wire \/ wire' = <<>>, UNCHANGED runs,
             \A a \in Action : status'[a] = "none" => status[a] = "none"
      PROVE  PushOnce'
  BY <1>1
<1>2. ASSUME NEW a \in Action, Create(a) PROVE PushOnce'
  <2>1. status[a] = "none" /\ pushing' = pushing \cup {a} /\ UNCHANGED <<wire, runs>>
    BY <1>2 DEF Create
  <2>2. \A b \in Action : status'[b] = "none" => status[b] = "none" /\ b # a
    BY <1>2 DEF Create, Typed, TypeOK
  <2> QED
    BY <2>1, <2>2
<1>3. ASSUME NEW a \in Action, Push(a) PROVE PushOnce'
  <2>1. a \in pushing /\ pushing' = pushing \ {a} /\ UNCHANGED <<runs, status>>
    BY <1>3 DEF Push
  <2>2. CASE wire' = wire
    BY <2>1, <2>2
  <2>3. CASE wire' = Append(wire, a)
    <3>1. wire \in Seq(Action)
      BY DEF Typed, TypeOK
    <3>2. /\ Len(wire') = Len(wire) + 1 /\ Len(wire) \in Nat
          /\ \A i \in 1 .. Len(wire) : wire'[i] = wire[i]
          /\ wire'[Len(wire) + 1] = a
      BY <2>3, <3>1
    <3>3. \A i \in 1 .. Len(wire') : i \in 1 .. Len(wire) \/ i = Len(wire) + 1
      BY <3>2
    <3>4. status[a] # "none"
      BY <2>1, <1>3
    <3> QED
      BY <2>1, <3>2, <3>3, <3>4
  <2> QED
    BY <1>3, <2>2, <2>3 DEF Push
<1>4. CASE Connect \/ Disconnect \/ Poll \/ UNCHANGED vars
  BY <1>1, <1>4 DEF Connect, Disconnect, Poll, vars
<1>5. ASSUME NEW w \in Worker, (\E o \in Outcome : ExecuteEnds(w, o)) \/ Retry(w) \/ GiveUp(w) PROVE PushOnce'
  BY <1>1, <1>5 DEF ExecuteEnds, Retry, GiveUp
<1>6. CASE AgentCrash \/ ServiceRestart \/ Restart
  BY <1>1, <1>6 DEF AgentCrash, ServiceRestart, ProcessEnds, Restart
<1>7. ASSUME NEW r \in requests, Choose(r) PROVE PushOnce'
  BY <1>1, <1>7 DEF Choose
<1>8. ASSUME NEW r \in requests, Mark(r) PROVE PushOnce'
  <2>1. r.action \in Action /\ r.stage = "mark" /\ UNCHANGED <<pushing, wire>>
    BY <1>8 DEF Mark, Typed, Shapes
  <2>2. \A a \in Action : status'[a] = "none" => status[a] = "none"
    BY <1>8, <2>1 DEF Mark, Typed, TypeOK
  <2>3. \A a \in Action : runs'["ws"][a] = runs["ws"][a]
    <3>1. CASE r.live
      <4>1. Begin("poll", r.action)
        BY <1>8, <2>1, <3>1 DEF Mark, OneAttempt
      <4> QED
        BY <1>w, <2>1, <4>1, BeginTypes DEF Typed
    <3>2. CASE ~r.live
      BY <1>8, <3>2 DEF Mark
    <3> QED
      BY <3>1, <3>2
  <2>4. pushing \subseteq Action /\ \A i \in 1 .. Len(wire) : wire[i] \in Action
    BY DEF Typed, TypeOK
  <2> QED
    BY <2>1, <2>2, <2>3, <2>4
<1>9. ASSUME NEW r \in requests, ApplyResult(r) PROVE PushOnce'
  <2>1. r.action \in Action /\ r.outcome \in Outcome
    BY <1>9 DEF ApplyResult, Typed, Shapes
  <2>2. \A a \in Action : status'[a] = "none" => status[a] = "none"
    BY <1>9, <2>1 DEF ApplyResult, Typed, TypeOK, Outcome
  <2> QED
    BY <1>1, <1>9, <2>2 DEF ApplyResult
<1>10. CASE Receive
  <2>1. wire \in Seq(Action) /\ wire # <<>> /\ wire' = Tail(wire) /\ UNCHANGED <<pushing, status>>
    BY <1>10 DEF Receive, Typed, TypeOK
  <2>2. /\ Len(wire) \in Nat /\ Len(wire) >= 1 /\ Len(wire') = Len(wire) - 1
        /\ Head(wire) = wire[1] /\ wire[1] \in Action
        /\ \A i \in 1 .. Len(wire') : wire'[i] = wire[i + 1] /\ i + 1 \in 1 .. Len(wire) /\ i + 1 # 1
    BY <2>1
  <2>3. \A a \in Action : runs'["ws"][a] = IF a = wire[1] THEN runs["ws"][a] + 1 ELSE runs["ws"][a]
    BY <1>10, <1>w, <2>2, BeginTypes DEF Receive, Typed
  <2>4. runs["ws"][wire[1]] = 0 /\ 1 \in 1 .. Len(wire)
    BY <2>2
  <2>5. \A i \in 1 .. Len(wire') : wire'[i] # wire[1] /\ wire'[i] \in Action
    BY <2>1, <2>2, <2>4
  <2>6. \A a \in Action : runs'["ws"][a] <= 1
    BY <2>3, <2>4
  <2>7. \A a \in pushing : a \in Action /\ a # wire[1]
    BY <2>4 DEF Typed, TypeOK
  <2>8. \A a \in Action : status[a] = "none" => a # wire[1]
    BY <2>4
  <2>9. \A i, j \in 1 .. Len(wire') : wire'[i] = wire'[j] => i = j
    BY <2>2
  <2>10. \A a \in pushing' : runs'["ws"][a] = 0 /\ \A i \in 1 .. Len(wire') : wire'[i] # a
    BY <2>1, <2>2, <2>3, <2>7
  <2>11. ASSUME NEW i \in 1 .. Len(wire') PROVE runs'["ws"][wire'[i]] = 0
    <3>1. wire'[i] \in Action /\ wire'[i] # wire[1]
      BY <2>5
    <3>2. runs["ws"][wire'[i]] = 0
      BY <2>2
    <3> QED
      BY <2>3, <3>1, <3>2
  <2>12. \A a \in Action : status'[a] = "none" => /\ a \notin pushing'
                                                  /\ runs'["ws"][a] = 0
                                                  /\ \A i \in 1 .. Len(wire') : wire'[i] # a
    BY <2>1, <2>2, <2>3, <2>8
  <2> QED
    BY <2>6, <2>9, <2>10, <2>11, <2>12
<1> QED
  BY <1>2, <1>3, <1>4, <1>5, <1>6, <1>7, <1>8, <1>9, <1>10
     DEF Next, Operator, Agent, Handle

(* Neither goroutine begins an action a second time: an action is executed *)
(* at most twice, whatever is retried, lost or restarted.                  *)
THEOREM ExecutedAtMostTwice == Spec => []ExecutedOnce
<1>1. Init => OneAttempt /\ PollOnce /\ PushOnce
  BY DEF Init, OneAttempt, PollOnce, PolledOnce, PushOnce, PushedOnce, Worker
<1>2. PollOnce /\ PushOnce => ExecutedOnce
  BY DEF PollOnce, PushOnce, ExecutedOnce
<1> QED
  BY <1>1, <1>2, TypeInit, TypeStep, OneAttemptStep, PollOnceStep, PushOnceStep, PTL DEF Spec
==============================================================================
