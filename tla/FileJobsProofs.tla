--------------------------- MODULE FileJobsProofs ---------------------------
(***************************************************************************)
(* Safety of the file jobs for any number of files, attempts and faults.   *)
(***************************************************************************)
EXTENDS FileJobs, TLAPS

(* Only a poll has no job; only a report has an outcome to write. *)
Shapes ==
  /\ \A r \in requests :
       /\ r.stage # "ask" => r.job \in Job
       /\ r.stage \in {"report", "write"} => r.outcome \in Final
  /\ pc \in {"download", "report"} => doing \in Job
  /\ pc = "report" => outcome \in Final

Typed == TypeOK /\ Shapes

-----------------------------------------------------------------------------
(* What the steps that share a request do to it. *)

LEMMA AskTypes ==
  ASSUME NEW stage \in {"ask", "report"}, NEW j \in Job \cup {None}, NEW o \in Final \cup {None},
         NEW t \in 1 .. MaxTries
  PROVE  /\ Ask(stage, j, o, t) \in Request
         /\ Ask(stage, j, o, t).stage = stage
         /\ Ask(stage, j, o, t).job = j
         /\ Ask(stage, j, o, t).outcome = o
         /\ Ask(stage, j, o, t).live
BY DEF Ask, Request

LEMMA OrphanTypes ==
  ASSUME NEW r \in Request
  PROVE  /\ Orphan(r) \in Request
         /\ Orphan(r).stage = r.stage /\ Orphan(r).job = r.job /\ Orphan(r).outcome = r.outcome
         /\ ~Orphan(r).live
BY DEF Orphan, Request

LEMMA AbandonedTypes ==
  ASSUME TypeOK, NEW kept \in BOOLEAN, NEW r \in Abandoned(kept)
  PROVE  /\ r \in Request /\ ~r.live
         /\ \E q \in requests : r.stage = q.stage /\ r.job = q.job /\ r.outcome = q.outcome
         /\ r \in requests \/ \E q \in Live : r.job = q.job
<1>1. CASE r \in requests \ Live
  BY <1>1 DEF Live, TypeOK
<1>2. CASE \E q \in Live : r = Orphan(q)
  <2> PICK q \in Live : r = Orphan(q)
    BY <1>2
  <2>1. q \in requests /\ q \in Request
    BY DEF Live, TypeOK
  <2> QED
    BY <2>1, OrphanTypes
<1> QED
  BY <1>1, <1>2 DEF Abandoned

LEMMA MovedTypes ==
  ASSUME NEW r \in Request, NEW j \in Job
  PROVE  /\ [r EXCEPT !.stage = "serve", !.job = j] \in Request
         /\ [r EXCEPT !.stage = "serve", !.job = j].stage = "serve"
         /\ [r EXCEPT !.stage = "serve", !.job = j].job = j
         /\ [r EXCEPT !.stage = "serve", !.job = j].live = r.live
         /\ [r EXCEPT !.stage = "write"] \in Request
         /\ [r EXCEPT !.stage = "write"].stage = "write"
         /\ [r EXCEPT !.stage = "write"].job = r.job
         /\ [r EXCEPT !.stage = "write"].outcome = r.outcome
         /\ [r EXCEPT !.stage = "write"].live = r.live
BY DEF Request

LEMMA FaultTypes == TypeOK /\ Fault => faults' \in 0 .. MaxFaults
BY FaultsAssumption DEF TypeOK, Fault

(* The attempts an agent gives up. *)
LEMMA AttemptTypes ==
  ASSUME TypeOK, AttemptFails
  PROVE  faults' \in 0 .. MaxFaults /\ disturbed' \subseteq Job
<1>1. \A r \in Live : r.job \in Job \cup {None}
  BY DEF Live, TypeOK, Request
<1> QED
  BY <1>1, FaultTypes DEF AttemptFails, TypeOK

LEMMA ForgetTypes == TypeOK /\ Forget => lost' \in [Job -> Nat]
<1> SUFFICES ASSUME TypeOK, Forget PROVE lost' \in [Job -> Nat]
  OBVIOUS
<1>1. CASE doing \notin Job \/ doing = None
  BY <1>1 DEF Forget, TypeOK
<1>2. CASE doing \in Job /\ doing # None
  <2>1. lost[doing] + 1 \in Nat
    BY <1>2 DEF TypeOK
  <2> QED
    BY <1>2, <2>1 DEF Forget, TypeOK
<1> QED
  BY <1>1, <1>2

LEMMA IdleTypes ==
  ASSUME BecomeIdle
  PROVE  /\ pc' = "idle" /\ doing' = None /\ try' \in 1 .. MaxTries /\ outcome' \in Final \cup {None}
BY TriesAssumption DEF BecomeIdle

LEMMA TypeInit == Init => Typed
<1> SUFFICES ASSUME Init PROVE Typed
  OBVIOUS
<1>1. try \in 1 .. MaxTries
  BY TriesAssumption DEF Init
<1>2. restarted \in BOOLEAN
  BY DEF Init
<1>3. faults \in 0 .. MaxFaults
  BY FaultsAssumption DEF Init
<1> QED
  BY <1>1, <1>2, <1>3 DEF Init, Typed, TypeOK, Shapes, Status

LEMMA TypeStep == Typed /\ [Next]_vars => Typed'
<1> SUFFICES ASSUME TypeOK, Shapes, [Next]_vars PROVE TypeOK' /\ Shapes'
  BY DEF Typed
<1>1. ASSUME NEW j \in Job, Upload(j) PROVE TypeOK' /\ Shapes'
  <2>1. mem' \in [Job -> Status \cup {"absent"}] /\ fileJobs' \in Seq(Job)
    BY <1>1 DEF Upload, TypeOK, Status
  <2>2. stale' \subseteq {i \in Job : mem'[i] = "running"}
    BY <1>1 DEF Upload, TypeOK
  <2> QED
    BY <1>1, <2>1, <2>2 DEF Upload, TypeOK, Shapes, workerVars
<1>2. ASSUME NEW j \in Job, Insert(j) \/ InsertFails(j) PROVE TypeOK' /\ Shapes'
  <2>1. row' \in [Job -> Status \cup {"none"}]
    BY <1>2 DEF Insert, InsertFails, TypeOK, Status
  <2>2. faults' \in 0 .. MaxFaults
    BY <1>2, FaultTypes DEF Insert, InsertFails, TypeOK
  <2> QED
    BY <1>2, <2>1, <2>2 DEF Insert, InsertFails, TypeOK, Shapes, workerVars
<1>3. CASE Poll
  <2>1. Ask("ask", None, None, 1) \in Request /\ Ask("ask", None, None, 1).stage = "ask"
    BY AskTypes, TriesAssumption
  <2> HIDE DEF Ask
  <2> QED
    BY <1>3, <2>1 DEF Poll, TypeOK, Shapes
<1>4. ASSUME NEW o \in Final, DownloadEnds(o) PROVE TypeOK' /\ Shapes'
  <2>1. doing \in Job /\ 1 \in 1 .. MaxTries
    BY <1>4, TriesAssumption DEF DownloadEnds, Shapes
  <2>2. PICK new \in Request : /\ new.job = doing /\ new.outcome = o
                               /\ requests' = requests \cup {new}
    BY <1>4, <2>1, AskTypes DEF DownloadEnds
  <2>3. saved' \subseteq Job
    BY <1>4, <2>1 DEF DownloadEnds, TypeOK
  <2> QED
    BY <1>4, <2>1, <2>2, <2>3 DEF DownloadEnds, TypeOK, Shapes
<1>5. CASE Retry
  <2>1. try + 1 \in 1 .. MaxTries /\ pc \in {"ask", "report"}
    BY <1>5, TriesAssumption DEF Retry, AttemptFails, TypeOK
  <2>2. PICK kept \in BOOLEAN, new \in Request :
          /\ new.stage = pc /\ new.job = doing /\ new.outcome = outcome
          /\ requests' = Abandoned(kept) \cup {new}
    <3>1. PICK kept \in BOOLEAN : requests' = Abandoned(kept) \cup {Ask(pc, doing, outcome, try + 1)}
      BY <1>5 DEF Retry
    <3>2. doing \in Job \cup {None} /\ outcome \in Final \cup {None}
      BY DEF TypeOK
    <3> QED
      BY <2>1, <3>1, <3>2, AskTypes
  <2>3. requests' \subseteq Request
    BY <2>2, AbandonedTypes
  <2>4. ASSUME NEW r \in requests'
        PROVE  /\ r.stage # "ask" => r.job \in Job
               /\ r.stage \in {"report", "write"} => r.outcome \in Final
    <3>1. CASE r = new
      BY <2>1, <2>2, <3>1 DEF Shapes
    <3>2. CASE r \in Abandoned(kept)
      BY <3>2, AbandonedTypes DEF Shapes
    <3> QED
      BY <2>2, <2>4, <3>1, <3>2
  <2> QED
    BY <1>5, <2>1, <2>3, <2>4, AttemptTypes DEF Retry, TypeOK, Shapes
<1>6. CASE GiveUp \/ AgentCrash
  <2>1. PICK kept \in BOOLEAN : requests' = Abandoned(kept)
    BY <1>6 DEF GiveUp, AgentCrash
  <2>2. requests' \subseteq Request
    BY <2>1, AbandonedTypes
  <2>3. \A r \in requests' : /\ r.stage # "ask" => r.job \in Job
                             /\ r.stage \in {"report", "write"} => r.outcome \in Final
    BY <2>1, AbandonedTypes DEF Shapes
  <2>4. faults' \in 0 .. MaxFaults /\ disturbed' \subseteq Job
    <3>1. CASE GiveUp
      BY <3>1, AttemptTypes DEF GiveUp
    <3>2. CASE AgentCrash
      <4>1. \A r \in Live : r.job \in Job \cup {None}
        BY DEF Live, TypeOK, Request
      <4> QED
        BY <3>2, <4>1, FaultTypes DEF AgentCrash, TypeOK
    <3> QED
      BY <1>6, <3>1, <3>2
  <2> QED
    BY <1>6, <2>2, <2>3, <2>4, IdleTypes, ForgetTypes DEF GiveUp, AgentCrash, TypeOK, Shapes
<1>7. ASSUME NEW j \in Job, Age(j) PROVE TypeOK' /\ Shapes'
  BY <1>7 DEF Age, TypeOK, Shapes, workerVars
<1>8. ASSUME NEW r \in requests, Serve(r) PROVE TypeOK' /\ Shapes'
  <2>1. r \in Request
    BY DEF TypeOK
  <2>2. CASE \A j \in Job : ~FirstServable(j)
    <3>1. requests' = requests \ {r} /\ UNCHANGED <<mem, stale, disturbed>>
      BY <1>8, <2>2 DEF Serve
    <3>2. BecomeIdle \/ UNCHANGED workerVars
      BY <1>8, <2>2 DEF Serve
    <3>3. UNCHANGED <<fileJobs, row, inserting, saved, faults, restarted, downloads, lost, early>>
      BY <1>8 DEF Serve
    <3> QED
      BY <3>1, <3>2, <3>3, IdleTypes DEF TypeOK, Shapes, workerVars
  <2>3. CASE ~\A j \in Job : ~FirstServable(j)
    <3>1. PICK j \in Job, new \in Request :
            /\ new.stage = "serve" /\ new.job = j
            /\ mem' = [mem EXCEPT ![j] = "running"]
            /\ stale' = stale \ {j}
            /\ requests' = (requests \ {r}) \cup {new}
            /\ disturbed' \subseteq disturbed \cup {j}
            /\ UNCHANGED workerVars
      <4>1. PICK j \in Job :
              /\ mem' = [mem EXCEPT ![j] = "running"]
              /\ stale' = stale \ {j}
              /\ requests' = (requests \ {r}) \cup {[r EXCEPT !.stage = "serve", !.job = j]}
              /\ disturbed' = IF r.live THEN disturbed ELSE disturbed \cup {j}
              /\ UNCHANGED workerVars
        BY <1>8, <2>3 DEF Serve
      <4>2. disturbed' \subseteq disturbed \cup {j}
        BY <4>1
      <4> DEFINE new == [r EXCEPT !.stage = "serve", !.job = j]
      <4>3. new \in Request /\ new.stage = "serve" /\ new.job = j
        BY <2>1, MovedTypes
      <4>4. requests' = (requests \ {r}) \cup {new}
        BY <4>1
      <4> HIDE DEF new
      <4> QED
        BY <4>1, <4>2, <4>3, <4>4
    <3>2. mem' \in [Job -> Status \cup {"absent"}] /\ stale' \subseteq {i \in Job : mem'[i] = "running"}
      BY <3>1 DEF TypeOK, Status
    <3>3. UNCHANGED <<fileJobs, row, inserting, saved, faults, restarted, downloads, lost, early>>
      BY <1>8 DEF Serve
    <3> QED
      BY <3>1, <3>2, <3>3 DEF TypeOK, Shapes, workerVars
  <2> QED
    BY <2>2, <2>3
<1>9. ASSUME NEW j \in Job, NEW s \in Final \cup {"running"}, SetRow(j, s)
      PROVE  row' \in [Job -> Status \cup {"none"}] /\ early' \subseteq Job
  BY <1>9 DEF SetRow, TypeOK, Status
<1>10. ASSUME NEW r \in requests, AnswerServe(r) PROVE TypeOK' /\ Shapes'
  <2>1. r.job \in Job
    BY <1>10 DEF AnswerServe, Shapes
  <2>2. row' \in [Job -> Status \cup {"none"}] /\ early' \subseteq Job
    BY <1>9, <1>10, <2>1 DEF AnswerServe
  <2>3. downloads' \in [Job -> Nat]
    <3>1. downloads[r.job] + 1 \in Nat
      BY <2>1 DEF TypeOK
    <3> QED
      BY <1>10, <3>1 DEF AnswerServe, TypeOK
  <2>4. /\ pc' \in {"idle", "ask", "download", "report"} /\ doing' \in Job \cup {None}
        /\ try' \in 1 .. MaxTries /\ outcome' \in Final \cup {None}
        /\ pc' \in {"download", "report"} => doing' \in Job
        /\ pc' = "report" => outcome' \in Final
    BY <1>10, <2>1, TriesAssumption DEF AnswerServe, TypeOK, Shapes, workerVars
  <2> QED
    BY <1>10, <2>2, <2>3, <2>4 DEF AnswerServe, TypeOK, Shapes
<1>11. ASSUME NEW r \in requests, NoteReport(r) PROVE TypeOK' /\ Shapes'
  <2>1. r \in Request /\ r.job \in Job /\ r.outcome \in Final
    BY <1>11 DEF NoteReport, TypeOK, Shapes
  <2>2. mem' \in [Job -> Status \cup {"absent"}] /\ stale' \subseteq {i \in Job : mem'[i] = "running"}
    BY <1>11, <2>1 DEF NoteReport, TypeOK, Status
  <2>3. PICK new \in Request : /\ new.job = r.job /\ new.outcome = r.outcome
                               /\ requests' = (requests \ {r}) \cup {new}
    BY <1>11, <2>1, MovedTypes DEF NoteReport
  <2>4. UNCHANGED <<fileJobs, row, inserting, pc, doing, try, outcome, saved, faults,
                    restarted, disturbed, downloads, lost, early>>
    BY <1>11 DEF NoteReport, workerVars
  <2> QED
    BY <2>1, <2>2, <2>3, <2>4 DEF TypeOK, Shapes
<1>12. ASSUME NEW r \in requests, WriteReport(r) PROVE TypeOK' /\ Shapes'
  <2>1. r.job \in Job /\ r.outcome \in Final
    BY <1>12 DEF WriteReport, Shapes
  <2>2. row' \in [Job -> Status \cup {"none"}] /\ early' \subseteq Job
    BY <1>9, <1>12, <2>1 DEF WriteReport
  <2>3. BecomeIdle \/ UNCHANGED workerVars
    BY <1>12 DEF WriteReport
  <2> QED
    BY <1>12, <2>2, <2>3, IdleTypes DEF WriteReport, TypeOK, Shapes, workerVars
<1>13. CASE Restart
  <2>1. faults' \in 0 .. MaxFaults /\ restarted' \in BOOLEAN
    BY <1>13, FaultTypes DEF Restart
  <2> QED
    BY <1>13, <2>1 DEF Restart, TypeOK, Shapes, workerVars
<1>14. CASE UNCHANGED vars
  BY <1>14 DEF vars, TypeOK, Shapes, workerVars
<1> QED
  BY <1>1, <1>2, <1>3, <1>4, <1>5, <1>6, <1>7, <1>8, <1>10, <1>11, <1>12, <1>13, <1>14
     DEF Next, Operator, Agent, Handle

(* Every variable keeps its type, for any files, attempts and faults. *)
THEOREM TypeCorrect == Spec => []TypeOK
<1>1. Typed => TypeOK
  BY DEF Typed
<1> QED
  BY <1>1, TypeInit, TypeStep, PTL DEF Spec

-----------------------------------------------------------------------------
(* How the requests change, action by action: the later layers only look at  *)
(* these.                                                                     *)

LEMMA DownloadEndsRequests ==
  ASSUME Typed, NEW o \in Final, DownloadEnds(o)
  PROVE  \E new \in Request :
           /\ requests' = requests \cup {new}
           /\ new.stage = "report" /\ new.job = doing /\ new.outcome = o /\ new.live
<1>1. doing \in Job /\ 1 \in 1 .. MaxTries
  BY TriesAssumption DEF DownloadEnds, Typed, Shapes
<1> QED
  BY <1>1, AskTypes DEF DownloadEnds

LEMMA RetryRequests ==
  ASSUME Typed, Retry
  PROVE  \E kept \in BOOLEAN, new \in Request :
           /\ requests' = Abandoned(kept) \cup {new}
           /\ new.stage = pc /\ new.job = doing /\ new.outcome = outcome /\ new.live
<1>1. try + 1 \in 1 .. MaxTries /\ pc \in {"ask", "report"}
  BY TriesAssumption DEF Retry, AttemptFails, Typed, TypeOK
<1>2. PICK kept \in BOOLEAN : requests' = Abandoned(kept) \cup {Ask(pc, doing, outcome, try + 1)}
  BY DEF Retry
<1>3. doing \in Job \cup {None} /\ outcome \in Final \cup {None}
  BY DEF Typed, TypeOK
<1> QED
  BY <1>1, <1>2, <1>3, AskTypes

LEMMA PollRequests ==
  ASSUME Typed, Poll
  PROVE  \E new \in Request :
           requests' = requests \cup {new} /\ new.stage = "ask" /\ new.job = None /\ new.live
BY AskTypes, TriesAssumption DEF Poll

(* What a poll that finds a job does. *)
LEMMA ServeRequests ==
  ASSUME Typed, NEW r \in requests, Serve(r), ~(requests' = requests \ {r} /\ UNCHANGED <<mem, stale, disturbed>>)
  PROVE  \E j \in Job, new \in Request :
           /\ requests' = (requests \ {r}) \cup {new}
           /\ new.stage = "serve" /\ new.job = j /\ new.live = r.live
           /\ mem[j] \in {"pending", "running"} /\ mem' = [mem EXCEPT ![j] = "running"]
           /\ disturbed' = IF r.live THEN disturbed ELSE disturbed \cup {j}
           /\ UNCHANGED workerVars
<1>1. PICK j \in Job :
        /\ FirstServable(j)
        /\ mem' = [mem EXCEPT ![j] = "running"]
        /\ requests' = (requests \ {r}) \cup {[r EXCEPT !.stage = "serve", !.job = j]}
        /\ disturbed' = IF r.live THEN disturbed ELSE disturbed \cup {j}
        /\ UNCHANGED workerVars
  <2>1. CASE \A j \in Job : ~FirstServable(j)
    <3>1. requests' = requests \ {r} /\ UNCHANGED <<mem, stale, disturbed>>
      BY <2>1 DEF Serve
    <3> QED
      BY <3>1
  <2>2. CASE ~\A j \in Job : ~FirstServable(j)
    BY <2>2 DEF Serve
  <2> QED
    BY <2>1, <2>2
<1> DEFINE new == [r EXCEPT !.stage = "serve", !.job = j]
<1>2. new \in Request /\ new.stage = "serve" /\ new.job = j /\ new.live = r.live
  <2>1. r \in Request
    BY DEF Typed, TypeOK
  <2> QED
    BY <2>1, MovedTypes
<1>3. mem[j] \in {"pending", "running"}
  BY <1>1 DEF FirstServable, Servable
<1>4. requests' = (requests \ {r}) \cup {new}
  BY <1>1
<1> HIDE DEF new
<1> QED
  BY <1>1, <1>2, <1>3, <1>4

LEMMA NoteRequests ==
  ASSUME Typed, NEW r \in requests, NoteReport(r)
  PROVE  \E new \in Request :
           /\ requests' = (requests \ {r}) \cup {new}
           /\ new.stage = "write" /\ new.job = r.job /\ new.outcome = r.outcome /\ new.live = r.live
<1> DEFINE new == [r EXCEPT !.stage = "write"]
<1>1. r \in Request /\ r.job \in Job
  BY DEF NoteReport, Typed, TypeOK, Shapes
<1>2. /\ new \in Request /\ new.stage = "write" /\ new.job = r.job
      /\ new.outcome = r.outcome /\ new.live = r.live
  BY <1>1, MovedTypes
<1>3. requests' = (requests \ {r}) \cup {new}
  BY DEF NoteReport
<1> HIDE DEF new
<1> QED
  BY <1>2, <1>3

-----------------------------------------------------------------------------
(* A report of success is made after the file is saved. *)
SavedFirst ==
  /\ \A r \in requests : r.stage \in {"report", "write"} /\ r.outcome = "completed" => r.job \in saved
  /\ pc = "report" /\ outcome = "completed" => doing \in saved
  /\ CompletedIsSaved

LEMMA SavedStep == Typed /\ SavedFirst /\ [Next]_vars => SavedFirst'
<1> SUFFICES ASSUME Typed, SavedFirst, [Next]_vars PROVE SavedFirst'
  OBVIOUS
<1> USE DEF SavedFirst, CompletedIsSaved
<1>1. CASE UNCHANGED <<requests, pc, outcome, doing, mem, row, saved>>
  BY <1>1
<1>2. ASSUME NEW j \in Job, Upload(j) \/ Insert(j) \/ InsertFails(j) \/ Age(j) PROVE SavedFirst'
  BY <1>2 DEF Upload, Insert, InsertFails, Age, workerVars, Typed, TypeOK
<1>3. CASE Poll
  BY <1>3, PollRequests DEF Poll
<1>4. ASSUME NEW o \in Final, DownloadEnds(o) PROVE SavedFirst'
  <2>1. PICK new \in Request : requests' = requests \cup {new} /\ new.job = doing /\ new.outcome = o
    BY <1>4, DownloadEndsRequests
  <2>2. saved \subseteq saved' /\ (o = "completed" => doing \in saved')
    BY <1>4 DEF DownloadEnds
  <2> QED
    BY <1>4, <2>1, <2>2 DEF DownloadEnds
<1>5. CASE Retry
  <2>1. PICK kept \in BOOLEAN, new \in Request :
          /\ requests' = Abandoned(kept) \cup {new}
          /\ new.stage = pc /\ new.job = doing /\ new.outcome = outcome
    BY <1>5, RetryRequests
  <2>2. pc \in {"ask", "report"}
    BY <1>5 DEF Retry, AttemptFails
  <2>3. \A r \in Abandoned(kept) : r.stage \in {"report", "write"} /\ r.outcome = "completed" => r.job \in saved
    BY AbandonedTypes DEF Typed
  <2> QED
    BY <1>5, <2>1, <2>2, <2>3 DEF Retry
<1>6. CASE GiveUp \/ AgentCrash
  <2>1. PICK kept \in BOOLEAN : requests' = Abandoned(kept)
    BY <1>6 DEF GiveUp, AgentCrash
  <2>2. \A r \in Abandoned(kept) : r.stage \in {"report", "write"} /\ r.outcome = "completed" => r.job \in saved
    BY AbandonedTypes DEF Typed
  <2> QED
    BY <1>6, <2>1, <2>2, IdleTypes DEF GiveUp, AgentCrash
<1>7. ASSUME NEW r \in requests, Serve(r) PROVE SavedFirst'
  <2>1. \A q \in requests' : q \in requests \/ q.stage = "serve"
    BY <1>7, ServeRequests
  <2>2. \A j \in Job : mem'[j] \in {mem[j], "running"}
    BY <1>7, ServeRequests DEF Typed, TypeOK
  <2>3. UNCHANGED workerVars \/ BecomeIdle
    BY <1>7 DEF Serve
  <2>4. UNCHANGED <<row, saved>>
    BY <1>7 DEF Serve
  <2> QED
    BY <2>1, <2>2, <2>3, <2>4, IdleTypes DEF workerVars
<1>8. ASSUME NEW r \in requests, AnswerServe(r) PROVE SavedFirst'
  <2>1. \A j \in Job : row'[j] \in {row[j], "running"}
    BY <1>8 DEF AnswerServe, SetRow, Typed, TypeOK
  <2> QED
    BY <1>8, <2>1 DEF AnswerServe, workerVars
<1>9. ASSUME NEW r \in requests, NoteReport(r) PROVE SavedFirst'
  <2>1. PICK new \in Request : /\ requests' = (requests \ {r}) \cup {new}
                               /\ new.job = r.job /\ new.outcome = r.outcome
    BY <1>9, NoteRequests
  <2>2. r.stage = "report" /\ UNCHANGED <<pc, outcome, doing, row, saved>>
    BY <1>9 DEF NoteReport, workerVars
  <2>3. \A j \in Job : mem'[j] = mem[j] \/ (j = r.job /\ mem'[j] = r.outcome)
    BY <1>9 DEF NoteReport, Typed, TypeOK
  <2> QED
    BY <2>1, <2>2, <2>3
<1>10. ASSUME NEW r \in requests, WriteReport(r) PROVE SavedFirst'
  <2>1. r.stage = "write" /\ requests' = requests \ {r} /\ UNCHANGED <<mem, saved>>
    BY <1>10 DEF WriteReport
  <2>2. \A j \in Job : row'[j] = row[j] \/ (j = r.job /\ row'[j] = r.outcome)
    BY <1>10 DEF WriteReport, SetRow, Typed, TypeOK
  <2>3. UNCHANGED workerVars \/ BecomeIdle
    BY <1>10 DEF WriteReport
  <2> QED
    BY <2>1, <2>2, <2>3, IdleTypes DEF workerVars
<1>11. CASE Restart
  BY <1>11 DEF Restart, workerVars
<1> QED
  BY <1>1, <1>2, <1>3, <1>4, <1>5, <1>6, <1>7, <1>8, <1>9, <1>10, <1>11
     DEF Next, Operator, Agent, Handle, vars, workerVars

(* Every file shown as transferred is on the device. *)
THEOREM CompletedFilesAreSaved == Spec => []CompletedIsSaved
<1>1. Init => SavedFirst
  BY DEF Init, SavedFirst, CompletedIsSaved
<1>2. SavedFirst => CompletedIsSaved
  BY DEF SavedFirst
<1> QED
  BY <1>1, <1>2, TypeInit, TypeStep, SavedStep, PTL DEF Spec

-----------------------------------------------------------------------------
(* The one worker waits for one request at a time. *)
OneAttempt ==
  /\ \A r \in requests : r.live =>
       \/ pc = "ask" /\ r.stage \in {"ask", "serve"}
       \/ pc = "report" /\ r.stage \in {"report", "write"} /\ r.job = doing
  /\ \A r, q \in requests : r.live /\ q.live => r = q
  /\ pc \in {"idle", "ask"} => doing = None
  /\ \A r \in requests : r.stage = "ask" => r.job = None

LEMMA OneAttemptStep == Typed /\ OneAttempt /\ [Next]_vars => OneAttempt'
<1> SUFFICES ASSUME Typed, OneAttempt, [Next]_vars PROVE OneAttempt'
  OBVIOUS
<1> USE DEF OneAttempt
<1>1. CASE UNCHANGED <<requests, pc, doing>>
  BY <1>1
<1>2. ASSUME NEW j \in Job, Upload(j) \/ Insert(j) \/ InsertFails(j) \/ Age(j) PROVE OneAttempt'
  BY <1>1, <1>2 DEF Upload, Insert, InsertFails, Age, workerVars
<1>3. CASE Poll
  BY <1>3, PollRequests DEF Poll
<1>4. ASSUME NEW o \in Final, DownloadEnds(o) PROVE OneAttempt'
  <2>1. PICK new \in Request :
          /\ requests' = requests \cup {new}
          /\ new.stage = "report" /\ new.job = doing
    BY <1>4, DownloadEndsRequests
  <2>2. \A r \in requests : ~r.live
    BY <1>4 DEF DownloadEnds
  <2> QED
    BY <1>4, <2>1, <2>2 DEF DownloadEnds
<1>5. CASE Retry
  <2>1. PICK kept \in BOOLEAN, new \in Request :
          /\ requests' = Abandoned(kept) \cup {new}
          /\ new.stage = pc /\ new.job = doing
    BY <1>5, RetryRequests
  <2>2. pc \in {"ask", "report"} /\ UNCHANGED <<pc, doing>>
    BY <1>5 DEF Retry, AttemptFails
  <2>3. \A r \in Abandoned(kept) : ~r.live /\ (r.stage = "ask" => r.job = None)
    BY AbandonedTypes DEF Typed
  <2> QED
    BY <2>1, <2>2, <2>3
<1>6. CASE GiveUp \/ AgentCrash
  <2>1. PICK kept \in BOOLEAN : requests' = Abandoned(kept)
    BY <1>6 DEF GiveUp, AgentCrash
  <2>2. \A r \in Abandoned(kept) : ~r.live /\ (r.stage = "ask" => r.job = None)
    BY AbandonedTypes DEF Typed
  <2> QED
    BY <1>6, <2>1, <2>2, IdleTypes DEF GiveUp, AgentCrash
<1>7. ASSUME NEW r \in requests, requests' = requests \ {r}, \/ UNCHANGED workerVars
                                                             \/ r.live /\ BecomeIdle
      PROVE  OneAttempt'
  <2>1. CASE UNCHANGED workerVars
    BY <1>7, <2>1 DEF workerVars
  <2>2. CASE r.live /\ BecomeIdle
    <3>1. \A q \in requests' : ~q.live
      BY <1>7, <2>2
    <3> QED
      BY <1>7, <2>2, <3>1, IdleTypes
  <2> QED
    BY <1>7, <2>1, <2>2
<1>8. ASSUME NEW r \in requests, Serve(r) PROVE OneAttempt'
  <2>1. CASE requests' = requests \ {r} /\ UNCHANGED <<mem, stale, disturbed>>
    <3>1. UNCHANGED workerVars \/ (r.live /\ BecomeIdle)
      BY <1>8 DEF Serve
    <3> QED
      BY <1>7, <2>1, <3>1
  <2>2. CASE ~(requests' = requests \ {r} /\ UNCHANGED <<mem, stale, disturbed>>)
    <3>1. PICK new \in Request :
            /\ requests' = (requests \ {r}) \cup {new}
            /\ new.stage = "serve" /\ new.live = r.live
            /\ UNCHANGED workerVars
      BY <1>8, <2>2, ServeRequests
    <3>2. r.stage = "ask"
      BY <1>8 DEF Serve
    <3> QED
      BY <3>1, <3>2 DEF workerVars
  <2> QED
    BY <2>1, <2>2
<1>9. ASSUME NEW r \in requests, AnswerServe(r) PROVE OneAttempt'
  <2>1. CASE r.live
    <3>1. \A q \in requests' : ~q.live
      BY <1>9, <2>1 DEF AnswerServe
    <3> QED
      BY <1>9, <2>1, <3>1 DEF AnswerServe
  <2>2. CASE ~r.live
    <3>1. requests' = requests \ {r} /\ UNCHANGED workerVars
      BY <1>9, <2>2 DEF AnswerServe
    <3> QED
      BY <1>7, <3>1
  <2> QED
    BY <2>1, <2>2
<1>10. ASSUME NEW r \in requests, NoteReport(r) PROVE OneAttempt'
  <2>1. PICK new \in Request :
          /\ requests' = (requests \ {r}) \cup {new}
          /\ new.stage = "write" /\ new.job = r.job /\ new.live = r.live
    BY <1>10, NoteRequests
  <2>2. r.stage = "report" /\ UNCHANGED <<pc, doing>>
    BY <1>10 DEF NoteReport, workerVars
  <2> QED
    BY <2>1, <2>2
<1>11. ASSUME NEW r \in requests, WriteReport(r) PROVE OneAttempt'
  <2>1. requests' = requests \ {r} /\ (UNCHANGED workerVars \/ (r.live /\ BecomeIdle))
    BY <1>11 DEF WriteReport
  <2> QED
    BY <1>7, <2>1
<1>12. CASE Restart
  BY <1>12 DEF Restart, workerVars
<1> QED
  BY <1>1, <1>2, <1>3, <1>4, <1>5, <1>6, <1>8, <1>9, <1>10, <1>11, <1>12
     DEF Next, Operator, Agent, Handle, vars, workerVars

-----------------------------------------------------------------------------
(* Of a job that is not in the memory, and that no fault has hit, there is *)
(* nothing anywhere.                                                       *)
Untouched ==
  \A j \in Job : mem[j] = "absent" /\ j \notin disturbed =>
    /\ doing # j
    /\ downloads[j] = 0
    /\ \A r \in requests : r.job # j

LEMMA UntouchedStep == Typed /\ OneAttempt /\ Untouched /\ [Next]_vars => Untouched'
<1> SUFFICES ASSUME Typed, OneAttempt, Untouched, [Next]_vars,
                    NEW j \in Job, mem'[j] = "absent", j \notin disturbed'
             PROVE  doing' # j /\ downloads'[j] = 0 /\ \A r \in requests' : r.job # j
  BY DEF Untouched
<1> DEFINE P == doing' # j /\ downloads'[j] = 0 /\ \A r \in requests' : r.job # j
<1>1. mem[j] = "absent"
  <2>1. ASSUME NEW r \in requests, Serve(r) PROVE mem[j] = "absent"
    BY <2>1, ServeRequests DEF Typed, TypeOK
  <2>2. ASSUME NEW r \in requests, NoteReport(r) PROVE mem[j] = "absent"
    BY <2>2 DEF NoteReport, Typed, TypeOK, Shapes, Final
  <2>3. CASE UNCHANGED mem
    BY <2>3
  <2>4. CASE Restart
    BY <2>4 DEF Restart
  <2>5. ASSUME NEW i \in Job, Upload(i) PROVE mem[j] = "absent"
    BY <2>5 DEF Upload, Typed, TypeOK
  <2> QED
    BY <2>1, <2>2, <2>3, <2>4, <2>5 DEF Next, Operator, Agent, Handle, vars, Insert, InsertFails, Poll,
       DownloadEnds, Retry, GiveUp, AgentCrash, Age, AnswerServe, WriteReport
<1>2. j \notin disturbed
  <2>1. disturbed \subseteq disturbed'
    <3>1. ASSUME NEW r \in requests, Serve(r) PROVE disturbed \subseteq disturbed'
      BY <3>1, ServeRequests
    <3> QED
      BY <3>1 DEF Next, Operator, Agent, Handle, vars, Upload, Insert, InsertFails, Poll, DownloadEnds, Retry,
         GiveUp, AgentCrash, AttemptFails, Age, AnswerServe, NoteReport, WriteReport, Restart
  <2> QED
    BY <2>1
<1>3. doing # j /\ downloads[j] = 0 /\ \A r \in requests : r.job # j
  BY <1>1, <1>2 DEF Untouched
<1>4. CASE UNCHANGED <<doing, downloads, requests>>
  BY <1>3, <1>4
<1>5. ASSUME NEW i \in Job, Upload(i) \/ Insert(i) \/ InsertFails(i) \/ Age(i) PROVE P
  BY <1>4, <1>5 DEF Upload, Insert, InsertFails, Age, workerVars
<1>6. CASE Poll
  BY <1>3, <1>6, PollRequests, NoneAssumption DEF Poll
<1>7. ASSUME NEW o \in Final, DownloadEnds(o) PROVE P
  BY <1>3, <1>7, DownloadEndsRequests DEF DownloadEnds
<1>8. CASE Retry
  <2>1. PICK kept \in BOOLEAN, new \in Request : requests' = Abandoned(kept) \cup {new} /\ new.job = doing
    BY <1>8, RetryRequests
  <2>2. \A r \in Abandoned(kept) : r.job # j
    BY <1>3, AbandonedTypes DEF Typed
  <2> QED
    BY <1>3, <1>8, <2>1, <2>2 DEF Retry
<1>9. CASE GiveUp \/ AgentCrash
  <2>1. PICK kept \in BOOLEAN : requests' = Abandoned(kept)
    BY <1>9 DEF GiveUp, AgentCrash
  <2>2. \A r \in Abandoned(kept) : r.job # j
    BY <1>3, AbandonedTypes DEF Typed
  <2> QED
    BY <1>3, <1>9, <2>1, <2>2, IdleTypes, NoneAssumption DEF GiveUp, AgentCrash
<1>10. ASSUME NEW r \in requests, Serve(r) PROVE P
  <2>1. UNCHANGED downloads /\ (UNCHANGED workerVars \/ BecomeIdle)
    BY <1>10 DEF Serve
  <2>2. \A q \in requests' : q \in requests \/ \E i \in Job : q.job = i /\ mem'[i] = "running"
    <3>1. CASE requests' = requests \ {r}
      BY <3>1
    <3>2. CASE requests' # requests \ {r}
      <4>1. PICK i \in Job, new \in Request :
              /\ requests' = (requests \ {r}) \cup {new} /\ new.job = i
              /\ mem' = [mem EXCEPT ![i] = "running"]
        BY <1>10, <3>2, ServeRequests
      <4>2. mem'[i] = "running"
        BY <4>1 DEF Typed, TypeOK
      <4> QED
        BY <4>1, <4>2
    <3> QED
      BY <3>1, <3>2
  <2> QED
    BY <1>3, <2>1, <2>2, IdleTypes, NoneAssumption DEF workerVars
<1>11. ASSUME NEW r \in requests, AnswerServe(r) PROVE P
  BY <1>3, <1>11 DEF AnswerServe, workerVars, Typed, TypeOK
<1>12. ASSUME NEW r \in requests, NoteReport(r) PROVE P
  <2>1. PICK new \in Request : requests' = (requests \ {r}) \cup {new} /\ new.job = r.job
    BY <1>12, NoteRequests
  <2>2. UNCHANGED <<doing, downloads>>
    BY <1>12 DEF NoteReport, workerVars
  <2> QED
    BY <1>3, <2>1, <2>2
<1>13. ASSUME NEW r \in requests, WriteReport(r) PROVE P
  BY <1>3, <1>13, IdleTypes, NoneAssumption DEF WriteReport, workerVars
<1>14. CASE Restart
  BY <1>3, <1>14 DEF Restart, workerVars
<1> QED
  BY <1>4, <1>5, <1>6, <1>7, <1>8, <1>9, <1>10, <1>11, <1>12, <1>13, <1>14
     DEF Next, Operator, Agent, Handle, vars, workerVars

-----------------------------------------------------------------------------
(* A job is served again only if it is still to be downloaded, or is being    *)
(* downloaded: then no download of it has been reported.  A report is noted   *)
(* in the memory before the worker has its answer.                            *)
Counted ==
  /\ \A j \in Job : /\ downloads[j] <= lost[j] + 1
                    /\ mem[j] \in {"pending", "running"} /\ doing # j => downloads[j] <= lost[j]
  /\ \A r \in requests : r.live =>
       /\ r.stage = "serve" => downloads[r.job] <= lost[r.job]
       /\ r.stage = "write" => mem[r.job] \notin {"pending", "running"}

LEMMA CountedStep == Typed /\ OneAttempt /\ Untouched /\ Counted /\ [Next]_vars => Counted'
<1> SUFFICES ASSUME Typed, OneAttempt, Untouched, Counted, [Next]_vars PROVE Counted'
  OBVIOUS
<1>0. \A j \in Job : downloads[j] \in Nat /\ lost[j] \in Nat
  BY DEF Typed, TypeOK
<1>1. CASE UNCHANGED <<requests, doing, mem, downloads, lost>>
  BY <1>1 DEF Counted
<1>2. ASSUME NEW j \in Job, Upload(j) PROVE Counted'
  <2>1. mem[j] = "absent" /\ j \notin disturbed
    BY <1>2 DEF Upload
  <2>2. downloads[j] = 0 /\ \A r \in requests : r.job # j
    BY <2>1 DEF Untouched
  <2>3. \A i \in Job : i # j => mem'[i] = mem[i]
    BY <1>2 DEF Upload, Typed, TypeOK
  <2>4. UNCHANGED <<requests, doing, downloads, lost>>
    BY <1>2 DEF Upload, workerVars
  <2>5. \A r \in requests : r.live /\ r.stage = "write" => r.job \in Job
    BY DEF Typed, Shapes
  <2> QED
    BY <1>0, <2>2, <2>3, <2>4, <2>5 DEF Counted
<1>3. ASSUME NEW j \in Job, Insert(j) \/ InsertFails(j) \/ Age(j) PROVE Counted'
  BY <1>1, <1>3 DEF Insert, InsertFails, Age, workerVars
<1>4. CASE Poll
  <2>1. PICK new \in Request : requests' = requests \cup {new} /\ new.stage = "ask"
    BY <1>4, PollRequests
  <2>2. UNCHANGED <<mem, doing, downloads, lost>>
    BY <1>4 DEF Poll
  <2> QED
    BY <2>1, <2>2 DEF Counted
<1>5. ASSUME NEW o \in Final, DownloadEnds(o) PROVE Counted'
  <2>1. PICK new \in Request : requests' = requests \cup {new} /\ new.stage = "report"
    BY <1>5, DownloadEndsRequests
  <2>2. UNCHANGED <<mem, doing, downloads, lost>>
    BY <1>5 DEF DownloadEnds
  <2> QED
    BY <2>1, <2>2 DEF Counted
<1>6. CASE Retry
  <2>1. PICK kept \in BOOLEAN, new \in Request : requests' = Abandoned(kept) \cup {new} /\ new.stage = pc
    BY <1>6, RetryRequests
  <2>2. UNCHANGED <<mem, doing, downloads, lost>> /\ pc \in {"ask", "report"}
    BY <1>6 DEF Retry, AttemptFails
  <2>3. \A r \in Abandoned(kept) : ~r.live
    BY AbandonedTypes DEF Typed
  <2> QED
    BY <2>1, <2>2, <2>3 DEF Counted
<1>7. CASE GiveUp \/ AgentCrash
  <2>1. PICK kept \in BOOLEAN : requests' = Abandoned(kept)
    BY <1>7 DEF GiveUp, AgentCrash
  <2>2. UNCHANGED <<mem, downloads>> /\ doing' = None /\ Forget
    BY <1>7, IdleTypes DEF GiveUp, AgentCrash
  <2>3. \A r \in Abandoned(kept) : ~r.live
    BY AbandonedTypes DEF Typed
  <2>4. \A j \in Job : lost'[j] = IF j = doing THEN lost[j] + 1 ELSE lost[j]
    BY <2>2, NoneAssumption DEF Forget, Typed, TypeOK
  <2> QED
    BY <1>0, <2>1, <2>2, <2>3, <2>4 DEF Counted
<1>8. ASSUME NEW r \in requests, Serve(r) PROVE Counted'
  <2>1. UNCHANGED <<downloads, lost>>
    BY <1>8 DEF Serve
  <2>2. CASE requests' = requests \ {r} /\ UNCHANGED <<mem, stale, disturbed>>
    <3>1. UNCHANGED workerVars \/ (r.live /\ BecomeIdle)
      BY <1>8 DEF Serve
    <3>2. r.live => doing = None
      BY <1>8 DEF Serve, OneAttempt
    <3>3. doing' = doing
      BY <3>1, <3>2, IdleTypes DEF workerVars
    <3> QED
      BY <2>1, <2>2, <3>3 DEF Counted
  <2>3. CASE ~(requests' = requests \ {r} /\ UNCHANGED <<mem, stale, disturbed>>)
    <3>1. PICK j \in Job, new \in Request :
            /\ requests' = (requests \ {r}) \cup {new}
            /\ new.stage = "serve" /\ new.job = j /\ new.live = r.live
            /\ mem[j] \in {"pending", "running"} /\ mem' = [mem EXCEPT ![j] = "running"]
            /\ UNCHANGED workerVars
      BY <1>8, <2>3, ServeRequests
    <3>2. r.live => doing # j
      BY <1>8, NoneAssumption DEF Serve, OneAttempt
    <3>3. \A i \in Job : mem'[i] \in {"pending", "running"} => mem[i] \in {"pending", "running"}
      BY <3>1 DEF Typed, TypeOK
    <3>4. \A q \in requests : q.live /\ q.stage = "write" => q.job \in Job
      BY DEF Typed, Shapes
    <3> QED
      BY <2>1, <3>1, <3>2, <3>3, <3>4 DEF Counted, workerVars
  <2> QED
    BY <2>2, <2>3
<1>9. ASSUME NEW r \in requests, AnswerServe(r) PROVE Counted'
  <2>1. r.job \in Job /\ r.stage = "serve" /\ requests' = requests \ {r} /\ UNCHANGED <<mem, lost>>
    BY <1>9 DEF AnswerServe, Typed, Shapes
  <2>2. CASE r.live
    <3>1. \A q \in requests' : ~q.live
      BY <2>1, <2>2 DEF OneAttempt
    <3>2. doing' = r.job /\ doing = None
      BY <1>9, <2>1, <2>2 DEF AnswerServe, OneAttempt
    <3>3. \A j \in Job : downloads'[j] = IF j = r.job THEN downloads[j] + 1 ELSE downloads[j]
      BY <1>9, <2>2 DEF AnswerServe, Typed, TypeOK
    <3>4. downloads[r.job] <= lost[r.job]
      BY <2>1, <2>2 DEF Counted
    <3>5. \A j \in Job : j # doing
      BY <3>2, NoneAssumption
    <3> QED
      BY <1>0, <2>1, <3>1, <3>2, <3>3, <3>4, <3>5 DEF Counted
  <2>3. CASE ~r.live
    <3>1. UNCHANGED <<doing, downloads>>
      BY <1>9, <2>3 DEF AnswerServe, workerVars
    <3> QED
      BY <2>1, <3>1 DEF Counted
  <2> QED
    BY <2>2, <2>3
<1>10. ASSUME NEW r \in requests, NoteReport(r) PROVE Counted'
  <2>1. PICK new \in Request :
          requests' = (requests \ {r}) \cup {new} /\ new.stage = "write" /\ new.job = r.job
    BY <1>10, NoteRequests
  <2>2. UNCHANGED <<doing, downloads, lost>>
    BY <1>10 DEF NoteReport, workerVars
  <2>3. r.job \in Job /\ r.outcome \in Final
    BY <1>10 DEF NoteReport, Typed, Shapes
  <2>4. /\ \A j \in Job : j # r.job => mem'[j] = mem[j]
        /\ mem'[r.job] \notin {"pending", "running"}
    BY <1>10, <2>3 DEF NoteReport, Typed, TypeOK, Final
  <2>5. \A q \in requests : q.live /\ q.stage = "write" => q.job \in Job
    BY DEF Typed, Shapes
  <2> QED
    BY <2>1, <2>2, <2>3, <2>4, <2>5 DEF Counted
<1>11. ASSUME NEW r \in requests, WriteReport(r) PROVE Counted'
  <2>1. r.stage = "write" /\ requests' = requests \ {r} /\ UNCHANGED <<mem, downloads, lost>>
    BY <1>11 DEF WriteReport
  <2>2. CASE r.live
    <3>1. doing = r.job /\ mem[r.job] \notin {"pending", "running"}
      BY <2>1, <2>2 DEF OneAttempt, Counted
    <3> QED
      BY <2>1, <3>1 DEF Counted
  <2>3. CASE ~r.live
    <3>1. UNCHANGED doing
      BY <1>11, <2>3 DEF WriteReport, workerVars
    <3> QED
      BY <2>1, <3>1 DEF Counted
  <2> QED
    BY <2>2, <2>3
<1>12. CASE Restart
  BY <1>12 DEF Restart, Counted
<1> QED
  BY <1>1, <1>2, <1>3, <1>4, <1>5, <1>6, <1>7, <1>8, <1>9, <1>10, <1>11, <1>12
     DEF Next, Operator, Agent, Handle, vars, workerVars

(* A file is downloaded again only after a download whose report was lost. *)
THEOREM RedownloadsAreExplained == Spec => []RedownloadNeedsLostReport
<1>1. Init => OneAttempt /\ Untouched /\ Counted
  BY NoneAssumption DEF Init, OneAttempt, Untouched, Counted
<1>2. Counted => RedownloadNeedsLostReport
  BY DEF Counted, RedownloadNeedsLostReport
<1> QED
  BY <1>1, <1>2, TypeInit, TypeStep, OneAttemptStep, UntouchedStep, CountedStep, PTL DEF Spec

-----------------------------------------------------------------------------
(* The row of a job no fault has hit: its requests are awaited, its report is *)
(* in the memory before it is in the row, and it is in the row once nothing   *)
(* is under way, unless the row was not there yet.                            *)
RowFollows(j) ==
  /\ \A r \in requests : r.job = j =>
       /\ r.live
       /\ r.stage = "serve" => mem[j] = "running"
       /\ r.stage = "write" => mem[j] = r.outcome
  /\ j \in inserting => row[j] = "none"
  /\ j \notin early /\ mem[j] \in Final /\ (\A r \in requests : r.job # j) => row[j] = mem[j]

RowsFollow == \A j \in Job \ disturbed : RowFollows(j)

LEMMA DisturbedGrows == Typed /\ [Next]_vars => disturbed \subseteq disturbed'
<1> SUFFICES ASSUME Typed, [Next]_vars PROVE disturbed \subseteq disturbed'
  OBVIOUS
<1>1. ASSUME NEW r \in requests, Serve(r) PROVE disturbed \subseteq disturbed'
  BY <1>1, ServeRequests
<1> QED
  BY <1>1 DEF Next, Operator, Agent, Handle, vars, Upload, Insert, InsertFails, Poll, DownloadEnds, Retry,
     GiveUp, AgentCrash, AttemptFails, Age, AnswerServe, NoteReport, WriteReport, Restart

LEMMA RowsStep == Typed /\ OneAttempt /\ Untouched /\ RowsFollow /\ [Next]_vars => RowsFollow'
<1> SUFFICES ASSUME Typed, OneAttempt, Untouched, RowsFollow, [Next]_vars,
                    NEW j \in Job, j \notin disturbed'
             PROVE  RowFollows(j)'
  BY DEF RowsFollow
<1>0. RowFollows(j)
  BY DisturbedGrows DEF RowsFollow
<1>1. CASE UNCHANGED <<requests, mem, row, early>> /\ inserting' \subseteq inserting
  BY <1>0, <1>1 DEF RowFollows
<1>2. ASSUME NEW i \in Job, Upload(i) PROVE RowFollows(j)'
  <2>1. UNCHANGED <<requests, row, early>> /\ inserting' = inserting \cup {i}
    BY <1>2 DEF Upload
  <2>2. CASE j = i
    <3>1. mem[j] = "absent" /\ row[j] = "none" /\ j \notin disturbed
      BY <1>2, <2>2 DEF Upload
    <3>2. \A r \in requests : r.job # j
      BY <3>1 DEF Untouched
    <3>3. mem'[j] = "pending"
      BY <1>2, <2>2 DEF Upload, Typed, TypeOK
    <3> QED
      BY <2>1, <3>1, <3>2, <3>3 DEF RowFollows, Final
  <2>3. CASE j # i
    <3>1. mem'[j] = mem[j]
      BY <1>2, <2>3 DEF Upload, Typed, TypeOK
    <3> QED
      BY <1>0, <2>1, <2>3, <3>1 DEF RowFollows
  <2> QED
    BY <2>2, <2>3
<1>3. ASSUME NEW i \in Job, Insert(i) PROVE RowFollows(j)'
  <2>1. UNCHANGED <<requests, mem, early>> /\ inserting' = inserting \ {i} /\ i \in inserting
    BY <1>3 DEF Insert
  <2>2. row'[j] = IF j = i THEN "pending" ELSE row[j]
    BY <1>3 DEF Insert, Typed, TypeOK
  <2> QED
    BY <1>0, <2>1, <2>2 DEF RowFollows, Final
<1>4. ASSUME NEW i \in Job, InsertFails(i) \/ Age(i) PROVE RowFollows(j)'
  BY <1>1, <1>4 DEF InsertFails, Age
<1>5. CASE Poll
  <2>1. PICK new \in Request : requests' = requests \cup {new} /\ new.job = None
    BY <1>5, PollRequests
  <2> QED
    BY <1>0, <1>5, <2>1, NoneAssumption DEF Poll, RowFollows
<1>6. ASSUME NEW o \in Final, DownloadEnds(o) PROVE RowFollows(j)'
  <2>1. PICK new \in Request : requests' = requests \cup {new} /\ new.stage = "report" /\ new.live
    BY <1>6, DownloadEndsRequests
  <2> QED
    BY <1>0, <1>6, <2>1 DEF DownloadEnds, RowFollows
<1>7. CASE Retry \/ GiveUp \/ AgentCrash
  <2>1. /\ UNCHANGED <<mem, row, inserting, early>>
        /\ disturbed' = disturbed \cup (({doing} \cup {r.job : r \in Live}) \ {None})
    BY <1>7 DEF Retry, GiveUp, AgentCrash, AttemptFails
  <2>2. \A r \in Live : r.job # j
    BY <2>1, NoneAssumption
  <2>3. \A r \in requests : r.job # j
    BY <1>0, <2>2 DEF RowFollows, Live
  <2>4. doing # j
    BY <2>1, NoneAssumption
  <2>5. \A r \in requests' : r.job # j
    <3>1. CASE Retry
      <4>1. PICK kept \in BOOLEAN, new \in Request : requests' = Abandoned(kept) \cup {new} /\ new.job = doing
        BY <3>1, RetryRequests
      <4>2. \A r \in Abandoned(kept) : r.job # j
        BY <2>3, AbandonedTypes DEF Typed
      <4> QED
        BY <2>4, <4>1, <4>2
    <3>2. CASE GiveUp \/ AgentCrash
      <4>1. PICK kept \in BOOLEAN : requests' = Abandoned(kept)
        BY <3>2 DEF GiveUp, AgentCrash
      <4> QED
        BY <2>3, <4>1, AbandonedTypes DEF Typed
    <3> QED
      BY <1>7, <3>1, <3>2
  <2> QED
    BY <1>0, <2>1, <2>3, <2>5 DEF RowFollows
<1>8. ASSUME NEW r \in requests, Serve(r) PROVE RowFollows(j)'
  <2>1. UNCHANGED <<row, inserting, early>> /\ r.job # j
    BY <1>8, NoneAssumption DEF Serve, OneAttempt
  <2>2. CASE requests' = requests \ {r} /\ UNCHANGED <<mem, stale, disturbed>>
    BY <1>0, <2>1, <2>2 DEF RowFollows
  <2>3. CASE ~(requests' = requests \ {r} /\ UNCHANGED <<mem, stale, disturbed>>)
    <3>1. PICK i \in Job, new \in Request :
            /\ requests' = (requests \ {r}) \cup {new}
            /\ new.stage = "serve" /\ new.job = i /\ new.live = r.live
            /\ mem[i] \in {"pending", "running"} /\ mem' = [mem EXCEPT ![i] = "running"]
            /\ disturbed' = IF r.live THEN disturbed ELSE disturbed \cup {i}
      BY <1>8, <2>3, ServeRequests
    <3>2. mem'[j] = IF j = i THEN "running" ELSE mem[j]
      BY <3>1 DEF Typed, TypeOK
    <3>3. CASE i = j
      <4>1. \A q \in requests : q.job = j => q.stage # "write"
        <5>1. \A q \in requests : q.job = j /\ q.stage = "write" => q.outcome \in Final /\ mem[j] = q.outcome
          BY <1>0 DEF RowFollows, Typed, Shapes
        <5> QED
          BY <3>1, <3>3, <5>1 DEF Final
      <4>2. new.live
        BY <3>1, <3>3
      <4> QED
        BY <1>0, <2>1, <3>1, <3>2, <3>3, <4>1, <4>2 DEF RowFollows, Final
    <3>4. CASE i # j
      BY <1>0, <2>1, <3>1, <3>2, <3>4 DEF RowFollows
    <3> QED
      BY <3>3, <3>4
  <2> QED
    BY <2>2, <2>3
<1>9. ASSUME NEW i \in Job, NEW s \in Final \cup {"running"}, SetRow(i, s)
      PROVE  /\ row'[j] = IF j = i /\ row[j] # "none" THEN s ELSE row[j]
             /\ early \subseteq early' /\ (j = i /\ row[j] = "none" => j \in early')
  BY <1>9 DEF SetRow, Typed, TypeOK
<1>10. ASSUME NEW r \in requests, AnswerServe(r) PROVE RowFollows(j)'
  <2>1. /\ r.stage = "serve" /\ r.job \in Job /\ requests' = requests \ {r} /\ SetRow(r.job, "running")
        /\ UNCHANGED <<mem, inserting>>
    BY <1>10 DEF AnswerServe, Typed, Shapes
  <2>2. /\ row'[j] = IF j = r.job /\ row[j] # "none" THEN "running" ELSE row[j]
        /\ early \subseteq early'
    BY <1>9, <2>1
  <2> QED
    BY <1>0, <2>1, <2>2 DEF RowFollows, Final
<1>11. ASSUME NEW r \in requests, NoteReport(r) PROVE RowFollows(j)'
  <2>1. PICK new \in Request :
          /\ requests' = (requests \ {r}) \cup {new}
          /\ new.stage = "write" /\ new.job = r.job /\ new.outcome = r.outcome /\ new.live = r.live
    BY <1>11, NoteRequests
  <2>2. r.stage = "report" /\ r.job \in Job /\ UNCHANGED <<row, inserting, early>>
    BY <1>11 DEF NoteReport, Typed, Shapes
  <2>3. CASE r.job = j
    <3>1. mem[j] # "absent"
      BY <2>3, DisturbedGrows DEF Untouched
    <3>2. mem'[j] = r.outcome
      BY <1>11, <2>3, <3>1 DEF NoteReport, Typed, TypeOK
    <3>3. \A q \in requests : q.job = j => q = r
      BY <1>0, <2>3 DEF RowFollows, OneAttempt
    <3>4. r.live
      BY <1>0, <2>3 DEF RowFollows
    <3> QED
      BY <1>0, <2>1, <2>2, <2>3, <3>2, <3>3, <3>4 DEF RowFollows
  <2>4. CASE r.job # j
    <3>1. mem'[j] = mem[j]
      BY <1>11, <2>4 DEF NoteReport, Typed, TypeOK
    <3> QED
      BY <1>0, <2>1, <2>2, <2>4, <3>1 DEF RowFollows
  <2> QED
    BY <2>3, <2>4
<1>12. ASSUME NEW r \in requests, WriteReport(r) PROVE RowFollows(j)'
  <2>1. /\ r.stage = "write" /\ r.job \in Job /\ r.outcome \in Final
        /\ requests' = requests \ {r} /\ SetRow(r.job, r.outcome)
        /\ UNCHANGED <<mem, inserting>>
    BY <1>12 DEF WriteReport, Typed, Shapes
  <2>2. /\ row'[j] = IF j = r.job /\ row[j] # "none" THEN r.outcome ELSE row[j]
        /\ early \subseteq early' /\ (j = r.job /\ row[j] = "none" => j \in early')
    BY <1>9, <2>1
  <2>3. r.job = j => mem[j] = r.outcome
    BY <1>0, <2>1 DEF RowFollows
  <2> QED
    BY <1>0, <2>1, <2>2, <2>3 DEF RowFollows
<1>13. CASE Restart
  <2>1. mem'[j] = "absent" /\ requests' = {} /\ inserting' = {}
    BY <1>13 DEF Restart
  <2> QED
    BY <2>1 DEF RowFollows, Final
<1>14. CASE UNCHANGED vars
  BY <1>1, <1>14 DEF vars
<1> QED
  BY <1>2, <1>3, <1>4, <1>5, <1>6, <1>7, <1>8, <1>10, <1>11, <1>12, <1>13, <1>14
     DEF Next, Operator, Agent, Handle

(* The row of a job that has ended says how, unless a fault hit the job or it *)
(* was served before its row was there.                                       *)
THEOREM RowsKeepUp == Spec => []RowKeepsUp
<1>1. Init => OneAttempt /\ Untouched /\ RowsFollow
  BY NoneAssumption DEF Init, OneAttempt, Untouched, RowsFollow, RowFollows, Final
<1>2. RowsFollow => RowKeepsUp
  BY DEF RowsFollow, RowFollows, RowKeepsUp, Quiet
<1> QED
  BY <1>1, <1>2, TypeInit, TypeStep, OneAttemptStep, UntouchedStep, RowsStep, PTL DEF Spec
=============================================================================
