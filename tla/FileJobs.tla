------------------------------ MODULE FileJobs ------------------------------
(***************************************************************************)
(* Files sent to one device: the upload handler, the jobs the server keeps *)
(* in memory (fileJobs) and the file_jobs rows that mirror them            *)
(* (server/src/index.js), and the agent's file worker, which asks for a    *)
(* job, downloads it and reports (agent/file_transfer.go).                 *)
(*                                                                         *)
(* Jobs are served from the memory, and what a handler does to the memory  *)
(* and to the row are two steps, the memory first.  A job served more than *)
(* thirty seconds ago and not reported is served again.                    *)
(*                                                                         *)
(* An operator Op_Variant, above Op, is a plausible wrong version of Op.   *)
(* No specification uses it: PROJECT.json names the property it breaks.    *)
(***************************************************************************)
EXTENDS Naturals, Sequences

CONSTANTS
  Job,          \* the files operators upload
  None,
  MaxPolls,     \* attempts of one GET (BackendPollPolicy: 2)
  MaxTries,     \* attempts of one report (StatusUploadPolicy: 3)
  MaxFaults     \* bound on failed attempts, failed INSERTs, crashes, restarts

ASSUME TriesAssumption ==
  MaxPolls \in Nat \ {0} /\ MaxTries \in Nat \ {0} /\ MaxPolls <= MaxTries
ASSUME FaultsAssumption == MaxFaults \in Nat
ASSUME NoneAssumption == None \notin Job

VARIABLES
  (* the server *)
  fileJobs,     \* the array of jobs, in the order of their uploads
  mem,          \* status in that array; "absent" from it before and after
  stale,        \* running jobs served more than thirty seconds ago
  row,          \* file_jobs.status; "none" without a row
  inserting,    \* uploads between the push into fileJobs and the INSERT
  requests,     \* polls and reports on their way to, or inside, the server
  (* the agent's file worker *)
  pc, doing, try, outcome,
  saved,        \* files in the files directory
  (* bookkeeping *)
  faults,       \* faults so far
  restarted,    \* the server has restarted
  downloads,    \* downloads begun, per job
  lost,         \* downloads whose report was never answered, per job
  early,        \* jobs served or reported before their INSERT was committed
  disturbed     \* jobs that a fault has hit

workerVars == <<pc, doing, try, outcome>>
vars == <<fileJobs, mem, stale, row, inserting, requests, workerVars, saved,
          faults, restarted, downloads, lost, early, disturbed>>

-----------------------------------------------------------------------------
Final  == {"completed", "failed"}
Status == {"pending", "running"} \cup Final

(* "ask" has chosen no job yet; "serve" has, and has its row to write;        *)
(* "report" has done nothing yet; "write" has its row to write.               *)
Request == [stage: {"ask", "serve", "report", "write"}, job: Job \cup {None},
            outcome: Final \cup {None}, try: 1..MaxTries, live: BOOLEAN]

TypeOK ==
  /\ fileJobs \in Seq(Job)
  /\ mem \in [Job -> Status \cup {"absent"}]
  /\ stale \subseteq {j \in Job : mem[j] = "running"}
  /\ row \in [Job -> Status \cup {"none"}]
  /\ inserting \subseteq Job
  /\ requests \subseteq Request
  /\ pc \in {"idle", "ask", "download", "report"}
  /\ doing \in Job \cup {None}
  /\ try \in 1..MaxTries
  /\ outcome \in Final \cup {None}
  /\ saved \subseteq Job
  /\ faults \in 0..MaxFaults
  /\ restarted \in BOOLEAN
  /\ downloads \in [Job -> Nat]
  /\ lost \in [Job -> Nat]
  /\ early \subseteq Job
  /\ disturbed \subseteq Job

Init ==
  /\ fileJobs = <<>>
  /\ mem = [j \in Job |-> "absent"]
  /\ stale = {}
  /\ row = [j \in Job |-> "none"]
  /\ inserting = {}
  /\ requests = {}
  /\ pc = "idle" /\ doing = None /\ try = 1 /\ outcome = None
  /\ saved = {}
  /\ faults = 0
  /\ restarted = FALSE
  /\ downloads = [j \in Job |-> 0]
  /\ lost = [j \in Job |-> 0]
  /\ early = {}
  /\ disturbed = {}

Fault == faults < MaxFaults /\ faults' = faults + 1

-----------------------------------------------------------------------------
(* Operator side: POST /api/files/upload *)

(* The job is offered to the device before it has a row. *)
Upload(j) ==
  /\ mem[j] = "absent" /\ row[j] = "none" /\ j \notin disturbed
  /\ fileJobs' = Append(fileJobs, j)
  /\ mem' = [mem EXCEPT ![j] = "pending"]
  /\ inserting' = inserting \cup {j}
  /\ UNCHANGED <<stale, row, requests, workerVars, saved,
                 faults, restarted, downloads, lost, early, disturbed>>

(* The INSERT writes the status the job had when it was made. *)
Insert(j) ==
  /\ j \in inserting
  /\ inserting' = inserting \ {j}
  /\ row' = [row EXCEPT ![j] = "pending"]
  /\ UNCHANGED <<fileJobs, mem, stale, requests, workerVars, saved,
                 faults, restarted, downloads, lost, early, disturbed>>

(* The operator gets a 500; the job stays in the memory. *)
InsertFails(j) ==
  /\ j \in inserting
  /\ Fault
  /\ inserting' = inserting \ {j}
  /\ disturbed' = disturbed \cup {j}
  /\ UNCHANGED <<fileJobs, mem, stale, row, requests, workerVars, saved,
                 restarted, downloads, lost, early>>

-----------------------------------------------------------------------------
(* The agent's file worker: pollFiles *)

Live == {r \in requests : r.live}

Ask(stage, j, o, t) ==
  [stage |-> stage, job |-> j, outcome |-> o, try |-> t, live |-> TRUE]

BecomeIdle == pc' = "idle" /\ doing' = None /\ try' = 1 /\ outcome' = None

Poll ==
  /\ pc = "idle"
  /\ pc' = "ask"
  /\ requests' = requests \cup {Ask("ask", None, None, 1)}
  /\ UNCHANGED <<fileJobs, mem, stale, row, inserting, doing, try, outcome, saved,
                 faults, restarted, downloads, lost, early, disturbed>>

DownloadEnds_ReportsEarly(o) ==
  /\ pc = "download"
  /\ pc' = "report"
  /\ outcome' = "completed"
  /\ saved' = IF o = "completed" THEN saved \cup {doing} ELSE saved
  /\ requests' = requests \cup {Ask("report", doing, "completed", 1)}
  /\ UNCHANGED <<fileJobs, mem, stale, row, inserting, doing, try,
                 faults, restarted, downloads, lost, early, disturbed>>

(* downloadAndSave returns; markFileComplete or markFileFailed, first attempt. *)
DownloadEnds(o) ==
  /\ pc = "download"
  /\ pc' = "report"
  /\ outcome' = o
  /\ saved' = IF o = "completed" THEN saved \cup {doing} ELSE saved
  /\ requests' = requests \cup {Ask("report", doing, o, 1)}
  /\ UNCHANGED <<fileJobs, mem, stale, row, inserting, doing, try,
                 faults, restarted, downloads, lost, early, disturbed>>

(* The attempt the worker waits for ends without a usable answer; the server *)
(* may or may not have the request.                                          *)
AttemptFails ==
  /\ pc \in {"ask", "report"}
  /\ IF Live = {} THEN UNCHANGED faults ELSE Fault
  /\ disturbed' = disturbed \cup (({doing} \cup {r.job : r \in Live}) \ {None})

Orphan(r) == [r EXCEPT !.live = FALSE]

Abandoned(kept) == (requests \ Live) \cup (IF kept THEN {Orphan(r) : r \in Live} ELSE {})

Retry ==
  /\ AttemptFails
  /\ try < (IF pc = "ask" THEN MaxPolls ELSE MaxTries)
  /\ try' = try + 1
  /\ \E kept \in BOOLEAN :
       requests' = Abandoned(kept) \cup {Ask(pc, doing, outcome, try + 1)}
  /\ UNCHANGED <<fileJobs, mem, stale, row, inserting, pc, doing, outcome, saved,
                 restarted, downloads, lost, early>>

(* What the worker was downloading or reporting goes without a report. *)
Forget == lost' = IF doing = None THEN lost ELSE [lost EXCEPT ![doing] = @ + 1]

GiveUp ==
  /\ AttemptFails
  /\ BecomeIdle
  /\ Forget
  /\ \E kept \in BOOLEAN : requests' = Abandoned(kept)
  /\ UNCHANGED <<fileJobs, mem, stale, row, inserting, saved, restarted, downloads, early>>

AgentCrash ==
  /\ Fault
  /\ BecomeIdle
  /\ Forget
  /\ disturbed' = disturbed \cup (({doing} \cup {r.job : r \in Live}) \ {None})
  /\ \E kept \in BOOLEAN : requests' = Abandoned(kept)
  /\ UNCHANGED <<fileJobs, mem, stale, row, inserting, saved, restarted, downloads, early>>

-----------------------------------------------------------------------------
(* The server's handlers *)

(* Thirty seconds pass after a job was served. *)
Age(j) ==
  /\ mem[j] = "running" /\ j \notin stale
  /\ stale' = stale \cup {j}
  /\ UNCHANGED <<fileJobs, mem, row, inserting, requests, workerVars, saved,
                 faults, restarted, downloads, lost, early, disturbed>>

Servable_PendingOnly(j) == mem[j] = "pending"
Servable_RetriesFailed(j) ==
  mem[j] \in {"pending", "failed"} \/ (mem[j] = "running" /\ j \in stale)

Servable(j) == mem[j] = "pending" \/ (mem[j] = "running" /\ j \in stale)

(* fileJobs.find: the first servable job of the array. *)
FirstServable(j) ==
  \E i \in DOMAIN fileJobs :
    /\ fileJobs[i] = j /\ Servable(j)
    /\ \A k \in 1..(i - 1) : ~Servable(fileJobs[k])

(* GET next-file, up to its first await: the job is running in the memory. *)
Serve(r) ==
  /\ r.stage = "ask"
  /\ \/ \E j \in Job :
          /\ FirstServable(j)
          /\ mem' = [mem EXCEPT ![j] = "running"]
          /\ stale' = stale \ {j}
          /\ requests' = (requests \ {r}) \cup {[r EXCEPT !.stage = "serve", !.job = j]}
          /\ disturbed' = IF r.live THEN disturbed ELSE disturbed \cup {j}
          /\ UNCHANGED workerVars
     \/ /\ \A j \in Job : ~FirstServable(j)
        /\ requests' = requests \ {r}
        /\ IF r.live THEN BecomeIdle ELSE UNCHANGED workerVars
        /\ UNCHANGED <<mem, stale, disturbed>>
  /\ UNCHANGED <<fileJobs, row, inserting, saved, faults, restarted, downloads, lost, early>>

SetRow_FromPending(j, s) ==
  /\ row' = [row EXCEPT ![j] = IF @ = "pending" THEN s ELSE @]
  /\ early' = IF row[j] = "none" THEN early \cup {j} ELSE early

(* An UPDATE of file_jobs by id: it finds the row or it does not. *)
SetRow(j, s) ==
  /\ row' = [row EXCEPT ![j] = IF @ = "none" THEN @ ELSE s]
  /\ early' = IF row[j] = "none" THEN early \cup {j} ELSE early

(* Its UPDATE and its answer, with which the download begins. *)
AnswerServe(r) ==
  /\ r.stage = "serve"
  /\ SetRow(r.job, "running")
  /\ requests' = requests \ {r}
  /\ IF r.live
     THEN /\ pc' = "download" /\ doing' = r.job /\ try' = 1
          /\ downloads' = [downloads EXCEPT ![r.job] = @ + 1]
          /\ UNCHANGED outcome
     ELSE UNCHANGED <<workerVars, downloads>>
  /\ UNCHANGED <<fileJobs, mem, stale, inserting, saved, faults, restarted, lost, disturbed>>

(* POST file-complete or file-failed, up to the first await: whatever the    *)
(* status of the job, if the memory has it.                                  *)
NoteReport(r) ==
  /\ r.stage = "report"
  /\ mem' = [mem EXCEPT ![r.job] = IF @ = "absent" THEN @ ELSE r.outcome]
  /\ stale' = stale \ {r.job}
  /\ requests' = (requests \ {r}) \cup {[r EXCEPT !.stage = "write"]}
  /\ UNCHANGED <<fileJobs, row, inserting, workerVars, saved,
                 faults, restarted, downloads, lost, early, disturbed>>

(* The UPDATE, and the answer: success, or a 404 without a row, which the     *)
(* worker does not retry.                                                     *)
WriteReport(r) ==
  /\ r.stage = "write"
  /\ SetRow(r.job, r.outcome)
  /\ requests' = requests \ {r}
  /\ IF r.live THEN BecomeIdle ELSE UNCHANGED workerVars
  /\ UNCHANGED <<fileJobs, mem, stale, inserting, saved,
                 faults, restarted, downloads, lost, disturbed>>

(* The server process restarts with an empty fileJobs. *)
Restart ==
  /\ Fault
  /\ restarted' = TRUE
  /\ fileJobs' = <<>>
  /\ mem' = [j \in Job |-> "absent"]
  /\ stale' = {}
  /\ inserting' = {}
  /\ requests' = {}
  /\ disturbed' = disturbed \cup {j \in Job : mem[j] # "absent"}
  /\ UNCHANGED <<row, workerVars, saved, downloads, lost, early>>

-----------------------------------------------------------------------------
Operator == \E j \in Job : Upload(j) \/ Insert(j) \/ InsertFails(j)

Agent == Poll \/ (\E o \in Final : DownloadEnds(o)) \/ Retry \/ GiveUp \/ AgentCrash

Handle(r) == Serve(r) \/ AnswerServe(r) \/ NoteReport(r) \/ WriteReport(r)

Next ==
  \/ Operator \/ Agent
  \/ \E j \in Job : Age(j)
  \/ \E r \in requests : Handle(r)
  \/ Restart

Spec == Init /\ [][Next]_vars

(* The worker loops, downloads end (the HTTP client has a time limit), time   *)
(* passes, queries and requests are answered.                                 *)
Fairness ==
  /\ \A j \in Job : WF_vars(Insert(j)) /\ WF_vars(Age(j))
  /\ WF_vars(Poll)
  /\ WF_vars(\E o \in Final : DownloadEnds(o))
  /\ WF_vars(Live = {} /\ (Retry \/ GiveUp))
  /\ WF_vars(\E r \in Live : Handle(r))

FairSpec == Spec /\ Fairness

-----------------------------------------------------------------------------
(* Properties *)

(* The dashboard shows a file as transferred only if the device has it. *)
CompletedIsSaved ==
  \A j \in Job : mem[j] = "completed" \/ row[j] = "completed" => j \in saved

(* A file is downloaded again only after a download of it went without an    *)
(* answered report: thirty seconds are not too short for a slow download,    *)
(* because the one worker does not ask while it downloads.                   *)
RedownloadNeedsLostReport ==
  \A j \in Job : downloads[j] <= lost[j] + 1

(* When nothing is under way for a job that has ended, its row says how it   *)
(* ended, unless a fault hit it or it was served before it had a row.        *)
Quiet(j) == j \notin inserting /\ \A r \in requests : r.job # j

RowKeepsUp ==
  \A j \in Job : mem[j] \in Final /\ Quiet(j) =>
    row[j] = mem[j] \/ j \in disturbed \/ j \in early

(* Every job ends in the memory, whatever fails on the agent's side: it is   *)
(* served until it is reported.  Only a restart of the server stops that.    *)
EventuallyEnds ==
  \A j \in Job : mem[j] = "pending" ~> mem[j] \in Final \/ restarted

(* docs/runbook/troubleshooting.md:140: "file jobs are downloaded into the   *)
(* configured files directory and completion is posted": a job with a row is *)
(* saved, or its download is reported as failed.                             *)
JobsAreDownloaded ==
  \A j \in Job : row[j] = "pending" ~> j \in saved \/ "failed" \in {row[j], mem[j]}
=============================================================================
