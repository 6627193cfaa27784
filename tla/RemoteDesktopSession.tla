------------------------ MODULE RemoteDesktopSession ------------------------
(***************************************************************************)
(* The status of one remote desktop session (server/src/remoteDesktop):    *)
(* who writes it, after having read what.  The browser's handlers decide   *)
(* on a SELECT and write with an UPDATE that looks at nothing any more;    *)
(* the agent's relay uploads its progress, tries an upload again, and one  *)
(* it has given up on may still be applied.  A start waits in the agent's  *)
(* socket while its loop runs a pushed action or command.  Which relay is  *)
(* cancelled when is the business of RemoteDesktopRelay; here a relay may  *)
(* break or be stopped whenever it likes.                                  *)
(***************************************************************************)
EXTENDS Naturals

CONSTANTS
  MaxAdmits,    \* bound on the browser sockets that are admitted
  MaxTries,     \* StatusUploadPolicy().MaxAttempts
  MaxLost       \* bound on uploads that get no answer and on restarts of the agent

ASSUME MaxAdmitsAssumption == MaxAdmits \in Nat
ASSUME MaxTriesAssumption == MaxTries \in Nat \ {0}
ASSUME SessionFaultsAssumption == MaxLost \in Nat

VARIABLES
  status,       \* remote_desktop_sessions.status
  due,          \* expires_at has passed
  calls,        \* the browser's handlers between their SELECT and their UPDATE
  starts,       \* remote-desktop-start messages the agent has not read
  uploads,      \* the agent's status uploads that are not applied yet
  relay,        \* what the agent's relay of the session is doing
  framed,       \* the agent has had a frame from its helper
  drawn,        \* the page has drawn a frame of the session
  late,         \* calls that had read the row when its status became final
  admits,
  lost

sessionVars == <<status, due, calls, starts, uploads, relay, framed, drawn, late, admits, lost>>

-----------------------------------------------------------------------------
Final  == {"ended", "failed", "expired", "denied"}
Live   == {"waiting_for_agent", "media_starting", "connected"}
Call   == {"admit", "pair", "media-active", "end"}
Report == {"media_starting", "connected", "failed"}
RelayPhase == {"none", "starting", "warming", "confirming", "streaming", "failing"}

(* An upload carries the number of those lost before it, so that two that are *)
(* under way at a time stay two.                                             *)
Upload == [report: Report, try: 1..MaxTries, nr: 0..MaxLost, waiting: BOOLEAN, loaded: BOOLEAN]

SessionTypeOK ==
  /\ status \in Final \cup Live
  /\ due \in BOOLEAN
  /\ calls \subseteq Call
  /\ starts \in Nat
  /\ uploads \subseteq Upload
  /\ relay \in RelayPhase
  /\ framed \in BOOLEAN
  /\ drawn \in BOOLEAN
  /\ late \subseteq Call
  /\ admits \in 0..MaxAdmits
  /\ lost \in 0..MaxLost

(* createRemoteDesktopSession *)
SessionInit ==
  /\ status = "waiting_for_agent"
  /\ due = FALSE
  /\ calls = {}
  /\ starts = 0
  /\ uploads = {}
  /\ relay = "none"
  /\ framed = FALSE
  /\ drawn = FALSE
  /\ late = {}
  /\ admits = 0
  /\ lost = 0

-----------------------------------------------------------------------------
(* Writing and reading the row *)

(* The calls in flight that have read a status this write makes out of date. *)
LateAfter(new, flying) ==
  (late \cap flying) \cup (IF status \notin Final /\ new \in Final THEN flying ELSE {})

(* setRemoteDesktopStatus *)
Write(new) == status' = new /\ late' = LateAfter(new, calls')

(* What a handler reads: a session past its time is expired first, unless it *)
(* is final already, and read as expired either way.                         *)
Seen == IF due THEN "expired" ELSE status
AfterRead == IF due /\ status \notin Final THEN "expired" ELSE status

(* A handler's SELECT, which lets it go on to its UPDATE or not. *)
Load(call, allowed) ==
  /\ call \notin calls
  /\ status' = AfterRead
  /\ calls' = IF allowed THEN calls \cup {call} ELSE calls
  /\ late' = LateAfter(AfterRead, calls)
  /\ UNCHANGED <<due, starts, uploads, relay, framed, drawn, lost>>

TimePasses ==
  /\ ~due
  /\ due' = TRUE
  /\ UNCHANGED <<status, calls, starts, uploads, relay, framed, drawn, late, admits, lost>>

(* GET sessions/:id reads, and no more. *)
Poll == Load("poll", FALSE) /\ UNCHANGED admits

-----------------------------------------------------------------------------
(* The browser *)

(* acceptRemoteDesktopBrowser: the SELECT, ... *)
LoadAdmit ==
  /\ admits < MaxAdmits
  /\ admits' = admits + 1
  /\ Load("admit", Seen \notin Final)

(* ... the start, sent to the agent's socket, and, two awaits after the       *)
(* SELECT, the UPDATE.                                                       *)
Admit ==
  /\ "admit" \in calls
  /\ calls' = (calls \ {"admit"}) \cup {"pair"}
  /\ late' = IF "admit" \in late THEN (late \ {"admit"}) \cup {"pair"} ELSE late
  /\ starts' = starts + 1
  /\ UNCHANGED <<status, due, uploads, relay, framed, drawn, admits, lost>>

(* No agent is connected: the socket is closed again. *)
AdmitNoAgent ==
  /\ "admit" \in calls
  /\ calls' = calls \ {"admit"}
  /\ late' = late \ {"admit"}
  /\ UNCHANGED <<status, due, starts, uploads, relay, framed, drawn, admits, lost>>

Pair_Connected ==
  /\ "pair" \in calls
  /\ calls' = calls \ {"pair"}
  /\ Write("connected")
  /\ UNCHANGED <<due, starts, uploads, relay, framed, drawn, admits, lost>>

Pair ==
  /\ "pair" \in calls
  /\ calls' = calls \ {"pair"}
  /\ Write("media_starting")
  /\ UNCHANGED <<due, starts, uploads, relay, framed, drawn, admits, lost>>

(* The page draws what the relay streams, and says so. *)
Draw ==
  /\ relay = "streaming"
  /\ ~drawn
  /\ drawn' = TRUE
  /\ UNCHANGED <<status, due, calls, starts, uploads, relay, framed, late, admits, lost>>

LoadMediaActive_Unchecked ==
  /\ drawn
  /\ Load("media-active", TRUE)
  /\ UNCHANGED admits

LoadMediaActive ==
  /\ drawn
  /\ Load("media-active", Seen \in {"media_starting", "connected"})
  /\ UNCHANGED admits

MediaActive ==
  /\ "media-active" \in calls
  /\ calls' = calls \ {"media-active"}
  /\ Write("connected")
  /\ UNCHANGED <<due, starts, uploads, relay, framed, drawn, admits, lost>>

LoadEnd == Load("end", TRUE) /\ UNCHANGED admits

End ==
  /\ "end" \in calls
  /\ calls' = calls \ {"end"}
  /\ Write("ended")
  /\ UNCHANGED <<due, starts, uploads, relay, framed, drawn, admits, lost>>

-----------------------------------------------------------------------------
(* The agent's relay *)

NewUpload(report, try, before) ==
  [report |-> report, try |-> try, nr |-> before, waiting |-> TRUE, loaded |-> FALSE]

(* remote-desktop-start is read, which may be long after it was sent; a relay *)
(* of the session that still runs makes the agent drop it.                   *)
TakeStart ==
  /\ starts > 0
  /\ starts' = starts - 1
  /\ IF relay = "none"
     THEN /\ relay' = "starting"
          /\ uploads' = uploads \cup {NewUpload("media_starting", 1, lost)}
     ELSE UNCHANGED <<relay, uploads>>
  /\ UNCHANGED <<status, due, calls, framed, drawn, late, admits, lost>>

(* The connection it was sent on is gone before the agent has read it. *)
LoseStart ==
  /\ starts > 0
  /\ starts' = starts - 1
  /\ UNCHANGED <<status, due, calls, uploads, relay, framed, drawn, late, admits, lost>>

Waiting == {u \in uploads : u.waiting}

(* Nobody waits for the answer any more; the server may still have the upload. *)
Abandoned(kept) ==
  (uploads \ Waiting) \cup (IF kept THEN {[u EXCEPT !.waiting = FALSE] : u \in Waiting} ELSE {})

Lose == lost < MaxLost /\ lost' = lost + 1

Answered == CASE relay = "starting"   -> "warming"
              [] relay = "confirming" -> "streaming"
              [] OTHER                -> "none"

(* The agent's handler reads (and may expire) the session, ... *)
LoadUpload(u) ==
  /\ u \in uploads
  /\ ~u.loaded
  /\ status' = AfterRead
  /\ uploads' = (uploads \ {u}) \cup {[u EXCEPT !.loaded = TRUE]}
  /\ late' = LateAfter(AfterRead, calls)
  /\ UNCHANGED <<due, calls, starts, relay, framed, drawn, admits, lost>>

(* ... and writes what the agent says, whatever it has read. *)
ApplyUpload(u) ==
  /\ u \in uploads
  /\ u.loaded
  /\ uploads' = uploads \ {u}
  /\ UNCHANGED calls
  /\ Write(u.report)
  /\ relay' = IF u.waiting THEN Answered ELSE relay
  /\ UNCHANGED <<due, starts, framed, drawn, admits, lost>>

(* DoBackend sends an upload that got no answer again. *)
Retry ==
  /\ Lose
  /\ \E u \in Waiting, kept \in BOOLEAN :
       /\ u.try < MaxTries
       /\ uploads' = Abandoned(kept) \cup {NewUpload(u.report, u.try + 1, lost')}
  /\ UNCHANGED <<status, due, calls, starts, relay, framed, drawn, late, admits>>

(* The last attempt fails, or one fails in a way that is not retried.  A lost *)
(* progress report ends the relay, a lost "failed" is the end of it.         *)
GiveUp ==
  /\ relay \in {"starting", "confirming", "failing"}
  /\ Lose
  /\ relay' = IF relay = "failing" THEN "none" ELSE "failing"
  /\ \E kept \in BOOLEAN :
       uploads' = Abandoned(kept)
                    \cup (IF relay = "failing" THEN {} ELSE {NewUpload("failed", 1, lost')})
  /\ UNCHANGED <<status, due, calls, starts, framed, drawn, late, admits>>

(* The first frame arrives: it is sent on after "connected" is uploaded. *)
FirstFrame ==
  /\ relay = "warming"
  /\ relay' = "confirming"
  /\ uploads' = uploads \cup {NewUpload("connected", 1, lost)}
  /\ framed' = TRUE
  /\ UNCHANGED <<status, due, calls, starts, drawn, late, admits, lost>>

(* The helper, the pipe or the connection breaks, or the relay is cancelled  *)
(* while it launches or reads.                                               *)
Break ==
  /\ relay \in {"warming", "streaming"}
  /\ relay' = "failing"
  /\ uploads' = uploads \cup {NewUpload("failed", 1, lost)}
  /\ UNCHANGED <<status, due, calls, starts, framed, drawn, late, admits, lost>>

(* Cancelled between two messages of the helper: nothing is uploaded. *)
Stop ==
  /\ relay \in {"warming", "streaming"}
  /\ relay' = "none"
  /\ UNCHANGED <<status, due, calls, starts, uploads, framed, drawn, late, admits, lost>>

(* The agent's process ends, and with it the relay and its connection. *)
AgentRestarts ==
  /\ Lose
  /\ relay' = "none"
  /\ starts' = 0
  /\ \E kept \in BOOLEAN : uploads' = Abandoned(kept)
  /\ UNCHANGED <<status, due, calls, framed, drawn, late, admits>>

-----------------------------------------------------------------------------
SessionNext ==
  \/ TimePasses \/ Poll
  \/ LoadAdmit \/ Admit \/ AdmitNoAgent \/ Pair
  \/ Draw \/ LoadMediaActive \/ MediaActive \/ LoadEnd \/ End
  \/ TakeStart \/ LoseStart
  \/ \E u \in uploads : LoadUpload(u) \/ ApplyUpload(u)
  \/ Retry \/ GiveUp \/ FirstFrame \/ Break \/ Stop \/ AgentRestarts

SessionSpec == SessionInit /\ [][SessionNext]_sessionVars

-----------------------------------------------------------------------------
(* Properties *)

(* The session is over and nothing of it is under way any more: no start in   *)
(* the agent's socket, no relay, no upload, no handler but one that ends it.  *)
AtRest ==
  /\ status \in Final
  /\ starts = 0
  /\ relay = "none"
  /\ uploads = {}
  /\ late \subseteq {"end"}

(* A browser cannot bring a final session back.  A status that has become     *)
(* final becomes another one only by an upload of the agent that the server   *)
(* holds, or by a handler that had read the row before; a start is sent for a *)
(* final session only by such a handler.  A start sent earlier may be read    *)
(* after the end, and starts a relay even then; but once such leftovers are   *)
(* gone the session stays final, and without a relay, for ever.               *)
FinalForBrowsers ==
  [][/\ status \in Final /\ status' \notin Final
          => (\E u \in uploads \ uploads' : u.loaded) \/ (calls \ calls') \cap late # {}
     /\ status \in Final /\ starts' > starts => "admit" \in late
     /\ AtRest => AtRest']_sessionVars

(* "connected" is never shown for a session that has not had a frame of the   *)
(* desktop, by whatever order of the three writers.                           *)
ConnectedMeansFrame == status = "connected" => framed
=============================================================================
