---------------------------- MODULE SessionGrant ----------------------------
(***************************************************************************)
(* One remote access session grant: its row, and the handlers that issue,  *)
(* start and end it (server/src/remoteAccess/grants.js, handlers.js).  An  *)
(* agent's start request is two or three awaited queries, interleaved with *)
(* those of every other request; validity is judged once by the server's   *)
(* clock and once by the database's.                                       *)
(***************************************************************************)
EXTENDS Naturals

CONSTANTS
  Caller,       \* start requests of the agent, first attempts and retries
  Ender         \* end requests of the agent

VARIABLES
  grant,        \* remote_access_session_grants.status; "none" before the INSERT
  holders,      \* start requests answered with a started session
  starting,     \* how far each start request is
  ending,       \* how far each end request is
  appDue,       \* the server's clock is past expires_at
  dbDue,        \* the database's clock is past expires_at
  startedAt,    \* started_at is set
  endedAt,      \* ended_at is set
  issued        \* the connect handler has answered with the token

row == <<grant, startedAt, endedAt>>
clocks == <<appDue, dbDue>>
callers == <<holders, starting, ending, issued>>
grantVars == <<row, clocks, callers>>

-----------------------------------------------------------------------------
Open   == {"granted", "started"}
Over   == {"ended", "failed", "expired"}
Status == {"none"} \cup Open \cup Over
GrantStage == {"idle", "marking", "expiring", "denied", "started"}

GrantTypeOK ==
  /\ grant \in Status
  /\ holders \subseteq Caller
  /\ starting \in [Caller -> GrantStage]
  /\ ending \in [Ender -> {"idle", "done", "missed"}]
  /\ appDue \in BOOLEAN
  /\ dbDue \in BOOLEAN
  /\ startedAt \in BOOLEAN
  /\ endedAt \in BOOLEAN
  /\ issued \in BOOLEAN

GrantInit ==
  /\ grant = "none"
  /\ holders = {}
  /\ starting = [c \in Caller |-> "idle"]
  /\ ending = [e \in Ender |-> "idle"]
  /\ appDue = FALSE
  /\ dbDue = FALSE
  /\ startedAt = FALSE
  /\ endedAt = FALSE
  /\ issued = FALSE

-----------------------------------------------------------------------------
(* createRemoteSessionGrant *)
Create ==
  /\ grant = "none"
  /\ grant' = "granted"
  /\ UNCHANGED <<startedAt, endedAt, clocks, callers>>

(* The desktop session is inserted as well, and the token is handed out.  If *)
(* that INSERT fails, nobody ever has the token of the row.                  *)
Issue ==
  /\ grant # "none"
  /\ ~issued
  /\ issued' = TRUE
  /\ UNCHANGED <<row, clocks, holders, starting, ending>>

(* The three minutes are over; the two clocks need not agree. *)
ServerClock == ~appDue /\ appDue' = TRUE /\ UNCHANGED <<row, dbDue, callers>>
DatabaseClock == ~dbDue /\ dbDue' = TRUE /\ UNCHANGED <<row, appDue, callers>>

To(c, stage) == starting' = [starting EXCEPT ![c] = stage]

(* validateRemoteSessionGrant, the SELECT and what is decided from it. *)
Validate(c) ==
  /\ issued
  /\ starting[c] = "idle"
  /\ \/ grant \notin Open /\ To(c, "denied")
     \/ grant \in Open /\ appDue /\ To(c, "expiring")
     \/ grant \in Open /\ ~appDue /\ To(c, "marking")
  /\ UNCHANGED <<row, clocks, holders, ending, issued>>

(* Its UPDATE to expired, which a grant closed in the meantime refuses. *)
Expire(c) ==
  /\ starting[c] = "expiring"
  /\ grant' = IF grant \in Open THEN "expired" ELSE grant
  /\ To(c, "denied")
  /\ UNCHANGED <<startedAt, endedAt, clocks, holders, ending, issued>>

Mark_WhenOpen(c) ==
  /\ starting[c] = "marking"
  /\ IF grant \in Open /\ ~dbDue
     THEN /\ grant' = "started"
          /\ startedAt' = TRUE
          /\ holders' = holders \cup {c}
          /\ To(c, "started")
     ELSE /\ To(c, "denied")
          /\ UNCHANGED <<grant, startedAt, holders>>
  /\ UNCHANGED <<endedAt, clocks, ending, issued>>

Mark_TrustsValidation(c) ==
  /\ starting[c] = "marking"
  /\ IF grant = "granted"
     THEN /\ grant' = "started"
          /\ startedAt' = TRUE
          /\ holders' = holders \cup {c}
          /\ To(c, "started")
     ELSE /\ To(c, "denied")
          /\ UNCHANGED <<grant, startedAt, holders>>
  /\ UNCHANGED <<endedAt, clocks, ending, issued>>

(* markRemoteSessionStarted: one guarded UPDATE, by the database's clock. *)
Mark(c) ==
  /\ starting[c] = "marking"
  /\ IF grant = "granted" /\ ~dbDue
     THEN /\ grant' = "started"
          /\ startedAt' = TRUE
          /\ holders' = holders \cup {c}
          /\ To(c, "started")
     ELSE /\ To(c, "denied")
          /\ UNCHANGED <<grant, startedAt, holders>>
  /\ UNCHANGED <<endedAt, clocks, ending, issued>>

(* markRemoteSessionEnded: one guarded UPDATE; any other status the agent *)
(* asks for is stored as ended.                                           *)
EndGrant(e) ==
  /\ issued
  /\ ending[e] = "idle"
  /\ IF grant \in Open
     THEN /\ grant' \in {"ended", "failed"}
          /\ endedAt' = TRUE
          /\ ending' = [ending EXCEPT ![e] = "done"]
     ELSE /\ ending' = [ending EXCEPT ![e] = "missed"]
          /\ UNCHANGED <<grant, endedAt>>
  /\ UNCHANGED <<startedAt, clocks, holders, starting, issued>>

-----------------------------------------------------------------------------
GrantNext ==
  \/ Create \/ Issue \/ ServerClock \/ DatabaseClock
  \/ \E c \in Caller : Validate(c) \/ Expire(c) \/ Mark(c)
  \/ \E e \in Ender : EndGrant(e)

GrantSpec == GrantInit /\ [][GrantNext]_grantVars

-----------------------------------------------------------------------------
(* Properties *)

(* The clocks that say the three minutes are over. *)
DueClocks == {k \in {"server", "database"} : IF k = "server" THEN appDue ELSE dbDue}

(* The handlers keep the promise of a grant, two clocks, stale validations    *)
(* and retries notwithstanding.  What a request has decided on the server's   *)
(* clock it carries out later: by then the database's clock may forbid the    *)
(* start, and what it expires was due.                                        *)
Lifecycle ==
  INSTANCE GrantLifecycle
    WITH Caller <- Caller, status <- grant, holders <- holders, due <- DueClocks
KeepsThePromise == Lifecycle!Spec

(* At most one start request is answered with a session: a token shown twice, *)
(* or a request repeated by the agent, starts nothing the second time, though *)
(* the validation lets a started grant pass.                                  *)
AtMostOneHolder == \A c, d \in holders : c = d

(* What the row and its answers say together: a session was handed out if and *)
(* only if started_at is set, and an ended grant has an ended_at that an open *)
(* or expired one never has.                                                  *)
RowTellsTheStory ==
  /\ startedAt <=> holders # {}
  /\ endedAt <=> grant \in {"ended", "failed"}
  /\ grant = "started" => startedAt

(* One holder, and a row that says so. *)
HoldersExplained == AtMostOneHolder /\ RowTellsTheStory
=============================================================================
