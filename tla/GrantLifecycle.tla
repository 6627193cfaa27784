--------------------------- MODULE GrantLifecycle ---------------------------
(***************************************************************************)
(* What a remote access session grant promises, whoever calls in whatever  *)
(* order (server/src/remoteAccess/grants.js): it is issued once, starts at *)
(* most one session and none after its time, expires only after its time,  *)
(* and once it has ended, failed or expired it stays so.                   *)
(***************************************************************************)
CONSTANT Caller    \* the requests that try to start a session with it

VARIABLES
  status,    \* of the grant
  holders,   \* the callers whose session it started
  due        \* the clocks that say its time is over

grantVars == <<status, holders, due>>

Clock == {"server", "database"}

Init ==
  /\ status = "none"
  /\ holders = {}
  /\ due = {}

Issue ==
  /\ status = "none"
  /\ status' = "granted"
  /\ UNCHANGED <<holders, due>>

Passes(k) ==
  /\ due' = due \cup {k}
  /\ UNCHANGED <<status, holders>>

(* The database's clock decides whether a session may still be started, ... *)
Start(c) ==
  /\ status = "granted"
  /\ "database" \notin due
  /\ status' = "started"
  /\ holders' = {c}
  /\ UNCHANGED due

End ==
  /\ status \in {"granted", "started"}
  /\ status' \in {"ended", "failed"}
  /\ UNCHANGED <<holders, due>>

(* ... the server's whether the grant is recorded as expired. *)
Expire ==
  /\ status \in {"granted", "started"}
  /\ "server" \in due
  /\ status' = "expired"
  /\ UNCHANGED <<holders, due>>

Next ==
  \/ Issue \/ End \/ Expire
  \/ \E k \in Clock : Passes(k)
  \/ \E c \in Caller : Start(c)

Spec == Init /\ [][Next]_grantVars
=============================================================================
