--------------------------- MODULE LoginRateLimiter ---------------------------
(***************************************************************************)
(* createLoginRateLimiter (server/src/auth/rate_limit.js), one instance in *)
(* front of the admin login and one in front of the remote-access login.   *)
(*                                                                         *)
(* Its state is a Map from keys to a count, the time of the first failure  *)
(* and the time a lock ends.  With the windows of the code that is one     *)
(* number.  A key is forgotten ten minutes after its first failure; a lock *)
(* is set by a later failure and would last fifteen, so the key is         *)
(* forgotten, and its lock with it, before the lock can end: a key is      *)
(* locked exactly while its count has reached the maximum.  The key of the *)
(* address and the key of the identity are changed together, and one       *)
(* account with one address has equal counts in both.                      *)
(***************************************************************************)
EXTENDS Naturals

CONSTANT MaxAttempts   \* five in the code

ASSUME AttemptsAssumption == MaxAttempts \in Nat \ {0}

Allowed_OffByOne(count) == count < MaxAttempts + 1

(* check: the lock was set by the failure that reached the maximum. *)
Allowed(count) == count < MaxAttempts

(* recordFailure counts on while the key is locked: attempts checked before   *)
(* the lock may still fail.                                                   *)
AfterFailure(count) == count + 1

(* recordSuccess, the end of the window, and a restart forget the key. *)
Forgotten == 0
=============================================================================
