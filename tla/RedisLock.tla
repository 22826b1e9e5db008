------------------------------ MODULE RedisLock ------------------------------
(***************************************************************************)
(* The Redis lock of services/powerbi/lock.py, which the mail worker, the  *)
(* dataset refresh and the workspace collector share.                      *)
(*                                                                         *)
(* A table of locks is a function from keys to the token stored under the  *)
(* key, or Free when the key does not exist.  The TTL is not a number: a   *)
(* key that exists may expire at any moment, which is what a holder that   *)
(* is slow, stalled or dead sees.                                          *)
(***************************************************************************)
CONSTANT Free   \* the value of a lock key that does not exist

\* SET key token NX EX ttl succeeds only when the key does not exist.
Acquirable(locks, k) == locks[k] = Free

\* The table after a SET ... NX that succeeded.
Acquired(locks, k, token) == [locks EXCEPT ![k] = token]

\* The table after the TTL of k ran out.
Expired(locks, k) == [locks EXCEPT ![k] = Free]

\* Faulty variant: DEL key, without comparing the token first.
DeletedAnyway(locks, k, token) == [locks EXCEPT ![k] = Free]

\* The table after the Lua script: the key is deleted only by the caller
\* whose token it still holds.
Released(locks, k, token) ==
    IF locks[k] = token THEN [locks EXCEPT ![k] = Free] ELSE locks

=============================================================================
