---------------------------- MODULE UserSessions ----------------------------
(***************************************************************************)
(* The sessions of one account: logins, and the requests of administrators *)
(* that disable, enable or delete it or set its password.  The row is in   *)
(* the database; a key for each session and the set of the ids of the      *)
(* account's sessions are in Redis; a request changes both, one command at *)
(* a time.                                                                 *)
(*                                                                         *)
(* The row lock is that of the UPDATE both kinds of request flush before   *)
(* they turn to Redis.  The counter of failed logins only lets a login     *)
(* fail, which LoginDies does at any point; local accounts have all the    *)
(* operations, and those of the personnel system have some of them.        *)
(***************************************************************************)
EXTENDS Naturals, FiniteSets

CONSTANTS
  Logins,    \* requests to log in, each with the session it creates
  Changes,   \* requests of administrators
  Nobody     \* nobody

VARIABLES
  row,       \* the row of the account, as committed
  holder,    \* the request that has its row lock
  keys,      \* the sessions that have their key
  indexed,    \* the set bip:user_sessions
  login,     \* [Logins -> how far it is, and the password it read]
  change,    \* [Changes -> how far, what it does and read, whom it still has to end]
  missed     \* history: sessions nobody could be asked to end (see below)

sessionVars == <<row, holder, keys, indexed, login, change, missed>>

Kinds == {"disable", "enable", "reset", "delete"}

SessionTypeOK ==
  /\ row \in [exists : BOOLEAN, active : BOOLEAN, password : 0..Cardinality(Changes)]
  /\ holder \in Logins \cup Changes \cup {Nobody}
  /\ keys \subseteq Logins /\ indexed \subseteq Logins /\ missed \subseteq Logins
  /\ login \in [Logins -> [at : {"idle", "verified", "locked", "stored", "indexed", "in", "out"},
                           seen : 0..Cardinality(Changes)]]
  /\ change \in [Changes -> [at : {"idle", "read", "clearing", "cleared", "done"},
                             kind : Kinds, active : BOOLEAN, doomed : SUBSET Logins]]

SessionInit ==
  /\ row \in [exists : {TRUE}, active : BOOLEAN, password : {0}]
  /\ holder = Nobody /\ keys = {} /\ indexed = {} /\ missed = {}
  /\ login = [l \in Logins |-> [at |-> "idle", seen |-> 0]]
  /\ change = [c \in Changes |-> [at |-> "idle", kind |-> "enable", active |-> TRUE, doomed |-> {}]]

\* The transaction of p ends, and its row lock with it.
Unlocked(p) == IF holder = p THEN Nobody ELSE holder

-----------------------------------------------------------------------------
(* A login: find_local_user, authenticate_local_user, _issue_user_session. *)

LoginGoes(l, from, to) == login[l].at = from /\ login' = [login EXCEPT ![l].at = to]

\* The second query finds the object the first has loaded and does not read its
\* password again.
LoginVerifies(l) ==
  /\ login[l].at = "idle" /\ row.exists /\ row.active
  /\ login' = [login EXCEPT ![l] = [at |-> "verified", seen |-> row.password]]
  /\ UNCHANGED <<row, holder, keys, indexed, change, missed>>

\* The query for the roles flushes the UPDATE of last_login_at, which waits for the
\* row; without the row it raises.
LoginLocks(l) ==
  /\ holder = Nobody
  /\ IF row.exists THEN LoginGoes(l, "verified", "locked") /\ holder' = l
                   ELSE LoginGoes(l, "verified", "out") /\ holder' = holder
  /\ UNCHANGED <<row, keys, indexed, change, missed>>

\* create_session: SET, then SADD.
LoginStores(l) ==
  /\ LoginGoes(l, "locked", "stored") /\ keys' = keys \cup {l}
  /\ UNCHANGED <<row, holder, indexed, change, missed>>
LoginLists(l) ==
  /\ LoginGoes(l, "stored", "indexed") /\ indexed' = indexed \cup {l}
  /\ UNCHANGED <<row, holder, keys, change, missed>>

\* The commit, and the cookie with the answer.
LoginCommits(l) ==
  /\ LoginGoes(l, "indexed", "in") /\ holder' = Unlocked(l)
  /\ UNCHANGED <<row, keys, indexed, change, missed>>

\* A wrong password, a fault of Redis or of the database: no cookie is set, and
\* what is in Redis stays there.
LoginDies(l) ==
  /\ \E at \in {"verified", "locked", "stored", "indexed"} : LoginGoes(l, at, "out")
  /\ holder' = Unlocked(l)
  /\ UNCHANGED <<row, keys, indexed, change, missed>>

-----------------------------------------------------------------------------
(* The end of a session, and of the set, which outlives its sessions.      *)

\* Two hours without a request, twelve hours after the login.
SessionExpires(l) ==
  /\ l \in keys /\ keys' = keys \ {l}
  /\ UNCHANGED <<row, holder, indexed, login, change, missed>>
Logout(l) ==
  /\ login[l].at = "in" /\ l \in keys
  /\ keys' = keys \ {l} /\ indexed' = indexed \ {l}
  /\ UNCHANGED <<row, holder, login, change, missed>>
ListExpires ==
  /\ indexed # {} /\ indexed \cap keys = {} /\ indexed' = {}
  /\ UNCHANGED <<row, holder, keys, login, change, missed>>

-----------------------------------------------------------------------------
(* update_status, reset_local_user_password and delete_local_user.         *)

\* Does the request change the row?  A password has a new hash every time.
Writes(c) ==
  \/ change[c].kind \in {"reset", "delete"}
  \/ change[c].active # (change[c].kind = "enable")

\* Only the deletion reads the row FOR UPDATE.
ChangeReads(c, kind) ==
  /\ change[c].at = "idle" /\ row.exists
  /\ change' = [change EXCEPT ![c] = [at |-> "read", kind |-> kind, active |-> row.active, doomed |-> {}]]
  /\ kind = "delete" => holder = Nobody
  /\ holder' = IF kind = "delete" THEN c ELSE holder
  /\ UNCHANGED <<row, keys, indexed, login, missed>>

\* Mutant: the sessions are ended before the UPDATE is flushed.
ListThenFlush(c) ==
  /\ change[c].at = "read"
  /\ change' = [change EXCEPT ![c].at = "clearing", ![c].doomed = indexed]
  /\ UNCHANGED <<row, holder, keys, indexed, login, missed>>

\* flush, which waits for the row if there is anything to write, and SMEMBERS,
\* which an enabling request leaves out.  Without the row the flush raises.
ChangeFlushes(c) ==
  /\ change[c].at = "read"
  /\ Writes(c) => holder \in {Nobody, c}
  /\ LET gone == Writes(c) /\ ~row.exists IN
     /\ change' = [change EXCEPT
          ![c].at = IF gone THEN "done" ELSE IF change[c].kind = "enable" THEN "cleared" ELSE "clearing",
          ![c].doomed = IF gone \/ change[c].kind = "enable" THEN {} ELSE indexed]
     /\ holder' = IF Writes(c) /\ ~gone THEN c ELSE holder
  /\ UNCHANGED <<row, keys, indexed, login, missed>>

\* destroy_user_sessions: DEL of each id that was read, then of the set.  A request
\* that wrote nothing holds no lock, and the set may have grown.
ChangeEnds(c, l) ==
  /\ change[c].at = "clearing" /\ l \in change[c].doomed
  /\ keys' = keys \ {l} /\ change' = [change EXCEPT ![c].doomed = @ \ {l}]
  /\ UNCHANGED <<row, holder, indexed, login, missed>>
ChangeForgets(c) ==
  /\ change[c].at = "clearing" /\ change[c].doomed = {}
  /\ change' = [change EXCEPT ![c].at = "cleared"] /\ indexed' = {}
  /\ missed' = IF holder = c THEN missed ELSE missed \cup (indexed \cap keys)
  /\ UNCHANGED <<row, holder, keys, login>>

\* The commit.  It passes by the logins that have read the row and wait for it.
ChangeCommits(c) ==
  /\ change[c].at = "cleared" /\ change' = [change EXCEPT ![c].at = "done"]
  /\ holder' = Unlocked(c)
  /\ row' = IF ~Writes(c) THEN row
            ELSE CASE change[c].kind = "delete" -> [row EXCEPT !.exists = FALSE]
                   [] change[c].kind = "reset"  -> [row EXCEPT !.password = @ + 1]
                   [] OTHER -> [row EXCEPT !.active = change[c].kind = "enable"]
  /\ missed' = IF Writes(c) THEN missed \cup {l \in Logins : login[l].at = "verified"} ELSE missed
  /\ UNCHANGED <<keys, indexed, login>>

\* A fault rolls the row back; the sessions that are ended stay so.
ChangeDies(c) ==
  /\ change[c].at \in {"read", "clearing", "cleared"}
  /\ change' = [change EXCEPT ![c].at = "done"] /\ holder' = Unlocked(c)
  /\ UNCHANGED <<row, keys, indexed, login, missed>>

-----------------------------------------------------------------------------
LoginNext == \E l \in Logins :
  \/ LoginVerifies(l) \/ LoginLocks(l) \/ LoginStores(l) \/ LoginLists(l) \/ LoginCommits(l)
  \/ LoginDies(l) \/ SessionExpires(l) \/ Logout(l)
ChangeNext == \E c \in Changes :
  \/ \E kind \in Kinds : ChangeReads(c, kind)
  \/ ChangeFlushes(c) \/ ChangeForgets(c) \/ ChangeCommits(c) \/ ChangeDies(c)
  \/ \E l \in Logins : ChangeEnds(c, l)

SessionNext == LoginNext \/ ChangeNext \/ ListExpires

SessionSpec == SessionInit /\ [][SessionNext]_sessionVars

\* A session the user has was opened with the password of today by an account that
\* exists and is active, and the next administrator who wants to end it finds it:
\* nothing closes these two gaps but the order of UPDATE, Redis and commit.  Missed
\* are the sessions of logins that read the row before such a commit and wrote it
\* afterwards, and those that began while a request that had nothing to write
\* emptied the set without a lock.
SessionsAreCurrent ==
  \A l \in Logins : login[l].at = "in" /\ l \in keys /\ l \notin missed =>
    /\ row.exists /\ row.active /\ login[l].seen = row.password
    /\ l \in indexed
=============================================================================
