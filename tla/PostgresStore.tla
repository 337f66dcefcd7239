--------------------------- MODULE PostgresStore ----------------------------
(***************************************************************************)
(* store/postgres: every method is one or two SQL statements, each on a     *)
(* connection taken from the pool for that statement alone.  pgx gives the  *)
(* connection back with the outcome of an Exec or a QueryRow; ListKeys      *)
(* holds its own while it reads the rows.  A statement is                   *)
(* atomic: the tables have primary keys, foreign keys and a unique key_hash *)
(* (0001_init.up.sql), and an UPDATE that waited for a row re-evaluates its *)
(* WHERE clause on the row's new version.  The timestamp a statement writes *)
(* is read from the clock before the statement waits for its connection.    *)
(***************************************************************************)
EXTENDS Store, FiniteSets

CONSTANTS Clients,    \* goroutines calling the store
          Requests,   \* the calls they may make
          Faults,     \* a connection may fail before or after a statement ran,
                      \* and a stored row may not decode
          MaxConns,   \* size of the pool
          MaxTime     \* bound on the clock

ASSUME PoolAssumption == MaxConns \in Nat \ {0}

VARIABLES workspaces, apis, keys,
          updatedAt,    \* keys.updated_at
          busy,         \* the clients whose call holds a connection
          call,         \* each client's call
          at,           \* the s.now() each client's call passes
          now

vars == <<workspaces, apis, keys, updatedAt, busy, call, at, now>>
tables == <<workspaces, apis, keys, updatedAt>>

\* Phases: "called" and "again" wait for a connection for the first and for
\* the second statement; "first" and "second" have one, and so has "rows",
\* where ListKeys reads its rows.  A call whose second statement is a mere
\* read-back has taken effect with its first, a ListKeys with its query.
Phase(c) ==
    LET p == call[c].phase IN
    IF p \in {"idle", "applied"} THEN p
    ELSE IF \/ p = "rows"
            \/ p \in {"again", "second"} /\ call[c].req.op = "RotateKey" THEN "applied"
    ELSE "called"

Contract == INSTANCE StoreContract WITH
    ReadBack <- TRUE,
    call <- [c \in Clients |-> [call[c] EXCEPT !.phase = Phase(c)]]

ASSUME RequestsAssumption == Requests \subseteq Contract!Request

-----------------------------------------------------------------------------
Init ==
    /\ workspaces = {} /\ apis = EmptyTable /\ keys = EmptyTable
    /\ updatedAt = EmptyTable
    /\ busy = {} /\ now = 0
    /\ call = [c \in Clients |-> Contract!NotCalled]
    /\ at = [c \in Clients |-> 0]

\* The method is entered and reads the clock, which has moved on meanwhile.
Invoke(c) ==
    /\ call[c].phase = "idle"
    /\ \E r \in Requests :
          /\ Contract!Callable(r)
          /\ call' = [call EXCEPT ![c].phase = "called", ![c].req = r]
    /\ now' \in now .. MaxTime
    /\ at' = [at EXCEPT ![c] = now']
    /\ UNCHANGED <<tables, busy>>

Acquire(c) ==
    /\ Cardinality(busy) < MaxConns
    /\ busy' = busy \cup {c}
    /\ \/ /\ call[c].phase = "called"
          /\ call' = [call EXCEPT ![c].phase = "first"]
       \/ /\ call[c].phase = "again"
          /\ call' = [call EXCEPT ![c].phase = "second"]
    /\ UNCHANGED <<tables, at, now>>

Return(c) ==
    /\ call[c].phase = "applied"
    /\ call' = [call EXCEPT ![c] = Contract!NotCalled]
    /\ at' = [at EXCEPT ![c] = 0]
    /\ UNCHANGED <<tables, busy, now>>

Running(c, op) == call[c].phase = "first" /\ call[c].req.op = op

\* The method moves on.
Move(c, phase, err, val) ==
    /\ call' = [call EXCEPT ![c].phase = phase, ![c].res = Contract!Response(err, val)]
    /\ UNCHANGED <<at, now>>

\* Mutant: the two statements share a transaction: the first's connection is
\* kept while the method waits for another.
HoldAndWait(c, phase, err, val) ==
    /\ Move(c, phase, err, val)
    /\ busy' = IF phase = "again" THEN busy ELSE busy \ {c}

\* A statement's outcome is read, and its connection is back in the pool.
Done(c, phase, err, val) ==
    /\ Move(c, phase, err, val)
    /\ busy' = busy \ {c}

-----------------------------------------------------------------------------
(* First statements.                                                        *)

CreateWorkspace(c) ==
    /\ Running(c, "CreateWorkspace")
    /\ workspaces' = workspaces \cup {call[c].req.id}
    /\ Done(c, "applied", "nil", Nil)
    /\ UNCHANGED <<apis, keys, updatedAt>>

\* INSERT INTO apis; a missing workspace is a foreign-key violation.
CreateAPI(c) ==
    /\ Running(c, "CreateAPI")
    /\ LET r == call[c].req IN
       IF r.row.workspace \notin workspaces
       THEN Done(c, "applied", "ErrNotFound", Nil) /\ UNCHANGED apis
       ELSE apis' = Put(apis, r.id, r.row) /\ Done(c, "applied", "nil", Nil)
    /\ UNCHANGED <<workspaces, keys, updatedAt>>

\* keys_key_hash_unique: the hash is some other row's.
UniqueViolation(id, h) == \E i \in DOMAIN keys \ {id} : keys[i].hash = h

\* INSERT INTO keys.  A row that violates both constraints is rejected for
\* its hash: the unique index is checked by the insertion itself, foreign
\* keys by triggers after it.
CreateKey(c) ==
    /\ Running(c, "CreateKey")
    /\ LET r == call[c].req IN
       \/ /\ UniqueViolation(r.id, r.row.hash)
          /\ Done(c, "applied", "ErrConflict", Nil)
          /\ UNCHANGED <<keys, updatedAt>>
       \/ /\ ~UniqueViolation(r.id, r.row.hash) /\ r.row.api \notin DOMAIN apis
          /\ Done(c, "applied", "ErrNotFound", Nil)
          /\ UNCHANGED <<keys, updatedAt>>
       \/ /\ ~UniqueViolation(r.id, r.row.hash) /\ r.row.api \in DOMAIN apis
          /\ keys' = Put(keys, r.id, r.row)
          /\ updatedAt' = Put(updatedAt, r.id, at[c])
          /\ Done(c, "applied", "nil", Nil)
    /\ UNCHANGED <<workspaces, apis>>

\* UPDATE ... RETURNING 1, also of a key that is revoked already.
RevokeKey(c) ==
    /\ Running(c, "RevokeKey")
    /\ LET id == call[c].req.id IN
       IF id \notin DOMAIN keys
       THEN Done(c, "applied", "ErrNotFound", Nil) /\ UNCHANGED <<keys, updatedAt>>
       ELSE /\ keys' = [keys EXCEPT ![id].enabled = FALSE]
            /\ updatedAt' = [updatedAt EXCEPT ![id] = at[c]]
            /\ Done(c, "applied", "nil", Nil)
    /\ UNCHANGED <<workspaces, apis>>

\* UPDATE keys SET key_hash; how many rows it met is not looked at.  What the
\* method will return is the contract's until it has read the key back.
RotateKey(c) ==
    /\ Running(c, "RotateKey")
    /\ LET r == call[c].req IN
       \/ /\ r.id \notin DOMAIN keys
          /\ Done(c, "again", "ErrNotFound", Nil)
          /\ UNCHANGED <<keys, updatedAt>>
       \/ /\ r.id \in DOMAIN keys /\ UniqueViolation(r.id, r.hash)
          /\ Done(c, "applied", "ErrConflict", Nil)
          /\ UNCHANGED <<keys, updatedAt>>
       \/ /\ r.id \in DOMAIN keys /\ ~UniqueViolation(r.id, r.hash)
          /\ keys' = [keys EXCEPT ![r.id].hash = r.hash]
          /\ updatedAt' = [updatedAt EXCEPT ![r.id] = at[c]]
          /\ Done(c, "again", "nil", [keys[r.id] EXCEPT !.hash = r.hash])
    /\ UNCHANGED <<workspaces, apis>>

TouchLastVerified(c) ==
    /\ Running(c, "TouchLastVerified")
    /\ LET r == call[c].req IN
       IF r.id \notin DOMAIN keys
       THEN Done(c, "applied", "ErrNotFound", Nil) /\ UNCHANGED keys
       ELSE /\ keys' = [keys EXCEPT ![r.id].lastVerifiedAt = r.at]
            /\ Done(c, "applied", "nil", Nil)
    /\ UNCHANGED <<workspaces, apis, updatedAt>>

\* Mutant: the last credit is kept: remaining_uses > 1.
DecrementAboveOne(c) ==
    /\ Running(c, "DecrementRemainingUses")
    /\ LET id == call[c].req.id IN
       IF id \in DOMAIN keys /\ keys[id].remaining > 1
       THEN /\ keys' = [keys EXCEPT ![id].remaining = @ - 1]
            /\ updatedAt' = [updatedAt EXCEPT ![id] = at[c]]
            /\ Done(c, "applied", "nil", keys[id].remaining - 1)
       ELSE Done(c, "again", "nil", Nil) /\ UNCHANGED <<keys, updatedAt>>
    /\ UNCHANGED <<workspaces, apis>>

\* UPDATE ... WHERE remaining_uses > 0; no row leads to the second statement.
DecrementRemainingUses(c) ==
    /\ Running(c, "DecrementRemainingUses")
    /\ LET id == call[c].req.id IN
       IF id \in DOMAIN keys /\ keys[id].remaining > 0
       THEN /\ keys' = [keys EXCEPT ![id].remaining = @ - 1]
            /\ updatedAt' = [updatedAt EXCEPT ![id] = at[c]]
            /\ Done(c, "applied", "nil", keys[id].remaining - 1)
       ELSE Done(c, "again", "nil", Nil) /\ UNCHANGED <<keys, updatedAt>>
    /\ UNCHANGED <<workspaces, apis>>

GetWorkspace(c) ==
    /\ Running(c, "GetWorkspace")
    /\ LET id == call[c].req.id IN
       IF id \in workspaces THEN Done(c, "applied", "nil", id)
       ELSE Done(c, "applied", "ErrNotFound", Nil)
    /\ UNCHANGED tables

GetAPI(c) ==
    /\ Running(c, "GetAPI")
    /\ LET id == call[c].req.id IN
       IF id \in DOMAIN apis THEN Done(c, "applied", "nil", apis[id])
       ELSE Done(c, "applied", "ErrNotFound", Nil)
    /\ UNCHANGED tables

GetKeyByID(c) ==
    /\ Running(c, "GetKeyByID")
    /\ LET id == call[c].req.id IN
       IF id \in DOMAIN keys THEN Done(c, "applied", "nil", keys[id])
       ELSE Done(c, "applied", "ErrNotFound", Nil)
    /\ UNCHANGED tables

GetKeyByHash(c) ==
    /\ Running(c, "GetKeyByHash")
    /\ LET found == KeysWithHash(keys, call[c].req.hash) IN
       \/ found = {} /\ Done(c, "applied", "ErrNotFound", Nil)
       \/ \E id \in found : Done(c, "applied", "nil", keys[id])
    /\ UNCHANGED tables

-----------------------------------------------------------------------------
(* The rows of ListKeys.                                                    *)

\* The query has run; its rows stay open, and the connection with them.
ListKeys(c) ==
    /\ Running(c, "ListKeys")
    /\ Move(c, "rows", "nil", KeysOf(keys, call[c].req.api))
    /\ UNCHANGED <<tables, busy>>

\* rows.Next has returned false, which closes them.
RowsRead(c) ==
    /\ call[c].phase = "rows"
    /\ Done(c, "applied", "nil", call[c].res.val)
    /\ UNCHANGED tables

\* Mutant: the deferred rows.Close is missing.
RowsLeftOpen(c) ==
    /\ Faults
    /\ call[c].phase = "rows" /\ DOMAIN call[c].res.val # {}
    /\ Move(c, "applied", "err", Nil)
    /\ UNCHANGED <<tables, busy>>

\* A row's limit_refs do not decode: the method returns in the middle of the
\* rows, and the deferred rows.Close gives the connection back.
DecodeFails(c) ==
    /\ Faults
    /\ call[c].phase = "rows" /\ DOMAIN call[c].res.val # {}
    /\ Done(c, "applied", "err", Nil)
    /\ UNCHANGED tables

-----------------------------------------------------------------------------
(* Second statements.                                                       *)

\* RotateKey reads the key back.
RotateReadBack(c) ==
    /\ call[c].phase = "second" /\ call[c].req.op = "RotateKey"
    /\ LET id == call[c].req.id IN
       IF id \in DOMAIN keys THEN Done(c, "applied", "nil", keys[id])
       ELSE Done(c, "applied", "ErrNotFound", Nil)
    /\ UNCHANGED tables

\* DecrementRemainingUses finds out why there was nothing to decrement.
DecrementReason(c) ==
    /\ call[c].phase = "second" /\ call[c].req.op = "DecrementRemainingUses"
    /\ LET id == call[c].req.id IN
       \/ /\ id \notin DOMAIN keys
          /\ Done(c, "applied", "ErrNotFound", Nil)
       \/ /\ id \in DOMAIN keys /\ keys[id].remaining < 0
          /\ Done(c, "applied", "nil", -1)
       \/ /\ id \in DOMAIN keys /\ keys[id].remaining >= 0
          /\ Done(c, "applied", "ErrDepleted", Nil)
    /\ UNCHANGED tables

Statement(c) ==
    \/ CreateWorkspace(c) \/ CreateAPI(c) \/ CreateKey(c)
    \/ RevokeKey(c) \/ RotateKey(c) \/ RotateReadBack(c)
    \/ TouchLastVerified(c) \/ DecrementRemainingUses(c) \/ DecrementReason(c)
    \/ GetWorkspace(c) \/ GetAPI(c) \/ GetKeyByID(c) \/ GetKeyByHash(c)
    \/ ListKeys(c) \/ RowsRead(c)

-----------------------------------------------------------------------------
(* The environment.                                                         *)

\* No connection, or a connection that breaks before the statement ran or
\* while its rows are read.
FailBefore(c) ==
    /\ Faults
    /\ call[c].phase \in {"called", "first", "rows", "again", "second"}
    /\ Done(c, "applied", "err", Nil)
    /\ UNCHANGED tables

\* The statement of a call that is about to return has run, and the
\* connection breaks, or the row fails to decode, before its outcome is read.
FailAfter(c) ==
    /\ Faults
    /\ call[c].phase = "applied"
    /\ Done(c, "applied", "err", Nil)
    /\ UNCHANGED tables

Step(c) == Acquire(c) \/ Statement(c) \/ Return(c)

Fault(c) == FailBefore(c) \/ FailAfter(c) \/ DecodeFails(c)

Next == \E c \in Clients : Invoke(c) \/ Step(c) \/ Fault(c)

Spec == Init /\ [][Next]_vars

\* Statements end, methods return, and the pool serves its waiters in order.
Fairness == \A c \in Clients : WF_vars(Statement(c) \/ Return(c)) /\ SF_vars(Acquire(c))

FairSpec == Spec /\ Fairness

-----------------------------------------------------------------------------
\* postgres.Store behaves as the store contract says, call by call, although
\* two of its methods are two statements with other calls in between; only
\* the key RotateKey returns may be as of a later instant (ReadBack).
Refines == Contract!Spec

\* A call holds a connection exactly while a statement of its own runs or its
\* rows are read: a method that has returned, by whichever way out, or that
\* waits for another connection holds none.
ConnectionsReturned ==
    busy = {c \in Clients : call[c].phase \in {"first", "rows", "second"}}

\* Every call returns, even with one connection for everyone: a method gives
\* its connection back before it waits for the next.
CallsReturn == Contract!CallsReturn

\* "KeyHash should be the new hash after rotation" (conformance.go): the key
\* a successful RotateKey returns has the hash it was asked to set.
RotateReturnsNewHash ==
    \A c \in Clients :
        (/\ call[c].phase = "applied" /\ call[c].req.op = "RotateKey"
         /\ call[c].res.err = "nil")
            => call[c].res.val.hash = call[c].req.hash

=============================================================================
