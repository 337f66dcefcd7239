---------------------------- MODULE MemoryStore -----------------------------
(***************************************************************************)
(* store/memory: the tables, an index from hashes to key IDs and one mutex  *)
(* every method holds from its first statement to its last.  What a method  *)
(* does under the mutex is one step per map it writes, so that a method     *)
(* that did not take the mutex could see the index and the keys disagree.   *)
(***************************************************************************)
EXTENDS Store, FiniteSets

CONSTANTS Clients,    \* goroutines calling the store
          Requests,   \* the calls they may make
          MaxTime     \* bound on the clock

ASSUME ClientsAssumption == Nil \notin Clients

VARIABLES workspaces, apis, keys,
          updatedAt,    \* Key.UpdatedAt
          hashIndex,    \* hash -> key ID
          mu,           \* the client that holds the mutex, or Nil
          call,         \* each client's call
          now

vars == <<workspaces, apis, keys, updatedAt, hashIndex, mu, call, now>>
tables == <<workspaces, apis, keys, updatedAt, hashIndex>>

\* The contract.  A call has taken effect once its write to keys is done,
\* whatever is left to do to the index.
Phase(p) == IF p \in {"called", "locked", "unindexed"} THEN "called"
            ELSE IF p \in {"written", "applied"} THEN "applied" ELSE p

Contract == INSTANCE StoreContract WITH
    Faults <- FALSE, ReadBack <- FALSE,
    call <- [c \in Clients |-> [call[c] EXCEPT !.phase = Phase(@)]]

ASSUME RequestsAssumption == Requests \subseteq Contract!Request

-----------------------------------------------------------------------------
Init ==
    /\ workspaces = {} /\ apis = EmptyTable /\ keys = EmptyTable
    /\ updatedAt = EmptyTable /\ hashIndex = EmptyTable
    /\ mu = Nil /\ now = 0
    /\ call = [c \in Clients |-> Contract!NotCalled]

Invoke(c) ==
    /\ call[c].phase = "idle"
    /\ \E r \in Requests :
          /\ Contract!Callable(r)
          /\ call' = [call EXCEPT ![c].phase = "called", ![c].req = r]
    /\ UNCHANGED <<tables, mu, now>>

\* Mutant: the method does not wait for the mutex.
LockFree(c) ==
    /\ call[c].phase = "called"
    /\ mu' = c
    /\ call' = [call EXCEPT ![c].phase = "locked"]
    /\ UNCHANGED <<tables, now>>

Lock(c) ==
    /\ call[c].phase = "called" /\ mu = Nil
    /\ mu' = c
    /\ call' = [call EXCEPT ![c].phase = "locked"]
    /\ UNCHANGED <<tables, now>>

\* Mutant: an early return leaves the mutex locked.
UnlockOnSuccess(c) ==
    /\ call[c].phase = "applied"
    /\ mu' = IF call[c].res.err = "nil" THEN Nil ELSE mu
    /\ call' = [call EXCEPT ![c] = Contract!NotCalled]
    /\ UNCHANGED <<tables, now>>

\* The deferred Unlock, and the return.
Unlock(c) ==
    /\ call[c].phase = "applied"
    /\ mu' = Nil
    /\ call' = [call EXCEPT ![c] = Contract!NotCalled]
    /\ UNCHANGED <<tables, now>>

\* Client c, in a call of op, moves on with result err (and value).
Running(c, op) == call[c].phase = "locked" /\ call[c].req.op = op

Move(c, phase, err, val) ==
    /\ call' = [call EXCEPT ![c].phase = phase, ![c].res = Contract!Response(err, val)]
    /\ UNCHANGED <<mu, now>>

-----------------------------------------------------------------------------
(* Method bodies.                                                           *)

CreateWorkspace(c) ==
    /\ Running(c, "CreateWorkspace")
    /\ workspaces' = workspaces \cup {call[c].req.id}
    /\ Move(c, "applied", "nil", Nil)
    /\ UNCHANGED <<apis, keys, updatedAt, hashIndex>>

CreateAPI(c) ==
    /\ Running(c, "CreateAPI")
    /\ LET r == call[c].req IN
       IF r.row.workspace \notin workspaces
       THEN Move(c, "applied", "ErrNotFound", Nil) /\ UNCHANGED apis
       ELSE apis' = Put(apis, r.id, r.row) /\ Move(c, "applied", "nil", Nil)
    /\ UNCHANGED <<workspaces, keys, updatedAt, hashIndex>>

\* CreateKey writes the key, then the index.
CreateKey(c) ==
    /\ Running(c, "CreateKey")
    /\ LET r == call[c].req IN
       \/ /\ r.row.api \notin DOMAIN apis
          /\ Move(c, "applied", "ErrNotFound", Nil)
          /\ UNCHANGED <<keys, updatedAt>>
       \/ /\ r.row.api \in DOMAIN apis /\ r.row.hash \in DOMAIN hashIndex
          /\ Move(c, "applied", "ErrConflict", Nil)
          /\ UNCHANGED <<keys, updatedAt>>
       \/ /\ r.row.api \in DOMAIN apis /\ r.row.hash \notin DOMAIN hashIndex
          /\ keys' = Put(keys, r.id, r.row)
          /\ updatedAt' = Put(updatedAt, r.id, now)
          /\ Move(c, "written", "nil", Nil)
    /\ UNCHANGED <<workspaces, apis, hashIndex>>

\* The last step of CreateKey and of RotateKey.
Index(c) ==
    /\ call[c].phase = "written"
    /\ LET r == call[c].req
           h == IF r.op = "CreateKey" THEN r.row.hash ELSE r.hash
       IN hashIndex' = Put(hashIndex, h, r.id)
    /\ Move(c, "applied", "nil", call[c].res.val)
    /\ UNCHANGED <<workspaces, apis, keys, updatedAt>>

\* Mutant: the old hash stays in the index.
Kept(table, id) == table

Without(table, id) == [i \in DOMAIN table \ {id} |-> table[i]]

\* RotateKey drops the old hash from the index, writes the key, then indexes
\* the new hash.
RotateKey(c) ==
    /\ Running(c, "RotateKey")
    /\ LET r == call[c].req IN
       \/ /\ r.id \notin DOMAIN keys
          /\ Move(c, "applied", "ErrNotFound", Nil)
          /\ UNCHANGED hashIndex
       \/ /\ r.id \in DOMAIN keys
          /\ r.hash \in DOMAIN hashIndex /\ hashIndex[r.hash] # r.id
          /\ Move(c, "applied", "ErrConflict", Nil)
          /\ UNCHANGED hashIndex
       \/ /\ r.id \in DOMAIN keys
          /\ r.hash \in DOMAIN hashIndex => hashIndex[r.hash] = r.id
          /\ hashIndex' = Without(hashIndex, keys[r.id].hash)
          /\ Move(c, "unindexed", "nil", Nil)
    /\ UNCHANGED <<workspaces, apis, keys, updatedAt>>

RotateWrite(c) ==
    /\ call[c].phase = "unindexed"
    /\ LET r == call[c].req IN
          /\ keys' = [keys EXCEPT ![r.id].hash = r.hash]
          /\ updatedAt' = [updatedAt EXCEPT ![r.id] = now]
          /\ Move(c, "written", "nil", [keys[r.id] EXCEPT !.hash = r.hash])
    /\ UNCHANGED <<workspaces, apis, hashIndex>>

\* An already revoked key is left alone, UpdatedAt included.
RevokeKey(c) ==
    /\ Running(c, "RevokeKey")
    /\ LET id == call[c].req.id IN
       \/ /\ id \notin DOMAIN keys
          /\ Move(c, "applied", "ErrNotFound", Nil)
          /\ UNCHANGED <<keys, updatedAt>>
       \/ /\ id \in DOMAIN keys /\ ~keys[id].enabled
          /\ Move(c, "applied", "nil", Nil)
          /\ UNCHANGED <<keys, updatedAt>>
       \/ /\ id \in DOMAIN keys /\ keys[id].enabled
          /\ keys' = [keys EXCEPT ![id].enabled = FALSE]
          /\ updatedAt' = [updatedAt EXCEPT ![id] = now]
          /\ Move(c, "applied", "nil", Nil)
    /\ UNCHANGED <<workspaces, apis, hashIndex>>

\* Mutant: the touch also sets UpdatedAt.
TouchUpdates(c) ==
    /\ Running(c, "TouchLastVerified")
    /\ LET r == call[c].req IN
          /\ keys' = [keys EXCEPT ![r.id].lastVerifiedAt = r.at]
          /\ updatedAt' = [updatedAt EXCEPT ![r.id] = r.at]
    /\ Move(c, "applied", "nil", Nil)
    /\ UNCHANGED <<workspaces, apis, hashIndex>>

TouchLastVerified(c) ==
    /\ Running(c, "TouchLastVerified")
    /\ LET r == call[c].req IN
       IF r.id \notin DOMAIN keys
       THEN Move(c, "applied", "ErrNotFound", Nil) /\ UNCHANGED keys
       ELSE /\ keys' = [keys EXCEPT ![r.id].lastVerifiedAt = r.at]
            /\ Move(c, "applied", "nil", Nil)
    /\ UNCHANGED <<workspaces, apis, updatedAt, hashIndex>>

\* Mutant: the last credit can be taken twice.
DecrementPastZero(c) ==
    /\ Running(c, "DecrementRemainingUses")
    /\ LET id == call[c].req.id
           left == IF keys[id].remaining > 0 THEN keys[id].remaining - 1 ELSE keys[id].remaining
       IN IF id \notin DOMAIN keys
          THEN Move(c, "applied", "ErrNotFound", Nil) /\ UNCHANGED <<keys, updatedAt>>
          ELSE /\ keys' = [keys EXCEPT ![id].remaining = left]
               /\ updatedAt' = [updatedAt EXCEPT ![id] = now]
               /\ Move(c, "applied", "nil", left)
    /\ UNCHANGED <<workspaces, apis, hashIndex>>

DecrementRemainingUses(c) ==
    /\ Running(c, "DecrementRemainingUses")
    /\ LET id == call[c].req.id IN
       \/ /\ id \notin DOMAIN keys
          /\ Move(c, "applied", "ErrNotFound", Nil)
          /\ UNCHANGED <<keys, updatedAt>>
       \/ /\ id \in DOMAIN keys /\ keys[id].remaining < 0
          /\ Move(c, "applied", "nil", -1)
          /\ UNCHANGED <<keys, updatedAt>>
       \/ /\ id \in DOMAIN keys /\ keys[id].remaining = 0
          /\ Move(c, "applied", "ErrDepleted", Nil)
          /\ UNCHANGED <<keys, updatedAt>>
       \/ /\ id \in DOMAIN keys /\ keys[id].remaining > 0
          /\ keys' = [keys EXCEPT ![id].remaining = @ - 1]
          /\ updatedAt' = [updatedAt EXCEPT ![id] = now]
          /\ Move(c, "applied", "nil", keys[id].remaining - 1)
    /\ UNCHANGED <<workspaces, apis, hashIndex>>

GetWorkspace(c) ==
    /\ Running(c, "GetWorkspace")
    /\ LET id == call[c].req.id IN
       IF id \in workspaces THEN Move(c, "applied", "nil", id)
       ELSE Move(c, "applied", "ErrNotFound", Nil)
    /\ UNCHANGED tables

GetAPI(c) ==
    /\ Running(c, "GetAPI")
    /\ LET id == call[c].req.id IN
       IF id \in DOMAIN apis THEN Move(c, "applied", "nil", apis[id])
       ELSE Move(c, "applied", "ErrNotFound", Nil)
    /\ UNCHANGED tables

GetKeyByID(c) ==
    /\ Running(c, "GetKeyByID")
    /\ LET id == call[c].req.id IN
       IF id \in DOMAIN keys THEN Move(c, "applied", "nil", keys[id])
       ELSE Move(c, "applied", "ErrNotFound", Nil)
    /\ UNCHANGED tables

GetKeyByHash(c) ==
    /\ Running(c, "GetKeyByHash")
    /\ LET h == call[c].req.hash IN
       IF h \in DOMAIN hashIndex THEN Move(c, "applied", "nil", keys[hashIndex[h]])
       ELSE Move(c, "applied", "ErrNotFound", Nil)
    /\ UNCHANGED tables

ListKeys(c) ==
    /\ Running(c, "ListKeys")
    /\ Move(c, "applied", "nil", KeysOf(keys, call[c].req.api))
    /\ UNCHANGED tables

-----------------------------------------------------------------------------
Tick ==
    /\ now < MaxTime
    /\ now' = now + 1
    /\ UNCHANGED <<tables, mu, call>>

Step(c) ==
    \/ Lock(c) \/ Unlock(c)
    \/ CreateWorkspace(c) \/ CreateAPI(c) \/ CreateKey(c) \/ Index(c)
    \/ RotateKey(c) \/ RotateWrite(c) \/ RevokeKey(c)
    \/ TouchLastVerified(c) \/ DecrementRemainingUses(c)
    \/ GetWorkspace(c) \/ GetAPI(c)
    \/ GetKeyByID(c) \/ GetKeyByHash(c) \/ ListKeys(c)

Next == (\E c \in Clients : Invoke(c) \/ Step(c)) \/ Tick

Spec == Init /\ [][Next]_vars

\* Goroutines run; sync.Mutex lets every waiter in eventually.
Fairness == \A c \in Clients : WF_vars(Step(c)) /\ SF_vars(Lock(c))

FairSpec == Spec /\ Fairness

-----------------------------------------------------------------------------
TypeOK ==
    /\ workspaces \subseteq WorkspaceIDs
    /\ DOMAIN apis \subseteq APIIDs /\ apis \in [DOMAIN apis -> API]
    /\ DOMAIN keys \subseteq KeyIDs /\ keys \in [DOMAIN keys -> Key]
    /\ updatedAt \in [DOMAIN keys -> Time]
    /\ DOMAIN hashIndex \subseteq Hashes /\ hashIndex \in [DOMAIN hashIndex -> KeyIDs]
    /\ mu \in Clients \cup {Nil}
    /\ now \in Time

\* Whenever the mutex is free the index is exactly the inverse of the stored
\* hashes: a hash that was rotated away finds nothing, every stored key is
\* found, and no two keys share a hash.
IndexMirrorsKeys ==
    mu = Nil =>
        /\ DOMAIN hashIndex = {keys[id].hash : id \in DOMAIN keys}
        /\ \A id \in DOMAIN keys : hashIndex[keys[id].hash] = id

\* memory.Store behaves as the store contract says, call by call.
Refines == Contract!Spec

\* UpdatedAt never moves back: the clock is read under the mutex.
UpdatedAtForward ==
    [][\A id \in DOMAIN keys : updatedAt'[id] >= updatedAt[id]]_vars

\* Nobody waits for the mutex forever.
CallsReturn == Contract!CallsReturn

=============================================================================
