--------------------------- MODULE KeychainServer ---------------------------
(***************************************************************************)
(* keychainserver: the gRPC handlers, run concurrently by the goroutines    *)
(* Procs (of one server or of several on the same Postgres) over a store    *)
(* and a rate limiter.                                                      *)
(*                                                                         *)
(* A handler that makes one store call is one step.  A handler that makes   *)
(* several is one step per call: between two of them other handlers run,    *)
(* the clock advances and the server may be restarted.  frame[p] holds the  *)
(* local variables of the handler p is running; in particular the Key       *)
(* VerifyKey read in its first call, which every later check uses.          *)
(***************************************************************************)
EXTENDS Store, FiniteSets

CONSTANTS
    Procs,            \* goroutines
    Workload,         \* the RPCs callers make
    KeyRequests,      \* CreateKey requests (what they ask of the key)
    VerifyRequests,   \* VerifyKey requests (all but the plaintext)
    RateLimiter,      \* "nil", "failClosed" (cmd/keychain) or "remote"
    Quota,            \* what a remote limiter lets through per limit
    StoreFaults,      \* store calls may report a driver error
    LimiterFaults,    \* Consume may report an error
    Restarts,         \* the server may be restarted
    Durable,          \* the store survives a restart (postgres; not memory)
    Collisions,       \* the entropy source may repeat itself
    MaxTime           \* bound on the clock

RPCs == {"CreateWorkspace", "GetWorkspace", "CreateApi", "GetApi",
         "CreateKey", "GetKey", "RevokeKey", "RotateKey", "VerifyKey"}

ASSUME ServerAssumption ==
    /\ IsFiniteSet(Procs)
    /\ Workload \subseteq RPCs
    /\ KeyRequests \subseteq [permissions : SUBSET Permissions,
                              limitRefs : SUBSET LimitIDs,
                              expiresAt : TimePtr, remaining : Int]
    /\ VerifyRequests \subseteq [required : SUBSET Permissions,
                                 skip : BOOLEAN, cost : Int]
    /\ RateLimiter \in {"nil", "failClosed", "remote"}
    /\ Quota \in [LimitIDs -> Nat]
    /\ {StoreFaults, LimiterFaults, Restarts, Durable, Collisions} \subseteq BOOLEAN
    /\ MaxTime \in Nat

VARIABLES
    workspaces, apis, keys,   \* the store's tables
    now,                      \* the wall clock
    frame,                    \* the handler each goroutine runs
    reply,                    \* the last answer sent to a caller
    quota,                    \* the remote limiter's remaining budget
    \* History, read by the properties and by the choice of fresh IDs only.
    issued,                   \* IDs of all keys ever stored
    granted,                  \* the RemainingUses each was stored with
    valids,                   \* VALID answers given for each limited key
    admitted,                 \* limiter budget those answers stand for
    bound                     \* every hash a stored key has ever had

storeVars == <<workspaces, apis, keys>>
keyHistory == <<issued, granted, bound>>
answerHistory == <<valids, admitted>>
vars == <<workspaces, apis, keys, now, frame, reply, quota,
          issued, granted, valids, admitted, bound>>

-----------------------------------------------------------------------------
(* Data.                                                                    *)

VerifyPCs == {"v_lookup", "v_check", "v_limit", "v_decr", "v_touch"}
PCs == {"idle", "c_store", "r_api", "r_store"} \cup VerifyPCs

\* doomed is history: the plaintext had been issued, and its key could no
\* longer verify, when the VerifyKey request arrived.
Idle == [pc |-> "idle", plaintext |-> EmptyPlaintext, req |-> Nil, id |-> Nil,
         key |-> Nil, at |-> 0, doomed |-> FALSE]

Frame == [pc : PCs, plaintext : Plaintexts \cup {EmptyPlaintext},
          req : VerifyRequests \cup {Nil}, id : KeyIDs \cup {Nil},
          key : Key \cup {Nil}, at : Time, doomed : BOOLEAN]

\* The locals a handler has set by the time it is at pc.
FrameOK(f) ==
    /\ f.pc \in VerifyPCs => f.plaintext \in Plaintexts /\ f.req \in VerifyRequests
    /\ f.pc \in VerifyPCs \ {"v_lookup"} => f.id \in issued /\ f.key \in Key
    /\ f.pc = "c_store" => /\ f.id \in KeyIDs /\ f.plaintext \in Plaintexts
                           /\ f.key \in Key /\ f.key.hash = Hash(f.plaintext)
                           /\ f.key.remaining # 0  \* depleted, before any use
    /\ f.pc = "r_api" => f.id \in issued /\ f.key \in Key
    /\ f.pc = "r_store" => f.id \in issued /\ f.plaintext \in Plaintexts

Codes == {"none", "OK", "InvalidArgument", "NotFound", "AlreadyExists",
          "Internal", "FailedPrecondition", "Unavailable",
          "VALID", "NOT_FOUND", "REVOKED", "EXPIRED", "DEPLETED",
          "FORBIDDEN", "RATE_LIMITED"}

Answer(rpc, code, id) == [rpc |-> rpc, code |-> code, id |-> id]

NoAnswer == Answer("none", "none", Nil)

Hashed(h) == KeysWithHash(keys, h)

Expired(k) == k.expiresAt # Nil /\ ~(now < k.expiresAt)

\* A key that verifies if nothing else stands in the way.
Live(k) == k.enabled /\ ~Expired(k) /\ k.remaining # 0

DeadHash(h) == h \in bound /\ \A id \in Hashed(h) : ~Live(keys[id])

TypeOK ==
    /\ workspaces \subseteq WorkspaceIDs
    /\ DOMAIN apis \subseteq APIIDs /\ apis \in [DOMAIN apis -> API]
    /\ DOMAIN keys \subseteq issued /\ keys \in [DOMAIN keys -> Key]
    /\ now \in Time
    /\ frame \in [Procs -> Frame]
    /\ \A p \in Procs : FrameOK(frame[p])
    /\ reply \in [rpc : RPCs \cup {"none"}, code : Codes, id : KeyIDs \cup {Nil}]
    /\ quota \in [LimitIDs -> Nat]
    /\ issued \subseteq KeyIDs
    /\ granted \in [KeyIDs -> Nat]
    /\ valids \in [KeyIDs -> Nat]
    /\ admitted \in [LimitIDs -> Nat]
    /\ bound \subseteq Hashes

Init ==
    /\ workspaces = {} /\ apis = EmptyTable /\ keys = EmptyTable
    /\ now = 0
    /\ frame = [p \in Procs |-> Idle]
    /\ reply = NoAnswer
    /\ quota = Quota
    /\ issued = {} /\ bound = {}
    /\ granted = [id \in KeyIDs |-> 0]
    /\ valids = [id \in KeyIDs |-> 0]
    /\ admitted = [l \in LimitIDs |-> 0]

-----------------------------------------------------------------------------
(* Building blocks of the handlers.                                         *)

\* A store call that would return res: it runs and its answer arrives, or a
\* driver error is reported for a call that ran or that never did.
StoreCall(table, table_next, res, err) ==
    \/ table_next = res.table /\ err = res.err
    \/ StoreFaults /\ err = "err" /\ table_next \in {table, res.table}

mapStoreErr(err) ==
    CASE err = "nil"         -> "OK"
      [] err = "ErrNotFound" -> "NotFound"
      [] err = "ErrConflict" -> "AlreadyExists"
      [] OTHER               -> "Internal"

\* Handler p returns.
Return(p, rpc, code, id) ==
    /\ frame' = [frame EXCEPT ![p] = Idle]
    /\ reply' = Answer(rpc, code, id)

\* A handler made of one step returns; no goroutine is left in it.
Respond(rpc, code) ==
    /\ reply' = Answer(rpc, code, Nil)
    /\ UNCHANGED frame

\* newKeyMaterial: the secrets a read of the entropy source may produce.
\* Unless Collisions, one that nobody holds and no key has ever had.
FreshSecrets ==
    {s \in Secrets :
        \/ Collisions
        \/ \A pre \in Prefixes :
              /\ Hash(NewPlaintext(pre, s)) \notin bound
              /\ \A q \in Procs : frame[q].pc \in {"c_store", "r_store"}
                                    => frame[q].plaintext # NewPlaintext(pre, s)}

\* newID: an ID no key has or will be given.
FreshKeyIDs ==
    {id \in KeyIDs \ issued :
        \A q \in Procs : frame[q].pc = "c_store" => frame[q].id # id}

\* History: a key is stored under id, or hash h becomes a stored key's.
RecordIssue(id, k) ==
    /\ issued' = issued \cup {id}
    /\ granted' = [granted EXCEPT ![id] = IF k.remaining > 0 THEN k.remaining ELSE 0]
    /\ bound' = bound \cup {k.hash}

-----------------------------------------------------------------------------
(* Handlers of one store call.                                              *)

\* The argument checks every handler but VerifyKey starts with.
InvalidRequest ==
    /\ \E rpc \in Workload \ {"VerifyKey"} : Respond(rpc, "InvalidArgument")
    /\ UNCHANGED <<storeVars, now, quota, keyHistory, answerHistory>>

CreateWorkspace ==
    /\ "CreateWorkspace" \in Workload
    /\ \E id \in WorkspaceIDs \ workspaces, err \in Errs :
          /\ StoreCall(workspaces, workspaces',
                       Result(workspaces \cup {id}, "nil"), err)
          /\ Respond("CreateWorkspace", mapStoreErr(err))
    /\ UNCHANGED <<apis, keys, now, quota, keyHistory, answerHistory>>

CreateApi ==
    /\ "CreateApi" \in Workload
    /\ \E id \in APIIDs \ DOMAIN apis, a \in API, err \in Errs :
          /\ StoreCall(apis, apis', CreateAPIResult(workspaces, apis, id, a), err)
          /\ Respond("CreateApi", mapStoreErr(err))
    /\ UNCHANGED <<workspaces, keys, now, quota, keyHistory, answerHistory>>

\* GetWorkspace, GetApi and GetKey: whether the row exists.
Get(rpc, ids, existing) ==
    /\ rpc \in Workload
    /\ \E id \in ids, err \in Errs :
          /\ \/ err = IF id \in existing THEN "nil" ELSE "ErrNotFound"
             \/ StoreFaults /\ err = "err"
          /\ Respond(rpc, mapStoreErr(err))
    /\ UNCHANGED <<storeVars, now, quota, keyHistory, answerHistory>>

GetWorkspace == Get("GetWorkspace", WorkspaceIDs, workspaces)
GetApi == Get("GetApi", APIIDs, DOMAIN apis)
GetKey == Get("GetKey", KeyIDs, DOMAIN keys)

RevokeKey ==
    /\ "RevokeKey" \in Workload
    /\ \E id \in KeyIDs, err \in Errs :
          /\ StoreCall(keys, keys', RevokeKeyResult(keys, id), err)
          /\ Respond("RevokeKey", mapStoreErr(err))
    /\ UNCHANGED <<workspaces, apis, now, quota, keyHistory, answerHistory>>

-----------------------------------------------------------------------------
(* CreateKey: GetAPI and key material, then store.CreateKey.                *)

\* Mutant: only the negative values do, and 0 is stored.
RawRemaining(remaining) == IF remaining < 0 THEN -1 ELSE remaining

\* 0 and the negative values mean unlimited.
NormalizeRemaining(remaining) == IF remaining <= 0 THEN -1 ELSE remaining

NewKey(api, plaintext, r) ==
    [api |-> api, workspace |-> apis[api].workspace, hash |-> Hash(plaintext),
     permissions |-> r.permissions, limitRefs |-> r.limitRefs,
     expiresAt |-> r.expiresAt, remaining |-> NormalizeRemaining(r.remaining),
     enabled |-> TRUE, lastVerifiedAt |-> Nil]

CreateKey(p) ==
    /\ "CreateKey" \in Workload
    /\ frame[p].pc = "idle"
    /\ \E api \in APIIDs :
          \/ /\ api \notin DOMAIN apis
             /\ Return(p, "CreateKey", "NotFound", Nil)
          \/ /\ api \in DOMAIN apis
             /\ \E id \in FreshKeyIDs, s \in FreshSecrets, r \in KeyRequests :
                   LET plaintext == NewPlaintext(apis[api].prefix, s) IN
                   frame' = [frame EXCEPT ![p] =
                       [Idle EXCEPT !.pc = "c_store", !.id = id, !.plaintext = plaintext,
                                    !.key = NewKey(api, plaintext, r)]]
             /\ UNCHANGED reply
          \/ \* No entropy, or a driver error from GetAPI.
             /\ api \in DOMAIN apis \/ StoreFaults
             /\ Return(p, "CreateKey", "Internal", Nil)
    /\ UNCHANGED <<storeVars, now, quota, keyHistory, answerHistory>>

CreateKeyStore(p) ==
    /\ frame[p].pc = "c_store"
    /\ \E err \in Errs :
          LET id == frame[p].id
              k  == frame[p].key
          IN
          /\ StoreCall(keys, keys', CreateKeyResult(apis, keys, id, k), err)
          /\ Return(p, "CreateKey", mapStoreErr(err), Nil)
          /\ IF keys' = keys THEN UNCHANGED keyHistory ELSE RecordIssue(id, k)
    /\ UNCHANGED <<workspaces, apis, now, quota, answerHistory>>

-----------------------------------------------------------------------------
(* RotateKey: GetKeyByID, GetAPI and key material, then store.RotateKey.    *)

RotateKey(p) ==
    /\ "RotateKey" \in Workload
    /\ frame[p].pc = "idle"
    /\ \E id \in KeyIDs :
          \/ /\ id \notin DOMAIN keys
             /\ Return(p, "RotateKey", "NotFound", Nil)
          \/ /\ id \in DOMAIN keys
             /\ frame' = [frame EXCEPT ![p] =
                    [Idle EXCEPT !.pc = "r_api", !.id = id, !.key = keys[id]]]
             /\ UNCHANGED reply
          \/ StoreFaults /\ Return(p, "RotateKey", "Internal", Nil)
    /\ UNCHANGED <<storeVars, now, quota, keyHistory, answerHistory>>

RotateKeyMaterial(p) ==
    /\ frame[p].pc = "r_api"
    /\ LET api == frame[p].key.api IN
          \/ /\ api \notin DOMAIN apis
             /\ Return(p, "RotateKey", "NotFound", Nil)
          \/ /\ api \in DOMAIN apis
             /\ \E s \in FreshSecrets :
                   frame' = [frame EXCEPT ![p].pc = "r_store", ![p].key = Nil,
                       ![p].plaintext = NewPlaintext(apis[api].prefix, s)]
             /\ UNCHANGED reply
          \/ Return(p, "RotateKey", "Internal", Nil)
    /\ UNCHANGED <<storeVars, now, quota, keyHistory, answerHistory>>

RotateKeyStore(p) ==
    /\ frame[p].pc = "r_store"
    /\ \E err \in Errs :
          LET id == frame[p].id
              h  == Hash(frame[p].plaintext)
          IN /\ StoreCall(keys, keys', RotateKeyResult(keys, id, h), err)
             /\ Return(p, "RotateKey", mapStoreErr(err), Nil)
             /\ bound' = IF keys' = keys THEN bound ELSE bound \cup {h}
    /\ UNCHANGED <<workspaces, apis, now, quota, issued, granted, answerHistory>>

-----------------------------------------------------------------------------
(* VerifyKey.                                                               *)

\* The request arrives.
VerifyKey(p) ==
    /\ "VerifyKey" \in Workload
    /\ frame[p].pc = "idle"
    /\ \E plaintext \in Plaintexts \cup {EmptyPlaintext}, r \in VerifyRequests :
          IF Validate(plaintext)
          THEN /\ frame' = [frame EXCEPT ![p] =
                      [Idle EXCEPT !.pc = "v_lookup", !.plaintext = plaintext,
                                   !.req = r, !.doomed = DeadHash(Hash(plaintext))]]
               /\ UNCHANGED reply
          ELSE Return(p, "VerifyKey", "NOT_FOUND", Nil)
    /\ UNCHANGED <<storeVars, now, quota, keyHistory, answerHistory>>

VerifyLookup(p) ==
    /\ frame[p].pc = "v_lookup"
    /\ LET found == Hashed(Hash(frame[p].plaintext)) IN
          \/ found = {} /\ Return(p, "VerifyKey", "NOT_FOUND", Nil)
          \/ /\ \E id \in found :
                   frame' = [frame EXCEPT ![p].pc = "v_check", ![p].id = id,
                                          ![p].key = keys[id]]
             /\ UNCHANGED reply
          \/ StoreFaults /\ Return(p, "VerifyKey", "Internal", Nil)
    /\ UNCHANGED <<storeVars, now, quota, keyHistory, answerHistory>>

hasAllPermissions(have, required) == required \subseteq have

NeedsLimiter(f) == ~f.req.skip /\ f.key.limitRefs # {}

\* Mutant: no credit is taken.
ProceedUnpaid(p) ==
    /\ frame' = [frame EXCEPT ![p].pc = "v_touch", ![p].at = now]
    /\ UNCHANGED reply

\* Where the handler goes once the limiter has nothing against the request.
\* On its way to TouchLastVerified it reads the clock.
Proceed(p) ==
    /\ frame' = IF frame[p].key.remaining > 0
                THEN [frame EXCEPT ![p].pc = "v_decr"]
                ELSE [frame EXCEPT ![p].pc = "v_touch", ![p].at = now]
    /\ UNCHANGED reply

\* Mutant: a key is still good at the very instant it expires.
LateVerdict(f) ==
    IF ~f.key.enabled THEN "REVOKED"
    ELSE IF f.key.expiresAt # Nil /\ now > f.key.expiresAt THEN "EXPIRED"
    ELSE IF f.key.remaining = 0 THEN "DEPLETED"
    ELSE "pass"

\* The decision on the snapshot, cheapest check first.
Verdict(f) ==
    IF ~f.key.enabled THEN "REVOKED"
    ELSE IF Expired(f.key) THEN "EXPIRED"
    ELSE IF f.key.remaining = 0 THEN "DEPLETED"
    ELSE IF ~hasAllPermissions(f.key.permissions, f.req.required) THEN "FORBIDDEN"
    ELSE "pass"

VerifyCheck(p) ==
    /\ frame[p].pc = "v_check"
    /\ LET f == frame[p] IN
          IF Verdict(f) # "pass"
          THEN Return(p, "VerifyKey", Verdict(f), f.id)
          ELSE IF ~NeedsLimiter(f) THEN Proceed(p)
          ELSE IF RateLimiter = "nil"
          THEN Return(p, "VerifyKey", "FailedPrecondition", Nil)
          ELSE /\ frame' = [frame EXCEPT ![p].pc = "v_limit"]
               /\ UNCHANGED reply
    /\ UNCHANGED <<storeVars, now, quota, keyHistory, answerHistory>>

limitCost(cost) == IF cost <= 0 THEN 1 ELSE cost

\* Mutant: a fail-closed limiter that lets everything through.
FailOpenAllowed(refs, cost) == refs

\* The limits that let the request through; a remote limiter charges those.
Allowed(refs, cost) ==
    IF RateLimiter = "remote" THEN {l \in refs : quota[l] >= cost} ELSE {}

Charged(allowed, cost) ==
    [l \in LimitIDs |-> IF l \in allowed THEN quota[l] - cost ELSE quota[l]]

\* Mutant: one allowed limit is enough.
AnyAllowed(refs, allowed) == allowed # {}

AllAllowed(refs, allowed) == allowed = refs

VerifyLimit(p) ==
    /\ frame[p].pc = "v_limit"
    /\ LET f == frame[p]
           cost == limitCost(f.req.cost)
           allowed == Allowed(f.key.limitRefs, cost)
       IN \/ /\ quota' = Charged(allowed, cost)
             /\ IF AllAllowed(f.key.limitRefs, allowed)
                THEN Proceed(p)
                ELSE Return(p, "VerifyKey", "RATE_LIMITED", f.id)
          \/ /\ LimiterFaults
             /\ quota' \in {quota, Charged(allowed, cost)}
             /\ Return(p, "VerifyKey", "Unavailable", Nil)
    /\ UNCHANGED <<storeVars, now, keyHistory, answerHistory>>

\* Mutant: the handler waits for credit instead of answering DEPLETED.
WaitForCredit(p) ==
    /\ frame[p].pc = "v_decr"
    /\ keys' = DecrementRemainingUsesResult(keys, frame[p].id).table
    /\ keys' # keys
    /\ frame' = [frame EXCEPT ![p].pc = "v_touch", ![p].at = now]
    /\ UNCHANGED <<workspaces, apis, now, reply, quota, keyHistory, answerHistory>>

VerifyDecrement(p) ==
    /\ frame[p].pc = "v_decr"
    /\ \E err \in Errs :
          /\ StoreCall(keys, keys',
                       DecrementRemainingUsesResult(keys, frame[p].id), err)
          /\ CASE err = "nil" ->
                     /\ frame' = [frame EXCEPT ![p].pc = "v_touch", ![p].at = now]
                     /\ UNCHANGED reply
               [] err = "ErrDepleted" -> Return(p, "VerifyKey", "DEPLETED", frame[p].id)
               [] OTHER -> Return(p, "VerifyKey", "Internal", Nil)
    /\ UNCHANGED <<workspaces, apis, now, quota, keyHistory, answerHistory>>

\* TouchLastVerified, whatever it reports, and the VALID answer.
VerifyTouch(p) ==
    /\ frame[p].pc = "v_touch"
    /\ LET f == frame[p] IN
          /\ \E err \in Errs :
                StoreCall(keys, keys', TouchLastVerifiedResult(keys, f.id, f.at), err)
          /\ Return(p, "VerifyKey", "VALID", f.id)
          /\ valids' = IF f.key.remaining > 0
                       THEN [valids EXCEPT ![f.id] = @ + 1] ELSE valids
          /\ admitted' = IF NeedsLimiter(f)
                         THEN [l \in LimitIDs |->
                                 IF l \in f.key.limitRefs
                                 THEN admitted[l] + limitCost(f.req.cost)
                                 ELSE admitted[l]]
                         ELSE admitted
    /\ UNCHANGED <<workspaces, apis, now, quota, keyHistory>>

-----------------------------------------------------------------------------
(* The environment.                                                         *)

Tick ==
    /\ now < MaxTime
    /\ now' = now + 1
    /\ UNCHANGED <<storeVars, frame, reply, quota, keyHistory, answerHistory>>

\* The server process goes away with its handlers (a crash, or a stop whose
\* grace period ran out) and comes back on what its store kept.
Restart ==
    /\ Restarts
    /\ frame' = [p \in Procs |-> Idle]
    /\ reply' = NoAnswer
    /\ IF Durable
       THEN UNCHANGED storeVars
       ELSE workspaces' = {} /\ apis' = EmptyTable /\ keys' = EmptyTable
    /\ UNCHANGED <<now, quota, keyHistory, answerHistory>>

VerifyStep(p) == VerifyLookup(p) \/ VerifyCheck(p) \/ VerifyLimit(p)
                   \/ VerifyDecrement(p) \/ VerifyTouch(p)

HandlerStep(p) == CreateKeyStore(p) \/ RotateKeyMaterial(p) \/ RotateKeyStore(p)
                    \/ VerifyStep(p)

Next ==
    \/ InvalidRequest
    \/ CreateWorkspace \/ CreateApi
    \/ GetWorkspace \/ GetApi \/ GetKey
    \/ RevokeKey
    \/ \E p \in Procs : \/ CreateKey(p) \/ RotateKey(p) \/ VerifyKey(p)
                        \/ HandlerStep(p)
    \/ Tick
    \/ Restart

Spec == Init /\ [][Next]_vars

-----------------------------------------------------------------------------
(* Safety.                                                                  *)

\* Handlers that have been paid for with a credit of key id and have not
\* answered yet.
Paid(id) == {p \in Procs : /\ frame[p].pc = "v_touch" /\ frame[p].id = id
                           /\ frame[p].key.remaining > 0}

\* The credits of a limited key that are gone; a key a restart lost has none.
Spent(id) == IF id \in DOMAIN keys
             THEN granted[id] - keys[id].remaining ELSE granted[id]

\* VerifyKey never answers VALID more often than a limited key was granted
\* uses, however many handlers race for the last credit (the snapshot they
\* checked says it is there), lose a decrement's answer or die before
\* answering: every VALID given or still owed is covered by a credit spent.
NeverOverspent ==
    \A id \in KeyIDs : granted[id] > 0 =>
        /\ valids[id] + Cardinality(Paid(id)) <= Spent(id)
        /\ Spent(id) <= granted[id]

\* "Side effects (touch + decrement) happen only on a VALID decision": a
\* credit that is gone has been, or is about to be, answered with VALID.
SpendAccounted ==
    \A id \in KeyIDs : granted[id] > 0 =>
        Spent(id) = valids[id] + Cardinality(Paid(id))

\* A VerifyKey that arrives after its plaintext was rotated away, or its key
\* revoked, expired or depleted, is not answered VALID, whatever happens to
\* the key while it runs: it never gets past the checks on the snapshot.
NoResurrection ==
    \A p \in Procs : frame[p].pc \in {"v_limit", "v_decr", "v_touch"}
                        => ~frame[p].doomed

\* REVOKED, EXPIRED and DEPLETED are decided on a snapshot that may be stale
\* when the answer leaves; they are final, so the answer is true of the
\* stored key then and for as long as it exists.
DenialIsFinal ==
    reply.id \in DOMAIN keys =>
        LET k == keys[reply.id] IN
        /\ reply.code = "REVOKED"  => ~k.enabled
        /\ reply.code = "EXPIRED"  => Expired(k)
        /\ reply.code = "DEPLETED" => k.remaining = 0

\* A plaintext identifies at most one key (VerifyKey takes the key a lookup
\* by hash returns), even if entropy repeats itself and creations and
\* rotations to the same hash race.
HashesDistinct ==
    \A i, j \in DOMAIN keys : keys[i].hash = keys[j].hash => i = j

\* A key belongs to the workspace of its API, and both exist, although
\* CreateKey reads the API in one call and writes the key in a later one.
TenantConsistent ==
    \A id \in DOMAIN keys :
        /\ keys[id].api \in DOMAIN apis
        /\ keys[id].workspace = apis[keys[id].api].workspace
        /\ keys[id].workspace \in workspaces

\* Handlers that have passed limit l and have not answered yet.
Admissions(l) ==
    {p \in Procs : /\ frame[p].pc \in {"v_decr", "v_touch"}
                   /\ NeedsLimiter(frame[p]) /\ l \in frame[p].key.limitRefs}

\* The units of l's budget they stand for: each the cost of its request.
Units(l) ==
    UNION {{p} \X (1 .. limitCost(frame[p].req.cost)) : p \in Admissions(l)}

\* No VALID without the limiter's consent: for each limit, the cost of the
\* VALID answers and of the handlers on their way to one has been taken from
\* its budget, which is never overdrawn.
LimiterObeyed ==
    \A l \in LimitIDs :
        /\ admitted[l] + Cardinality(Units(l)) <= Quota[l] - quota[l]
        /\ quota[l] >= 0

\* TouchLastVerified is a side effect of VALID only: a limited key that has
\* been touched has lost a credit to the handler that touched it, and no
\* touch is dated in the future.
TouchedOnlyIfSpent ==
    \A id \in DOMAIN keys : keys[id].lastVerifiedAt # Nil =>
        /\ keys[id].lastVerifiedAt <= now
        /\ granted[id] > 0 => keys[id].remaining < granted[id]

\* A row and the same row one step later: hash, enabled, remaining or
\* lastVerifiedAt has changed, nothing else and not two of them.
Evolves(k, n) ==
    /\ n.enabled => k.enabled
    /\ n.remaining # k.remaining => n.remaining = k.remaining - 1 /\ k.remaining > 0
    /\ \/ n = [k EXCEPT !.hash = n.hash]
       \/ n = [k EXCEPT !.enabled = n.enabled]
       \/ n = [k EXCEPT !.remaining = n.remaining]
       \/ n = [k EXCEPT !.lastVerifiedAt = n.lastVerifiedAt]

\* What no step may do to a key: enable it again, give credit back, lift or
\* move its expiry, change whose it is or what it may do; or give it another
\* hash and anything else at the same time.
KeyEvolution ==
    [][\A id \in DOMAIN keys \cap DOMAIN keys' : Evolves(keys[id], keys'[id])]_vars

-----------------------------------------------------------------------------
(* Liveness.                                                                *)

\* Handlers run and the calls they make return (a pgx call is bounded by the
\* request's context, the memory store's mutex is held for a few statements).
Fairness == \A p \in Procs : WF_vars(HandlerStep(p))

FairSpec == Spec /\ Fairness

\* The same without the promise that TouchLastVerified returns.
FairSpecUntouched ==
    Spec /\ \A p \in Procs : WF_vars(HandlerStep(p) /\ ~VerifyTouch(p))

\* Once every check has passed and the credit is taken the decision is VALID;
\* the caller gets it.  ("TouchLastVerified ... MUST NOT block the verify
\* decision in production wiring", store.go.)
DecisionDelivered ==
    \A p \in Procs : frame[p].pc = "v_touch" ~> frame[p].pc = "idle"

\* Every request a goroutine has taken on is answered.
EveryRequestAnswered ==
    \A p \in Procs : frame[p].pc # "idle" ~> frame[p].pc = "idle"
=============================================================================
