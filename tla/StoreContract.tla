--------------------------- MODULE StoreContract ----------------------------
(***************************************************************************)
(* What the Store interface promises concurrent callers: a call takes       *)
(* effect at one instant between its invocation and its return, and         *)
(* returns what the operators of module Store say for the tables at that    *)
(* instant; or it reports a driver error, having taken effect or not.       *)
(* KeychainServer calls the store under exactly this promise; MemoryStore   *)
(* and PostgresStore are shown to keep it.                                  *)
(***************************************************************************)
EXTENDS Store

CONSTANTS Clients,    \* goroutines calling the store
          Requests,   \* the calls they may make
          Faults,     \* a call may report a driver error
          ReadBack    \* RotateKey reads the key it returns in a step of its own

VARIABLES workspaces, apis, keys, call

contractVars == <<workspaces, apis, keys, call>>

\* The calls of the interface.  The ID of a row to be created is part of the
\* request: it stands for the one newID will return.
Request ==
    [op : {"CreateWorkspace"}, id : WorkspaceIDs]
      \cup [op : {"CreateAPI"}, id : APIIDs, row : API]
      \cup [op : {"CreateKey"}, id : KeyIDs, row : Key]
      \cup [op : {"RevokeKey", "DecrementRemainingUses", "GetKeyByID"}, id : KeyIDs]
      \cup [op : {"RotateKey"}, id : KeyIDs, hash : Hashes]
      \cup [op : {"TouchLastVerified"}, id : KeyIDs, at : Time]
      \cup [op : {"GetKeyByHash"}, hash : Hashes]
      \cup [op : {"GetWorkspace"}, id : WorkspaceIDs]
      \cup [op : {"GetAPI"}, id : APIIDs]
      \cup [op : {"ListKeys"}, api : APIIDs]

KeyWrites == {"CreateKey", "RevokeKey", "RotateKey", "TouchLastVerified",
              "DecrementRemainingUses"}
Reads == {"GetWorkspace", "GetAPI", "GetKeyByID", "GetKeyByHash", "ListKeys"}

\* What a call returns: its error, and the value that comes with a nil one.  A
\* creation's is the row it was given, and left out.
Response(err, val) == [err |-> err, val |-> val]

NoResponse == Response("nil", Nil)

NotCalled == [phase |-> "idle", req |-> Nil, res |-> NoResponse]

\* What a call that writes keys does to them and reports.
KeyWrite(as, ks, r) ==
    CASE r.op = "CreateKey"         -> CreateKeyResult(as, ks, r.id, r.row)
      [] r.op = "RevokeKey"         -> RevokeKeyResult(ks, r.id)
      [] r.op = "RotateKey"         -> RotateKeyResult(ks, r.id, r.hash)
      [] r.op = "TouchLastVerified" -> TouchLastVerifiedResult(ks, r.id, r.at)
      [] r.op = "DecrementRemainingUses" -> DecrementRemainingUsesResult(ks, r.id)

\* The value such a call returns with result res: RotateKey the key as it is
\* now, DecrementRemainingUses the uses that are left (-1 for unlimited).
Returned(r, res) ==
    IF res.err # "nil" THEN Nil
    ELSE CASE r.op = "RotateKey"              -> res.table[r.id]
           [] r.op = "DecrementRemainingUses" -> res.table[r.id].remaining
           [] OTHER                           -> Nil

\* The values a read finds: one or none.
Found(ws, as, ks, r) ==
    CASE r.op = "GetWorkspace" -> ws \cap {r.id}
      [] r.op = "GetAPI"       -> {as[id] : id \in DOMAIN as \cap {r.id}}
      [] r.op = "GetKeyByID"   -> {ks[id] : id \in DOMAIN ks \cap {r.id}}
      [] r.op = "GetKeyByHash" -> {ks[id] : id \in KeysWithHash(ks, r.hash)}
      [] r.op = "ListKeys"     -> {KeysOf(ks, r.api)}

\* IDs: a row is created under one nobody else has.  The calls the server
\* makes after a lookup name the key that was found, or (on a driver's own)
\* one that will never be; nobody guesses an ID yet to be issued.
Callable(r) ==
    /\ r.op = "CreateWorkspace" => r.id \notin workspaces
    /\ r.op = "CreateAPI" => r.id \notin DOMAIN apis
    /\ r.op = "CreateKey" => r.id \notin DOMAIN keys
    /\ r.op \in {"CreateWorkspace", "CreateAPI", "CreateKey"} =>
          \A c \in Clients : call[c].phase # "idle" /\ call[c].req.op = r.op
                                => call[c].req.id # r.id
    /\ r.op \in {"RotateKey", "DecrementRemainingUses", "TouchLastVerified"} =>
          \/ r.id \in DOMAIN keys
          \/ \A q \in Requests : q.op = "CreateKey" => q.id # r.id

Init ==
    /\ workspaces = {} /\ apis = EmptyTable /\ keys = EmptyTable
    /\ call = [c \in Clients |-> NotCalled]

Invoke(c) ==
    /\ call[c].phase = "idle"
    /\ \E r \in Requests :
          /\ Callable(r)
          /\ call' = [call EXCEPT ![c].phase = "called", ![c].req = r]
    /\ UNCHANGED <<workspaces, apis, keys>>

Answered(c, err, val) ==
    call' = [call EXCEPT ![c].phase = "applied", ![c].res = Response(err, val)]

Apply(c) ==
    /\ call[c].phase = "called"
    /\ LET r == call[c].req IN
       \/ /\ r.op = "CreateWorkspace"
          /\ workspaces' = workspaces \cup {r.id}
          /\ Answered(c, "nil", Nil)
          /\ UNCHANGED <<apis, keys>>
       \/ /\ r.op = "CreateAPI"
          /\ LET res == CreateAPIResult(workspaces, apis, r.id, r.row) IN
                apis' = res.table /\ Answered(c, res.err, Nil)
          /\ UNCHANGED <<workspaces, keys>>
       \/ /\ r.op \in KeyWrites
          /\ LET res == KeyWrite(apis, keys, r) IN
                keys' = res.table /\ Answered(c, res.err, Returned(r, res))
          /\ UNCHANGED <<workspaces, apis>>
       \/ \* Refused on both counts, a row may be refused on either.
          /\ r.op = "CreateKey" /\ r.row.api \notin DOMAIN apis
          /\ KeysWithHash(keys, r.row.hash) # {}
          /\ Answered(c, "ErrConflict", Nil)
          /\ UNCHANGED <<workspaces, apis, keys>>
       \/ /\ r.op \in Reads
          /\ LET found == Found(workspaces, apis, keys, r) IN
             \/ found = {} /\ Answered(c, "ErrNotFound", Nil)
             \/ \E v \in found : Answered(c, "nil", v)
          /\ UNCHANGED <<workspaces, apis, keys>>

\* The key a rotation returns may be as of a later instant than the rotation.
Reread(c) ==
    /\ ReadBack
    /\ call[c].phase = "applied"
    /\ call[c].req.op = "RotateKey" /\ call[c].res.err = "nil"
    /\ Answered(c, "nil", keys[call[c].req.id])
    /\ UNCHANGED <<workspaces, apis, keys>>

\* A driver error, before the call took effect or after.
Fail(c) ==
    /\ Faults
    /\ call[c].phase \in {"called", "applied"}
    /\ Answered(c, "err", Nil)
    /\ UNCHANGED <<workspaces, apis, keys>>

Return(c) ==
    /\ call[c].phase = "applied"
    /\ call' = [call EXCEPT ![c] = NotCalled]
    /\ UNCHANGED <<workspaces, apis, keys>>

Next == \E c \in Clients : Invoke(c) \/ Apply(c) \/ Reread(c) \/ Fail(c) \/ Return(c)

Spec == Init /\ [][Next]_contractVars

\* A call that was made returns.
CallsReturn == \A c \in Clients : call[c].phase # "idle" ~> call[c].phase = "idle"

=============================================================================
