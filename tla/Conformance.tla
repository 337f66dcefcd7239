---------------------------- MODULE Conformance -----------------------------
(***************************************************************************)
(* The conformance suite run against both drivers side by side, and after   *)
(* it a session: any calls in any order, between which the caller may write *)
(* through every reference it ever passed in or was given.  Both drivers    *)
(* are asked the same things and draw the same IDs, in any order.           *)
(***************************************************************************)
EXTENDS ConformanceSuite, FiniteSets

CONSTANTS SessionSteps,   \* what a session may ask for
          MaxSession,     \* bound on its length
          MaxPages        \* of the pagination test (10)

\* The structs a caller fills in and the other arguments of the calls.
StructOK(r, plain, refs) == DOMAIN r.lit.plain = plain /\ DOMAIN r.lit.contents = refs

RequestOK(r) ==
    /\ DOMAIN r = {"op", "id", "lit", "arg"} /\ DOMAIN r.lit = {"plain", "contents"}
    /\ r.op \in {"CreateWorkspace", "GetWorkspace", "CreateAPI", "GetAPI", "CreateKey",
                  "GetKeyByID", "GetKeyByHash", "RevokeKey", "RotateKey", "ListKeys",
                  "Walk", "TouchLastVerified", "DecrementRemainingUses", "Mutate"}
    /\ r.op = "CreateWorkspace" => StructOK(r, WorkspaceFields, {"metadata"})
    /\ r.op = "CreateAPI" => StructOK(r, APIFields, {"metadata"})
    /\ r.op = "CreateKey" =>
          /\ StructOK(r, KeyFields, KeyRefs)
          /\ r.lit.plain.remaining \in Int /\ r.lit.plain.enabled \in BOOLEAN
          /\ \A f \in {"expiresAt", "lastVerifiedAt"} : r.lit.contents[f] \in Nat \cup {Nil}
    /\ r.op = "RotateKey" => DOMAIN r.lit.contents = {"hash"}
    /\ r.op = "TouchLastVerified" => r.arg \in Nat
    /\ r.op \in {"ListKeys", "Walk"} =>
          DOMAIN r.arg = {"api", "owner", "size", "token"} /\ r.arg.size \in Int
    /\ r.op = "Mutate" => r.arg \in {"in", "out", "all"}

ASSUME SessionAssumption ==
    \A r \in SessionSteps :
        /\ RequestOK(r) /\ r.op # "Walk"
        /\ r.op = "ListKeys" => r.arg.token \in {"none", "next"}

VARIABLES test,     \* the number of the test, or of the session after them
          pc,       \* its next step
          stores,   \* driver -> tables and heap
          held,     \* driver -> cells of the last input, the last answer, all
          answer,   \* driver -> error and fields of the last answer
          token,    \* NextPageToken of the last page
          seen,     \* the pages of the pagination test
          made,     \* the IDs of the keys created, in order
          now,
          failed    \* tests that failed, with the driver

vars == <<test, pc, stores, held, answer, token, seen, made, now, failed>>

Drivers == {"memory", "postgres"}

Memory == INSTANCE MemoryValues
Postgres == INSTANCE PostgresValues

Session == Len(Run) + 1
SessionStart == Seeded \o <<Must(KeyLike(Full))>>

Script == IF test = Session THEN SessionStart ELSE Run[test]

-----------------------------------------------------------------------------
MemoryCall(s, r) ==
    CASE r.op = "CreateWorkspace"        -> Memory!CreateWorkspace(s, r)
      [] r.op = "GetWorkspace"           -> Memory!GetWorkspace(s, r)
      [] r.op = "CreateAPI"              -> Memory!CreateAPI(s, r)
      [] r.op = "GetAPI"                 -> Memory!GetAPI(s, r)
      [] r.op = "CreateKey"              -> Memory!CreateKey(s, r)
      [] r.op = "GetKeyByID"             -> Memory!GetKeyByID(s, r)
      [] r.op = "GetKeyByHash"           -> Memory!GetKeyByHash(s, r)
      [] r.op = "RevokeKey"              -> Memory!RevokeKey(s, r)
      [] r.op = "RotateKey"              -> Memory!RotateKey(s, r)
      [] r.op \in {"ListKeys", "Walk"}   -> Memory!ListKeys(s, r)
      [] r.op = "TouchLastVerified"      -> Memory!TouchLastVerified(s, r)
      [] r.op = "DecrementRemainingUses" -> Memory!DecrementRemainingUses(s, r)

PostgresCall(s, r) ==
    CASE r.op = "CreateWorkspace"        -> Postgres!CreateWorkspace(s, r)
      [] r.op = "GetWorkspace"           -> Postgres!GetWorkspace(s, r)
      [] r.op = "CreateAPI"              -> Postgres!CreateAPI(s, r)
      [] r.op = "GetAPI"                 -> Postgres!GetAPI(s, r)
      [] r.op = "CreateKey"              -> Postgres!CreateKey(s, r)
      [] r.op = "GetKeyByID"             -> Postgres!GetKeyByID(s, r)
      [] r.op = "GetKeyByHash"           -> Postgres!GetKeyByHash(s, r)
      [] r.op = "RevokeKey"              -> Postgres!RevokeKey(s, r)
      [] r.op = "RotateKey"              -> Postgres!RotateKey(s, r)
      [] r.op \in {"ListKeys", "Walk"}   -> Postgres!ListKeys(s, r)
      [] r.op = "TouchLastVerified"      -> Postgres!TouchLastVerified(s, r)
      [] r.op = "DecrementRemainingUses" -> Postgres!DecrementRemainingUses(s, r)

\* The IDs newID may return: a key's falls anywhere among the others, a
\* workspace's or an API's is never compared.
NewKeyIDs ==
    {2 * i : i \in 1 .. IF test = Session THEN 2
                        ELSE Cardinality({j \in DOMAIN Script : Script[j].req.op = "CreateKey"})}

NewIDs(op) ==
    CASE op = "CreateKey" -> NewKeyIDs \ {made[i] : i \in DOMAIN made}
      [] op = "CreateWorkspace" -> {Cardinality(DOMAIN stores["memory"].workspaces) + 1}
      [] op = "CreateAPI" -> {Cardinality(DOMAIN stores["memory"].apis) + 1}
      [] OTHER -> {Missing}

KeyOps == {"GetKeyByID", "RevokeKey", "RotateKey", "TouchLastVerified",
           "DecrementRemainingUses"}
ListOps == {"ListKeys", "Walk"}

TokenOf(t) == IF t = "next" THEN token
              ELSE IF t = "afterFirst" THEN Sorted({made[i] : i \in DOMAIN made})[1] + 1 ELSE NoToken

\* The call driver d gets when newID returns id: the caller's literal is
\* allocated and the keys and tokens are the ones it was given.
Call(d, r, id) ==
    LET in == Alloc(stores[d].heap, r.lit.contents)
        call == [op |-> r.op, now |-> now, v |-> [plain |-> r.lit.plain, ref |-> in.ref],
                 id |-> IF r.op \in KeyOps /\ r.id # Missing THEN made[r.id]
                        ELSE IF id # Missing THEN id ELSE r.id,
                 arg |-> IF r.op \in ListOps THEN [r.arg EXCEPT !.token = TokenOf(@)]
                         ELSE r.arg]
        s == [stores[d] EXCEPT !.heap = in.heap]
    IN [in |-> Cells(in.ref),
        answer |-> IF d = "memory" THEN MemoryCall(s, call) ELSE PostgresCall(s, call)]

\* The cells an answer gives its caller, and its fields as the tests see them.
OutCells(a) == UNION {Cells(a.structs[i].ref) : i \in DOMAIN a.structs}

Fields(op, a) ==
    LET got == [i \in DOMAIN a.structs |->
                  View(a.structs[i].plain, Contents(a.s.heap, a.structs[i].ref))]
    IN IF op = "DecrementRemainingUses" THEN [remaining |-> a.num]
       ELSE IF op \in ListOps THEN [keys |-> got, next |-> a.num]
       ELSE IF a.structs = <<>> THEN None
       ELSE got[1]

Listed(fields, f) == [i \in DOMAIN fields.keys |-> fields.keys[i][f]]

\* What a test asks of an answer, field by field (assertKeyFields), ids being
\* those of the keys created so far.
Meets(fields, f, want, ids) ==
    CASE f = "key" -> fields.id = ids[want]
      [] f \in {"createdAt", "updatedAt"} -> fields[f] # 0
      [] f = "len" -> Len(fields.keys) = want
      [] f = "more" -> (fields.next # NoToken) = want
      [] f = "apis" -> \A i \in DOMAIN fields.keys : fields.keys[i].api \in want
      [] f = "owners" -> \A i \in DOMAIN fields.keys : fields.keys[i].owner \in want
      [] f = "first" -> \A g \in DOMAIN want : fields.keys[1][g] = want[g]
      [] f = "allButFirst" ->
            Listed(fields, "id") = SubSeq(Sorted({ids[i] : i \in DOMAIN ids}), 2, Len(ids))
      [] OTHER -> fields[f] = want

Expected(step, a, ids) ==
    /\ step.err \in {"any", a.err}
    /\ \A f \in DOMAIN step.want : Meets(a.fields, f, step.want[f], ids)

-----------------------------------------------------------------------------
NewSession == [d \in Drivers |-> NewStore]
NothingHeld == [d \in Drivers |-> [in |-> {}, out |-> {}, all |-> {}]]
NoAnswer == [d \in Drivers |-> [err |-> "nil", fields |-> None]]

Init ==
    /\ test = 1 /\ pc = 1 /\ failed = {}
    /\ stores = NewSession /\ held = NothingHeld /\ answer = NoAnswer
    /\ token = NoToken /\ seen = <<>> /\ made = <<>> /\ now = 1

\* The caller writes through references it holds.
Write(what) ==
    /\ stores' = [d \in Drivers |->
                    [stores[d] EXCEPT !.heap = mutateKeyValue(@, held[d][what])]]
    /\ UNCHANGED <<held, answer, token, made, now>>

\* Both drivers get the call.
Ask(r) ==
    \E id \in NewIDs(r.op) :
        LET call == [d \in Drivers |-> Call(d, r, id)]
            a == [d \in Drivers |-> call[d].answer]
            ids == IF r.op = "CreateKey" /\ a["memory"].err = "nil"
                   THEN Append(made, id) ELSE made
        IN /\ stores' = [d \in Drivers |-> a[d].s]
           /\ answer' = [d \in Drivers |-> [err |-> a[d].err, fields |-> Fields(r.op, a[d])]]
           /\ held' = [d \in Drivers |->
                         LET out == OutCells(a[d]) IN
                         [in |-> call[d].in, out |-> out,
                          all |-> held[d].all \cup call[d].in \cup out]]
           /\ token' = IF r.op \in ListOps THEN a["memory"].num ELSE token
           /\ made' = ids
           /\ now' = now + 1

\* A step of a test.  t.Fatalf ends it.
TestStep ==
    /\ pc \in DOMAIN Script
    /\ LET step == Script[pc] IN
       \/ /\ step.req.op = "Mutate"
          /\ Write(step.req.arg)
          /\ pc' = pc + 1
          /\ UNCHANGED <<failed, seen>>
       \/ /\ step.req.op \notin {"Mutate", "Walk"}
          /\ Ask(step.req)
          /\ LET bad == {d \in Drivers :
                           ~Expected(step, answer'[d], made')}
             IN /\ failed' = failed \cup {<<test, d>> : d \in bad}
                /\ pc' = IF bad = {} THEN pc + 1 ELSE Len(Script) + 1
          /\ UNCHANGED seen
    /\ UNCHANGED test

\* One page of the pagination test's loop.
TestPage ==
    /\ pc \in DOMAIN Script /\ Script[pc].req.op = "Walk"
    /\ Ask(Script[pc].req)
    /\ LET Page(d) == Listed(answer'[d].fields, "id")
           pages == Append(seen, [d \in Drivers |-> Page(d)])
           Keys(d, p) == UNION {{p[i][d][j] : j \in DOMAIN p[i][d]} : i \in DOMAIN p}
           last == token' = NoToken \/ Len(pages) = MaxPages
           bad == {d \in Drivers :
                     \/ answer'[d].err # "nil"
                     \/ \E j \in DOMAIN Page(d) : Page(d)[j] \in Keys(d, seen)
                     \/ last /\ Cardinality(Keys(d, pages)) # Script[pc].want.count}
       IN /\ seen' = pages
          /\ failed' = failed \cup {<<test, d>> : d \in bad}
          /\ pc' = IF last \/ bad # {} THEN pc + 1 ELSE pc
    /\ UNCHANGED test

\* newStore(t) for the next test.
NextTest ==
    /\ test # Session /\ pc \notin DOMAIN Script
    /\ test' = test + 1 /\ pc' = 1
    /\ stores' = NewSession /\ held' = NothingHeld /\ answer' = NoAnswer
    /\ token' = NoToken /\ seen' = <<>> /\ made' = <<>> /\ now' = 1
    /\ UNCHANGED failed

\* The server creates a key for an API it has found, in that API's workspace.
OfItsAPI(key) ==
    LET apis == stores["memory"].apis IN
    key.api \in DOMAIN apis /\ key.workspace = apis[key.api].plain.workspace

SessionStep(r) ==
    /\ test = Session /\ pc \notin DOMAIN Script
    /\ pc <= Len(Script) + MaxSession
    /\ r.op \in KeyOps => r.id = Missing \/ r.id \in DOMAIN made
    /\ r.op = "CreateKey" => NewIDs(r.op) # {} /\ OfItsAPI(r.lit.plain)
    /\ IF r.op = "Mutate" THEN Write(r.arg) ELSE Ask(r)
    /\ pc' = pc + 1
    /\ UNCHANGED <<test, seen, failed>>

Next == TestStep \/ TestPage \/ NextTest \/ \E r \in SessionSteps : SessionStep(r)

Spec == Init /\ [][Next]_vars

-----------------------------------------------------------------------------
\* Times agree to the microsecond.  UpdatedAt of a revoked key need not:
\* revoking it once more moves it in Postgres only.
TimeFields == {"createdAt", "updatedAt", "expiresAt", "lastVerifiedAt"}

Revoked(x) == "enabled" \in DOMAIN x /\ ~x.enabled

SameFields(x, y) ==
    /\ DOMAIN x = DOMAIN y
    /\ \A f \in DOMAIN x \ {"keys"} :
          IF f \in TimeFields
          THEN Micro(x[f]) = Micro(y[f]) \/ (f = "updatedAt" /\ Revoked(x))
          ELSE x[f] = y[f]

Alike(x, y) ==
    /\ SameFields(x, y)
    /\ "keys" \in DOMAIN x =>
          /\ Len(x.keys) = Len(y.keys)
          /\ \A i \in DOMAIN x.keys : SameFields(x.keys[i], y.keys[i])

\* Every test of the suite passes on both drivers.
SuitePasses == failed = {}

\* Whatever the caller was given and wrote to, both drivers hold the same
\* workspaces, APIs and keys.
StoredAlike ==
    LET m == stores["memory"]
        p == stores["postgres"]
    IN \A t \in {"workspaces", "apis", "keys"} :
          /\ DOMAIN m[t] = DOMAIN p[t]
          /\ \A id \in DOMAIN m[t] :
                SameFields(View(m[t][id].plain, Contents(m.heap, m[t][id].ref)),
                           View(p[t][id].plain, p[t][id].column))

\* The drivers give the same answers: the same error and the same fields.
AnsweredAlike ==
    /\ answer["memory"].err = answer["postgres"].err
    /\ Alike(answer["memory"].fields, answer["postgres"].fields)

=============================================================================
