# A TLA+ model of keychain

keychain issues, rotates, revokes and verifies API keys over gRPC. This
directory holds TLA+ modules that model its handlers, its two storage drivers,
the store conformance suite and the process around them, the TLC configurations
that check them on small instances, and TLAPS proofs of what holds for instances
of every size.
`PROJECT.json` lists the components, runs, mutants, the correspondence between
definitions and source lines, the hazards and the theorems.

## The system

| component | state | operations | hard part |
|---|---|---|---|
| handlers (`keychainserver/server.go`) | none between requests; a request's locals while it runs | Create/Get Workspace and Api; Create, Get, Revoke, Rotate, List, Verify Key | one request is several store calls; the key `VerifyKey` decides on is a copy |
| store contract (`keychainserver/store/store.go`) | workspaces, APIs, keys | one method per operation, and `TouchLastVerified`, `DecrementRemainingUses` | what is atomic, what each method reports, what a lost answer leaves behind |
| memory driver (`store/memory`) | three maps, a hash index, a mutex | the contract | map and index written one after the other; slices and maps shared with callers |
| postgres driver (`store/postgres`) | three tables, a connection pool | the contract, one or two SQL statements per method | two statements are not one transaction; the pool; broken connections; what columns do to values |
| conformance suite (`store/conformance`) | a store per test | 35 tests | what it does not look at |
| key material (`pkg/keymat`) | none | `New`, `Hash`, `Validate` | entropy and collisions |
| rate limiter (`options.go`, `cmd/keychain`) | a remote budget (external); none in the fail-closed one | `Consume` | some limits allow, others deny; failure after charging |
| process (`cmd/keychain/main.go`) | listener, metrics server, store handle, signal context | commands, start, serve, graceful stop with a timeout | handlers that outlive the grace period; errors and signals at every stage |
| configuration (`internal/config`) | none | `Load`, `Validate` | which driver an environment selects |
| migrations (`postgres.go`, `migrations/`) | schema, version, dirty flag, lock, in the database | `RunMigrations` | two starts at once; a death half way |
| wire types (`gen/`), embedding example | — | — | — |

Callers reach the handlers concurrently, one goroutine per request. Handlers
share nothing but the store and the limiter; several servers may share one
Postgres. The store never calls back.

What makes each part correct:

* *handlers*: a limited key is never VALID more often than it was granted uses;
  a plaintext that can no longer verify never does; a denial that was decided
  on an old copy is true when it is sent; keys only ever lose rights; every
  limit has consented to a VALID; a credit that is gone bought a VALID (not so
  when a store answer is lost: see the findings); every request is answered.
* *store*: each call takes effect at one instant between call and return, or
  fails with or without effect if its connection broke; a plaintext names at
  most one key; a key belongs to the workspace of its API.
* *drivers*: they implement the contract; the index mirrors the keys; a method
  that has returned or waits holds no connection; every call returns; they
  answer alike, and nothing a caller does to a value it holds reaches the store.
* *listing*: a walk along the page tokens lists every key that was there
  throughout, once and in order, and ends.
* *process*: it serves from a migrated schema or not at all; keys it
  acknowledges are where its configuration says; a graceful stop neither cuts a
  handler off nor takes its store away; it stops accepting health probes before
  it closes the store; a signal ends it.

## Modules

    KeyMat            pkg/keymat
      Store           rows and the effect of each store method, as operators
        KeychainServer        the handlers over Store
          MCKeychainServer    instances for TLC
          KeychainServerProofs        proofs: types, credits
            KeychainServerLifecycle   proofs: keys, hashes, tenants, denials,
                                      spends, touches, limits
        StoreContract         a store call by call (abstract specification)
        MemoryStore           store/memory, implements StoreContract
        PostgresStore         store/postgres, implements StoreContract
        MCStoreCalls          the calls TLC makes to the drivers
          MCMemoryStore, MCPostgresStore
        MemoryStoreProofs, PostgresStoreProofs  proofs: the contract is kept
    Listing           ListKeys of both drivers, as operators
      Pagination              a caller's walk through ListKeys
        MCPagination
        PaginationProofs      proofs: walks
      ListingProofs           proofs: sorting, pages; for PaginationProofs and
                              ConformanceProofs
      GoValues                structs, references and the heap (beside Listing)
        MemoryValues          store/memory with the copies it makes
        PostgresValues        store/postgres with its column conversions
        ConformanceSuite      the tests, as scripts
          Conformance         both drivers under the suite, and a free session
            MCConformance
            ConformanceProofs proofs: both drivers hold and answer the same
    Config            internal/config
      Process                 cmd/keychain, migrations, shutdown
        MCProcess
        ProcessProofs         proofs: migrations, shutdown, exit status

**KeyMat.** A plaintext is a pair of prefix and secret; its digest is a free
constructor, so different plaintexts have different hashes. The base32 text and
the payload's length are left out. `VerifyKey` calls `Validate` without a
prefix, so it rejects the empty plaintext only.

**Store.** A table is a function from the IDs that exist to rows. Each method is
an operator that returns the new table and the error. Rows keep what decides
anything: hash, permissions, limit refs, expiry, remaining uses, enabled,
last-verified. Names, owners and metadata are data nobody branches on.

**KeychainServer.** `workspaces`, `apis`, `keys` are the store; `frame[p]` holds
the locals of the request goroutine `p` runs, with its place in the handler:

| pc | next call | code |
|---|---|---|
| `c_store` | `store.CreateKey` | server.go:180 |
| `r_api`, `r_store` | `GetAPI` and key material; `store.RotateKey` | 215-231 |
| `v_lookup` | `GetKeyByHash` | 269 |
| `v_check` | the checks on the copy | 285-300 |
| `v_limit` | `Consume` | 306 |
| `v_decr` | `DecrementRemainingUses` | 320 |
| `v_touch` | `TouchLastVerified` and the answer | 331 |

A handler with one store call is one step, its argument checks included
(`InvalidRequest`). `StoreCall` is a store call as a handler meets it: it runs
and answers, or reports a driver error having run or not. `Restart` drops every
frame, and the tables too unless `Durable`. `reply` is the last answer sent.
`issued`, `granted`, `valids`, `admitted`, `bound` and the frame's `doomed` are
history: properties read them, and `issued` and `bound` also say which IDs and
secrets are fresh. They never guard what the code guards.

**StoreContract, MemoryStore, PostgresStore.** In the contract a call is invoked,
takes effect in one step (or fails), and returns an error and a value: the row
or the keys a read finds, the key a rotation leaves, the uses a decrement
leaves. What `ListKeys` finds is the keys of the API; which page of them it
returns is `Listing`'s. The memory driver has a step per map it writes, under
`mu`; the refinement mapping lets the call take effect when `keys` is written.
The Postgres driver has a step per statement and one to get a connection for it;
a rotation takes effect with its UPDATE, a decrement that met no row with the
second statement that finds out why. `busy` is the set of clients whose call
holds a connection. `Exec` and `QueryRow().Scan` give theirs back with the
statement's outcome (`Done`, pgx's doing). `ListKeys` keeps its own while it
reads its rows (phase `rows`) and gives it back when they are read
(`RowsRead`), when one of them does not decode and the method returns in their
midst (`DecodeFails`), or when the connection breaks. One thing the two drivers
promise differently: the key `RotateKey` returns is the Postgres row as the
second statement finds it, perhaps after another call has changed it. The
contract allows that in a step of its own (`Reread`), with `ReadBack` TRUE for
Postgres and FALSE for memory. Both mappings are
`Contract == INSTANCE StoreContract WITH call <- ...` and `Refines` is the
contract's specification. The contract lets a creation that offends against
both constraints report either error: the drivers differ there.

**Listing, Pagination.** A key ID is a positive integer, its place in the order
keys are sorted in; the empty token is 0, and the drivers are also compared on
tokens that are no key's ID. A call to `ListKeys` is one step: memory holds its
mutex, Postgres reads one snapshot. `owed` is history: the keys a walk must
list, those that match when it begins and those created ahead of its token.
`Restart` empties the memory store in the middle of a walk. That Postgres
compares IDs in the order Go does is assumed: IDs are lower-case hexadecimal
with dashes behind a common prefix, and every page of a walk is sorted by the
same driver.

**GoValues, MemoryValues, PostgresValues.** Elsewhere a stored key is a value.
Here a struct is its plain fields and a reference per slice, map and pointer;
`heap` holds what they point to. `cloneKey` (which stands for `cloneWorkspace` and `cloneAPI` too) allocates;
forgetting a field shares it. A Postgres row shares nothing, but its columns convert: nil slices and maps
become empty, empty metadata comes back nil, times keep whole microseconds
(`Precision` clock ticks each), a JSON null is a nil slice. Calls are one step
each; the interleaving inside them is `MemoryStore`'s and `PostgresStore`'s.

**ConformanceSuite, Conformance.** A test is a sequence of steps: a call, the
error it must report, what the answer must show; or a write through what the
caller last passed in or got. `TestStep` gives each call to both drivers. The
tests that seed 55 keys seed `DefaultPageSize + LastPage`. When the suite is
over, a session makes any calls of `SessionSteps` in any order, with a step that
overwrites everything the caller ever passed in or was given. A session creates
keys as the server does, under an API that exists and in that API's workspace
(`OfItsAPI`): a creation that offends against the hash and the API at once is
refused by each driver with a different error, as the contract allows.
`RequestOK` says what a well-formed call is.

**Config, Process.** `proc[p]` is a process: `pc` is where main is (`run`,
`openStore`, `locked`, `dirty`, `ran`, `ping`, `listen`, `select`, `stopping`,
`shutdownMetrics`, `drainMetrics`, `closeStore`, `closing`, `exited`), the other
fields are its context, gRPC server, store, metrics listener and a connection to
it (`probe`). Both Shutdowns of the metrics server close the listener at once;
main's then waits for the connection (`MetricsDrained`) for five seconds at most
(`MetricsTimeout`, which marks the probe `left`), and main goes on to close the
store. The watcher's Shutdown is waited for by nobody. `db` is the database all
processes share: whether the schema is there, golang-migrate's version and lock,
and the rows written. An RPC is a `CreateKey`: it reads the API, then inserts.
Every timer, the grace period's and the metrics server's, may run out at any
moment once it is set. A graceful stop may still let in RPCs that were under way
when it began (`Accept`). Not reachable, and so not actions: `openStore`
with an unknown driver (`Validate` refuses it) and `Serve` returning nil before
it was stopped.

## Runs

| run | instance | shows |
|---|---|---|
| `lifecycle` | 2 goroutines, 1 key with one use that expires, 3 secrets, store faults, restarts of a durable store | `NeverOverspent`, `TouchedOnlyIfSpent`, `NoResurrection`, `DenialIsFinal`, `KeyEvolution` |
| `limiter` | 3 goroutines, 1 key with two uses under two limits of budgets 2 and 3, costs 1 and 2, limiter faults | `LimiterObeyed`, `SpendAccounted` |
| `failclosed` | every RPC, 2 goroutines, 1 key ID and 2 secrets, so that it is rotated; requests with and without limits, permissions, an expiry, with remaining uses of -3, 0 and 1; the service's own limiter, which may fail; fairness | `TypeOK`, `LimiterObeyed`, `EveryRequestAnswered` |
| `collisions` | 2 keys, entropy that repeats, 2 workspaces, a memory store that restarts empty | `HashesDistinct`, `TenantConsistent` |
| `memory` | 2 clients, every method, a limited and an unlimited key, 2 hashes, an ID that does not exist | `IndexMirrorsKeys`, `Refines`, `UpdatedAtForward`, `CallsReturn` |
| `postgres` | the same over a pool of one connection that breaks, and rows that do not decode | `ConnectionsReturned`, `Refines`, `CallsReturn` |
| `pagination` | 4 key IDs, 2 APIs, 2 owners, pages of 1 and of the default 2, either driver, lost pages, restarts; fairness | `TypeOK`, `NothingSkipped`, `PagesInOrder`, `TokenPromisesMore`, `DriversAgree`, `WalkEnds` |
| `conformance` | the 35 tests, then every session of 4 calls over 2 keys | `SuitePasses`, `StoredAlike`, `AnsweredAlike` |
| `process` | 2 processes, one always on the database and one in each of 14 environments, 2 starts, 1 RPC, 1 connection to the metrics server at a time; fairness | `SchemaReady`, `HealthzBacked`, `AnsweredIsDurable`, `PoolOutlivesHandlers`, `CleanExit`, `SignalEnds`, `ServeFailureEnds` |
| `accounting_faults` | 3 goroutines, a key with two uses, store faults | `SpendAccounted` fails |
| `blocking_touch` | no fairness for `TouchLastVerified` | `DecisionDelivered` fails |
| `postgres_rotate` | one key, two rotations | `RotateReturnsNewHash` fails |

Bounds. Two handlers are what a race for the last credit takes; `limiter` has
three so that one can be ahead of a race of two. One use is the edge the
decrement's guard is about, two let one request succeed before the race. Two
hashes and two keys are a collision; a third secret lets a rotation be rotated
away. `MaxTime` 1 puts the clock before and at an expiry of 1; `failclosed`, where
types and answers matter and not the instant, has `MaxTime` 0 and an expiry that
has passed already. One connection is the pool at which holding one while
waiting for another, or leaving rows open, would block everyone. The larger runs
have 433,249 (`postgres`), 429,075 (`process`), 229,273 (`failclosed`) and
215,422 (`memory`) distinct states.
`ProcSymmetry` is used only in runs without liveness; properties and
configurations treat goroutines alike. Four key IDs give a walk by pages of one
a key before, at and after its token and room to create one on either side; the
default of two fills a page, leaves one over and ends a page with the last key.
Four calls after the suite are a creation or rotation, the overwriting of what
the caller holds, and two looks at what is left. Two starts are two processes
that race to migrate, or one that dies and comes back. Deadlock is checked
except in `conformance`, whose session ends after its bound, and `process`,
whose processes may all have exited for good.

Each passing property has a mutant: a definition next to the one it replaces,
marked `Mutant:`, that changes the code the way a plausible bug would and makes
the property fail in the same run.

Fairness. A handler that can step does (`WF` of `HandlerStep`): goroutines are
scheduled, and every call it makes is assumed to return. For the memory store
that is so: its mutex is held for a few statements. A pgx call returns when the
database answers, or when the request's context ends; the server sets no
deadline of its own, so for a caller that set none either `EveryRequestAnswered`
rests on a database that answers.
In the drivers, `Lock` and `Acquire` are strongly fair: `sync.Mutex` hands over
to a starving waiter and pgxpool serves waiters in order. No fairness is
assumed of callers, the clock, faults or restarts. In `Pagination` a page that is
asked for is answered (`WalkEnds` is about a caller that goes on). In `Process`
main takes its next step when it can and a statement whose context is cancelled
returns, as pgx promises; nothing is assumed of the database, and nothing of the
migrations, which take no context: `SignalEnds` therefore speaks of a signal
that comes after them, or waits until they are over. `ServeFailureEnds` states
the fairness it needs of the database itself, as its hypothesis.

## Findings

Three statements the repository makes of itself that the code does not keep:

1. `server.go:261` "Side effects (touch + decrement) happen only on a VALID
   decision": a decrement that commits and whose answer is lost is answered
   Internal (`accounting_faults`). With a healthy store the statement holds
   (`limiter`).
2. `store.go:123` "MUST NOT block the verify decision": `VerifyKey` waits for
   `TouchLastVerified` before it answers (`blocking_touch`).
3. `conformance.go:591` "KeyHash should be the new hash after rotation": the
   Postgres driver reads the row back in a second statement and may return a
   later rotation's hash (`postgres_rotate`). The server ignores that field.

Observations that contradict no text, or too little to earn a run:

* `store.go:116` calls a second `RevokeKey` a no-op; the Postgres driver writes
  `updated_at` again. `StoredAlike` and `AnsweredAlike` except that one field of
  revoked keys.
* The Postgres driver reads the clock before a statement waits for its row, so
  `updated_at` can also move back. Nothing is checked of its order;
  `UpdatedAtForward` is about the memory driver.
* The conformance suite does not notice a `RotateKey` that keeps the caller's
  hash slice: with `SharedHash` in its place all tests still pass, and only the
  session after them (`StoredAlike`) fails. The driver copies it.
* The Postgres driver's creations return the caller's own struct. A caller that
  writes to one writes to the other; the row is not affected.
* After a Serve error the handlers are neither drained nor cancelled before the
  pool is closed: they may be refused by it (`PoolOutlivesHandlers` makes the
  exception), and one that hangs in the database keeps `pool.Close`, and so the
  process, from returning, even when a signal follows (`SignalEnds` and
  `ServeFailureEnds` say what is left).
* Both Shutdowns of the metrics server drop their error. A `/healthz` connection
  that is still being served after five seconds may be answered by a process
  whose store is closed, or waits for its pool to close; `HealthzBacked` says
  that this is the only one.
* A process that dies in a migration leaves the version dirty, and every later
  start exits with an error until somebody repairs it; nobody serves meanwhile
  (`SchemaReady`).
* When GracefulStop ends as the timer runs out the select may still call
  `Stop`, which then has nothing to stop.

## Proofs

Every safety property a passing run checks, `SuitePasses` excepted, is also a
theorem: it holds for every value of the constants that
meets the assumptions, so for any number of goroutines, clients, processes,
keys, credits, limits and connections, any page size and any clock, with or
without faults and restarts. Each inductive invariant was checked by TLC on the
component's run first.

What is assumed of the constants: `NilAssumption` and `NoProcAssumption` (an
absent value is not a value), `ServerAssumption` (finitely many goroutines, the
types of what callers send), `ClientsAssumption` (memory: the free mutex is no
client), `RequestsAssumption` (the calls are
the interface's), `PoolAssumption`, `PageSizeAssumption`, `KeyIDsAssumption` and
`QueriesAssumption` (IDs are positive integers, a page size is an integer),
`RetriesAssumption` (the bound is a number), `PrecisionAssumption` (a
microsecond is at least one clock tick), `LastPageAssumption` (how many keys are
left for a last page is a number), `SessionAssumption` (a session's requests are
well-formed calls, and its page tokens are none or the last answer's). TLC
evaluates all of them. Two theorems have hypotheses of their own: `DeadStayDead`
that entropy does not repeat, `CreditsAccounted` that store calls answer and the
server is not restarted. Both are satisfiable (`lifecycle` and `limiter` run
under them) and needed: a secret drawn again does verify, and
`accounting_faults` refutes the second without them.

*Handlers.*

* `TypeCorrect` (`KeychainServerProofs`). `TypeOK` is inductive because
  `FrameOK` says which locals a handler has set at each pc, and that a key on its
  way to the store is not depleted already: 0 in a request means unlimited
  (`NormalizeRemaining`), 0 in a row means used up.
* `CreditsSafe`: `NeverOverspent`. The inductive
  invariant is `CreditInv == TypeOK /\ Fresh /\ Credit`. `Credit` adds two
  facts: a stored limited key's remaining uses are between 0 and its grant (so a
  decrement never makes `Spent` exceed it), and an ID that no key has had yet
  has no grant and no VALID answers. `Fresh` says that two creations on their
  way to the store never carry the same ID, nor one that was stored before;
  without it a creation could reset `granted` under a handler that has paid.
  Cardinalities of `Paid` change by one element at most in a step, which is all
  the proof uses of them.
* `KeysOnlyEvolve` (`KeychainServerLifecycle`): `KeyEvolution`. Each store
  operator takes a row to one it `Evolves` to, a new row has a fresh ID
  (`KeysStep`, from `Fresh`), and a restart keeps rows or drops them.
* `DenialsTrue`: `DenialIsFinal`. `DenialInv` adds to `CreditInv` that what
  makes a handler's copy fail its checks also makes the stored row fail
  (`Copies`, with `Follows`); this is kept up because rows only evolve and the
  clock only grows. `FrameStep` and `ReplyStep` say once what a step may do to a
  frame and to the last answer.
* `PlaintextsIdentify`: `HashesDistinct`, inductive with the types alone: a step
  sets at most one hash, to one no other key has (`HashStep`).
* `TenantsKept`: `TenantConsistent`. `TenantInv` says the same of the keys that
  handlers are about to store as of the stored ones; a restart that drops the
  tables drops those handlers with them.
* `DeadStayDead`: `NoResurrection`. `DoomInv` adds to `DenialInv` that material
  on its way into the store is nobody else's, now or before (`Unshared`, where
  entropy must not repeat), and that what a doomed lookup will find, or has
  found, does not pass the checks (`Doomed`).
* `TouchesPaid`, `CreditsAccounted`, `LimitsObeyed`. All rest on `Knows`: a handler past its checks holds a copy that had credit
  and is limited exactly when the stored key is. `ExactInv` counts: a decrement
  that succeeds moves its handler into `Paid`, the answer moves it out and into
  `valids`. `LimitInv` does the same for the units of a limit's budget.
  `Course` says where a handler can go from each pc.

*Drivers.*

* `MemoryRefines`, `IndexMirrors`, `ClockForward` (`MemoryStoreProofs`). The
  invariant: whoever is between `Lock` and `Unlock` holds `mu` (so there is one
  of them); when nobody is between two writes the index is the inverse of the
  keys' hashes (`Indexed`), and otherwise it misses only the key being written,
  whose new hash nobody else has (`Partly`); no timestamp is ahead of the clock;
  a call that has not written yet has no response, and what it returns is a row,
  a count or a list of keys (`Vals`).
  The refinement goes step by step: `Invoke` to `Invoke`, `Unlock` to `Return`,
  the step that writes `keys` (or finds out that there is nothing to write) to
  `Apply`; `Lock` and the writes to the index are not seen.
* `PostgresRefines`, `ConnectionsKept` (`PostgresStoreProofs`). The invariant: the
  unique index holds; a call holds a connection exactly in the phases `first`,
  `rows` and `second` (`ConnectionsReturned`, which is inductive with the types
  of the calls; the early return of `DecodeFails` is the step to look at); and
  for a call between its two statements (`SecondOK`), what the first statement
  found is still so whatever ran in between. That is the heart of it: keys are never deleted, a
  key with no credit left gains none, and an ID that no key had is not created
  while a rotation or decrement of it is under way (`NeverIssued`, from the
  contract's `Callable`). `Mild` is what a statement may do to the keys under
  such a call. Then a rotation is `Apply` at its UPDATE and its SELECT is
  `Reread`, a decrement that met no row is `Apply` at its SELECT, a listing is
  `Apply` at its query and reading its rows is not seen, nor is waiting for a
  connection; a broken connection or a row that does not decode is the
  contract's `Fail`. So the gap in a decrement never shows, and the gap in a
  rotation shows only in the key it returns (finding 3).

*Listing* (`ListingProofs`, `PaginationProofs`).

* `Sorted(S)` takes the element of each rank. That it enumerates any finite set
  in ascending order (`SortedFacts`) needs no induction: ranks are injective
  into `0 .. |S| - 1`, hence onto. From it, the binary search finds the number
  of keys up to the token, a key's ID or not (`StartFacts`); a slice of the
  sorted keys is a prefix of the sorted rest (`SubSeqAbove`); and the rows of
  the lowest ranks are the first rows (`SortedFirst`). So both drivers return
  the same prefix of the keys ahead of the token (`MemoryPages`,
  `PostgresPages`), which is `DriversPageAlike`.
* `AllListed`, `ListedInOrder`, `TokensKept` and `TypeCorrect`: the invariant adds that
  everything listed is at most the token while the walk goes on, that what is
  owed matches the query, and that a restart changes no row it keeps.
  `PageFacts` says of one page what the walk needs: ascending, ahead of the
  token, nothing left out up to the new token, and with a token more to come.

*Conformance* (`ConformanceProofs`): `StoresStayAlike`, `AnswersStayAlike`. They
hold of sessions of any length, calls and literals, any page size and precision,
and of the suite before them. That the stores hold the same is not inductive: a
caller's write would reach the memory store if it kept a reference of the
caller's, and a lookup by hash would go astray if the index were wrong. The
invariant `Inv` is:

* `Pair`: both stores are well formed and alike. In the memory store every
  reference leads to a block that has the field, the index is the inverse of the
  keys' hashes, and an API's workspace exists; a Postgres row has been through
  its columns (`RowKept`).
* `HeldInv`: no cell a caller ever passed in or was given is one the memory
  store refers to (`Apart`). It is kept because every value is copied on its way
  in and on its way out, into blocks that were not there before; so a caller's
  write changes nothing that is stored (`ScribbledPair`, `WriteStep`). The
  Postgres store refers to nothing.
* `Progress`: what the steps of a test so far have created. The drivers check a
  new key's hash and API in different orders, so they agree on a creation only
  if at most one of the two is wrong: the API exists, or there is no API and
  hence no key yet. `SuiteOK` shows that all 35 scripts are of that kind, the
  server (`OfItsAPI`) is too.
* `AnsweredAlike` itself, for the steps that answer nothing new.

Each method has a lemma (`CreateKeyAgree`, `RotateKeyAgree`, ...) that takes a
`Pair` to a `Pair` with alike answers and blocks of their own; `CallAgree` joins
them and `AskStep` adds what `Conformance` keeps of an answer. The same facts
about pages as in *Listing* show that both list the same keys.

*Process* (`ProcessProofs`): `SchemasReady`, `HealthTrue`, `AnswersDurable`,
`DrainBeforeClose`, `StatusTold`. One invariant: `Orderly` says what main has
set up and taken down by the time it is at each pc (for `HealthTrue`: from
`closeStore` on the metrics server does not listen, and a connection to it is
gone or `left`); `ProcOK` that one process
migrates at a time, the version is dirty while it does, and whoever has got past
the migrations has seen them done; `DrainOK` that a graceful stop that is over
has left no handler; `RpcOK` that a second call answered by a database has left
its row there. The two action properties follow because only a handler's own
step meets a closed pool, and only the return of `run` ends with status 0.

With TLC only: liveness (`EveryRequestAnswered`, `CallsReturn`, `WalkEnds`,
`SignalEnds`, `ServeFailureEnds`: fairness and `ENABLED` are out of this
prover's reach), and `SuitePasses`, which is a fact about the given calls of the
suite and not about every value of the constants. The three runs that expect a
violation refute their properties by one counterexample each.

## Assumptions

* The wall clock does not run backwards, and all servers share it.
* SHA-256 does not collide. `uuid.NewString` never repeats an ID. Entropy never
  repeats a secret except where `Collisions` says so.
* A remote limiter answers with a decision per ref, as its interface asks, and
  charges exactly the limits it allows.
* A Postgres statement is atomic, and under READ COMMITTED an UPDATE that waited
  for a row looks at its WHERE clause again.

## Not modelled

Generated code (`gen/`) and the conversion of messages field by field; the text
the commands print and `redactURL`; log output; the base32 form of a plaintext;
gRPC's health and reflection services, whose status never changes; the example
that embeds the handlers; the down migration, which the program never runs.
What golang-migrate, grpc and pgxpool do is modelled from how the code uses them.

## Plan

Done: key material, store operators, handlers, contract, both drivers (calls,
values, listing), the conformance suite, configuration and process; all safety
properties of handlers, drivers, listing, conformance and process proved, except
`SuitePasses`.

Left:

* The contract's own invariants (a plaintext names at most one key, whatever
  calls race), proved of `StoreContract` and carried to both drivers by the
  refinements.
