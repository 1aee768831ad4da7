# Verification of the cloud credit system

TLA+ specifications of the credit system in `src/`: what is modelled, what TLC
checks on small instances, and what TLAPS proves for all of them.

## The system

Agents in tenants' clusters send heartbeats with the CPU and memory used since
the last one and the number of active nodes. A gateway turns each into a
Temporal signal to the accounting workflow of the tenant. The workflow batches
heartbeats and charges them to the tenant's wallets in TigerBeetle: a posted
transfer per heartbeat for CPU and memory, and for nodes one pending transfer
(a reservation) per cluster, voided and made again at every flush. A wallet is
an account on which debits may not exceed credits, so TigerBeetle enforces the
limit. After a flush the workflow copies the balances to PostgreSQL. An
administrator issues credits through a workflow update.

The README of the repository (lines 57-64) and `docs/Design_wip.md` (1560-1573)
name five invariants: TigerBeetle transfers come only from workflows (I-1), a
heartbeat is charged once (I-2), TigerBeetle enforces the limit (I-3),
PostgreSQL is a projection that lags and converges (I-4), retries are
idempotent (I-5).

### Inventory

| Part | Source | State it owns | Operations | Runs concurrently with | Module |
|---|---|---|---|---|---|
| TigerBeetle wallets and their client | `internal/ledger` | balances, committed and refused transfer ids | create transfers, look up balances, create accounts | every activity attempt | `Ledger`; `Wallets` is what it promises |
| Accounting workflow | `internal/accounting/workflow_accounting.go` | processed sequence numbers, batch, reservations, exceeded marks, last ack, flush number | receive heartbeat or registration, timer, flush, IssueCredit, Continue-As-New | its own update handlers, activities, signals | `Accounting`; `FlushTimer` for the timer |
| TigerBeetle activities | `activities_tb.go` | none | SubmitTBBatch, SubmitAllocationTransfers, LookupAccountBalances, CreateTenantTBAccounts | earlier attempts of themselves | `Accounting`, `Provisioning` |
| PostgreSQL activities | `activities_pg.go`, `internal/db/sqlcgen` | `quota_snapshots`, alert flags, tenant, cluster and account rows | upserts, alert set and reset, inserts, deletions | each other | `Accounting`, `Provisioning` |
| Heartbeat gateway | `internal/gateway/heartbeat_handler.go` | channel and goroutines of each stream | receive, enqueue, dispatch with retries, unary call; answer every 500 ms | streams, unary calls, the workflow | `Gateway`, `Enforcement` |
| Gateway statistics | `heartbeat_handler.go:36-101`, `webui/handler.go` | message counter, rate mark, latency ring | count, record, rate and percentiles for two pages | requests, pages | `Metrics` |
| Deduplicator, stream manager | `dedup.go`, `stream_manager.go` | high-water mark, connected clusters | IsDuplicate, prune; Register, Deregister | all streams | `Gateway` |
| Provisioning | `workflow_provisioning.go`, `provisioning_handler.go` | step of each workflow, ids drawn | RegisterTenant, RegisterCluster | retries, restarts, deletions | `Provisioning` |
| Admin | `admin_handler.go` | none | IssueTenantCredit, DeleteTenant, DeregisterCluster, lists | everything | `Accounting`, `Provisioning`, `Reports` |
| Processes | `cmd/server/main.go`, `cmd/worker/main.go`, `db/migrate.go`, `accounting/worker.go` | open clients, listener, requests in flight | start, migrate, connect with retries, serve, shut down, crash | signals, requests, each other | `Server` |
| Simulator | `cmd/simulator` | current step, running commands, agents, stopped flags, replay and exhaustion channels | keys and ticks, the steps of the demo, send, replay, receive | its goroutines, the server | `Simulator`; agents also in `Enforcement` |
| Configuration, compression, generated protocol code, display | `internal/config`, `internal/compress`, `gen`, views of `ui.go` | - | - | - | not modelled |

## Modules

`Ledger` is what a client may rely on: requests executed one transfer after the
other, results, balances. `Wallets` says the same to somebody who knows nothing of
transfers: operations with an id that take effect at most once, a limit that is
never passed, reservations that are given back once. `Accounting` extends
`Ledger` with the workflow and its activities, so the workflow is checked against
the ledger it uses. Two refinements connect them: `Spec => LedgerSpec`, the
workflow uses the ledger as specified, and `ImplementsWallets` in
`LedgerWallets`, the ledger's transfers are wallet operations. `Reports` is what the quota reports say of a state of `Accounting`, and
`FlushTimer` puts the timer under it. `Gateway` ends at the signals which
`Accounting` receives: the environment of `Accounting` signals every heartbeat
at least once and possibly again, in the order of first copies (`Ordered`) or in
any order. `Provisioning` ends with the state in which `Accounting` starts: one
set of wallets, loaded once (`LoadedOnce` is what justifies `InitialCredits`).
`Enforcement` composes `Accounting` with the answers of the gateway and the agents
that obey them. `Server` composes the life of the processes with the counters of
`Metrics`, which live and die with the server. `Simulator` stands alone: the
server is its environment. The modules named `MC...` give the constants values,
those named `...Proofs` hold theorems.

An operator whose name starts with `Faulty` is a plausible mistake in the
operator it precedes: a dropped case, an off-by-one, a forgotten field. No
specification uses it. Each property has one that violates it, which shows that
the property depends on that piece of the code.

### Ledger

| Specification | Code |
|---|---|
| `DeriveTransferID`, `DeriveAllocationTransferID`, `DeriveGaugePendingID`, `DeriveGaugeVoidID` | the hashes of `ids.go`, as the tuples that are hashed; collisions are left out |
| `Overdraws` | `DebitsMustNotExceedCredits`, `accounts.go:90-93` |
| `CreateTransfers`, `ApplyNext`, `Respond` | one call of the TigerBeetle client: request, execution of the transfers in order, response |
| `Outcome`, `Transient`, `Commit`, `Released` | TigerBeetle 0.16.78: `exists`, `exceeds_credits`, `id_already_failed`, void results |

TigerBeetle is external, modelled from the results the code tells apart. A
refused transfer leaves its id unusable (`failed`). The operator and sink
accounts have no limit and are left out of `Ledger`.

### Accounting

A Temporal workflow runs one coroutine at a time and gives up control only
where it waits. `at[p]` names the wait of coroutine `p`: the main loop, or the
handler of an IssueCredit update. Each action takes a coroutine from one wait
to the next and does everything the code does in between.

| Action | Code (`workflow_accounting.go` unless named) |
|---|---|
| `ReceiveHeartbeat`, `ReceiveRegister`, `TimerFires` | the cases of the selector, 183-234, in its order of preference |
| `StartFlush`, `SubmitTBBatchDone` | `flushBatch`, 274-370, around the call of SubmitTBBatch |
| `ContinueAsNew`, `NewRun` | 244-269 and the start of the next run, 93-122 |
| `IssueCredit`, `SubmitAllocationDone` | the update handler and `flushAdjustment`, 154-178 and 403-442 |
| `Send`, `Execute`, `Reply` | an attempt of SubmitTBBatch or SubmitAllocationTransfers, `activities_tb.go`, `transfers.go` |
| `AttemptTimesOut`, `AttemptFails` | the retry policy; a timed-out attempt goes on running, because the client call takes no context |
| `LookupAccountBalances`, `UpsertQuotaSnapshot`, `CheckSoftLimits`, `ResetSoftLimitAlert` and their failures | the activities that follow, 374-398 and 443-461 |

The content of a heartbeat is a function of its cluster and number, so a resend
carries the same content. That is an assumption on agents: the replays of the
simulator break it, see "Not modelled". Amounts are converted to unsigned as the code does
(`Uint64`). In `Accounting` the flush timer may fire whenever the main loop
waits, which includes every case of `FlushTimer`. The rows of
`quota_configs` that hold soft limits are inserted by nothing in the
repository; `SoftLimit` stands for rows inserted by hand.

### FlushTimer and Reports

`FlushTimer` repeats the actions of `Accounting` (`TimedReceiveHeartbeat`,
`TimedTimerFires`, `FlushStep`, `HandlerStep`...) with what each does to
`timerFuture` and `CurrentFlushInterval` (`workflow_accounting.go:142-152`,
`197-234`). The Selector of the main loop keeps the future it was built with
(`heard`), while an update handler cancels the timer and stores a new one. A
cancelled timer makes its future ready with an error, and the branch does not
look at the error. `interval` is in units of which `BaseFlushInterval` is 2 and
`MaxFlushInterval` 3; an instance with a factor that is not a power of two
reaches the cap in `Doubled`.

`ListTenantQuotas` and `IssueTenantCredit` of `Reports` are the handlers of
`admin_handler.go:41-141`; `QuotaInfo` is the status both compute. Unlike the
answers to agents they do not consult the marks of the workflow, so a wallet
whose last units fit no heartbeat is reported as a warning while its agents are
stopped. An update whose lookup of balances fails is answered without balances.

### Gateway

Per stream: the receiving goroutine (`Receive`, `Register`, `DedupReceived`,
`Enqueue`, `EnqueueTimesOut`, `ReceiveEnds`), the dispatching goroutine (`Take`,
`Signal`, `SignalFails`, `Backoff`, `DispatchEnds`) and the handler
(`HandlerReturns`). `UnaryReceive` and `UnarySignal` are the unary call. The
variable `clusterID` is shared without a lock; the handler may read either
value. A torn read of the string is not modelled. `Prune` stands for the expiry
of an entry and for the restart of a pod with the in-memory deduplicator.
Sequence numbers above 2^53, which Valkey rounds, are out of range.

### Enforcement

| Specification | Code |
|---|---|
| `QueryExceededResources`, `ReadSnapshots` | `queryWorkflowState`, `heartbeat_handler.go:307-369`: a query of the workflow, then a read of PostgreSQL |
| `Exceeded`, `PendingCommands` | the status of a resource, 345-366, and `buildPendingCommands`, 437-451 |
| `ReceiveAnswer`, `Tick` | the receiving goroutine and the ticker of `ClusterSim.run` |
| `Workflow` | a step of `Accounting`, in which only heartbeats that were sent are signalled |

A resource has a row in `quota_snapshots` from its first flush or credit on;
without a row there is no status and no command. `WARNING` and `OK` lead to the
same commands and are not told apart. The history variable `emptied` records the
resources whose wallet has been used up at some time; no step depends on it.

### Provisioning

`Succeeds`, `Refused`, `AttemptFails`, `Unanswered`, `TimesOut` and
`LateExecutes` are what can become of the activity a workflow waits for, `Plan`
is the order of activities, `Executes` their effects. Account ids are random in
every attempt, so an account set is named by the attempt that made it; the
operator and sink accounts are named by the start of the server. Deletions only
mark rows, as the code does. `ListTenants`, `ListClusters` and
`ListStaleClusters` are the reads of `admin_handler.go` and of the report page.
A cluster is known to the accounting workflow when its register-cluster signal
has been accepted; that it is received is in `Accounting`.
`ListStaleClusters` is every active cluster: `last_heartbeat` is set by no
statement that is ever run, and the query takes NULL for stale.

### Metrics and Server

`Metrics` is the state of `heartbeat_handler.go:41-53`: `countMessage`,
`recordLatency` and `MsgRate` are its operations, `Percentiles` a pure function
of it. The ghost variables `durations` and `reported` record what has been put in
and told. `MsgRate` is called by two pages, which share the mark.

| Specification (`Server`) | Code (`cmd/server/main.go` unless named) |
|---|---|
| `NewPool`, `RunMigrations` | 53-63, `db/postgres.go`, `db/migrate.go`: each file applied by a statement of its own, all of them on every start |
| `Connect`, `Dial`, `Pause`, `Attempts`, `Cancelled` | the two retry loops, 65-89 and 102-126: the look at ctx, the return of NewClient, the wait; `cmd/worker` tries once |
| `CreateGlobalAccounts`, `StartWorker`, `ServeDebug`, `ConnectValkey`, `Listen` | 91-100, 128-136, 138-200, 202-223, 224-278 |
| `ListenFails` | `os.Exit` in the goroutine of the listener, 273-278 |
| `Shutdown`, `Drained`, `MayReturn`, `Close` | 280-290 and the deferred calls, last first |
| `Exit` | `os.Exit`, and `must`: no deferred call runs |
| `Start`, `Signal`, `Crash` | the environment, at any moment |

`cmd/worker` runs no migrations and may poll for work before a server has
applied them; the properties about the schema are stated for servers. Calls with
`context.Background()` or without a context, such as `CreateGlobalAccounts`, do
not notice a signal; that they return in the end is part of the fairness. NewClient
is one of them: when the signal comes while Temporal is being dialled the server
still starts its worker and listens, reaches `<-ctx.Done()` and then shuts down.
`SignalledStaysOut` is about every other moment, `SignalEnds` about all of them.
`ClientsOutliveUsers` is about the users in main, the worker and the listener; the
debug server is not stopped by a return before line 288.

### Simulator

| Specification | Code (`cmd/simulator`) |
|---|---|
| `KeyNext`, `KeyRestart`, `Tick`, `GoTo` | `Update`, `ui.go:158-214` |
| `stepProvision`, `CopyTenantIDs`, `RegisterNext`, `StartAgents`, `stepExhaust`, `CopyRecentSeqs`, `stepIdempotency`, `CallFails` | the steps, `main.go:430-617`, one action per call or channel operation |
| `HasID`, `TakeRamp`, `TakeReplay`, `DrawNumber`, `SendHeartbeat` | `ClusterSim.run`: its start, 130-132, and its select, 241-327; a number is drawn and shown in `recentSeqs` (276-282) before it is sent (313-324) |
| `Receive`, `Obey`, `StreamBreaks` | its receiver, 147-239; a stream may also fail before its first message |

A step runs in a goroutine of its own, so the next one, or the first step of a
new round, starts while it runs. Four things follow from the code and are
exceptions in the properties: a second exhaustion step before agent A has taken
the first closes a closed channel and the program panics (`panicked`); after a
restart two agents of one cluster run side by side; a replay step with no
agent left to read its channel waits for ever; and an exhaustion step clears
`stopped` while the receiver's `wasStopped` stays set, so an agent under a kill
signal sends again and ignores the signal until it has gone away once, although
`main.go:191` says "Stop all heartbeats while the signal is active". `recentSeqs`
is read without a lock; the model reads the slice as a whole, and a read that is
torn between its length and its array is left out.

## Runs

| Run | Instance | What it shows |
|---|---|---|
| `wallet` | CPU only, credit 2, three heartbeats (1, 2, -1) up to twice each, a credit, one fault, two flushes by the timer | `LedgerInv`, `NoUsageLost`, `ChargedOnce`, `ExceededIsJustified` hold, `LedgerSpec` is implemented, and by `ReportsArePast` no report shows a balance that never was |
| `calls` | nodes only, two updates (symmetric), two heartbeats, one fault, one Continue-As-New | `AcknowledgedCreditIsPosted`, `NeverGoesBack`, `OneReservationPerCluster`; `CreditedOnce`: no retry, late request or new run gives a credit twice |
| `projection` | CPU and nodes, two clusters, wallets of 2, soft limits, any order of heartbeats, a registration | `OneReservationPerCluster`, `SnapshotsConverge`, `SoftLimitIsReported`: the projections agree with the wallets; `ImplementsWallets`: with reservations that compete and are refused |
| `flush_timer` | CPU, two heartbeats, a credit, a registration, one fault, one Continue-As-New, fairness | `FiresOnce`: the loop never listens to a future it has served; `HeartbeatsAreProcessed`, `UpdatesEnd`: with the timer as the only thing that flushes a small batch |
| `gateway` | one stream and one unary call, channel of one, one retry, two heartbeats up to twice, each kind of fault, two kinds at a time | `DuplicatesArePaidFor`, `StreamKeepsOrder`, `RejectedWasHere`, `QueuedIsSignalled`, `GoroutinesEnd` |
| `provisioning` | one tenant, one cluster, two resources, two attempts, three faults, two starts | `ProvisionedIsWhole`, `LoadedOnce`, `RegisteredIsKnown`, `DeletedStaysOut`, `CallsEnd` |
| `enforcement` | nodes only, credit 1, two heartbeats (2, 1) of one agent, a credit, one failed query, read or call, fairness | `StopIsJustified`, `CrumbsStopAgents`: agents are stopped when a reservation is refused or a wallet was used up, and only then |
| `simulator` | two tenants with a cluster each, two rounds, two commands at a time in the first and one in the second, two numbers drawn by the first agent of A (the agent of the second round only replays), one number kept and replayed, a stream of A that may break | `SimulatorInv`: agents and heartbeats name registered clusters (`NamesKnownCluster`) and hold on the signal (`StopFollowsSignal`); `ReplayIsDuplicate`, `StepsEnd` |
| `server` | one server and one worker process, two migration files, two attempts, a ring of two, two latencies, three messages | `ServerInv`: clients outlive their users (`ClientsOutliveUsers`) and work is taken only with the whole schema (`ServingHasSchema`); `SignalledStaysOut`, `SignalEnds`; `MetricsInv`: the ring and the rate; `PercentilesMatch`, against a definition that does not sort |

Three runs end in a counterexample: the code does something that a comment beside
it excludes.

| Run | Behaviour | Contradicts |
|---|---|---|
| `stuck_shutdown` | TigerBeetle refuses a flush; a credit is issued and clears the mark; the flush resumes and sets it; the agents are stopped, so no flush clears it, and they never resume | `heartbeat_handler.go:439`, `workflow_accounting.go:63` |
| `lost_on_new_run` | a heartbeat arrives during the last flush before Continue-As-New and is not received | `workflow_accounting.go:245-246` |
| `refused_batch` | an attempt is refused and its result lost; every later attempt fails on the refused id | `workflow_accounting.go:360-361` |

Limits of the passing runs:

* `NoUsageLost` is checked without Continue-As-New, see `lost_on_new_run`.
* `OneReservationPerCluster` is checked with one cluster, room for all its
  reservations and one fault (`calls`), and with two clusters that compete and no
  fault (`projection`). Outside of that it fails in two ways, both because the
  reservations of a flush that fails are not in `PendingGaugeIDs`
  (`workflow_accounting.go:330`). All attempts time out, one is executed later,
  and the next flush reserves again under ids of its own. Or, whatever the number
  of attempts, with two clusters and one fault: one reservation lands, the other is
  refused, the result is lost, and every retry meets `id_already_failed`.
* `SnapshotsConverge` and `SoftLimitIsReported` are checked without credits and
  without faults: a flush and a credit that interleave can write their balances in
  the wrong order, and a write that fails leaves the old rows. `ReportsArePast`,
  checked in `wallet` with both, says what remains true of the rows then.
* `UpdatesEnd` counts a call that Continue-As-New aborts as ended.
* `RejectedWasHere` has an exception for a heartbeat whose signal failed: the
  gateway has recorded its number by then (`dedup.go:45`,
  `heartbeat_handler.go:251-255`) and answers the resend as a duplicate.

### Bounds

Retry limits are 2 attempts instead of 5: what matters is that there is a
last attempt and one before it, and that faults can reach the last one where a
property should survive it. Two clusters suffice to compete for a wallet, two
updates to interleave, two copies for a duplicate. The third heartbeat of
`wallet` is there so that a refused, an accepted and a negative amount can
share a batch. `TwoTo64` is 64, larger than every wallet. `MaxFlushes`
stops the timer from flushing for ever a batch that keeps failing; 2 in `calls`
is a flush per heartbeat, 2 in `wallet` one of a batch that fails and one after it,
and a full batch is flushed whatever the bound. One tenant
suffices in `provisioning`, since calls share no id. One agent
suffices in `enforcement`: agents of a tenant influence each other only through
the wallets. In `simulator` the first cluster is the one the steps are about and
the second belongs to another tenant; two rounds and two commands make a step
overlap with its successor and with the first step of a restarted demo. In
`gateway` two kinds of fault meet in a behaviour (`MaxKinds`), which is what it
takes to pay for a duplicate in both ways; the proofs about `Gateway` are for every
value of it. In `server` the server starts up to twice and the worker once; a ring
of two wraps within three records, so TLC sees few indexes of a percentile;
`MetricsInv` is proved for rings of any size, `PercentilesMatch` is not. Deadlock is checked in every run of `Accounting`,
`FlushTimer` and `Enforcement`; it is off in the runs of `Gateway`,
`Provisioning`, `Simulator` and `Server`, where everything may end.

### Fairness

Weak fairness of each coroutine's next step, of the current attempt's request
and of TigerBeetle (`Accounting`, `FlushTimer`), of a running timer
(`FlushTimer`), of each goroutine (`Gateway`), of the workflows and the answers
to callers (`Provisioning`), of the send loop with its ticker (`Enforcement`), of
start-up and shutdown (`Server`: every call returns, with a result or an error).
Temporal keeps scheduling a workflow and the attempts of its activities, Go keeps
scheduling its goroutines, and the timers used (flush interval, backoff,
`sigChTimeout`, the 10 s of the shutdown) are finite. In `Simulator` commands have
strong fairness, because goroutines that wait to send on a channel are served in
turn; a send on a stream returns (`Beats`), and a replay that waits is taken
(`Replays`), for which weak fairness is enough: the numbers an agent draws are
bounded, so its select is in the end always ready for the replay. No fairness is assumed of agents, keys, requests, faults, timed-out
attempts or of Continue-As-New being suggested.

## Proofs

Every theorem is about any number of whatever the constants count. The
assumptions on the constants are named in the modules that declare them; they are
listed at the end of this section.

### The ledger, the workflow and its calls

`AccountingProofs` starts with the ledger by itself, for every client:

* `LedgerCorrect`: `LedgerSpec => []LedgerInv`;
* `HardLimitHolds`: `LedgerSpec => []HardLimit`, invariant I-3.

The client of `LedgerSpec` submits any finite batch of well-formed transfers
whenever TigerBeetle is idle. `HardLimit` alone is not inductive. Voiding a
reservation subtracts its amount from the pending debits, which keeps them
meaningful only if the reservation is in the books and was not voided before
(`VoidsAreMatched`), and the amount found under an id must be the amount that
was added, hence `OneEntryPerId`. That `exists` may be taken for "committed"
needs `RefusedIsNotCommitted`. Their conjunction with the types is the inductive
invariant `LedgerInv`, which TLC also checks in `wallet`. The proof has one
lemma per conjunct for the execution of a transfer, the only step that changes
balances; requests and responses leave them alone.

Then the workflow with its activities:

* `AccountingImplementsLedger`: `Spec => LedgerSpec`;
* `AccountingKeepsBooks`: `Spec => []LedgerInv`, with it invariant I-3;
* `NothingGoesBack`: `Spec => NeverGoesBack`.

The inductive invariant `FlowInv` follows the data: heartbeats in the channel and
in the batch, the reservations the workflow knows of, the input of each attempt
and the request it may make next. From it every slot of a batch is a well-formed
transfer, negative usage included, so a request is one `LedgerSpec` allows. One
lemma per action shows that it keeps `FlowInv` and moves no number back (`Kept`).

Last the wallets:

* `LedgerImplementsWallets`: `LedgerSpec => ImplementsWallets`;
* `AccountingImplementsWallets`: `Spec => ImplementsWallets`.

The refinement mapping (`LedgerWallets`) reads the reservations held off the
books: the pending transfers that no void names. A transfer that TigerBeetle
accepts is one wallet operation (`CommitIsOperation`, a case per kind of
transfer); a refused or repeated one, a request and a response are stutters. The
step needs `LedgerInv`: an id that enters the books is new, no void names it yet,
and a void names one reservation only. With `AccountingImplementsLedger` the
whole workflow implements the wallets.

`CallsProofs` is about attempts, requests and responses:

* `ResponsesFindTheirAttempt`: `Spec => []Addressed`, the request TigerBeetle
  executes is the one a single running attempt makes at its stage;
* `CreditsArePosted`: `Spec => []AcknowledgedCreditIsPosted`;
* `ExceededIsRefused`: `Spec => []ExceededIsJustified`.

An attempt that has timed out goes on, and its request may arrive after that of
its successor. `CallInv` says that a flush number belongs to one call and an
attempt's numbers to it alone (`NumbersOK`, `AttemptsOK`), that the batch of an
attempt is the batch the main loop waits with (`BatchOK`), that a request belongs
to one attempt (`RequestOK`), and that each result tells what is in the books
(`ResultsOK`). `Goes` says once what any step does to calls and attempts; what
follows uses it instead of going through all the actions again.

An update is acknowledged when an attempt of it ends with `ok` or `exists`, so
`CreditsArePosted` rests on who can have made the entry that exists: `BooksOK`
adds to `CallInv` that every allocation in the books is the credit of the one
update with its flush number. `ExceededIsRefused` adds `PerOK`: what an attempt
reports as exceeded was refused by TigerBeetle, whichever attempt was refused.

### Reports, timer and projection

`ReportsProofs`:

* `AccountingTypes`: `Spec => []TypeOK`, for the whole of `Accounting`;
* `ReportsAreTruthful`: `Spec => []ReportsArePast`;
* `TimedWorkflowImplementsAccounting`: `TimedSpec => Spec`;
* `TimerFiresOnce`: `TimedSpec => []FiresOnce`;
* `ProjectionsConverge`: `Spec => [](Undisturbed => SnapshotsConverge /\ SoftLimitIsReported)`,
  invariant I-4.

`WholeInv` joins `LedgerInv`, `FlowInv` and the types of the waits, the rows and
the counters (`StateInv`, `SeqsOK`). The types are needed below: a row or a
fetched balance is a record of numbers, the main loop and the handlers are at waits
of their own.

A report is computed from a row or from what an update fetched. `PastInv` says of
both that they are balances of an earlier state (`Past`): not more credit and not
more spending than there is now, not overdrawn, and with pending debits for nodes
only. It is preserved because credits and posted debits never fall (`Grows`); it
needs no order between the flushes and the credits that write rows.

`TimedWorkflowImplementsAccounting` shows that `FlushTimer` adds nothing to what
`Accounting` may do: each of its steps is one of `Accounting` or leaves it alone.
What is proved of `Accounting` therefore holds with the timers as the code handles
them. `FiresOnce` alone is not inductive: `TimerInv` adds that a future whose branch
was taken is in `timerFuture` only while a flush is under way.

`ProjectionsConverge` is conditional on `Undisturbed`: nothing has failed, no
credit has been issued and the workflow has not continued as new. Without the
condition the conclusion is false (see the limits of the runs). Its invariant,
`Projected`, says that there is one attempt at most and only while the main loop
waits for it, so nothing changes a wallet between the lookup of a flush and its
last row, and that the batch is empty again only after a flush that has gone all
the way.

### What tenants can rely on

`GuaranteesProofs`:

* `FirstRunLosesNoUsage`: `Spec => [](runs = 0 => NoUsageLost)`, if `Ordered` and
  if registered clusters count their heartbeats from 1;
* `StopsAreJustified`: `LoopSpec => []StopIsJustified`, for all resources, the
  reserved one included.

A heartbeat leaves the channel for the batch and the batch for the books, or is
dropped because its number is not above the last one processed. The invariant has
two parts. `StagesOK`: an attempt past its usage request has every heartbeat of
its batch decided, which takes the nested loops that build the request reaching
every pair of heartbeat and resource (`LoopSlot`). `LineInv`: a heartbeat in the
channel or in the batch has the earlier ones of its cluster before it or decided,
so what the sequence check drops has been decided. The theorem has three
conditions. After Continue-As-New the conclusion is false
(`lost_on_new_run`). Without `Ordered` a heartbeat overtaken on the way to
the workflow is dropped as old. A registration sets the processed number of a
cluster that has none to 0, so a heartbeat numbered 0 would be dropped; the simulator's agents
count from 1.

An answer to an agent is put together from the marks of the workflow and, later,
from the rows, and it may be old when it arrives. `LoopInv` says that the marks
that were read name refused resources, and that a command on its way and an agent
that is stopped each have a reason; `WorkflowInv` collects what the argument uses
from the other modules: a mark follows a refusal (`ExceededIsJustified`), a row is
of the past (`PastInv`). A reason does not go away: refused ids stay refused, and
a row that shows nothing left was read from a wallet that was used up then, which
`emptied` remembers (`RowsInv`). The balances themselves would not do: a
reservation of nodes is given back, and a credit makes room again.

### Provisioning

`ProvisioningProofs`:

* `ProvisioningCorrect`: `Spec => []ProvisionedIsWhole`;
* `AllocationCorrect`: `Spec => []LoadedOnce`;
* `RegistrationCorrect`: `Spec => []RegisteredIsKnown`;
* `DeletionsLast`: `Spec => DeletedStaysOut`;
* `ProvisioningTypes`: `Spec => []TypeOK`, with its bounds: no activity is attempted
  more often than `MaxAttempts`.

The first three are about the end of a workflow, so none is inductive.
`ProvisioningInv` adds what holds when a workflow has come to each of its steps
(`ReachedBy`), that a call is made once (`CallsOnce`), and that everything an
earlier attempt has loaded, or a timed-out one may still load, is on the accounts
and under the operator ids that the workflow has settled on (`LoadsSettled`): a
late CreateTenantTBAccounts only adds accounts nobody uses, a late allocation
repeats ids that are in the books. `ClusterReached` does for RegisterCluster what
`ReachedBy` does for tenants. `Grows` says that no step takes back a row or the
mark of a deletion. Lemmas about the effects of an activity are shared by
attempts that succeed, lose their answer or come late. `TypeOK` is inductive next
to `ProvisioningInv`, which keeps the workflows of tenants and of clusters apart.

### Processes and counters

`ServerProofs`:

* `MetricsCorrect`: `MetricsSpec => []MetricsInv`, the types with `RingHoldsLast`
  and `RateCountsOnce`, which `RingCorrect` and `RateCorrect` single out;
* `ServerImplementsMetrics`: `Spec => MetricsSpec`;
* `ServerCorrect`: `Spec => []ServerInv`;
* `SignalledNeverServes`: `Spec => SignalledStaysOut`, a server signalled before it
  dials Temporal never connects to it.

`MetricsInv` is inductive. The argument for the ring is about the slot `k` records
back (`Back`): recording moves every slot one back, except the slot that is
overwritten, which is the oldest exactly when the ring is full. Crashes and starts
of the watched server are restarts of `Metrics`, so this holds in `Server` too.

`ServerInv` is about clients that are open and work that is taken. `LifeInv`, its
inductive strengthening, says that the step main has come to determines what is
deferred (`Lives`: deferred calls are in the order of the steps, as many as the
step main is at, fewer from the end on while they are run) and what has been prepared before it (`Prepared`:
the schema, then the global accounts), and that migration files are applied from
the first on. TLC finds no violation of `LifeInv` on the instance of `server`.

### Gateway

`GatewayProofs`:

* `TypesCorrect`: `Spec => []TypeOK`;
* `RejectionsJustified`: `Spec => RejectedWasHere`;
* `StreamsInOrder`: `Spec => []StreamKeepsOrder`.

`CarriesInv` adds to the types that the channel and both goroutines of a stream
hold heartbeats of its cluster only, which is what connects the stream to the
entry of the deduplicator it is checked against. `Recorded`: the number the
deduplicator remembers is that of a heartbeat that is signalled, on its way or
given up. No step takes a heartbeat out of these three places together
(`HereStays`), whichever stream or unary call it belongs to.

For the order: while the deduplicator neither fails nor forgets (`Calm`), the numbers of a stream
form a chain (`Ordered`): what has been signalled, the message being dispatched,
the channel from head to tail, the message about to be queued, the number
remembered. A unary call signals once. `OrderInv` is the conjunction with
`CarriesInv`.

### Simulator

`SimulatorProofs`:

* `SimulatorCorrect`: `Spec => []SimulatorInv`, the types, `NamesKnownCluster` and
  `StopFollowsSignal`;
* `ReplaysAreDuplicates`: `Spec => ReplayIsDuplicate`.

Steps overlap, so the ids an agent uses may have been given out by another command
than the one that started it. `DemoInv` says of a running registration step that
the clusters behind it have an id (`CommandOK`), that ids are never taken back
(`IdsOK`), that no agent is ahead of the round of the demo, and that before the
first exhaustion step no command of that step exists (`AgentsOK`, `CommandOK`); in the
first round a cluster therefore has one agent, whose flag and the cluster's change
together. `ReplayInv` follows a number from the moment it is drawn to
the numbers kept, the replaying commands and the channel: each is sent under the id
the cluster has, or in the hand of the loop that has drawn it, or that loop has
lost its stream. In the second case the loop cannot take the replay, in the third
none goes out; while the cluster has had one id there is no other loop
(`StartInv`: the agents of a round are started once, and an agent that runs was
registered).

### Assumptions

`ResourcesAssumption`: the resources are a non-empty finite sequence and initial
credits are natural numbers. `AccountingAssumption`: usage and credits are
integers, a credit is below 2^64 as every int64 is, thresholds and attempts are
positive, bounds are natural numbers, and updates, heartbeats, clusters and the
main loop are told apart by their names; clusters, heartbeats and updates need
not be finite. `ProvisioningAssumption`: the numbers are naturals, the resources
are a finite non-empty set, every cluster has a tenant as its owner, and tenants
and clusters are distinct. `MetricsAssumption`, `ServerAssumption`: the ring, the
files and the attempts are at least one, latencies are natural numbers, servers
and workers are different processes. `GatewayAssumption`: every stream has a
cluster, streams and unary calls are distinct, the channel holds at least one
message, bounds are natural numbers. `SimulatorAssumption`: there is at least one
tenant and one cluster, every cluster has a tenant, sizes are positive and bounds are
natural numbers.

The leaves of the proofs name the prover that finds them: Zenon for logic and sets,
the SMT solver, where nothing is named, for arithmetic, sequences and records.

### Only model-checked

| Property | Why |
|---|---|
| all liveness properties | fairness is out of the prover's reach |
| `ChargedOnce`, `CreditedOnce`, `DuplicatesArePaidFor` | sums over, or counts of, sets and sequences of any size, which need induction over data |
| `PercentilesMatch` | what sorting a sequence of any length computes |
| `OneReservationPerCluster` | holds only within the limits named under the runs |
| `SnapshotsConverge`, `SoftLimitIsReported` and `NoUsageLost` beyond their conditions | `ProjectionsConverge` and `FirstRunLosesNoUsage` state the conditions; outside of them the conclusions do not hold in general |

## Not modelled

What the simulator draws; what the stream manager's entries are used for, a
count of active streams; account and transfer codes, billing tiers; the text of
errors and logs; configuration, compression and generated protocol code;
templates and static files of the web pages; queries and activities that nothing
calls, among them `UpdateClusterHeartbeat` and `InsertCreditAdjustment`, so that
`ListCreditAdjustments` always answers an empty list. Requests on hijacked
connections, for which `http.Server.Shutdown` does not wait, are requests that
outlive the shutdown. A resend of a heartbeat with another timestamp or other
amounts is excluded by the assumption on its content. The simulator's own replays
carry fixed amounts (`cmd/simulator/main.go:252-259`); one that passes the
deduplicator before the first copy is flushed reaches TigerBeetle as a different
transfer under the same id, and what becomes of such a batch is not modelled.

## Plan

1. `Pipeline`: `Gateway` composed with `Accounting` through the signals, against
   an abstract specification that charges each heartbeat once.
2. A proof of `OneReservationPerCluster` without faults, for any clusters.
