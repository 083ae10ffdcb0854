# Formal specification of jcpr-ts-v01

jcpr-ts-v01 is a trading system for one user: strategies and agents propose orders,
a person approves them, and a gateway sends them to a broker (Korea Investment &
Securities, KIS). These TLA+ modules follow an order through the whole program: from
the data and the strategies over sizing, risk checks and approval to the broker, and
back as fills, positions, profit and reports. TLC checks them on small instances, and
TLAPS proves every safety property of the state machines, and the arithmetic of orders,
capital and books, for every value of the constants.

Paths below are relative to the repository (`src/src/...` is its Python code).

## 1. The system

### Components, their state and their operations

| component | code (`src/src/...`) | state it keeps | operations | modules |
|---|---|---|---|---|
| approval store | `execution/approval_store.py` | SQLite table `approvals`, one RLock per process | create_request, get, approve, reject, cancel, mark_*, expire_overdue | `ApprovalLifecycle`, `ApprovalStore` |
| execution gateway | `execution/execution_gateway.py` | a lock and a stop flag per process | execute_approved, propose_order, cancel_proposed | `ExecutionGateway` |
| restricted MCP server, approve_cli | `mcp_servers/restricted_server.py`, `_write_handlers.py`, `src/scripts/approve_cli.py` | none but store and gateway | proposals, withdrawal, execution by kind; show and decide | `RestrictedServer` |
| signal pipeline, signal runner | `execution/gateway.py`, `execution_record.py`, `signals/runner.py` | audit log and its cache; times of the last orders | execute, write, restart; run_cycle | `SignalPipeline`, `RiskGates` |
| risk gates | `risk/gates/*` | none | the chain over account and open orders | `RiskGates` (two gates left out) |
| risk gate | `risk/risk_gate.py`, `_checks.py`, `_history.py` | bounded order history | evaluate, add | `RiskChecks` |
| sizing, intents | `execution/sizing.py`, `tick_size.py`, `order_intent.py` | the intent's history | size, align, transition_to | `OrderSizing`, `OrderIntent` |
| approval backends | `execution/approval*.py` | windows with quotas, reader threads | request_approval, match, consume, revoke | `ApprovalProviders` |
| KIS client | `brokers/kis/client.py`, `auth.py`, `orders.py` | token bucket, token, dry-run guard | request, retry, refresh | `KisClient` |
| KIS adapter and readers | `brokers/kis_adapter.py`, `brokers/kis/*` | token in memory and on disk | get token; account, orders, book, chart | `KisTokens`, `BrokerSnapshots` |
| emergency stop | `risk/_state.py`, `shutdown.py`, `keyboard_stop.py`, `kill_switch.py` | event, first reason, hooks, lock | request_stop, register_hook, SIGINT handler, monitors | `EmergencyStop` |
| portfolio risk, capacity | `risk/portfolio_risk.py`, `capacity_advisor.py`, `reports/capacity_recommender.py`, session history | `sessions.jsonl` | analyze, project, recommend, append, read | `PortfolioRisk`, `CapacityLadder`, `SessionCapacity` |
| fills and P&L | `execution/fill_*.py`, `kis_fill_source.py`, `pnl/*` | fills, positions, their history | ingest, upsert, apply_fill, rebuild, reconcile | `FillLedger` |
| signal stages | `signals/_runner_state.py`, `_dedup.py`, `_conflict.py`, `_resolve.py`, `_decision.py` | none across calls | cadence, expiry, duplicates, conflicts, capital | `SignalStages` (formats left out) |
| strategies | `signals/strategies/*`, `signals/indicators/*`, `strategies/*` | registry file | generate, load, select, allocate | `Momentum`, `MomentumConsensus`, `StrategyRegistry` |
| agents, prompts | `agent/*`, `agent/prompts/*` | trail, template cache and its lock | run, fall back, parse an answer; load, render, clear | `AgentRun`, `AgentReports`, `ModelAnswers`, `PromptTemplates`, `PromptCache` |
| observability | `observability/*` | one JSONL file a day | write, search, tree, summary | `AgentRun` (secret scan left out) |
| market data, calendars | `data/*` | SQLite stores, calendar files | ingest, cache, query, purge, is_open | `MarketData`, `SymbolMaster`, `MarketHours` |
| read-only MCP server | `mcp_servers/readonly_server.py` | none | queries | `MarketHours` (one tool) |
| reports, dashboard readers | `reports/*`, `dashboard/*` | none | aggregate, diagnose, load | `RejectionReports`, `ProfitReports` |
| presentation, self checks | views, formatters, `smoke_test_*`, `*self_verify*` | none | format, print | – (section 8) |

### How they interact

A strategy, an agent or the MCP server calls `create_request`. A person approves
through `approve_cli` or a tool: another process, the same SQLite file. A gateway in
a third process runs `execute_approved`: it reads the record, asks the store for
permission (`mark_executing`), calls the broker and stores the result. The server's
handlers execute the other kinds (cancel, capacity, kill switch) themselves, without
the gateway's lock. All coordination goes through the table.

The signal pipeline is the other way to an order and shares nothing with the table.
`SignalRunner` asks a strategy for a signal per symbol and hands it to `execute`,
which sizes it, reads account and open orders, runs the risk gates, asks a composite
of approval backends and submits. What it remembers is an append-only file, read back
into a cache when the process starts; what the gates need of the past is in the
runner's memory.

Orders and queries of all threads pass one token bucket; processes share a token file.
What the broker executed comes back as rows per order, becomes fills with an id, then
positions and a history, and is compared with the broker's own positions. Sessions,
runs of agents and decisions are appended to JSONL files by several processes;
reports, dashboard and agents read them, each with a parser of its own.

### What is hard, and what makes it correct

* *Approval store.* Every operation reads the clock before it waits for the lock and
  for SQLite's write lock, so it acts with a time that may be ten seconds old. The
  commit can succeed and the SELECT after it fail. Correct: two people for an
  approval; one winner of every race; what was acknowledged stands; windows are
  respected; history is never rewritten.
* *Gateway and server.* The decision to send is made from a record read earlier; two
  of them may hold the same record; the broker's answer can be lost, late or
  nonsense; the process can die after the permission. Correct: one effect per
  approval, of the approved kind and mode, EXECUTED only for what was sent and, as far
  as the gateway can tell, accepted; a stop holds, every exit releases the lock and
  closes the record, answers stay true.
* *Pipeline and runner.* The idempotency check and the record of the outcome are far
  apart; an append can leave part of a line; account and open orders are read at
  different moments; an order's answer may be lost. Correct: no second order in the
  window but for three known causes; limits exceeded by one order at most.
* *Approval backends.* A quota is matched and consumed in two steps; a prompt that
  timed out leaves a reader behind. Correct: a window approves what it covers.
* *Emergency stop.* Four sources at once, one of them a signal handler on the main
  thread. Correct: the first reason stands, hooks run once, nobody holds the lock for ever.
* *KIS client and tokens.* Retries, a refresh, times read before a lock is taken, one
  temporary file name. Correct: an order leaves once; tokens are usable and shared.
* *Fills and P&L.* Cumulative rows, ids that do not grow with them, two ingesters,
  two transactions per application. Correct: books are what the stored fills say.
* *Files.* Torn lines and characters, midnight, several writers, names that differ from
  reader to reader. Correct: what was acknowledged is found again but for what a tear
  accounts for; readers that are told the same by their own names count the same.
* *Computations.* Rounding, ticks, empty and zero denominators, order of stages.

`PROJECT.json` lists these hazards at their lines with the properties that cover them.

## 2. Modules and the code

`PROJECT.json` maps every definition to its lines. The heads of the modules say what
their state stands for; this section adds how they fit together.

```
ApprovalLifecycle  <--implements--  ApprovalStore
                                        | extends
                                    ExecutionGateway
                                        | extends
                                    RestrictedServer   (MCExecutionGateway: an instance
                                                        of the one before)
SignalPipeline                                         (instances in the .cfg files)
RiskChecks  RiskGates  SessionCapacity(CapacityLadder)  OrderIntent      -> MCControls
ApprovalProviders  EmergencyStop  KisClient  KisTokens                   -> MCOrderPath
                      MCOrderPath  AgentRun  MarketData  PromptCache  MCAlgorithms -> MCDesk
OrderSizing  StrategyRegistry  PortfolioRisk  CapacityLadder
SignalStages  Momentum  MarketHours  AgentReports                        -> MCAlgorithms
FillLedger  RejectionReports  ProfitReports  StrategyRegistry  PromptTemplates
SymbolMaster  MomentumConsensus  BrokerSnapshots  ModelAnswers  AgentReports
                                                                         -> MCFillLedger
Decimals: exact fractions for Python's Decimal
ApprovalStoreProofs  <--  RestrictedServerProofs        theorems of the store; then, resting on
                                                        them, of the gateway and the server
DecimalsProofs: induction, sums and fractions, for the four that follow
OrderPathProofs extends MCOrderPath, ControlsProofs   extends MCControls
DeskProofs      extends MCDesk,      FillLedgerProofs extends FillLedger
SignalPipeline has its theorems at its end
```

### State machines

**ApprovalStore.** `records` is the table, `clock` what `_now()` returns, `calls[c]`
the call the caller `c` has made and not finished (with the time it read),
`replies[c]` the answer it is about to get. `Invoke` is the beginning of a method;
`CreateRequest`, `Get`, `Approve`, ... are the transactions (BEGIN IMMEDIATE to COMMIT
or ROLLBACK), which write `expired` instead when the window had passed at the time of
the call. `DbError` is a failing transaction, `RereadFails` a failing SELECT after the
COMMIT, `Crash` ends processes between any two steps.

**ExecutionGateway.** `pc[t]` is the thread's place in `execute_approved`, `gwLock[g]`
the holder of `self._lock`, `interrupted[g]` the interrupt check. `sends`, `verdict`
and `sentBy` record what reached the broker and what it made of it; `racing` remembers
the threads that were past the last check when the flag was raised, `garbled` the
approvals whose answer was malformed. A broker answers with an `OrderResult` or, in a
dict, with anything: `_normalize_dict_response` takes a dict without a status, or with
PENDING, for an acceptance (line 717), and so does `Accepted`. After an answer that is no
dict the gateway raises past the mark and the row stays EXECUTING (`BadReply`).

| location | code | leaves by |
|---|---|---|
| idle → entered | first interrupt check | `Enter` |
| entered → reading | `with self._lock`, call of `get` | `LockAndGet` |
| reading → permit | state and mode of the record | `AfterGet` |
| permit → marking | call of `mark_executing` | `AskPermission` |
| marking → granted | its answer; the lock is released | `AfterMarkExecuting` |
| granted → submit | second interrupt check | `LastCheck` |
| submit → await | broker call | `Submit`, `CannotDeserialize` |
| await → storing, refusing, failing | answer of the broker | `Accepted`, `Rejected`, `BrokerRaises`, `BadReply` |
| storing, refusing → idle, closing | answer of the mark; a failed one is caught, which marks again | `AfterFirstMark`, `CloseAsFailed` |
| failing → idle | a mark inside an `except` clause | `AfterLastMark` |

All table accesses are calls of `ApprovalStore`, so between any two lines the other
threads, processes, clients, the clock and the broker may move. The broker is
external: it decides about an order that has arrived at any later time.

**RestrictedServer.** A thread of the gateway is a server, a client is a run of the
command line. A tool reads the record, dispatches by kind on that reading, executes,
re-reads and answers: `job` is where it is, `answer` what it said last, `cancels` how
often the broker was told to cancel, and `cancelledAt` by which gateways.

**SignalPipeline.** `stage` is the place in `execute`, `log` the records whose text is in the
file, `cache` the latest outcome per signal. An append comes to the file whole or in part, and
may fail after either (`WholeLine`, `PartialLine`, `AppendFails`): `torn` says that the file
has no newline at its end, `unended` which record stands there then, `spoilt` which records
were joined to another line and are unreadable, `decodable` that no character was cut in two.
`Restart` reads what parses, or stops with UnicodeDecodeError. `Following` lists the stages
with the five stop checks between them; every exit is `Finalize`, which stamps a record and
appends it before it updates the cache. `EventWired` says whether the gateway's checker knows
the runner's shutdown event (`run_signal_runner.py:217` builds it without). `sent`, `lost`,
`stray` (records in the file whose append failed) and `racing` are history.

**RiskGates** is the runner's cycle around the same pipeline, with what the gates read
made explicit: `book` and `flying` are orders at the broker and on the way to it,
`account`, `openAtStart` and `knownLoss` what was read, `lastAny` and `lastFor` the
runner's memory, lost in a restart. **RiskChecks** is the other chain, of
`risk/risk_gate.py`: ask, move on, place, add. `settings` says which caps the configuration
lacks and how long the history's deque is: a missing cap of orders, symbols, positions or
frequency rejects, a missing reserve, loss cap, duplicate window or cooldown is skipped.

**ApprovalProviders** gives each pipeline a place in the composite's loop; match and consume
are two steps; `readers`, `typed` and `box` are the threads on stdin and the answer box of
each prompt. **EmergencyStop** keeps a frame per thread and a frame of the signal handler on
top of the main one; `check_now` is a look at the file and, later, a request. What an order
path does with its answer is in `SignalPipeline`. **KisClient** counts time in ticks: `stamps`
and `permits` are the bucket, `waitFrom` the time read outside its lock.
**KisTokens** has a memory per process, the file, and the temporary file. **FillLedger** goes
from the orders' cumulative rows over pages, ids and upserts to positions, their history and
the rebuild. **SessionCapacity** and **AgentRun**, with the audit trail, append lines in
separate steps. The trail's lock is one per process; the lines of two processes stay apart
because `open("a")` and one `write` of the text reach the file as one write to it, whatever
the line's length (the text layer hands its pending text over whole, and the buffer passes
what exceeds it on directly). `cut` holds the days whose file has half a character: every
search that reads one raises. **MarketData** holds the symbol table, bars and quotes;
**PromptCache** is the registry with its lock under several threads.

### Computations

The other modules have no variables. They define what a function returns, and their
properties compare it with a second definition: another function of the program that
should agree, the same function on inputs taken apart or reversed, or a bound. In
`MCAlgorithms` and `MCFillLedger` a state is one call (`call`, `report`), so TLC enumerates
the inputs; money is integral or an exact fraction of `Decimals`. In `RejectionReports` a
record carries the names its fields and words go by (`Names`), and each reader finds only
what goes by its own.

## 3. Runs

| run | instance | question | properties |
|---|---|---|---|
| `store` | 1 approval, 2 actors, 2 callers, windows of 1 and 0 units, clock to 2, every operation, errors, crashes | can a race, a late call, an error or a crash break a row? | TypeOK, FourEyes, OneWinner, AcknowledgedStands, WindowsRespected, HistoryIsFinal, ImplementsLifecycle |
| `gateway_workers` | 2 processes with a paper gateway each, records of either mode, lost answers, database errors, crashes and restarts | who owns an execution, what reaches the wire, and what does EXECUTED mean? | GatewayTypeOK, OneOwner, SingleUse, OnlyApprovedOnWire, ExecutedMeansAccepted |
| `gateway_liveness` | 2 threads of one process, fair, every fault of the broker, interrupts | does every execution settle, unless its answer was malformed, and the lock come back; does a stop hold? | ExecutionSettles, LockIsReleased, StopHolds |
| `server` | 2 servers and the command line, orders and cancels | what do two executors of one table do, and what do they answer? | OneEffect, EffectIsApproved, FinalAnswersHold |
| `server_faults` | 1 server, 3 kinds, every fault | was done what says EXECUTED, and is the store used as it allows? | ExecutedMeansDone, UsesStore |
| `pipeline_replay` | a good and a weak signal, window 1, clock to 4, appends that fail with nothing, part of a line or all of it in the file, a raising gate, restarts | what makes a signal be ordered twice; does a restart forget; does a stop hold? | MemoryIsOnDisk, ReorderedOnlyAfterSkip, StopHolds |
| `controls` | `MCControls`, four parts; seven configurations of the risk gate | do limits hold on what was read earlier; do records and history stay true? | ChecksBoundOrders, GatesBoundOrders, RecordsAreTrue |
| `desk` | `MCDesk`: the four parts of `MCOrderPath`, and four beside it | who approves an order, how does the desk stop, how do requests and tokens leave; trails, stored data, prompts, computations | ApprovalsAreCovered, OneStopForAll, OrdersLeaveOnce, TokensAreShared, DecisionsStand, TrailIsComplete, DataIsHonest, OrdersAndCapitalFit, RiskAnswersAgree, SignalsAreSound |
| `fill_ledger` | 2 purchases and a sale, 2 ingesters, pages of 3, crashes, rebuild; all calls of the readers | are the books what the fills say, and do all readers tell the same? | BooksFollowFills, ReportsExplainBooks, ReportsAgree, InputsAreUnderstood |
| `pipeline_cooldown` | 1 signal, window 3, clock to 5, no faults | violated: the third run of a signal orders it again | OncePerWindow |
| `malformed_reply` | 2 threads of one process, an answer that is no dict | violated: the execution never ends | ExecutionEnds |
| `momentum_spread` | weights and thresholds of the code | violated: the spread turns the side | SpreadGivesNoDirection |

`controls`, `desk` and `fill_ledger` put components that share no state into one run:
a variable `part` (or, for the readers, the state before the first order) says which
of them an execution is about, and the others stay as they were built. Their
properties are conjunctions of named ones in the component's module; the comment above
each says in words what it claims:

| property of a run | consists of |
|---|---|
| ChecksBoundOrders | RiskChecks: NothingUncapped, ExposureBounded, CashBounded, FrequencyHolds, SessionHolds, NoWhipsaw |
| GatesBoundOrders | RiskGates: SymbolExposureBounded, CooldownAfterKnownOrder |
| RecordsAreTrue | SessionCapacity: RecordsSurvive, LossesHoldTheLadder; OrderIntent: HistoryIsTrue, SentInOrder |
| ApprovalsAreCovered | ApprovalProviders: QuotaHolds, WindowCovers, LiveNeedsConsent |
| OneStopForAll | EmergencyStop: HooksRunOnce, LockComesFree |
| OrdersLeaveOnce | KisClient: RateHolds, OrderSentOnce, AnswerIsTrue, TokenWasValid |
| TokensAreShared | KisTokens: TokenOfMyMode, NoNeedlessIssue, HeldIsUsable |
| TrailIsComplete | AgentRun: AcknowledgedIsFound, TrailTellsTheRun, ViewsAgree; PromptCache: ClearedIsReadAgain, RegistryIsShared |
| DataIsHonest | MarketData: MasterIsWhole, BarsAddUp, FreshQuotesAreFound; MarketHours: the calendars agree where their files do |
| OrdersAndCapitalFit, RiskAnswersAgree, SignalsAreSound | MCAlgorithms over OrderSizing, StrategyRegistry, PortfolioRisk, CapacityLadder, AgentReports, SignalStages, Momentum |
| DecisionsStand | ApprovalProviders: RevokedIsFinal; EmergencyStop: FirstReasonStands |
| ReportsAgree | RejectionReports, ProfitReports, BrokerSnapshots |
| InputsAreUnderstood | StrategyRegistry, SymbolMaster, PromptTemplates, ModelAnswers, MomentumConsensus, BrokerSnapshots |

Every property of a passing run has a mutant: a plausible mistake in a modelled
operation (a dropped check, a lock that is kept, a time read elsewhere) under which
TLC finds the property violated.

### Why the bounds are enough

* One approval: rows do not interact except through the sweep, which treats each row
  alone, and through fresh identifiers. Two actors: the smallest set in which the
  four-eyes rule can be kept and broken. Two callers, threads, servers: every race
  named in section 1 is between two.
* `MaxClock`, and windows of 0 or 1 units: a call can be made inside a window and
  served after it, a window can close while a person decides, and the boundary
  `now = expires_at` is reached.
* Pipeline: the signals meet only in the file, so one that can be ordered and one
  that cannot are enough. Each record takes one unit of time; four units with a window
  of one reach an order, its record, the boundary, one unit beyond it and a second
  order. The cooldown needs a window of three, because the SKIPPED record has to lie
  between two orders inside it.
* `ClientOps` and `Faults` restrict a gateway instance to what its question needs;
  each of them appears in some passing run. Actors of `mark_executing` are not tied to
  the requester: the code lets anyone execute.
* Gates and checks: caps of one or two orders are reached and can be exceeded by the
  next; two symbols separate limits per symbol from limits in total; three orders
  overflow a window of two. Of the settings, a deque of two is shorter than the session's
  limit of three and drops orders, one of three is as long, and each cap whose absence
  rejects is missing once, those that are skipped together.
* Providers: two pipelines and two requests meet in one window of two orders; one
  typed line too early or too late reaches the wrong prompt.
* Client: rate 1 with a second of two ticks and a wait of three lets a call wait, be
  refused and be overtaken; a token that lives three ticks expires between two of them.
* Tokens: two threads of one process and one of another, in different modes.
* Ledger: an order of two shares executed one by one has two rows with one id; a sale
  between two purchases makes an average price, a realised profit and a remainder.
* Files: three or four lines, with one torn, decide every question of a reader about
  the neighbours of a line; two days and a writer on each side of midnight.
* Symbol masters: two savers whose lists share a code, and one whose list does not.
* Inputs of computations hold every boundary the code compares with, one value on
  either side of it, and the special values (missing, unreadable, zero). The allocator
  makes 10 iterations here and 50 in the code; its inputs are three strategies, for which
  three are enough, and `SizesAndSharesFit` is for any number of iterations.

`controls`, `desk`, `fill_ledger` and the pipeline runs do not check deadlock: their
clocks, budgets of orders and queues end every behaviour, a stopped runner really
stops, and the stop handler can block for ever (section 6). All other runs check it.

### Fairness

Safety runs assume none. `gateway_liveness` assumes weak fairness of what a thread
does inside `execute_approved` and of the store operation it waits for: the store's
connection times out after ten seconds and the broker's HTTP call has a timeout, so
each of these steps ends. Nothing is assumed of clients, of the clock, of the stop
inputs, of the broker's decision or of a restart. This run has no database errors and
no crashes, on purpose: with them the property is false (section 6). It has every fault of
the broker; `ExecutionSettles` exempts the executions whose answer was malformed, which
`malformed_reply` shows to stay EXECUTING.

## 4. Proofs

Proved by TLAPS for any sets of approvals, actors, callers, threads, processes, modes
and kinds, any windows and faults, and, in the components beside the store, any limits
that satisfy the assumption each theorem states in front:

| module | theorems |
|---|---|
| `ApprovalStoreProofs` | `TypeCorrect`, `FourEyesAlways`, `HistoryIsFinalAlways`, `StoreImplementsLifecycle`, `OneWinnerAlways`, `AcknowledgedStandsAlways`, `WindowsRespectedAlways`, `ReadsStand` |
| `RestrictedServerProofs`, the gateway | `GatewayUsesStore`, `GatewayTypeCorrect`, `SingleUseAlways`, `OneOwnerAlways`, `OnlyApprovedOnWireAlways`, `StopHoldsAlways`, `ExecutedMeansAcceptedAlways` |
| `RestrictedServerProofs`, the server | `ServerUsesStore`, `OneEffectAlways`, `EffectIsApprovedAlways`, `FinalAnswersHoldAlways`, `OnlyOwnersWithdrawAlways`, `ExecutedMeansDoneAlways` |
| `SignalPipeline` | `PipelineTypeCorrect`, `MemoryIsOnDiskAlways`, `ReorderedOnlyAfterSkipAlways`, `StopHoldsAlways` |
| `OrderPathProofs`, approvals | `QuotaHoldsAlways`, `WindowCoversAlways`, `LiveNeedsConsentAlways`, `RevokedIsFinalAlways`, `WindowsBindOrders` |
| `OrderPathProofs`, the stop | `HooksRunOnceAlways`, `FirstReasonAlways`, `LockComesFreeAlways`, `StopIsOne`, `DecisionsStandAlways` |
| `OrderPathProofs`, the client | `OrderSentOnceAlways`, `AnswersAndTokensAlways`, `OrdersLeaveOnceHere` |
| `OrderPathProofs`, the tokens | `TokensAreUsable`, `NoNeedlessIssueAlways`, `TokensAreSharedHere` |
| `ControlsProofs`, the risk gate | `OrderHistoryHolds`, `ExposureHolds`, `ChecksBindOrders` |
| `ControlsProofs`, the runner's gates | `CooldownHolds`, `SymbolExposureHolds`, `GatesBindOrders` |
| `ControlsProofs`, sessions and intents | `RecordsSurviveAlways`, `WorseNeverEarnsMoreAlways`, `LossesHoldTheLadderAlways`, `IntentsAreValidAlways`, `HistoryIsTrueAlways`, `SentInOrderAlways`, `RecordsStayTrue` |
| `DeskProofs`, agents | `RegistryIsSharedAlways`, `ClearedIsReadAgainAlways`, `AcknowledgedIsFoundAlways`, `TrailTellsTheRunAlways`, `TrailIsCompleteAlways` |
| `DeskProofs`, data | `MasterIsWholeAlways`, `FreshQuotesAreFoundAlways`, `BarsAddUpAlways`, `DataIsHonestAlways` |
| `DeskProofs`, orders and capital | `SizesAndSharesFit`, which rests on `PricesFit`, `SizesFit` and `AllocationFits`; `OrdersAndCapitalFitAlways` |
| `FillLedgerProofs` | `BooksFollowFillsAlways`, `ReportsExplainBooksAlways` |

Every property that a run checks of the store, the gateway, the server, the pipeline, the
controls, the backends, the stop, the client and its tokens, the books, the agent's trail, the
stored data, the sizer and the allocator is stated by one of them, except the liveness and the
properties that section 5 refutes. A property of `controls` or `desk` says `part = "..." =>
X!P`. Its theorem is stated of `Spec` of `MCControls` or `MCOrderPath`: the component's
theorem gives `X!Spec => []X!P`, and `Spec` implies `X!Spec`, because the other parts leave
the variables of `X` alone (`ProvidersBehave`, `GateBehaves` and the like). The run `desk`
adds to `MCOrderPath` steps that leave all of its variables alone; the theorems of
`DeskProofs` about its own three properties are stated of its `DeskSpec`.

### The store

All arguments rest on one lemma, `StepsOfTheTable`: whatever a step of the system
does, each row is left alone or walks one edge of the diagram with the fields that
edge may write (`TableStep`).

* `FourEyes` is not inductive: nothing in it says that a proposed row has no decision
  yet, nor that an executing row has an executor. `RowsConsistent` adds this, and with
  it `TypeOK`, every edge keeps it. `HistoryIsFinal` and the refinement follow edge by
  edge; for the refinement a sweep is one abstract `Expire` of the rows it changed.
* `OneWinner` and `AcknowledgedStands` rest on `WinInv`: the row of a caller that was
  told of a success is past the edge the caller took, and carries its signature. A
  second winner would have found the row before that edge, and no edge leads back
  (`PastStays`).
* `WindowsRespected` rests on `TimeInv`: every time in a row or a call was read from
  the clock, so a call that waits carries an old time but none of the future, and a
  decision, or the start of an execution, is dated inside the window although it is
  written after it.
* `ReadsStand` (`[]ReadersInformed`): the row a caller read is a former state of the row
  in the table (`Follows`: same kind, mode and requester, final states kept). It is
  what the modules above need, since they decide on rows read before.

### The gateway

`GatewayUsesStore` shows that every step of the composed system is a step of
`ApprovalStore` or leaves it alone, so the store's theorems hold in it.

`SingleUse` and `OneOwner` are not inductive: the counter of orders says nothing
of the threads that may still send. The inductive invariant `UseInv` ties them:

* `CallsFit` – the call a thread has open is the one its location implies;
* `OwnersBegun` – a thread that owns an approval finds its row past APPROVED;
* `OneOwner` – two owners of one approval are one thread;
* `SentBegun` – an approval that was sent is past APPROVED;
* `FreshUnsent` – the approval of a thread that has yet to send was not sent;
* `SingleUse`.

The critical step is the transaction of `mark_executing`: it finds the row
APPROVED, so by `OwnersBegun` and `SentBegun` nobody owns it and it was not sent;
it leaves the row EXECUTING, from which no edge leads back.

* `OnlyApprovedOnWire` adds `ModeInv`: the mode was compared on a row that was read
  before the permission was asked for; it still fits because no edge changes a mode
  (`ReadsStand`), and what is on the wire was sent by a gateway of that mode.
* `StopHolds` is inductive with the types. Its theorem assumes that the interrupt
  callback raises no exception of its own (`"callback" \notin Faults`):
  `_check_interrupt` logs such an exception and goes on, so the check says nothing then
  (`execution_gateway.py:427`).
* `ExecutedMeansAccepted` rests on `AcceptInv`: a thread that is about to store EXECUTED
  has sent the order, and its answer counts (`Hears`): the broker accepted, or it is a
  broker that answers in dicts, of which the gateway presumes so. A verdict of the broker
  is not taken back. The mark is made by that thread, since nobody else calls
  `mark_executed` for an order.

### The server

Tools and commands carry on with what they read or were told some steps ago, so the
invariants say what each of them still relies on:

* `JobInv` and `PlaceInv` – the call a process has in the store is the one that the step
  of its tool or command implies. `ActsAlone` shows that a process at work touches its
  own call, place and answer only, which leaves one case per action;
* `ServerUsesStore` follows, and with it `ServerBase`, the invariants of store and
  gateway under the server;
* `KnowInv` – what a tool read is still so: the kind it dispatched on, a final state,
  that the caller owns what it withdraws. Each conjunct is stable by `ReadsStand`.
  `OnlyOwnersWithdraw` follows;
* `EffectInv` – an approval that is executed, by the gateway or by a handler, is past
  APPROVED (`ExecutorsBegun`) and has one executor (`OneExecutor`); while the executor
  has yet to tell the broker, the broker has not heard of it (`HoldersUnheard`); what it
  heard of is of the right kind (`Heard`). Both paths go through `mark_executing`, which
  is why `OneEffect` holds across them. `EffectIsApproved` adds `FourEyes`;
* `AnswerInv` – an answer that names a final state is what the row keeps. The tool
  answers from a row it read again or a mark it was told of, and `KnowInv` has both.

`ExecutedMeansDone` shows that the handlers, the second writer of EXECUTED, write it for
no order, and for a cancellation only after a broker was told of it (`ToldInv`). The
adapter cannot be told (section 6), so the broker was one that answers in dicts.

### The pipeline

None of the three properties about records is inductive. `PipelineInv` adds what they
rest on:

* `InThePast` – no order or record is later than the clock; a time names a record;
* `CacheIsLatest` – the cache holds a record that was told of, the latest of its signal
  but for those joined to part of a line (`spoilt`) and those whose append failed (`stray`),
  at least as long as one lies in the window;
* `OrdersRecorded` – every order has a later record, is in flight, or is lost;
* `DedupPassed` – from the duplicate check to the order, the earlier orders of the
  signal inside the window are `Excused`: lost, or with a SKIPPED or a spoilt record after
  them;
* `Orders` – the same of every pair of orders; this is `ReorderedOnlyAfterSkip`.

The critical step is the duplicate check (`DedupKeeps`): an order inside the window
has a later record, which is inside the window too. It is spoilt, or the cached one is at
least as late; the check passed, so the cached one says SKIPPED and is later than the
order. A restart keeps this because it reads what is whole, or does not come up.
`StopHolds` needs only the types besides itself.

### The order path

`WindowsBindOrders`, `StopIsOne`, `OrdersLeaveOnceHere`, `TokensAreSharedHere` and
`DecisionsStandAlways` state the run's properties whole, with the components' types; the
others state their parts.

* **ApprovalProviders** (`ProviderInv`): a window that was matched is open and covers the
  request at the time it read (`MatchesCover`); every approval has the reason of its
  provider (`Reasons`), a provider of the chain (`InChain`); a thread waits for one line
  and its call has none (`Waiting`), so a late line never changes what a decision was
  based on. With this `QuotaHolds` is inductive: the second look at the window, in
  `Consume`, and the count are one step. That every approval was asked of someone
  assumes chains that are not empty, which `approval_composite.py:51` enforces.
* **EmergencyStop** (`StopInv`): the lock has one holder, of all frames that ask one
  records and stops (`OneStop`), and what it has left to run continues what ran
  (`HooksInOrder`), also when a hook is registered meanwhile (`RoomForHooks`: hooks are
  not more than their bound). `HolderHolds` says where the holder of the lock is: at a step
  it can take, unless it is the main frame and the handler on top of it waits for the same
  lock. Nobody else can hold it for ever (`LockComesFree`).
* **KisClient** (`ClientInv`): requests sent are attempts made, and these are bounded by
  the retries an order is allowed, which are none. The rate rests on `BucketFits`: the
  bucket is a subsequence of the permits, it still holds every permit younger than the
  window, and it never holds more than the rate.
* **KisTokens** (`TokenInv`): whoever is inside holds its process's lock; memory is what
  the process saved last, or is of its environment; so the second look inside the lock
  sees every token that would make a new one needless. `Timely` bounds what a token says
  of its end by the clock at which it was issued. The shared file may hold anything.

### The controls

* **RiskChecks**, the history. An order is checked and placed in two steps, and others
  are placed in between. `StillPasses` says of a checked order that the order history
  has not changed since, or would still let it pass: time only takes orders out of the
  windows. The history is a deque with `maxlen` and holds the last orders (`HistoryKept`).
  Whether what it dropped could matter is a condition of each property and no assumption:
  a window's threshold holds if the deque is as long as the threshold (`FrequencyHolds`),
  the session's limit if it is as long as that (`SessionHolds`), the cooldown if some window
  no shorter than it has a threshold the deque can hold (`CooldownRemembered`). The run has
  a deque shorter than the session's limit, which is then passed.
* **RiskChecks**, exposure and cash. `StillFits` does the same for the amounts: what the check
  reserved still fits what is held, on order and in cash, up to one order for each further
  open one; of cash only if there is a reserve. Without a cap whose absence rejects there are
  no orders (`NothingUncapped`). Held and reserved amounts are sums over symbols and open
  orders; `ControlsProofs` proves of these sums that one more term adds its value and that
  smaller terms give a smaller sum.
* **RiskGates**, the cooldown. The runner's memory of a symbol's last order is the last
  order whose answer this process saw (and no order of a former process): then the gate
  that reads it is as good as one that reads the truth.
* **RiskGates**, exposure. The gate adds two readings of different moments. `AheadInv`
  bounds how far each may lag: an order that is in neither reading was placed after the
  account was read, which needs an answer the runner has yet to see or has lost; at
  most one order of a symbol is open and answered at a time, and any further one has a
  lost answer. `ChainsComplete` says that each chain has the rate, the duplicate and the
  exposure gate, which is how `run_signal_runner.py` builds them.
* **SessionCapacity**. `LossesCounted` and `TailIsTorn`: a line without its end is what an
  interrupted write left, and each interruption has hidden one acknowledged session, or
  is still the last line. `WorseNeverEarnsMore` and
  `LossesLowerTheStep` are about the ladder: its steps are monotone in each measure of a
  session, for any ladder of positive steps (`LadderConfigured`). `LossesHoldTheLadder`
  joins the two. The reader's stable sort is stated by places: a line's place is the number of
  kept lines that come no later. `PlacesAreTaken` proves that the places are 1, 2, ...
  without gap or tie, and `LatestLossesCount` that each of the latest losses has a place
  behind the last record that is no loss, so the reader counts at least as many. A file
  that is private exists (`FileKnown`), so it is read.
* **OrderIntent**. `EntriesAreTrue`: each entry of the history goes from the state of one copy
  to that of the next, and each copy passes the validators. `OnTheWay`: a sent intent has
  passed every stage between, since each edge that `transition` allows leads one stage on.

### Agents and data

* **PromptCache**. `OneForEachReset`: the threads inside `get_default_registry` that saw
  no registry since the last reset exclude each other by the lock, so one creates it.
  `OldOnesWereFlying`: an entry older than the last `clear_cache` was read by a thread
  that was between its read and its store at that moment.
* **AgentRun**, the files (`TornCounted`): the acknowledged events that are missing from
  a file that decodes, the files that still end in part of an event, and the days a cut
  character has spoilt are together no more than the writes that stopped in the middle. A
  spoilt day fails every search that reads it (`Raises`), so its events are not found at all.
* **AgentRun**, the run. That the trail tells the run is not inductive: between two
  steps an event is stamped and not appended, or its write has stopped. `RunInv` speaks
  of what the agent has *stamped*, appended or pending: for each place in the run, which
  events there are, of which tool and with which note, each once; that no stamp is later
  than the clock and each is in the file of its day, or lost and counted. When the run is
  over nothing is pending, and what is left is what a reader finds.
* **AgentRun**, the views. `ViewsAgree` compares search, tree and summary. A search of a
  part of the time finds a part (`WholeSearch`), and a part of the events makes a summary
  of no more events and spans (`SummaryGrows`). The tree is a fold over the parents of the
  spans (`BuildGrows`): where every event is on a child span there is none
  (`NoRootNoTree`), which is the case of a run that answered; where all are on the root
  span the tree is that span (`RootAloneIsTree`), as for a prompt that failed and for the
  other process.
* **MarketData**, the master. `InsertedAlone`: a saver with rows it has not committed is
  the only one and found none of its codes in the table. What the table or a load holds are
  whole masters no two of which share a code (`Whole`, `Apart`), since the second INSERT of
  a shared code fails; masters that share none do end up in one table, of two savers between
  the DROP of one and the INSERT of the other.
* **MarketData**, quotes (`InOrderUnlessLate`): the stored captures are in the order of
  their times except around those stored late.
* **MarketData**, bars (`BarsInv`). `SplitIsWhole`: the classification splits a volume
  without rest, so up and down add up bar by bar. The cumulative delta is a running sum;
  `DeltaFollowsUps` proves from a smallest part of the range where they would differ that
  it is twice the ups less the volume (`SumsExist`: each part has a sum). For the gaps,
  what is missing at an end is behind the extreme of the stored times (`ExtremesExist`).
* **MarketHours** (`EveryHourIsTold`): for every calendar and every instant. The
  calendars agree where both have the years; the next opening is an opening and the first
  (`NextOpenIsFirst`), the market stays open up to the next close and not at it
  (`NextCloseEnds`), at most one trading day lies in between (`OneDayToOpening`); a year
  without data is closed where it should be; the tool errs on holidays and at the close
  only, and the dashboard's two clocks come to the weekdays and hours of Seoul
  (`UtcClock`). This proof showed that the guards of the model's `GetPhase` overlapped on
  holidays, where the code returns early; the model now does so too.

### Orders and capital

`OrdersAndCapitalFit` is about pure computations. What a run shows of the inputs it
enumerates, three lemmas prove of all inputs, and `SizesAndSharesFit` states of all inputs;
`CallsInv` and `ThreeThirdsFit` only say that what a call of the run is given is such an
input. The limits are those of one order: sizing enforces no limit of a day (section 6).

* `PricesFit`: for any price, side and kind of security. `TicksOfBands` reads the table;
  rounding stays within a tick of the price (`RoundingIsNear`). That the rounded price is on
  its *own* tick as well is `AlignedInItsBand`: rounding up may cross the bound of a band,
  and each bound is a multiple of the ticks on both sides.
* `SizesFit`: for any equity, cash, rate, distance and method. The target is the smallest of
  the caps, so no limit is exceeded, and one share more would exceed one of them.
* `AllocationFits`: for any registry, capital and `MaxIterations`, if the weights are at most
  100 percent and the candidates at most one more than the iterations: 51 with the code's 50.
  `Fair` is the invariant of the loop: what is given and what
  overflows are together what the weights ask for, nobody is above the cap, nobody below
  what was due and fits. An offer keeps it (`OffersAreCut`) because the shares add up to the
  overflow (`SharesAddUp`). `Used` is its measure: while something overflows, each iteration
  fills one more strategy to its cap (`IterationIsFair`), so at the end nothing overflows or
  nobody has room (`SplitIsFair`). Rounding down loses less than a won for each (`FloorsAddUp`).
  The bound on the candidates is sharp: with four iterations and six strategies, of weights
  50, 25, 12, 6, 3, 1 and caps 0, 26, 25, 20, 14, 60, the fourth iteration leaves 5.5 percent
  over although the last strategy has room. The code warns of that case and keeps the rest as
  cash.

Facts about sums and least elements are proved from a least counterexample, because the
library's induction theorems take an operator as a parameter, which the provers cannot
instantiate.

### The books

`BooksFollowFills` and `ReportsExplainBooks` are about the values of folds: a position is
what `ApplyBuy` and `ApplySell` made of the fills one after another, a report is a sum over
the same fills. `FillLedgerProofs` proves them for any fills, orders and ingesters.

* `StoreInv`: whatever an ingester holds was executed by the broker when it fetched it
  (`Fetched`), and amounts executed only grow.
* `LedgerInv` has three parts. `WorkInv`: no fill is twice in the book, and none that waits
  is in it. `HistoryInv`: the rows of the history are the fills of the book in order, but for
  the one being written, which is the last, and those a crash cost their row.
  `PositionsInv`: each position is *fine* with what is booked of its symbol
  (`Fine(positions[s], Booked(s))`): what was bought less what was sold, and the realized
  profit is the money that moved and what the holdings cost.
* `CostOfPurchase` and `CostOfSale` are the arithmetic of one fill; with them each `Apply`
  keeps `Fine`. A rebuild starts from an empty book, whose positions are fine (`EmptyBook`),
  and submits the stored fills in the order of their times (`SortedIsOrdered`).
* The folds are those of the community modules. In `DecimalsProofs`, `FoldOf` states what any
  fold by an addition that is associative and commutative on the values does with one element
  more; `FoldUnion`, `FoldBuckets` (a sum of parts is the sum of the whole) and `FoldPlus`
  follow for numbers and for exact fractions (`FractionsAdd`, `RatioIsCanonical`: the pair
  with the least denominator is one for all pairs of equal value).
* `ReportExplainsCapital` takes the two sides of the report apart along these sums.

**Assumptions.** The named ASSUMEs of the modules: `NULL` is no actor, no time and no thread,
`UnknownId` is not an issued identifier, threads and clients are disjoint, gateways have a
mode and a style, weak signals are signals, `None` is no signal, no record and no fill, the
orders of a ledger are finitely many. TLC evaluates them in every run. The other theorems
state theirs in front, by name:

* numbers are numbers: `LimitsConfigured`, `HistoryConfigured`, `SizingConfigured`,
  `AllocatorConfigured`, `RunnerConfigured`, `WatchlistConfigured`, `QuotesConfigured`,
  `BarsConfigured` (ranges of whole times, a pressure between 0 and 100),
  `TrailConfigured`, `RunConfigured` (the agent is one of the writers
  and asks a sequence of tools), `SessionsConfigured`, `WindowsConfigured`,
  `ClientConfigured`, `TokensConfigured`, `Reasoned`, `ChainsBound`, and `NoneIsNoNumber`
  (`None` is no value);
* a rule of the code: `SomeoneIsAsked` (a chain has a provider), `LadderConfigured` (steps
  are positive), `ChainsComplete` (the gates the runner's script installs), a token lives longer
  than the buffer before its end;
* `FewHooks` (the hooks are finitely many, so that the model's bound on them is their number).

The model assumes that the clock does not go back, that SQLite transactions are atomic
and durable, and that final marks of orders are made by gateways only (in the server
this is proved).

**Model-checked only.**

* Liveness, and that the gateway's lock is released (the prover does not do liveness).
* The computations compared with a reference over bounded inputs: `RiskAnswersAgree`,
  `SignalsAreSound`, `ReportsAgree`, `InputsAreUnderstood`. They are folds over sequences,
  sorted or selected.

## 5. Where code and documentation disagree

1. A SKIPPED record replaces the SUBMITTED one in the cache
   (`execution_record.py:233`), and `is_duplicate` ignores SKIPPED, so the third run
   of a signal orders it again; line 13 promises that a signal is not executed again
   within 24 hours. What does hold is `ReorderedOnlyAfterSkip`. `pipeline_cooldown`.
2. An answer of `submit_order` that is no dict raises `GatewayError`
   (`execution_gateway.py:690`), which lines 593-597 pass on without a mark: the row stays
   EXECUTING. `docs/PHASE2A_CHANGES.md:58` has EXECUTED or EXEC_FAILED follow.
   `ExecutionSettles` shows that this is the only such exit. `malformed_reply`.
3. The spread's quality, always positive, is summed like a direction and can turn the
   side (`momentum_v04.py:247-258`); `indicators/quote_signal.py:48-49` says that it is
   used as a weight only. `momentum_spread`.

## 6. Observations

What the models were built to follow, and a reader of the code should know. None is a
run of its own; those that a state shows are allowed by the properties on purpose.

**Approval table, gateway, server**
* `mark_executing` compares the end of the window with the time the call was made
  (`approval_store.py:891`), before it waits for the database: an execution can start
  up to ten seconds late (`WindowsRespected` is about the time the call was made).
* The stop flag is read at `execution_gateway.py:543` and the broker called at 548; a
  thread between the two still sends (`StopHolds` is about all others). An interrupt
  check that raises counts as no interrupt (line 427; fault `"callback"`).
* `execute_approved` ignores the action kind; `docs/PHASE2A_CHANGES.md:81` promises an
  explicit error. The server dispatches by kind before it calls the gateway.
* A process that dies while it executes leaves EXECUTING for ever, although
  `docs/PHASE2A_CHANGES.md:51,58` claims restart safety. `expire_overdue`
  (`approval_store.py:1072`) has no caller outside the tests: a request nobody reads
  stays PROPOSED.
* A dict answer without a status, or with PENDING, is taken for an acceptance
  (`execution_gateway.py:717`), so EXECUTED may stand for an order nobody accepted.
* The executor of a kill switch only marks the row (`_write_handlers.py:335`); that the
  flag is set beside it, out-of-band, is what `docs/PHASE2_STAGE2A_CHANGES.md:68` says too.
* The cancel path passes `symbol=`, which the adapter does not take
  (`_write_handlers.py:311`), never compares the mode (303) and marks EXECUTED also for
  `cancelled=False` (315). `list_pending` filters after its limit.

**Pipeline and runner**
* `run_signal_runner.py:217` builds the gateway without the shutdown event: after Ctrl-C
  the run in progress goes on to its order.
* `fetch_open_orders` and the risk gates are called outside any `try` (`gateway.py:293`);
  when they raise, nothing is recorded.
* The runner forgets the times of its orders in a restart (`runner.py:151`) and never
  learns those whose answer was lost (250): the cooldown does not see them.
* Orders on the way to the broker are in neither of the two readings the gates bound.
* A failing append can leave part of a line (`execution_record.py:219-225`); the next record
  joins it and is skipped on reload, so its order counts as not executed. Part of a
  character makes the reload raise UnicodeDecodeError, which nothing catches.
* `fetch_open_orders` reads one page and drops rows that do not parse.

**Approval backends, stop, client**
* A quota's expiry is checked when it is matched and not when it is consumed
  (`approval_preapproval.py:255`). A timed-out prompt's thread takes the next line typed
  (`approval_cli.py:292`); the property holds because its answer box is its own. A
  line typed before its prompt answers it, which no property can tell from a real answer.
* `request_stop` takes a non-reentrant lock and is called from the SIGINT handler
  (`_state.py:106`): a signal that arrives while the main thread holds the lock waits
  for ever, and only a second SIGINT, which exits (`shutdown.py:66`), ends it.
  `EmergencyStop` reaches that state, which `LockComesFree` exempts; hooks then never run.
* The bucket's waiting time is computed after its lock is released (`client.py:95`) and
  can be negative, for which `time.sleep` raises. Retries do not pass the bucket.
  `disable_live` after the guard was asked does not stop the order.
* Two processes share the name of the temporary token file; the time is read before the
  lock (`kis_adapter.py:392`).

**Fills and profit**
* A fill's id is order number and order time, so a later row of the same order with
  more executed has the id of the first and is dropped: what a half executed order executes
  later is lost, and the properties of the books exempt it (`kis_fill_source.py:215`,
  `fill_store.py:163`). A page holds 100 rows and there is no second one (119). A
  rebuild with `since_utc` starts from nothing.
* `pnl_loader` and `data_loader` query columns of fills that `FillStore` does not have.
  Orders with an intended price of 0 count in one of two profit readers only.
* The reconciler does not see codes of other than six characters or negative
  quantities; "0" orderable cash differs between the two account readers; `get_orders`
  cuts to its limit before it filters by state; `Decimal` of a non-number raises
  `InvalidOperation`, which three readers do not catch. An order-book time before
  midnight is put on today. `_fetch_minute` ignores the timeframe.

**Strategies, sizing, risk**
* `sizing.py:9-11` describes limits of an order and of a day checked together; `size` gets
  `used_per_day_krw` as 0 (`gateway.py:259`), writes it to its audit line (370) and compares
  it with nothing, as the comment at line 56 admits. `OrdersAndCapitalFit` is about the
  limits of one order.
* A missing or unreadable cash reserve, loss cap, duplicate window or cooldown is skipped
  (`_checks.py:245`, 292, 305, 483, 508), where other missing caps reject. A limit of orders
  above the length of the history's deque never rejects.
* The projection's rounding hides an excess
  that the analysis warns of. Overflow of the allocation goes also to strategies of
  weight zero.
* Signals without a hash are duplicates of each other (`_dedup.py:41`); a rejected
  signal's record takes a hash of 32 hex digits for a secret and raises
  (`_decision.py:34`); conflicts are left to a stage that does not exist. Only
  `task16_self_verify` calls these stages, and it imports names `runner.py` lost.
* `momentum_v04.py:287` computes a confidence that may belong to the other side; falling
  volume counts as confirmation (`volume_confirm.py:69`); an intensity lookback of 1
  divides by zero; the hash of MomentumV1's inputs covers the last bars only.

**Files, data, agents**
* DROP and CREATE commit at once (`symbol_master.py:290`): a reader in between finds an
  empty master. `SymbolMaster.get` does not strip its code although loading does; a row
  shorter than the header raises AttributeError or TypeError.
* Years without data are closed in `KrxCalendar` (`calendar.py:216`) and open on weekdays in
  `KRXCalendar` (`market_calendar.py:17` promises the former) unless its `fail_closed_unknown`
  is set; the tool and the dashboard know no holidays, and the dashboard uses the weekday of
  UTC with the hour of Seoul.
* A torn line takes the next event with it. One torn inside a character raises
  UnicodeDecodeError past the two handlers of `audit_indexer.py:236-254` and fails every
  search of its day. `audit_writer.py:16` speaks of a lock on the file; it is a lock of the
  process, and lines stay whole because each is one write to the file. A trace tree of an
  agent's run has no root in the file (`audit_indexer.py:356`). `TraceContext` refuses
  identifiers of 32 or more alphanumeric characters and does not look into nested values.
* Four readers of `risk_decisions.jsonl` look for three sets of names: the aggregator and the
  dashboard's summary for `evaluated_at_utc`, `approve` and `rejected_gate`, the analyzer for
  `decided_at_utc`, `pass` and `rejected_by_gate`, the tail reader for `decided_at`,
  `approved` and `failed_check`. Nothing in `src` writes any of them, so of one file they
  cannot all tell the same (`ReportsAgree` tells each by its own names); outcomes are counted
  that nobody writes; a diagnosis of fewer than ten evaluations hides a kill switch; records
  without a time count in every session; `AuditLogReader.since` keeps the oldest lines where
  `tail` keeps the newest.
* A thread that was reading a template when the cache was cleared puts the old one back;
  `get_default_registry` returns the global after it released the lock; a value that
  looks like a placeholder makes rendering fail; one file that is not UTF-8 makes every
  lookup fail, and `restricted_tools.md` makes `list_all` raise.
* A brace in the words before the object loses the model's answer. `RiskAgent` and
  `PnLAgent` call `runner.run` with arguments it does not take (`risk_agent.py:561`,
  `pnl_agent.py:618`); their fallback answers do not satisfy their schemas. The risk
  fallback says "normal" when its main tool failed; a mild breach that already suggests
  a pause hides the graver severity of a spike of rejections; an unknown severity
  raises; fills that are no list crash one of two readers.
* `_config.py` lacks names that `readonly_server.py` and `agent/_mcp_client.py:38`
  import: neither package can be imported as it is.

## 7. Plan

Done: the store, its abstract specification and refinement; the gateway; the server
and the command line; the pipeline; the runner with its gates; backends, stop, client,
tokens, ledger, data, files, agents, strategies, reports; proofs of every safety
property of every state machine among them, the folds of the ledger, the trail and the
bars included, and of the sizer and the allocator. Next, in this order:

1. Proofs about the remaining computations: the answers of the risk agent
   (`AgentReports`) and the places of a stable sort for `SignalStages`.
2. The price-sanity and market-state gates, and the audit events of the gateway.

## 8. Not modelled

* `presentation`: the dashboard's views, formatters and the CLI's layout format what
  the readers give them, and nothing they produce is read back.
* `self_checks`: scripts (`smoke_test_*`, `*self_verify*`) that exercise the modules.
* The read-only server's other tools: files and databases are read and passed on; the
  server does not import, and its queries name columns the stores do not have.
* In the modelled components: texts, hashes, permissions of files, secret masking, field
  formats of signals, the loss limits' own computation, the configuration's loaders,
  and the rounding of Decimal at 28 digits.

## 9. Running

    tlc -config ApprovalStoreRace.cfg ApprovalStore.tla
    tlc -config RestrictedServer.cfg RestrictedServer.tla
    tlc -config Desk.cfg MCDesk.tla
    tlapm RestrictedServerProofs.tla
    tlapm OrderPathProofs.tla
    tlapm ControlsProofs.tla
    tlapm FillLedgerProofs.tla
    tlapm DeskProofs.tla

`PROJECT.json` names the module and configuration of each run; the largest take two to
four minutes on two cores.
