# OmniRoute in TLA+

OmniRoute is a gateway in front of many LLM providers: it accepts a chat request,
picks a provider, one of its connections (accounts) and a model, sends the request
upstream, and falls back to something else when that fails. It runs as one Node.js
process. Most of what is difficult in it is the bookkeeping around the upstream call:
who may send now, who must wait, what counts as a failure of whom, and for how long
that is remembered. This directory models that bookkeeping, checks it with TLC and
proves its safety properties with TLAPS.

JavaScript runs a callback to its end, so the only places where two requests can
interleave are the `await`s, the promises and the timers. An action of a module is
therefore always one such uninterrupted stretch of code, with every call it makes.

Paths are relative to the root of the repository.

## 1. Inventory

| Component | State | Operations | What is hard |
|---|---|---|---|
| Account semaphore `open-sse/services/accountSemaphore.ts` | a Map of gates: running, cap, queue, blockedUntil, cleanup timer | acquire, release, markBlocked, reset, timeouts, aborts | gates die and are reborn under their holders; timers wake up late |
| Rate-limit semaphore `open-sse/services/rateLimitSemaphore.ts` | a Map of gates: running, max, queue, rateLimitedUntil | acquire, release, markRateLimited, timeouts | timers hold objects, drains look up keys |
| Circuit breaker `src/shared/utils/circuitBreaker.ts` | one record per provider and a row in the database | execute, canExecute, verdicts, reset, restore | check and verdict are separated by an await; restarts |
| Provider request path `src/sse/handlers/chat.ts`, `chatHelpers.ts`, `chatPredicates.ts`, `src/sse/services/cooldownAwareRetry.ts` | local variables of each handler | gate, choose, dispatch, fail over, wait, give up | two nested retry loops; verdicts given late and twice |
| Connection cooldown `src/sse/services/auth.ts`, `src/lib/quota/connectionRecovery.ts`, `src/lib/usage/providerLimits.ts`, `src/lib/providers/claudeExtraUsage.ts`, `src/lib/db/providers/rateLimit.ts` | error columns, cooldown and backoff of a connection's row, a mutex per connection | selection, preflight, marks, success, recovery tick, quota sync, cleanup at start | many writers, each with awaits between its look and its write; the mutex's cleanup |
| Refresh serializer `open-sse/services/refreshSerializer.ts` | a tail promise per rotation group | serializeRefresh | a lane that exists only as promises, deleted by the last to leave |
| Token refresh `open-sse/services/tokenRefresh.ts`, `src/sse/services/tokenRefresh.ts`, `src/lib/tokenHealthCheck.ts`, `chatCore.ts` | in-flight refreshes per connection, the rotation map, the row's token | getAccessToken, retries, deactivation | a token used twice revokes its family; answers and writes get lost |
| Batch processor `open-sse/services/batchProcessor.ts`, `src/lib/db/batches.ts` | batches and item checkpoints in the database, the set of active batches | poll, recovery, item loop, finalization, cancel route | a kill at any point must neither lose nor repeat provider work |
| Service supervisor `src/lib/services/ServiceSupervisor.ts` | state of a child process, an operation lock | start, stop, restart, exits, health polls | exits that come late; a child that ignores SIGTERM |
| Request dedup and idempotency `open-sse/services/requestDedup.ts`, `src/lib/idempotencyLayer.ts` | in-flight map, result cache | share, evict, expire | eviction of what is still running |
| Session pool `open-sse/services/sessionPool/` | sessions with cooldowns and failure counts | acquire, mark, prune | dead sessions fill the pool |
| Model lockout, cooldown tracker `open-sse/services/accountFallback.ts`, `providerCooldownTracker.ts` | expiring maps | lock, escalate, clear | which of several cooldowns is in force |
| Combo routing `open-sse/services/combo.ts` and `combo/` | per-request target lists, counters of round-robin | strategies, target loop, semaphore use | fail-over across providers |
| API key rotator, session manager, workflow FSM, stream recovery, browser pool, quota monitor, rate limit manager, A2A task manager | see `PROJECT.json` | | |
| Executors, translators, `chatCore.ts`, compression, dashboard, CLI, desktop shell | wire formats, user interface | | pure I/O for our purpose |

How they interact. A request passes `checkPipelineGates`, which asks the breaker of
its provider. The handler then loops: it asks `auth.ts` for a connection that is not
cooling, calls `executeChatWithBreaker`, which calls `breaker.execute(chatCore)`;
chatCore takes a slot of the account semaphore and releases it when the answer or its
stream is over. A failed result cools the connection and the loop goes on with the
next one; at the end the handler reports a verdict to the breaker itself. Combos run
this handler for each of their targets and hold a slot of the rate-limit semaphore
around it. Everything shared is a field of a module-level Map, or a row of the
database; there are no locks except one promise chain per connection in `auth.ts`, one per
rotation group in `refreshSerializer.ts`, and the shared refresh per connection in
`tokenRefresh.ts`. chatCore refreshes the tokens of its connection after a 401 or 403; the
health check and the usage route refresh the same rows. The recovery scheduler and the
quota sync clear what the requests mark. The batch processor sends its items through the
same request path.

What makes each component correct:

* **Semaphores.** Never more holders than the cap in force allows at an admission; no
  slot lost or counted twice; every waiter either admitted or told otherwise, in order,
  and never stranded; a cooldown keeps newcomers out; no gate leaks.
* **Circuit breaker.** Its state is the one its count calls for, in any interleaving of
  verdicts; nothing passes while it rests; a probing is limited and it ends; the backoff
  survives a restart.
* **Request path.** The breaker's promise holds although the gate is passed once and
  dispatches come later and repeatedly; every request ends; failures open the breaker
  and refusals do not feed it.
* **Connection cooldown.** An error is not cleared by somebody who has not seen it; every
  mark gets its turn; a terminal status stays until something resets it. The code keeps the
  first only where it compares before it writes, and the last not always (section 3).
* **Refresh serializer.** At most one refresh per rotation group at a time, in order; a
  failed refresh frees the lane.
* **Token refresh.** A used token is never presented again, so that no account is lost but by
  a lost answer, a failed write or a restart; every refresh ends. The code does not quite keep
  the first: two of its own steps lose a token too (section 3).
* **Batch processor.** No item is sent by two lifetimes of the process; recorded answers
  and final states stay; the counts add up; every batch ends.
* **Request dedup** (planned). One upstream call per key at a time.

The hazards, each at its line and with the properties that would catch it, are in
`PROJECT.json`.

## 2. The modules

```
ConcurrencyLimiter      abstract: holders, waiters, a cap
  ^ AccountSemaphore    <- MCAccountSemaphore,   AccountSemaphoreProofs
  ^ RateLimitSemaphore  <- MCRateLimitSemaphore, RateLimitSemaphoreProofs

Breaker                 the methods of one breaker, as functions
CircuitGuard            abstract: traffic flows, rests, or is probed
  ^ CircuitBreaker      <- MCCircuitBreaker,     CircuitBreakerProofs
  ^ ProviderCircuit     <- MCProviderCircuit,    ProviderCircuitProofs
                           BreakerProofs: lemmas on Breaker, used by both

RefreshLane             the lane of a rotation group
  + TokenRefresh        <- MCTokenRefresh,       TokenRefreshProofs   (extends the lane)
ConnectionCooldown      <- MCConnectionCooldown, ConnectionCooldownProofs
BatchProcessor          <- MCBatchProcessor,     BatchProcessorProofs
```

`^` is a refinement (`INSTANCE ... WITH`, the abstract specification as a property).
In every module an operator named in a comment as *Mutant* stands before the
definition it distorts; it is not part of the specification, and shows that the
property it belongs to notices the bug.

**AccountSemaphore.** One key. `present` says whether the Map has a gate, the other
gate fields are variables of their own. `status` is where each caller is: idle, waiting
(its promise is pending), holding (it has a release function it has not called) or
bypassed (no cap). Time is not a number: `blocked` is "none", "active" or "lapsed"
(blockedUntil is set and past, and nobody has looked), which is all that `isBlocked`
tells apart. `CooldownElapses` is the clock. The timer of a block is armed 50 ms after
the block's end, hence the guard of `BlockTimerFires`: one of the pending timers belongs
to the block in force and cannot fire yet. `Drain` is `drainQueue` with its loop and its
`scheduleCleanup`, and is part of every action whose code calls it.

**RateLimitSemaphore.** The same shape with the differences that matter: an idle gate
is deleted at once; `getGate` always writes the cap; a cooldown timer holds the gate
object it was created for. `timers` are those of the live gate, `orphans` those of gates
that were deleted, which may still find their own `rateLimitedUntil` set and then drain
whatever gate has the key now. `cooling` is a history variable: whether the latest
cooldown a caller asked for is over.

**Breaker** gives the methods of class CircuitBreaker as functions from record to
record. Counters stop where the code stops comparing them (`failureCount` at the
failure threshold, `openCycleCount` where the backoff is at its maximum). `elapsed`
stands for the comparison of `lastFailureTime` with the effective cooldown, whatever
its length, so the escalation and the cooldowns per failure kind are covered by any
length of time passing.

**CircuitBreaker** composes them: concurrent callers of `execute` between admission and
verdict, errors `isFailure` ignores, verdicts reported from outside (`chat.ts`,
`accountFallback.ts`), the persisted row, the registry sweep's look, `reset` and a
restart of the process.

**ProviderCircuit** is `handleSingleModelChat` seen from the breaker. `req[r]` holds
the local variables of the handler of request r: where it awaits, its connection, the
excluded ones, its attempts. `GoesOn` is what the handler does next. `cooled` is the
set of connections whose `rateLimitedUntil` is in the future. `streak` counts the
requests that met failures and gave up since the provider last answered.

**RefreshLane** is `serializeRefresh` for one group. `tail` is the entry of `groupTail`,
`prev` the promise each call awaits; there is no other record of who may go. A promise of a
ticket that has left is resolved, which `Leave` shows by giving its successor the value
`None`. `line`, the order of arrival, is a history variable.

**TokenRefresh** runs the accounts of one provider over that lane. A token is its number in
the account's sequence; the provider accepts the newest, once, and revokes the account on
any other. `flight[c]` is the entry of `connectionRefreshMutex` with the refresh that holds
it: looking at the row, queued, at the provider, answered. A caller (`call`) holds a copy of
the row's token from `Load` on, for as long as it likes. The kinds of callers differ where
the code does: chatCore retries, abandons after thirty seconds, passes a compare-and-swap
guard and writes the row itself when its persist function did not run; the health check
clears the token of an account it gives up; the on-demand route takes a place in the lane
of its own, around the refresh, and writes the row after it. `Deliver` and `Disappoint` are
what all who share a refresh do with its outcome: their continuations run in the same turn
of the event loop. `lost` is a history variable: the accounts whose newest token was at the
moment of a fault neither in the row nor on its way there (a lost answer, a failed write, a
restart between answer and write). What the code loses without any fault is in `dropped`, which
two kinds of steps extend: a refresh whose new token is written by nobody (`Stores` is false:
the compare-and-swap guard skips the write, and nobody who still waits writes it), and a write
that takes the row back to an older token (`Redirect`, `Return`). When the health check's write
throws, the shared promise rejects, and nobody who shares it gets the token (`Reject`); the
request's own write catches its error, and the token is handed on.

**ConnectionCooldown** is the row of one connection and the writers that section 5 does not
leave out. `provider` matters where the code asks for it: a 429 of Codex and its scopes, the
extra-usage block of Claude, and the providers whose refresh tokens do not rotate, which the
quota sync may mark expired. One quota sync is `QuotaLook` (the snapshot, before the network),
then at most one of its unconditional writes (`QuotaExpires`; `QuotaUnblocks` and `QuotaBlocks`
of `syncClaudeExtraUsageStateIfNeeded`), then the compare-and-swap (`QuotaClear`) or nothing.
`quota.seen` is what the sync takes the row to be: its snapshot or, after `QuotaBlocks`, what
it has itself written, as in the code. `extra` is whether `last_error_source` names the
extra-usage block. Times are the numbers
of the writes that set them, which is all that comparisons of `last_error_at` and
`rate_limited_until` for equality tell apart (two errors of one millisecond count as two here,
while the code cannot tell them apart); whether the cooldown has passed is a flag and
`TimePasses` the clock. `mutex` and `request[r].after` are the map entry and the promise a
mark waits for: `Leave` deletes the entry, whosever it is. `Choose` reads the row where the
code reads a cache that is invalidated with every write; its reset of a lapsed backoff is
in the same turn.

**BatchProcessor** has the two tables, the set of active batches, and per batch the place in
`processBatchItems` where it awaits. A stretch of code without an await excludes all others
(`Quiet`) but may be killed half-way, so the places between a checkpoint and the call, and
between the two writes of the finalization, are states of their own. `Poll` is one tick with
everything it does; which of the waiting batches it starts depends on their order in the
table and is left open.

**ConcurrencyLimiter** and **CircuitGuard** say what the callers are promised, without
gates, timers, counters or lazy refresh.

## 3. The runs

| Run | Module | Asks |
|---|---|---|
| account_reset | MCAccountSemaphore | with everything allowed, resets included: types, waiters and queue agree, no slot lost, idle gates have a timer, order |
| account_live | MCAccountSemaphore | without resets: refinement of the limiter, waiters served, gates collected |
| model_safety | MCRateLimitSemaphore | types, waiters, slots, order, waiters served, refinement of the limiter |
| breaker_safety | MCCircuitBreaker | types, state matches count, backoff, refinement of the guard |
| circuit_safety | MCProviderCircuit | types, refinement of the guard by the request path |
| circuit_live | MCProviderCircuit | requests end, an open breaker does not stay open |
| circuit_never_opens | MCProviderCircuit | finding: repeated failures do not open the breaker |
| refresh | MCTokenRefresh | types, the lane is one chain, refreshes of a group never overlap, accounts are lost only after a fault or one of the code's own two losing steps, refreshes end |
| refresh_wedged | MCTokenRefresh | finding: a refresh waits in the lane its caller holds |
| batch | MCBatchProcessor | types, nothing replayed, counts, the limit, cancellation, final states, answers kept, every batch ends |
| cooldown | MCConnectionCooldown | types, the quota sync's compare-and-swap clears no newer error, marks end |
| cooldown_terminal | MCConnectionCooldown | finding: a cooldown overwrites a terminal status |

**Bounds.** Semaphores: four or five callers with caps 1 and 2 leave up to three or
four waiting, so the queue can be full, drained by more than one, and overtaken; two
pending timers give a block that replaces a block while the first one's timer is still
to come. A queue limit of 0 (never wait) is among the values of model_safety. Breaker:
three callers are one probe, one straggler and one more; thresholds 2 and 4 keep
CLOSED, DEGRADED and OPEN apart with room to go up and down inside DEGRADED; two cycles
distinguish none, one and many. The shipped values only differ in size (5 failures, one
probe), and the theorems are about all of them. Request path, circuit_safety: two requests
interleave, two connections give fail-over, one wait per request gives a second round. Request
path, circuit_live: two requests and one wait each, but one connection, since the liveness of
two does not finish; its fail-over leads to "no connection left", and RequestsEnd over several
connections is not checked. Request path, circuit_never_opens: one request that fails over once
and does not wait. Token refresh: two
accounts make the lane a queue of more than one, three callers of three kinds (one of
which visits both accounts) share and overtake each other's refreshes; three tokens for an
account, which the two renewals allow one account or divide between both, give a caller that
began with the first, a row with the second and a refresh that mints the third, which is what
the losing steps of the code need; and one fault is a loss at any of the three places. The
proactive caller, whose steps are a subset of the others', is in refresh_wedged, which needs
one renewal and no fault. Batches: two under a limit of one make one wait; two items
are one answered and one interrupted; two kills are a kill during a recovery. Cooldown:
three requests are a mark that runs, one that has its turn next and one that finds the map
entry deleted, for each of the three kinds of provider; the errors of the quota sync and the
429s of Codex come among the first two errors (`MaxTime`), so that each may come before, after
and between two marks. cooldown_terminal has a provider that is neither Claude nor Codex and
no error of the quota sync, so that its counterexample is the one of finding 3. Counting
bounds (`MaxTimers`, `MaxCycles`, `MaxRetries`, `FailureThreshold` as the cap of counters,
`MaxVersion`, `MaxRenewals`, `MaxAttempts`, `MaxFaults`, `MaxTries`, `MaxCrashes`,
`MaxLevel`, `MaxTime`, `MaxRestarts`) are constants of the modules.

Symmetry is used in account_reset and circuit_safety, which check no liveness; no
module names an individual caller or connection.

Deadlock checking is off in refresh (the on-demand route really stops, see the findings),
batch (all batches have ended) and cooldown (every request has been used); the other
systems never stop.

**Fairness.** Weak fairness only. A holder releases (chatCore does so in the finally
path, on the end or the cancellation of a stream, and in every catch; combo.ts in a
finally block). Timers fire and time passes. A guarded upstream call ends, since it has
timeouts. The stretch of a handler between two awaits runs. The registry sweep looks at
every breaker every five minutes. In TokenRefresh, the event loop runs what is ready and the
HTTP client ends every exchange, so that a refresh that can go on does (`Refresh`), and an
on-demand route that holds its place (`Outer`); in BatchProcessor the poll comes every ten
seconds and every dispatch returns or throws; in ConnectionCooldown a mark whose promise is resolved goes on. Nothing obliges a request to arrive, a waiter to time
out, a client to disconnect or an administrator to reset: the liveness properties hold
without that help. `WaitersServed` assumes that blocks stop coming and that callers come
to agree on the cap: while they disagree, newcomers with the larger cap may overtake a
waiter for ever, which TLC shows when that premise is dropped. `RequestsEnd` and
`OpenEnds` have no premise.

**Findings.** Each names the line and what the repository says of it (`PROJECT.json`,
"findings"). In short:

1. *circuit_never_opens*: an upstream failure is a returned value, hence a success for
   `execute`. Each failing request takes one off the count per dispatch and adds one.
2. *refresh_wedged*: `refreshAndUpdateCredentials` calls `serializeRefresh` around an
   executor that, for codex and claude, calls `serializeRefresh` again. The inner call waits
   for the outer one. The lane, and every refresh of the rotation group, stands still until
   a restart. `RefreshesEnd` therefore says "unless the lane is wedged".
3. *cooldown_terminal*: a preflight that was on the network while another request found the
   account banned replaces the terminal status by a cooldown; so may a mark that runs beside
   another because the mutex entry of a third was deleted. (With a Claude connection,
   `QuotaBlocks` does it too.)

Seen while modelling, and not kept as runs:

* Account semaphore: `isBlocked` forgets a lapsed block as a side effect; when a newcomer
  triggers it, the block's own timer does not drain, and waiters stay at an unblocked gate
  with a free slot until somebody releases (`accountSemaphore.ts:88`). `WaitersServed` still
  holds. A newcomer overtakes the queue in the same way, and a reset admits beside the
  holders of the deleted gate (why `SlotsAccounted` is an inequality when `MayReset`).
* Rate-limit semaphore: the release of the last holder deletes the gate and the cooldown it
  has just been given (`rateLimitSemaphore.ts:117`); `getGate`'s default cap is written into
  the gate when a model is marked (line 189). No property sees the second: both caps are of
  the type, and the abstract limiter's cap is whatever `getGate` wrote last.
* Circuit breaker: an ignored error of the only probe leaves HALF_OPEN without a probe and
  without a timer (`circuitBreaker.ts:280`); a refusal of the breaker is counted as a failure
  by the breaker that refused (`chat.ts:1275`); a straggler's verdict may start a second
  probing while the first probe is in flight (why CircuitGuard promises a budget per probing
  and not a number of probes in flight).
* Token refresh: the code loses tokens without any fault, in two ways, after which the next
  refresh presents a used one and the provider revokes the account. *A skipped write*: chatCore
  begins with token 1; the row has token 2, no longer fresh; the refresh adopts and presents 2,
  while the compare-and-swap guard stays at 1 (`chatCore.ts:3297`); the caller gives up waiting
  after its last retry; the guard finds 2 in the row, not 1, and skips the write of token 3
  ("a concurrent writer already rotated the refresh_token", `tokenRefresh.ts:277`, when it was
  this refresh that presented it); nobody is left to make up for it
  (`if (!persistFnRan)`, `chatCore.ts:3313`). For sixty seconds the rotation map still leads
  from 2 to 3; then the next caller presents 2. *The row goes back*: the rotation map may know
  an older successor than the row has; who is redirected writes it, and so does the on-demand
  route after its refresh. `LostBeforeGone` is therefore not "only after a fault"; it says that
  these two are the only ways but for faults. TLC reaches each of them in the refresh run,
  and an account that is revoked through them alone.
* Token refresh: a refresh that adopted the row's newer token records no rotation for the
  token it began with, so another caller's copy of it is caught by the row only.
* Quota sync: `clearConnectionErrorIfUnchanged` compares, but the same sync has before it
  written without comparing, from the same snapshot (`providerLimits.ts:533`). When the snapshot
  holds Claude's extra-usage block and none is due any more, it clears whatever the row holds by
  then, a newer cooldown or a terminal status included. When extra usage is queued, it writes its
  block over whatever the row holds; and since the compare-and-swap then compares with that very
  block, a usage answer with any quota left clears it in the same sync, so that "blocked by this
  connection policy" does not last (`hasUsableQuota` looks at all windows).
  `syncExpiredStatusIfNeeded` overwrites likewise.
  `RecoveryKeepsNews` is about the compare-and-swap, and excepts the extra-usage clear by name.
* Connection cooldown: the recovery tick has no compare-and-swap and clears whatever was
  written between its load and its clear, a terminal status included; a success clears newer
  errors when its credentials carried an older one.

## 4. The proofs

The theorems hold for every set of callers, requests, connections and batches (finite
where something counts them), and all values of the thresholds, caps and bounds that
satisfy the assumptions of the modules. TLC evaluates each of them. `RequestsFinite`,
`CallersFinite`, `CapsPositive`, `BoundsNat`, `ThresholdsPositive`, `RetriesNat`,
`CooldownAssumption`, `BatchAssumption` and `MayResetBoolean` give the types of the
constants; `ConnectionsNonempty` and `LaneMarks` make "no connection" and the two marks of
the lane differ from what they stand beside; `RefreshAssumption` also says that an account
is not a caller, and that the on-demand route, the proactive and the reactive refresh and
the sweep are different callers (they are different functions of the code).

**AccountSemaphoreProofs.** `IInv` is TypeOK, QueueIsWaiting, SlotsAccounted,
IdleGateHasTimer and `GateShape` (no gate: no queue, no count, no block, no timer of its
own). QueueIsWaiting is not inductive alone: a drain moves the first k entries of the
queue to the holders, and the count of holders grows by k only because those entries
are k different callers (`FrontSize`) that were all waiting. GateShape is what a release
or a timer that finds no gate needs. `DrainEffect` states once what `drainQueue` does,
and the actions cite it. For the order, every action either leaves the queue's callers
waiting or moves a front of it to the holders (`DrainInOrder`), and nobody in a front has
anybody ahead outside it. Results: TypeCorrect, NoStrandedWaiter, NoLostSlot,
NoLeakedGate, InOrder, and Refinement: `~MayReset => (Spec => ImplementsLimiter)`. With resets
the refinement is false, and account_reset shows what is left.

**RateLimitSemaphoreProofs.** The same argument with this gate's lemmas (`AfterFront`,
`WithoutOne`, `DrainedGate`); SlotsAccounted is an equality here, across deletions, since
a gate is only deleted when nobody holds a slot of it. IdleGateHasTimer is not inductive:
it speaks of a gate with an empty queue, and the last waiter of a gate without holders may
time out. `GateShape` has what is needed: any gate without holders is rate-limited, and any
rate-limited gate has a timer of its own, so the timer is there before the queue empties.
The proof of Release shows that its check for a missing gate or a count of zero is never
taken (`ReleaseDrains`): a holder's gate is alive and counts it. Results: TypeCorrect,
NoStrandedWaiter, NoLostSlot, NoLeakedGate, InOrder, and Refinement, without a premise.

**BreakerProofs** proves of each method that it keeps `Sound` (type, and the relation of
state and count) and what it may do to the traffic: a refresh is invisible to the
guard, taking a probe spends one of the budget, a verdict leaves the phase as it is or
makes the traffic flow or rest (`Judged`), a restore keeps the phase and refills the
budget. **CircuitBreakerProofs** and **ProviderCircuitProofs** cite these lemmas, one
action each. In CircuitBreaker, `IInv` adds that the row is the row of the object and
that the cycle count equals the history variable; StateMatchesCount is inductive only
with the row, from which a restart rebuilds the object. In ProviderCircuit, `IInv` adds
that a request that is being served has a connection (else fail-over would cool `None`)
and that a waiting one has an attempt left (else its counter would leave its type).
Results: TypeCorrect, CountDecidesState, BackoffRemembers and Refinement, and
TypeCorrect and Refinement of the request path.

**ConnectionCooldownProofs.** `IInv` is TypeOK and `TimesPast`: no time in the row is later
than the present, and none in what the quota sync takes the row to be later than the moment it
was that. Every writer either leaves the two times of the row, clears them or stamps them with
the present (`Written`), which is all that `WrittenKeeps` needs; each action has one lemma.
Results: TypeCorrect, and NewsKept, that `RecoveryKeepsNews` holds for any number of requests,
restarts and errors of the quota sync: only the compare-and-swap and the excepted extra-usage
clear end a sync with a clean row (`WhoClears`), and when the compare-and-swap finds the times of
the snapshot, they are past it. Nothing is proved about errors that are overwritten.

**TokenRefreshProofs.** `IInv` has five parts. `WellTyped`: TypeOK, and that a caller under
way has an account and a token. `LaneWell`: ChainIsLine, and that nobody is in the lane
twice, without which a member that leaves would take another's place with it; `JoinLane`
and `LeaveLane` prove both for a chain of any length. `Places`: who is in the lane, read
off the phase of each refresh and the place of each on-demand caller, and that a refresh
that has gone to the provider has its turn. OneMintPerGroup follows since only the first
of the line has its turn (`FirstOnly`); it is not inductive alone, because the next one's
turn comes by a promise and not by a look at the others. `NotAhead`: no token is noted, written
or returned that the provider has not issued, so that a write cannot take a row past the newest
token, and a refresh that still looks at the row is awaited by its owner. `NewestKept` says of
every account in neither `lost` nor `dropped` (`Safe`) that its newest token is in the row or
with the refresh that has just been answered, that the token a refresh takes to the provider is
that one, and that the account is alive and active: LostBeforeGone alone says nothing about the
refresh that is on its way with a stale copy. The proof of Finish is where `Stores` is needed:
a safe account's new token is written by somebody, and of Redirect and Return, that they write
the newest token or drop the account.
Results: TypeCorrect, LaneInOrder, OneAtATime and GoneOnlyIfLost.

**BatchProcessorProofs.** `IInv` is WellTyped, the limit on `active`, and for each batch
`BatchInv`, which says how the four places agree that the code never compares: the row and
activeBatches with the loop (`RunningRow`), the checkpoints with one another (`InOrder`:
lines are taken up in order), the loop's line and counters with the checkpoints
(`OnTheLine`), the history of sends with the checkpoints (`SentIsMarked`: what was sent has
a checkpoint written before), and the cancel request with the sends after it
(`LastAfterCancel`). NoReplay needs all of them: a resumed loop starts at the first line it
has not taken over because the taken-over lines are counted and are the first ones
(`CountFirst`), and what stands behind them was never sent. A row of an earlier version,
which has no checkpoints, satisfies `Untracked` instead and is never started. `StepOf`
reduces an action of one batch to that batch; `ContinueKeeps` treats the head of the loop once for
Resume and Answered. Results: TypeCorrect, NeverReplayed, CompletedIsComplete, LimitKept,
CancelHeeded, and the action properties OutcomeFinal and AnswersStay.

Only model-checked: the liveness properties (fairness and ENABLED are beyond the prover).
Every other property of the passing runs is stated by a theorem. The lemmas about counting and
sequences rest on the library's theorems on finite sets and sequences.

## 5. Not modelled

* Settings that change while the process runs (thresholds and cooldowns of a breaker
  are constants of a run; caps of the semaphores do change).
* `kindThresholds` of the breaker, which no production caller sets.
* Pinned combo steps, live tests and shadow traffic in ProviderCircuit: they go around
  `execute`. Statuses outside `PROVIDER_BREAKER_FAILURE_STATUSES`, which never reach the
  breaker.
* Failed database writes outside TokenRefresh, and several processes on one database.
* The eviction of breakers from the registry.
* TokenRefresh: the path without a connection id (the token-hash cache), the breaker inside
  `refreshWithRetry`, a failing read of the row in the staleness check, executors that turn an
  unrecoverable error into null, the proactive refresh of `executors/base.ts`, and a user who
  signs in again. The settle gap is the time between an answer and `Finish`.
* ConnectionCooldown: the other writers of the same columns, none of which compares before it
  writes: a successful token refresh (`updateProviderCredentials`,
  `src/sse/services/tokenRefresh.ts`), the health check's outcomes (`tokenHealthCheck.ts`),
  chatCore's own verdicts on an account (expired, banned, deactivated, out of credits,
  `chatCore.ts`), the connection test and its route, the health autopilot, and a new sign-in.
  `RecoveryKeepsNews` is about errors of the writers that are modelled; whether each of these
  others changes a column the compare-and-swap compares is not examined.
  Also automatic deactivation after a ban, edits and resets by the
  administrator (which clear an extra-usage block when its policy is switched off), the in-memory model lockouts, and the fill race of the read cache (rows read
  just before an invalidation may be stored after it, and then be five seconds old).
* BatchProcessor: the result files and their expiry (a kill while they are written leaves
  orphans), deletion of batches, a rejected lookup of the API key. A cancelled batch keeps its
  place in the limit while an item is retried, which may take a day: `BatchesEnd` relies on
  retries being bounded.
* Selection strategies, error classification, translators, executors, user interface:
  data rather than control, or pure I/O.

## 6. Plan

1. *Done*: semaphores, breaker, request path, connection cooldown, refresh lane and token
   refresh, batch processor; their safety properties, action properties and refinements
   proved.
2. Proofs: an abstract specification of the token refresh (a serialized resource) and of the
   batch (each item sent at most once, each outcome recorded once) as refinements; which
   writers keep a terminal status of a connection (what is left of the promise that
   *cooldown_terminal* refutes).
3. **ServiceSupervisor**: start, stop and restart under the operation lock against exits,
   health polls and the stop timeout.
4. **RequestDedup** with the idempotency layer: one upstream call per key, eviction at the
   limit, timeout racing a late answer.
5. **BreakerRegistry**: eviction and re-creation with calls in flight on a detached object;
   **SessionPool** and the model lockout.
