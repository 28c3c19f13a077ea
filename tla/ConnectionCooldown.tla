------------------------- MODULE ConnectionCooldown -------------------------
(***************************************************************************)
(* The error state of one provider connection, in the columns of its row   *)
(* in provider_connections, and five writers of it: the requests that      *)
(* choose the connection, use it and report (src/sse/services/auth.ts),    *)
(* the recovery scheduler, which clears what has elapsed (src/lib/quota/   *)
(* connectionRecovery.ts), the quota sync, which clears, blocks and        *)
(* expires (src/lib/usage/providerLimits.ts), and a restart.  Not here:    *)
(* what the token refreshes, the connection test and the chat core's       *)
(* verdicts on an account write into the same columns (README, section 5). *)
(*                                                                         *)
(* A write is one statement; reads and writes of one writer are separated  *)
(* by awaits.  Marks are serialized by a promise per connection.           *)
(***************************************************************************)
EXTENDS Naturals

CONSTANTS
  Providers,    \* what the connection's provider may be
  Requests,     \* each request uses the connection once
  MaxLevel,     \* maxBackoffSteps
  MaxTime,      \* bound: the quota sync and the 429s of Codex write errors up to then
  MaxRestarts,  \* bound
  NoRequest

ASSUME CooldownAssumption ==
  /\ Providers \subseteq {"claude", "codex", "other"}
  /\ MaxLevel \in Nat \ {0} /\ MaxRestarts \in Nat /\ NoRequest \notin Requests

VARIABLES
  provider,
  row,       \* test_status, rate_limited_until and last_error_at (0 is NULL, else
             \* the time of the write that set it), backoff_level, whether
             \* rate_limited_until has passed, and whether last_error_source is
             \* extra_usage
  mutex,     \* markMutexes: the request whose promise is the connection's entry
  request,   \* where a request is, whether its credentials carry an error, the
             \* backoff it has read, and whose promise it waits for
  tick,      \* runConnectionRecoveryTick has loaded the row and not cleared it
  quota,     \* the quota sync: idle, asking for the usage, or through with it
             \* and its block written; what it takes the row to be;
             \* history: when the row was that
  now,       \* counts the writes of errors: their timestamps
  restarts

vars == <<provider, row, mutex, request, tick, quota, now, restarts>>

Rows == [status : {"active", "unavailable", "terminal"}, until : Nat, passed : BOOLEAN,
         at : Nat, level : 0..MaxLevel, extra : BOOLEAN]

Clean == [status |-> "active", until |-> 0, passed |-> FALSE, at |-> 0, level |-> 0,
          extra |-> FALSE]

(* The columns in the WHERE clause of clearConnectionErrorIfUnchanged. *)
Compared(w) == [status |-> w.status, until |-> w.until, at |-> w.at]

TypeOK ==
  /\ provider \in Providers
  /\ row \in Rows
  /\ mutex \in Requests \cup {NoRequest}
  /\ request \in [Requests ->
       [at : {"idle", "chosen", "moved", "waiting", "marking", "done"},
        dirty : BOOLEAN, level : 0..MaxLevel, after : Requests \cup {NoRequest}]]
  /\ tick \in BOOLEAN
  /\ quota \in [at : {"idle", "asked", "blocked"}, seen : Rows, time : Nat]
  /\ now \in Nat
  /\ restarts \in 0..MaxRestarts

NewRequest == [at |-> "idle", dirty |-> FALSE, level |-> 0, after |-> NoRequest]
Done == [NewRequest EXCEPT !.at = "done"]
NoQuota == [at |-> "idle", seen |-> Clean, time |-> 0]

Init ==
  /\ provider \in Providers
  /\ row = Clean
  /\ mutex = NoRequest
  /\ request = [r \in Requests |-> NewRequest]
  /\ tick = FALSE
  /\ quota = NoQuota
  /\ now = 0
  /\ restarts = 0

Cooling(w) == w.until # 0 /\ ~w.passed           \* isAccountUnavailable
Terminal(w) == w.status = "terminal"             \* banned, expired, credits_exhausted
HasError(w) == w.status # "active" \/ w.until # 0 \/ w.at # 0

(* What maybeClearRecoveredQuotaState tries to clear. *)
Recoverable(w) == ~Terminal(w) /\ (HasError(w) \/ w.level > 0)

(* The row w with a new error at this moment. *)
WithError(w) == [w EXCEPT !.at = now + 1]
CoolingDown(w) == [w EXCEPT !.until = now + 1, !.passed = FALSE]

-----------------------------------------------------------------------------
(* Selection *)

(* getProviderCredentials: the cached row decides; a lapsed backoff is reset. *)
Choose(r) ==
  /\ request[r].at = "idle" /\ ~Cooling(row) /\ ~Terminal(row)
  /\ request' = [request EXCEPT ![r].at = "chosen", ![r].dirty = HasError(row)]
  /\ row' = IF row.level = 0 THEN row
            ELSE [row EXCEPT !.status = "active", !.at = 0, !.level = 0, !.extra = FALSE]
  /\ UNCHANGED <<provider, mutex, tick, quota, now, restarts>>

(* preflightQuota has asked the provider: no quota is left. *)
PreflightBlocks(r) ==
  /\ request[r].at = "chosen"
  /\ request' = [request EXCEPT ![r] = Done]
  /\ row' = [CoolingDown(WithError(row)) EXCEPT !.status = "unavailable", !.extra = FALSE]
  /\ now' = now + 1
  /\ UNCHANGED <<provider, mutex, tick, quota, restarts>>

-----------------------------------------------------------------------------
(* Outcomes *)

(* clearAccountError, with the state the credentials were read with. *)
Succeed(r) ==
  /\ request[r].at \in {"chosen", "moved"}
  /\ request' = [request EXCEPT ![r] = Done]
  /\ row' = IF request[r].dirty THEN Clean ELSE row
  /\ UNCHANGED <<provider, mutex, tick, quota, now, restarts>>

(* A 429 of Codex: only rate_limited_until is written, and the request goes on
   with another account; its outcome is still reported for this one. *)
RateLimited(r) ==
  /\ provider = "codex" /\ request[r].at = "chosen" /\ now < MaxTime
  /\ request' = [request EXCEPT ![r].at = "moved"]
  /\ row' = CoolingDown(row)
  /\ now' = now + 1
  /\ UNCHANGED <<provider, mutex, tick, quota, restarts>>

(* Mutant: the promise is put in the map before the one before it is taken. *)
FailWaitingForItself(r) ==
  /\ request[r].at \in {"chosen", "moved"}
  /\ mutex' = r
  /\ request' = [request EXCEPT ![r] = [NewRequest EXCEPT !.at = "waiting", !.after = r]]
  /\ UNCHANGED <<provider, row, tick, quota, now, restarts>>

(* markAccountUnavailable: queue behind the promise in the map. *)
Fail(r) ==
  /\ request[r].at \in {"chosen", "moved"}
  /\ mutex' = r
  /\ request' = [request EXCEPT ![r] = [NewRequest EXCEPT !.at = "waiting", !.after = mutex]]
  /\ UNCHANGED <<provider, row, tick, quota, now, restarts>>

(* The finally block: the own promise is resolved, and the entry in the map is
   deleted, whosever it is. *)
Leave(r) ==
  /\ mutex' = NoRequest
  /\ request' = [request EXCEPT ![r] = Done]

(* It is r's turn: read the row, and leave a terminal or cooling one alone. *)
Enter(r) ==
  /\ request[r].at = "waiting"
  /\ request[r].after # NoRequest => request[request[r].after].at = "done"
  /\ IF Terminal(row) \/ Cooling(row) THEN Leave(r)
     ELSE /\ request' = [request EXCEPT ![r] = [NewRequest EXCEPT !.at = "marking", !.level = row.level]]
          /\ UNCHANGED mutex
  /\ UNCHANGED <<provider, row, tick, quota, now, restarts>>

(* Mutant: the backoff is not capped. *)
NextLevelsUncapped(n) == {0, n, n + 1}

(* newBackoffLevel: one step up, none after a retry hint, or as it was. *)
NextLevels(n) == {0, n, IF n < MaxLevel THEN n + 1 ELSE n}

(* The error is classified and written, the backoff from the row as it was
   read, the rest over the row as it is. *)
Mark(r) ==
  /\ request[r].at = "marking"
  /\ \E n \in NextLevels(request[r].level) :
       LET marked == [WithError(row) EXCEPT !.level = n]
       IN \/ row' = [CoolingDown(marked) EXCEPT !.status = "unavailable"]
          \/ row' = [marked EXCEPT !.until = 0, !.passed = FALSE, !.status = "terminal"]
          \/ row' = [marked EXCEPT !.until = 0, !.passed = FALSE]  \* disableCooling, no cooldown
          \/ row' = marked                       \* a combo keeps the connection clean
          \/ provider = "codex" /\ row' = [marked EXCEPT !.status = "unavailable"]  \* one scope
  /\ now' = now + 1
  /\ Leave(r)
  /\ UNCHANGED <<provider, tick, quota, restarts>>

(* Only the model is locked out, or no fallback is called for. *)
Spare(r) ==
  /\ request[r].at = "marking"
  /\ \/ row' = row /\ now' = now
     \/ row' = WithError(row) /\ now' = now + 1
  /\ Leave(r)
  /\ UNCHANGED <<provider, tick, quota, restarts>>

-----------------------------------------------------------------------------
(* Time and recovery *)

TimePasses ==
  /\ Cooling(row)
  /\ row' = [row EXCEPT !.passed = TRUE]
  /\ UNCHANGED <<provider, mutex, request, tick, quota, now, restarts>>

(* runConnectionRecoveryTick: load what is recoverable, then clear it. *)
TickLoad ==
  /\ ~tick /\ row.status = "unavailable" /\ row.until # 0 /\ row.passed
  /\ tick' = TRUE
  /\ UNCHANGED <<provider, row, mutex, request, quota, now, restarts>>

TickClear ==
  /\ tick
  /\ row' = Clean
  /\ tick' = FALSE
  /\ UNCHANGED <<provider, mutex, request, quota, now, restarts>>

(* The quota sync reads the connection and asks the provider for its usage.  A sync
   that could write nothing, within the bound, is left out. *)
QuotaLook ==
  /\ quota.at = "idle"
  /\ Recoverable(row) \/ row.extra \/ (provider # "codex" /\ now < MaxTime)
  /\ quota' = [at |-> "asked", seen |-> [row EXCEPT !.passed = FALSE], time |-> now]
  /\ UNCHANGED <<provider, row, mutex, request, tick, now, restarts>>

(* syncExpiredStatusIfNeeded: the provider refuses the token.  A provider whose
   refresh tokens rotate is left alone. *)
QuotaExpires ==
  /\ provider = "other" /\ quota.at = "asked" /\ now < MaxTime
  /\ row' = [WithError(row) EXCEPT !.status = "terminal"]
  /\ now' = now + 1
  /\ quota' = NoQuota
  /\ UNCHANGED <<provider, mutex, request, tick, restarts>>

(* syncClaudeExtraUsageStateIfNeeded: no extra usage is queued any more, or the
   block for it is switched off, and the snapshot holds that block: whatever the
   row holds by now is cleared. *)
QuotaUnblocks ==
  /\ provider = "claude" /\ quota.at = "asked" /\ quota.seen.extra
  /\ row' = Clean
  /\ quota' = NoQuota
  /\ UNCHANGED <<provider, mutex, request, tick, now, restarts>>

(* Extra usage is queued: the block replaces whatever the row holds by now, and
   is what the rest of the sync takes the row to be. *)
QuotaBlocks ==
  /\ provider = "claude" /\ quota.at = "asked" /\ now < MaxTime
  /\ row' = [status |-> "unavailable", until |-> now + 1, passed |-> FALSE, at |-> now + 1,
             level |-> IF quota.seen.level = 0 THEN 1 ELSE quota.seen.level, extra |-> TRUE]
  /\ now' = now + 1
  /\ quota' = [at |-> "blocked", seen |-> row', time |-> now']
  /\ UNCHANGED <<provider, mutex, request, tick, restarts>>

(* Mutant: only the status and the time of the error are compared. *)
UnchangedError(seen) == row.status = seen.status /\ row.at = seen.at

(* The row still holds what the snapshot held. *)
UnchangedSince(seen) == Compared(row) = Compared(seen)

(* The extra-usage state has been dealt with: it was not there, it has been
   written by this sync, or the block in the snapshot is the one to write. *)
ExtraUsageSettled ==
  quota.at = "asked" /\ provider = "claude" /\ quota.seen.extra
    => quota.seen.status = "unavailable" /\ quota.seen.until # 0

(* There is usable quota, and the snapshot holds an error that may pass:
   clearConnectionErrorIfUnchanged. *)
QuotaClear ==
  /\ quota.at # "idle" /\ ExtraUsageSettled
  /\ Recoverable(quota.seen)
  /\ row' = IF UnchangedSince(quota.seen) THEN Clean ELSE row
  /\ quota' = NoQuota
  /\ UNCHANGED <<provider, mutex, request, tick, now, restarts>>

(* There is none, or nothing to clear, or the sync fails. *)
QuotaKeep ==
  /\ quota.at # "idle"
  /\ quota' = NoQuota
  /\ UNCHANGED <<provider, row, mutex, request, tick, now, restarts>>

(* clearStaleCrashCooldowns as the process starts. *)
Restart ==
  /\ restarts < MaxRestarts
  /\ restarts' = restarts + 1
  /\ row' = IF row.until # 0 /\ ~Terminal(row) THEN Clean ELSE row
  /\ mutex' = NoRequest
  /\ request' = [r \in Requests |->
       IF request[r].at = "idle" THEN NewRequest ELSE Done]
  /\ tick' = FALSE
  /\ quota' = NoQuota
  /\ UNCHANGED <<provider, now>>

Report(r) == Enter(r) \/ Mark(r) \/ Spare(r)

Next ==
  \/ \E r \in Requests :
       \/ Choose(r) \/ PreflightBlocks(r) \/ Succeed(r)
       \/ RateLimited(r) \/ Fail(r) \/ Report(r)
  \/ TimePasses \/ TickLoad \/ TickClear \/ Restart
  \/ QuotaLook \/ QuotaExpires \/ QuotaUnblocks \/ QuotaBlocks \/ QuotaClear \/ QuotaKeep

Spec == Init /\ [][Next]_vars

(* The event loop resumes whoever waits for a resolved promise or a query. *)
Fairness == \A r \in Requests : WF_vars(Report(r))

LiveSpec == Spec /\ Fairness

-----------------------------------------------------------------------------
(* Properties *)

(* clearConnectionErrorIfUnchanged closes "the TOCTOU window in the quota-recovery
   path" (src/lib/db/providers.ts:794): a quota sync, whose answer may be seconds
   old, clears no error written after what it takes the row to be, whatever was
   written and cleared in between.  Except that the extra-usage sync of Claude runs
   first and does not compare: a snapshot with an extra-usage block clears whatever
   the row holds (QuotaUnblocks).  Of errors that are overwritten and not cleared
   (QuotaBlocks, QuotaExpires) this says nothing. *)
RecoveryKeepsNews ==
  [][quota.at # "idle" /\ quota'.at = "idle" /\ restarts' = restarts
     /\ row' # row /\ row' = Clean
     /\ ~(provider = "claude" /\ quota.at = "asked" /\ quota.seen.extra)
     => row.at <= quota.time /\ row.until <= quota.time]_vars

(* markMutexes: every mark gets its turn and ends, although entries are deleted
   that belong to somebody else: no request marks, or waits to mark, for ever. *)
MarksEnd ==
  \A r \in Requests : []<>(request[r].at \notin {"waiting", "marking"})

(* "terminal statuses should not be overwritten by transient cooldown state"
   (auth.ts:1901). *)
TerminalNotCooled == [][Terminal(row) => row'.status # "unavailable"]_vars
=============================================================================
