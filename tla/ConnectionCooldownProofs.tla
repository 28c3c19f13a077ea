---------------------- MODULE ConnectionCooldownProofs ----------------------
(***************************************************************************)
(* For any provider, any set of requests, any backoff limit and any number *)
(* of restarts and of writes: the row of the connection keeps its type,    *)
(* and the quota sync clears no error written after what it takes the row  *)
(* to be, but for the unconditional clear of a Claude extra-usage block.   *)
(*                                                                         *)
(* The compare-and-swap compares values; it is right because a time in the *)
(* row, or in the snapshot, is never later than the moment it was taken,   *)
(* and no later write repeats an earlier time.                             *)
(***************************************************************************)
EXTENDS ConnectionCooldown, TLAPS

Snapshots == [at : {"idle", "asked", "blocked"}, seen : Rows, time : Nat]

(* No time lies in the future of the moment it belongs to. *)
TimesPast ==
  /\ row.at <= now /\ row.until <= now
  /\ quota.seen.at <= quota.time /\ quota.seen.until <= quota.time

IInv == TypeOK /\ TimesPast

(* What a writer may do to the row: an error is stamped with the moment n, and
   a cleared column is zero. *)
Written(w, n) ==
  /\ w \in Rows
  /\ w.at \in {0, row.at, n} /\ w.until \in {0, row.until, n}

States == [at : {"idle", "chosen", "moved", "waiting", "marking", "done"},
           dirty : BOOLEAN, level : 0..MaxLevel, after : Requests \cup {NoRequest}]

(* The variables that are not times. *)
RestTyped ==
  /\ provider \in Providers
  /\ mutex \in Requests \cup {NoRequest}
  /\ request \in [Requests -> States]
  /\ tick \in BOOLEAN
  /\ restarts \in 0..MaxRestarts

-----------------------------------------------------------------------------
(* The row *)

(* The operators that make a new row from one. *)
LEMMA WithErrorRow ==
  ASSUME NEW w \in Rows, now \in Nat
  PROVE  /\ WithError(w) \in Rows /\ WithError(w).at = now + 1
         /\ WithError(w).until = w.until
  BY DEF Rows, WithError

LEMMA CoolingDownRow ==
  ASSUME NEW w \in Rows, now \in Nat
  PROVE  /\ CoolingDown(w) \in Rows /\ CoolingDown(w).until = now + 1
         /\ CoolingDown(w).at = w.at
  <1>1. now + 1 \in Nat /\ FALSE \in BOOLEAN
    OBVIOUS
  <1> QED
    BY <1>1, Zenon DEF Rows, CoolingDown

LEMMA CleanRow == Clean \in Rows /\ Clean.at = 0 /\ Clean.until = 0
  BY CooldownAssumption DEF Clean, Rows

(* The columns a writer clears or sets. *)
LEMMA Constants == 0 \in Nat /\ TRUE \in BOOLEAN /\ FALSE \in BOOLEAN
  OBVIOUS

(* What is left of the quota sync when it is not between its two steps. *)
LEMMA NoSnapshot ==
  /\ NoQuota \in Snapshots
  /\ NoQuota.seen.at = 0 /\ NoQuota.seen.until = 0 /\ NoQuota.time = 0
  <1>1. NoQuota \in Snapshots
    BY CleanRow, Constants, Zenon DEF NoQuota, Snapshots
  <1> QED
    BY <1>1, CleanRow DEF NoQuota

(* The fixed states of a request. *)
LEMMA NewStates == NewRequest \in States /\ Done \in States
  <1>1. 0 \in 0..MaxLevel
    BY CooldownAssumption
  <1>2. NewRequest \in States
    BY <1>1, Constants, Zenon DEF NewRequest, States
  <1> QED
    BY <1>2, Zenon DEF Done, States

(* The row is as it was. *)
LEMMA RowKept == IInv => Written(row, now) /\ Written(row, now + 1)
  BY DEF IInv, TypeOK, Written, Rows

(* A snapshot that is not ahead of the moment it belongs to. *)
Snapshot(q) ==
  /\ q \in Snapshots
  /\ q.seen.at <= q.time /\ q.seen.until <= q.time

(* A write keeps the invariant. *)
LEMMA WrittenKeeps ==
  ASSUME IInv, Written(row', now'), now' \in {now, now + 1}, RestTyped',
         quota' \in {quota, NoQuota} \/ Snapshot(quota')
  PROVE  IInv'
  <1>1. row' \in Rows /\ now' \in Nat
    BY DEF Written, IInv, TypeOK
  <1>2. row'.at <= now' /\ row'.until <= now'
    BY DEF Written, IInv, TypeOK, TimesPast, Rows
  <1>3. /\ quota' \in Snapshots
        /\ quota'.seen.at <= quota'.time /\ quota'.seen.until <= quota'.time
    <2>1. CASE quota' = quota
      BY <2>1 DEF IInv, TypeOK, TimesPast, Snapshots
    <2>2. CASE quota' = NoQuota
      <3>1. quota' \in Snapshots
        BY <2>2, NoSnapshot
      <3> QED
        BY <2>2, <3>1, NoSnapshot
    <2>3. CASE Snapshot(quota')
      BY <2>3 DEF Snapshot
    <2> QED
      BY <2>1, <2>2, <2>3
  <1> QED
    BY <1>1, <1>2, <1>3 DEF IInv, TypeOK, TimesPast, Rows, Snapshots, RestTyped, States

(* A new process has an untouched connection. *)
LEMMA InitHolds == Init => IInv
  <1> SUFFICES ASSUME Init
               PROVE  IInv
    OBVIOUS
  <1>1. row \in Rows /\ row.at = 0 /\ row.until = 0 /\ now = 0
    BY CleanRow DEF Init
  <1>2. /\ quota \in Snapshots
        /\ quota.seen.at = 0 /\ quota.seen.until = 0 /\ quota.time = 0
    BY NoSnapshot DEF Init
  <1>3. 0 \in 0..MaxRestarts
    BY CooldownAssumption
  <1>4. RestTyped
    BY <1>3, NewStates, Constants, Zenon DEF Init, RestTyped
  <1> QED
    BY <1>1, <1>2, <1>4 DEF IInv, TypeOK, TimesPast, Rows, Snapshots, RestTyped, States

(* The other variables *)

(* A request moves on: whatever its new state is, the others keep theirs. *)
LEMMA RequestTyped ==
  ASSUME IInv, NEW r \in Requests, NEW s \in States,
         request' = [request EXCEPT ![r] = s],
         mutex' \in Requests \cup {NoRequest}, UNCHANGED <<provider, tick, restarts>>
  PROVE  RestTyped'
  BY DEF IInv, TypeOK, RestTyped, States

(* A report that ends. *)
LEMMA LeaveTyped ==
  ASSUME IInv, NEW r \in Requests, Leave(r), UNCHANGED <<provider, tick, restarts>>
  PROVE  RestTyped'
  BY NewStates, RequestTyped DEF Leave

-----------------------------------------------------------------------------
(* The steps of a request *)

(* Where a request stands. *)
LEMMA RequestState ==
  ASSUME IInv, NEW r \in Requests
  PROVE  request[r] \in States
  BY DEF IInv, TypeOK, States

(* Being chosen sets two fields, moving on one. *)
LEMMA StateMoves ==
  ASSUME NEW s \in States, NEW dirty \in BOOLEAN
  PROVE  /\ [s EXCEPT !.at = "chosen", !.dirty = dirty] \in States
         /\ [s EXCEPT !.at = "moved"] \in States
  BY Zenon DEF States

LEMMA ChooseKeeps ==
  ASSUME IInv, NEW r \in Requests, Choose(r)
  PROVE  IInv'
  <1> DEFINE chosen == [request[r] EXCEPT !.at = "chosen", !.dirty = HasError(row)]
  <1>1. HasError(row) \in BOOLEAN
    BY Zenon DEF HasError
  <1>2. chosen \in States
    BY <1>1, RequestState, StateMoves
  <1>3. request' = [request EXCEPT ![r] = chosen]
    BY Zenon DEF Choose, IInv, TypeOK
  <1> HIDE DEF chosen
  <1>4. mutex' \in Requests \cup {NoRequest} /\ UNCHANGED <<provider, tick, restarts>>
    BY DEF Choose, IInv, TypeOK
  <1>5. RestTyped'
    BY <1>2, <1>3, <1>4, RequestTyped, Zenon
  <1>6. 0 \in 0..MaxLevel
    BY CooldownAssumption
  <1>7. Written([row EXCEPT !.status = "active", !.at = 0, !.level = 0, !.extra = FALSE], now)
    BY <1>6 DEF IInv, TypeOK, Written, Rows
  <1>8. Written(row', now)
    BY <1>7, RowKept DEF Choose
  <1> QED
    BY <1>5, <1>8, WrittenKeeps DEF Choose

LEMMA PreflightKeeps ==
  ASSUME IInv, NEW r \in Requests, PreflightBlocks(r)
  PROVE  IInv'
  <1>1. RestTyped'
    BY NewStates, RequestTyped DEF PreflightBlocks, IInv, TypeOK
  <1>2. now \in Nat /\ row \in Rows
    BY DEF IInv, TypeOK, Rows
  <1>3. Written(row', now + 1)
    BY <1>2, WithErrorRow, CoolingDownRow DEF PreflightBlocks, Written, Rows
  <1> QED
    BY <1>1, <1>3, WrittenKeeps DEF PreflightBlocks

LEMMA SucceedKeeps ==
  ASSUME IInv, NEW r \in Requests, Succeed(r)
  PROVE  IInv'
  <1>1. RestTyped'
    BY NewStates, RequestTyped DEF Succeed, IInv, TypeOK
  <1>2. Written(row', now)
    BY RowKept, CleanRow DEF Succeed, Written
  <1> QED
    BY <1>1, <1>2, WrittenKeeps DEF Succeed

LEMMA RateLimitedKeeps ==
  ASSUME IInv, NEW r \in Requests, RateLimited(r)
  PROVE  IInv'
  <1>1. [request[r] EXCEPT !.at = "moved"] \in States
    BY RequestState, StateMoves, Constants
  <1>2. request' = [request EXCEPT ![r] = [request[r] EXCEPT !.at = "moved"]]
    BY Zenon DEF RateLimited, IInv, TypeOK
  <1>3. RestTyped'
    BY <1>1, <1>2, RequestTyped DEF RateLimited, IInv, TypeOK
  <1>4. now \in Nat /\ row \in Rows
    BY DEF IInv, TypeOK, Rows
  <1>5. Written(row', now + 1)
    BY <1>4, CoolingDownRow DEF RateLimited, Written
  <1> QED
    BY <1>3, <1>5, WrittenKeeps DEF RateLimited

LEMMA FailKeeps ==
  ASSUME IInv, NEW r \in Requests, Fail(r)
  PROVE  IInv'
  <1>1. mutex \in Requests \cup {NoRequest}
    BY DEF IInv, TypeOK
  <1>2. [NewRequest EXCEPT !.at = "waiting", !.after = mutex] \in States
    BY <1>1, NewStates, Zenon DEF States
  <1>3. RestTyped'
    BY <1>2, RequestTyped DEF Fail
  <1> QED
    BY <1>3, RowKept, WrittenKeeps DEF Fail

LEMMA EnterKeeps ==
  ASSUME IInv, NEW r \in Requests, Enter(r)
  PROVE  IInv'
  <1>1. row.level \in 0..MaxLevel
    BY DEF IInv, TypeOK, Rows
  <1>2. [NewRequest EXCEPT !.at = "marking", !.level = row.level] \in States
    BY <1>1, NewStates, Zenon DEF States
  <1>3. RestTyped'
    BY <1>2, RequestTyped, LeaveTyped DEF Enter, IInv, TypeOK
  <1> QED
    BY <1>3, RowKept, WrittenKeeps DEF Enter

LEMMA MarkKeeps ==
  ASSUME IInv, NEW r \in Requests, Mark(r)
  PROVE  IInv'
  <1>1. RestTyped'
    BY LeaveTyped DEF Mark
  <1>2. now \in Nat /\ row \in Rows
    BY DEF IInv, TypeOK, Rows
  <1>3. PICK n \in NextLevels(request[r].level) :
          LET marked == [WithError(row) EXCEPT !.level = n]
          IN \/ row' = [CoolingDown(marked) EXCEPT !.status = "unavailable"]
             \/ row' = [marked EXCEPT !.until = 0, !.passed = FALSE, !.status = "terminal"]
             \/ row' = [marked EXCEPT !.until = 0, !.passed = FALSE]
             \/ row' = marked
             \/ provider = "codex" /\ row' = [marked EXCEPT !.status = "unavailable"]
    BY DEF Mark
  <1> DEFINE marked == [WithError(row) EXCEPT !.level = n]
  <1>4. n \in 0..MaxLevel
    BY CooldownAssumption DEF NextLevels, IInv, TypeOK
  <1>5. marked \in Rows /\ marked.at = now + 1 /\ marked.until = row.until
    BY <1>2, <1>4, WithErrorRow DEF Rows
  <1> HIDE DEF marked
  <1>6. Written(row', now + 1)
    <2>1. CASE row' = [CoolingDown(marked) EXCEPT !.status = "unavailable"]
      BY <1>2, <1>5, <2>1, CoolingDownRow DEF Written, Rows
    <2>2. CASE row' \in {[marked EXCEPT !.until = 0, !.passed = FALSE, !.status = "terminal"],
                         [marked EXCEPT !.until = 0, !.passed = FALSE]}
      <3>1. row' \in Rows
        BY <1>5, <2>2, Constants, Zenon DEF Rows
      <3>2. row'.until = 0 /\ row'.at = marked.at
        BY <1>5, <2>2 DEF Rows
      <3> QED
        BY <1>5, <3>1, <3>2 DEF Written
    <2>3. CASE row' \in {marked, [marked EXCEPT !.status = "unavailable"]}
      BY <1>5, <2>3 DEF Written, Rows
    <2> QED
      BY <1>3, <2>1, <2>2, <2>3 DEF marked
  <1> QED
    BY <1>1, <1>6, WrittenKeeps DEF Mark

LEMMA SpareKeeps ==
  ASSUME IInv, NEW r \in Requests, Spare(r)
  PROVE  IInv'
  <1>1. RestTyped'
    BY LeaveTyped DEF Spare
  <1>2. now \in Nat /\ row \in Rows
    BY DEF IInv, TypeOK, Rows
  <1>3. Written(row', now') /\ now' \in {now, now + 1}
    BY <1>2, RowKept, WithErrorRow DEF Spare, Written
  <1> QED
    BY <1>1, <1>3, WrittenKeeps DEF Spare

-----------------------------------------------------------------------------
(* Time and recovery *)

(* None of them touches a request; what is left of the types is immediate. *)
LEMMA ClockKeeps ==
  ASSUME IInv, TimePasses \/ TickLoad \/ TickClear
  PROVE  IInv'
  <1>1. RestTyped'
    BY Constants, Zenon DEF TimePasses, TickLoad, TickClear, IInv, TypeOK, RestTyped, States
  <1>2. Written([row EXCEPT !.passed = TRUE], now)
    BY Constants, Zenon DEF IInv, TypeOK, Written, Rows
  <1>3. Written(row', now)
    BY <1>2, RowKept, CleanRow DEF TimePasses, TickLoad, TickClear, Written
  <1> QED
    BY <1>1, <1>3, WrittenKeeps DEF TimePasses, TickLoad, TickClear

LEMMA QuotaTyped ==
  ASSUME IInv, UNCHANGED <<provider, mutex, request, tick, restarts>>
  PROVE  RestTyped'
  BY Zenon DEF IInv, TypeOK, RestTyped, States

LEMMA LookKeeps ==
  ASSUME IInv, QuotaLook
  PROVE  IInv'
  <1> DEFINE seen == [row EXCEPT !.passed = FALSE]
  <1>1. seen \in Rows /\ seen.at = row.at /\ seen.until = row.until
    BY Constants DEF IInv, TypeOK, Rows
  <1> HIDE DEF seen
  <1>2. quota' = [at |-> "asked", seen |-> seen, time |-> now]
    BY Zenon DEF QuotaLook, seen
  <1>3. quota'.seen = seen /\ quota'.time = now
    BY <1>2
  <1>4. now \in Nat
    BY DEF IInv, TypeOK
  <1>5. quota' \in Snapshots
    BY <1>1, <1>2, <1>4, Zenon DEF Snapshots
  <1>6. Snapshot(quota')
    BY <1>1, <1>3, <1>5 DEF Snapshot, IInv, TimesPast
  <1>7. RestTyped'
    BY QuotaTyped DEF QuotaLook
  <1> QED
    BY <1>6, <1>7, RowKept, WrittenKeeps DEF QuotaLook

(* The writes of an error by the sync. *)
LEMMA ExpiresKeeps ==
  ASSUME IInv, QuotaExpires
  PROVE  IInv'
  <1>1. now \in Nat /\ row \in Rows
    BY DEF IInv, TypeOK
  <1>2. Written(row', now + 1)
    BY <1>1, WithErrorRow DEF QuotaExpires, Written, Rows
  <1>3. RestTyped'
    BY QuotaTyped DEF QuotaExpires
  <1> QED
    BY <1>2, <1>3, WrittenKeeps DEF QuotaExpires

LEMMA BlocksKeeps ==
  ASSUME IInv, QuotaBlocks
  PROVE  IInv'
  <1> DEFINE level == IF quota.seen.level = 0 THEN 1 ELSE quota.seen.level
  <1>1. level \in 0..MaxLevel
    BY CooldownAssumption DEF IInv, TypeOK, Rows
  <1>2. now \in Nat /\ now + 1 \in Nat
    BY DEF IInv, TypeOK
  <1> HIDE DEF level
  <1>3. row' = [status |-> "unavailable", until |-> now + 1, passed |-> FALSE,
                at |-> now + 1, level |-> level, extra |-> TRUE]
    BY Zenon DEF QuotaBlocks, level
  <1>4. row' \in Rows
    BY <1>1, <1>2, <1>3, Constants, Zenon DEF Rows
  <1>5. row'.at = now + 1 /\ row'.until = now + 1
    BY <1>3
  <1>6. quota' = [at |-> "blocked", seen |-> row', time |-> now + 1]
    BY Zenon DEF QuotaBlocks
  <1>7. quota' \in Snapshots
    BY <1>2, <1>4, <1>6, Zenon DEF Snapshots
  <1>8. quota'.seen = row' /\ quota'.time = now + 1
    BY <1>6
  <1>9. Snapshot(quota')
    BY <1>2, <1>5, <1>7, <1>8 DEF Snapshot
  <1>10. RestTyped'
    BY QuotaTyped DEF QuotaBlocks
  <1>11. Written(row', now')
    BY <1>4, <1>5 DEF Written, QuotaBlocks
  <1> QED
    BY <1>9, <1>10, <1>11, WrittenKeeps DEF QuotaBlocks

LEMMA QuotaKeeps ==
  ASSUME IInv, QuotaUnblocks \/ QuotaClear \/ QuotaKeep
  PROVE  IInv'
  <1>1. RestTyped'
    BY QuotaTyped DEF QuotaUnblocks, QuotaClear, QuotaKeep
  <1>2. Written(row', now)
    BY RowKept, CleanRow DEF QuotaUnblocks, QuotaClear, QuotaKeep, Written
  <1> QED
    BY <1>1, <1>2, WrittenKeeps DEF QuotaUnblocks, QuotaClear, QuotaKeep

LEMMA RestartKeeps ==
  ASSUME IInv, Restart
  PROVE  IInv'
  <1>1. restarts' \in 0..MaxRestarts
    BY CooldownAssumption DEF Restart, IInv, TypeOK
  <1>2. request' \in [Requests -> States]
    BY NewStates, Zenon DEF Restart
  <1>3. RestTyped'
    BY <1>1, <1>2, Constants, Zenon DEF Restart, RestTyped, IInv, TypeOK
  <1>4. Written(row', now)
    BY RowKept, CleanRow DEF Restart, Written
  <1> QED
    BY <1>3, <1>4, WrittenKeeps DEF Restart

-----------------------------------------------------------------------------
(* The theorems *)

LEMMA Inductive == IInv /\ [Next]_vars => IInv'
  <1> SUFFICES ASSUME IInv, [Next]_vars
               PROVE  IInv'
    OBVIOUS
  <1>1. ASSUME NEW r \in Requests,
               \/ Choose(r) \/ PreflightBlocks(r) \/ Succeed(r)
               \/ RateLimited(r) \/ Fail(r) \/ Report(r)
        PROVE  IInv'
    BY <1>1, ChooseKeeps, PreflightKeeps, SucceedKeeps, RateLimitedKeeps, FailKeeps,
       EnterKeeps, MarkKeeps, SpareKeeps DEF Report
  <1>2. CASE UNCHANGED vars
    BY <1>2, Zenon DEF vars, IInv, TypeOK, TimesPast
  <1> QED
    BY <1>1, <1>2, ClockKeeps, LookKeeps, ExpiresKeeps, BlocksKeeps, QuotaKeeps,
       RestartKeeps DEF Next

(* IInv holds of every behaviour. *)
THEOREM Invariance == Spec => []IInv
  BY InitHolds, Inductive, PTL DEF Spec

(* The row, the requests and the snapshot keep their types, whatever the
   provider, the number of requests, the backoff limit and the number of restarts. *)
THEOREM TypeCorrect == Spec => []TypeOK
  <1>1. IInv => TypeOK
    BY DEF IInv
  <1> QED
    BY <1>1, Invariance, PTL

(* Only the compare-and-swap and the clear of an extra-usage block end a sync with
   a clean row. *)
LEMMA WhoClears ==
  ASSUME IInv, Next, quota.at # "idle", quota'.at = "idle", restarts' = restarts,
         row' # row, row' = Clean
  PROVE  QuotaUnblocks \/ QuotaClear
  <1>1. ~Restart
    BY DEF Restart, IInv, TypeOK
  <1>2. quota' # quota
    OBVIOUS
  <1>3. ~QuotaExpires
    <2>1. now \in Nat /\ row \in Rows
      BY DEF IInv, TypeOK
    <2>2. QuotaExpires => row'.at = now + 1
      BY <2>1, WithErrorRow DEF QuotaExpires, Rows
    <2> QED
      BY <2>1, <2>2, CleanRow
  <1>4. ~QuotaBlocks /\ ~QuotaLook
    BY DEF QuotaBlocks, QuotaLook
  <1> QED
    BY <1>1, <1>2, <1>3, <1>4 DEF Next, Choose, PreflightBlocks, Succeed, RateLimited, Fail,
       Report, Enter, Mark, Spare, TimePasses, TickLoad, TickClear, QuotaKeep

(* clearConnectionErrorIfUnchanged clears no error written after what the sync takes
   the row to be: equal times are the same write, and the snapshot's are past.  The
   unconditional clear of an extra-usage block in the snapshot is outside. *)
THEOREM NewsKept == Spec => RecoveryKeepsNews
  <1> DEFINE NoLoss ==
        quota.at # "idle" /\ quota'.at = "idle" /\ restarts' = restarts
        /\ row' # row /\ row' = Clean
        /\ ~(provider = "claude" /\ quota.at = "asked" /\ quota.seen.extra)
        => row.at <= quota.time /\ row.until <= quota.time
  <1>1. IInv /\ [Next]_vars => [NoLoss]_vars
    <2> SUFFICES ASSUME IInv, Next, quota.at # "idle", quota'.at = "idle",
                        restarts' = restarts, row' # row, row' = Clean,
                        ~(provider = "claude" /\ quota.at = "asked" /\ quota.seen.extra)
                 PROVE  row.at <= quota.time /\ row.until <= quota.time
      OBVIOUS
    <2>1. QuotaClear
      BY WhoClears DEF QuotaUnblocks
    <2>2. row.at = quota.seen.at /\ row.until = quota.seen.until
      BY <2>1 DEF QuotaClear, UnchangedSince, Compared
    <2> QED
      BY <2>2 DEF IInv, TimesPast
  <1> QED
    BY <1>1, Invariance, PTL DEF Spec, RecoveryKeepsNews
=============================================================================
