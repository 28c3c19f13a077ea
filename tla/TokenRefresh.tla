---------------------------- MODULE TokenRefresh ----------------------------
(***************************************************************************)
(* open-sse/services/tokenRefresh.ts over the lane of one rotation group:  *)
(* the accounts of a provider whose refresh tokens can be used once.  A    *)
(* refresh presents the token it holds and gets the next; a used token     *)
(* presented again makes the provider revoke the account's whole family.   *)
(* So the code shares one refresh per connection, redirects stale callers  *)
(* (tokenRotationMap), looks at the row before it presents a token, queues *)
(* the refreshes of a group, and writes the row before it lets go.         *)
(*                                                                         *)
(* Four kinds of callers: checkAndRefreshToken before a request, chatCore  *)
(* after a 401 or 403 (with retries and a compare-and-swap guard), the     *)
(* health check, and the on-demand usage route.                            *)
(***************************************************************************)
EXTENDS RefreshLane, FiniteSetsExt

CONSTANTS
  Proactive, Reactive, Sweeping, OnDemand,   \* the callers, by kind
  Connections,
  Uses,          \* the connections each caller may be given
  MaxVersion,    \* bound: tokens per account
  MaxRenewals,   \* bound: tokens minted in all
  MaxAttempts,   \* maxRetries of refreshWithRetry
  MaxFaults      \* bound: lost responses, failed writes and restarts

Callers == Proactive \cup Reactive \cup Sweeping \cup OnDemand

ASSUME RefreshAssumption ==
  /\ Tickets = Connections \cup OnDemand
  /\ Connections \cap Callers = {}
  /\ OnDemand \cap (Proactive \cup Reactive \cup Sweeping) = {}
  /\ Uses \in [Callers -> SUBSET Connections]
  /\ MaxVersion \in Nat \ {0} /\ MaxRenewals \in Nat
  /\ MaxAttempts \in Nat \ {0} /\ MaxFaults \in Nat

VARIABLES
  issued,    \* provider: the newest token of each account, the only usable one
  alive,     \* provider: the family is not revoked
  row,       \* provider_connections: token (0: cleared), fresh, active
  rotated,   \* tokenRotationMap: the tokens with a live entry (to the next one)
  flight,    \* connectionRefreshMutex and the refresh that holds it
  call,      \* the callers
  faults,    \* how many faults there were
  lost,      \* history: the accounts whose newest token a fault may have taken
  dropped    \* history: the accounts whose newest token the code itself let go of

accounts == <<issued, alive>>
history == <<lost, dropped>>
vars == <<laneVars, issued, alive, row, rotated, flight, call, faults, history>>

Versions == 1..MaxVersion
NoFlight == [phase |-> "none", token |-> 0, result |-> "null", owner |-> None,
             saves |-> FALSE, guard |-> 0]
Idle == [pc |-> "idle", conn |-> None, attempted |-> 0, holds |-> 0, tries |-> 0]

TypeOK ==
  /\ issued \in [Connections -> Versions]
  /\ alive \in [Connections -> BOOLEAN]
  /\ row \in [Connections -> [token : 0..MaxVersion, fresh : BOOLEAN, active : BOOLEAN]]
  /\ rotated \in [Connections -> SUBSET Versions]
  /\ flight \in [Connections ->
       [phase : {"none", "checking", "queued", "minting", "minted"},
        token : 0..MaxVersion, result : {"token", "null", "reused"},
        owner : Callers \cup {None}, saves : BOOLEAN, guard : 0..MaxVersion]]
  /\ call \in [Callers ->
       [pc : {"idle", "loaded", "outer", "awaiting", "returning"},
        conn : Connections \cup {None}, attempted : 0..MaxVersion,
        holds : 0..MaxVersion, tries : 0..(MaxAttempts - 1)]]
  /\ faults \in 0..MaxFaults
  /\ lost \subseteq Connections /\ dropped \subseteq Connections

Init ==
  /\ LaneInit
  /\ issued = [c \in Connections |-> 1]
  /\ alive = [c \in Connections |-> TRUE]
  /\ row = [c \in Connections |-> [token |-> 1, fresh |-> FALSE, active |-> TRUE]]
  /\ rotated = [c \in Connections |-> {}]
  /\ flight = [c \in Connections |-> NoFlight]
  /\ call = [r \in Callers |-> Idle]
  /\ faults = 0
  /\ lost = {} /\ dropped = {}

(* The newest token of c goes nowhere that is written, or an older one is written
   over it. *)
Drops(c, is) == dropped' = IF is THEN dropped \cup {c} ELSE dropped

-----------------------------------------------------------------------------
(* Callers *)

(* A caller takes a copy of the row; what it does with it may come much later. *)
Load(r, c) ==
  /\ call[r].pc = "idle" /\ c \in Uses[r] /\ row[c].active /\ row[c].token # 0
  /\ call' = [call EXCEPT ![r] = [pc |-> "loaded", conn |-> c, tries |-> 0,
                                  attempted |-> row[c].token, holds |-> row[c].token]]
  /\ UNCHANGED <<laneVars, accounts, row, rotated, flight, faults, history>>

(* refreshAndUpdateCredentials takes a place in the lane around its executor,
   which will call getAccessToken. *)
Enter(d) ==
  /\ d \in OnDemand /\ call[d].pc = "loaded"
  /\ Join(d)
  /\ call' = [call EXCEPT ![d].pc = "outer"]
  /\ UNCHANGED <<accounts, row, rotated, flight, faults, history>>

Ready(r) == IF r \in OnDemand THEN call[r].pc = "outer" /\ MyTurn(r)
                              ELSE call[r].pc = "loaded"

(* Mutant: <= for <. *)
TryAgainOnceMore(k) == IF k.tries + 1 <= MaxAttempts
                       THEN [k EXCEPT !.pc = "loaded", !.tries = @ + 1] ELSE Idle

(* A caller whose refresh gave no token: chatCore tries again. *)
TryAgain(k) == IF k.tries + 1 < MaxAttempts
               THEN [k EXCEPT !.pc = "loaded", !.tries = @ + 1] ELSE Idle

(* The row keeps a token; whatever wrote it knows its lifetime anew. *)
Write(c, v) == row' = [row EXCEPT ![c].token = v, ![c].fresh = TRUE]

(* Where a caller goes with the token v: the on-demand route leaves the lane
   before it writes the row. *)
WithToken(r, v) == IF r \in OnDemand
                   THEN [call[r] EXCEPT !.pc = "returning", !.holds = v] ELSE Idle

Awaiting(c) == {r \in Callers : call[r].pc = "awaiting" /\ call[r].conn = c}

(* chatCore and the health check write the row themselves when their own
   onPersist has not run: they shared a refresh, or the guard skipped it. *)
WritesItself(r) == r \in Reactive \cup Sweeping

(* onPersist runs inside the mutex unless the guard finds that the row has moved
   on from the token the caller began with. *)
Persists(c) ==
  LET skipped == flight[c].guard # 0 /\ row[c].token \notin {0, flight[c].guard}
  IN flight[c].saves /\ ~skipped

Stores(c) == Persists(c) \/ \E r \in Awaiting(c) : WritesItself(r)

(* The refresh of c yields the token v to all who await it. *)
Deliver(c, v, saved) ==
  /\ IF saved /\ Stores(c) THEN Write(c, v) ELSE UNCHANGED row
  /\ call' = [r \in Callers |-> IF r \in Awaiting(c) THEN WithToken(r, v) ELSE call[r]]
  /\ flight' = [flight EXCEPT ![c] = NoFlight]

(* Where a caller goes without one: chatCore tries again unless it is hopeless. *)
WithoutToken(r, hopeless) ==
  IF r \in OnDemand THEN [call[r] EXCEPT !.pc = "returning", !.holds = 0]
  ELSE IF r \in Reactive /\ ~hopeless THEN TryAgain(call[r]) ELSE Idle

(* onPersist of the health check throws: nobody who shares the refresh gets the
   token.  (That of the requests, updateProviderCredentials, catches.) *)
Reject(c) ==
  /\ call' = [r \in Callers |->
       IF r \in Awaiting(c) THEN WithoutToken(r, FALSE) ELSE call[r]]
  /\ flight' = [flight EXCEPT ![c] = NoFlight]
  /\ UNCHANGED row

(* An unrecoverable error: chatCore and the health check look at the row again
   and give the account up if it still holds the token they began with. *)
GivesUp(r, c) ==
  \/ r \in Reactive /\ row[c].token \in {0, call[r].attempted}
  \/ r \in Sweeping /\ row[c].token = call[r].attempted /\ ~row[c].fresh

Disappoint(c) ==
  LET reused == flight[c].result = "reused"
      left == \E r \in Awaiting(c) : reused /\ GivesUp(r, c)
      cleared == \E r \in Awaiting(c) \cap Sweeping : reused /\ GivesUp(r, c)
  IN /\ row' = [row EXCEPT ![c] = [token |-> IF cleared THEN 0 ELSE @.token,
                                   fresh |-> @.fresh, active |-> @.active /\ ~left]]
     /\ call' = [r \in Callers |->
          IF r \in Awaiting(c) THEN WithoutToken(r, reused) ELSE call[r]]
     /\ flight' = [flight EXCEPT ![c] = NoFlight]

-----------------------------------------------------------------------------
(* getAccessToken *)

(* Somebody refreshes the connection already: share the outcome. *)
Share(r) ==
  /\ Ready(r) /\ flight[call[r].conn].phase # "none"
  /\ call' = [call EXCEPT ![r].pc = "awaiting"]
  /\ UNCHANGED <<laneVars, accounts, row, rotated, flight, faults, history>>

(* lookupRotation knows what became of the token: no network, and for all but
   the on-demand route the row is written, even if it has a newer one. *)
Redirect(r) ==
  LET c == call[r].conn
      v == call[r].holds + 1
  IN /\ Ready(r) /\ flight[c].phase = "none" /\ call[r].holds \in rotated[c]
     /\ IF r \in OnDemand THEN UNCHANGED row ELSE Write(c, v)
     /\ call' = [call EXCEPT ![r] = WithToken(r, v)]
     /\ Drops(c, r \notin OnDemand /\ v < row[c].token)
     /\ UNCHANGED <<laneVars, accounts, rotated, flight, faults, lost>>

Start(r) ==
  LET c == call[r].conn IN
  /\ Ready(r) /\ flight[c].phase = "none" /\ call[r].holds \notin rotated[c]
  /\ flight' = [flight EXCEPT ![c] =
       [phase |-> "checking", token |-> call[r].holds, result |-> "null", owner |-> r,
        saves |-> r \notin OnDemand,
        guard |-> IF r \in Reactive THEN call[r].attempted ELSE 0]]
  /\ call' = [call EXCEPT ![r].pc = "awaiting"]
  /\ UNCHANGED <<laneVars, accounts, row, rotated, faults, history>>

(* Mutant: without the look at the row. *)
RowNotRead(c) == FALSE

RowMovedOn(c) == row[c].token \notin {0, flight[c].token}

(* The row has a newer token with time left: no refresh is needed. *)
TakeFromRow(c) ==
  /\ flight[c].phase = "checking" /\ RowMovedOn(c) /\ row[c].fresh
  /\ Deliver(c, row[c].token, TRUE)
  /\ UNCHANGED <<laneVars, accounts, rotated, faults, history>>

(* Otherwise refresh with the row's token, once the lane is free. *)
Queue(c) ==
  LET v == IF RowMovedOn(c) THEN row[c].token ELSE flight[c].token IN
  /\ flight[c].phase = "checking" /\ ~(RowMovedOn(c) /\ row[c].fresh)
  /\ flight' = [flight EXCEPT ![c].phase = "queued", ![c].token = v]
  /\ call' = [call EXCEPT ![flight[c].owner].holds = v]
  /\ Join(c)
  /\ UNCHANGED <<accounts, row, rotated, faults, history>>

Mint(c) ==
  /\ flight[c].phase = "queued" /\ MyTurn(c)
  /\ flight' = [flight EXCEPT ![c].phase = "minting"]
  /\ UNCHANGED <<laneVars, accounts, row, rotated, call, faults, history>>

-----------------------------------------------------------------------------
(* The provider's answers *)

Answered(c, result) ==
  /\ flight[c].phase = "minting"
  /\ flight' = [flight EXCEPT ![c].phase = "minted", ![c].result = result]
  /\ UNCHANGED <<laneVars, row, rotated, call>>

Usable(c) == alive[c] /\ flight[c].token = issued[c]

Renewable(c) ==
  /\ issued[c] < MaxVersion
  /\ MapThenSumSet(LAMBDA e : issued[e] - 1, Connections) < MaxRenewals

Accepted(c) ==
  /\ Usable(c) /\ Renewable(c)
  /\ issued' = [issued EXCEPT ![c] = @ + 1]
  /\ Answered(c, "token")
  /\ UNCHANGED <<alive, faults, history>>

(* A used token: the family is revoked. *)
Reused(c) ==
  /\ ~Usable(c)
  /\ alive' = [alive EXCEPT ![c] = FALSE]
  /\ Answered(c, "reused")
  /\ UNCHANGED <<issued, faults, history>>

(* A server error or no connection. *)
Unanswered(c) == Answered(c, "null") /\ UNCHANGED <<accounts, faults, history>>

(* The token is used and the answer is lost. *)
ResponseLost(c) ==
  /\ Usable(c) /\ Renewable(c) /\ faults < MaxFaults
  /\ issued' = [issued EXCEPT ![c] = @ + 1]
  /\ faults' = faults + 1
  /\ lost' = lost \cup {c}
  /\ Answered(c, "null")
  /\ UNCHANGED <<alive, dropped>>

(* The refresh leaves the lane, after the settle gap if another waits, notes
   the rotation, and ends; the write of the row may fail. *)
Finish(c) ==
  /\ flight[c].phase = "minted"
  /\ Leave(c)
  /\ \/ /\ flight[c].result = "token"
        /\ rotated' = [rotated EXCEPT ![c] = @ \cup {flight[c].token}]
        /\ \/ /\ Deliver(c, flight[c].token + 1, TRUE)
              /\ Drops(c, ~Stores(c))
              /\ UNCHANGED <<faults, lost>>
           \/ /\ faults < MaxFaults /\ Stores(c)
              /\ IF flight[c].owner \in Sweeping THEN Reject(c)
                 ELSE Deliver(c, flight[c].token + 1, FALSE)
              /\ faults' = faults + 1
              /\ lost' = lost \cup {c}
              /\ UNCHANGED dropped
     \/ /\ flight[c].result # "token"
        /\ Disappoint(c)
        /\ UNCHANGED <<rotated, faults, history>>
  /\ UNCHANGED accounts

-----------------------------------------------------------------------------
(* The on-demand route leaves the lane and writes the row. *)
Return(d) ==
  LET c == call[d].conn
      v == call[d].holds
  IN /\ call[d].pc = "returning"
     /\ Leave(d)
     /\ IF v = 0 THEN UNCHANGED row ELSE Write(c, v)
     /\ call' = [call EXCEPT ![d] = Idle]
     /\ Drops(c, v # 0 /\ v < row[c].token)
     /\ UNCHANGED <<accounts, rotated, flight, faults, lost>>

(* refreshWithRetry waits thirty seconds; the refresh itself goes on. *)
Abandon(r) ==
  /\ r \in Reactive /\ call[r].pc = "awaiting"
  /\ flight[call[r].conn].phase # "checking"
  /\ call' = [call EXCEPT ![r] = TryAgain(@)]
  /\ UNCHANGED <<laneVars, accounts, row, rotated, flight, faults, history>>

(* The token of the row gets within a minute of its expiry. *)
Age(c) ==
  /\ row[c].fresh
  /\ row' = [row EXCEPT ![c].fresh = FALSE]
  /\ UNCHANGED <<laneVars, accounts, rotated, flight, call, faults, history>>

(* The oldest entry of tokenRotationMap is sixty seconds old. *)
Forget(c, v) ==
  /\ v \in rotated[c] /\ \A u \in rotated[c] : v <= u
  /\ rotated' = [rotated EXCEPT ![c] = @ \ {v}]
  /\ UNCHANGED <<laneVars, accounts, row, flight, call, faults, history>>

Restart ==
  /\ faults < MaxFaults
  /\ faults' = faults + 1
  /\ LaneLost
  /\ rotated' = [c \in Connections |-> {}]
  /\ flight' = [c \in Connections |-> NoFlight]
  /\ call' = [r \in Callers |-> Idle]
  /\ lost' = lost \cup
       {c \in Connections : flight[c].phase = "minted" /\ flight[c].result = "token"}
  /\ UNCHANGED <<accounts, row, dropped>>

Answer(c) == Accepted(c) \/ Reused(c) \/ Unanswered(c) \/ ResponseLost(c)

(* What a refresh does next, and an on-demand route that has its place in the lane. *)
Refresh(c) == TakeFromRow(c) \/ Queue(c) \/ Mint(c) \/ Answer(c) \/ Finish(c)
Outer(d) == Share(d) \/ Redirect(d) \/ Start(d) \/ Return(d)

Next ==
  \/ \E r \in Callers : \/ \E c \in Connections : Load(r, c)
                        \/ Enter(r) \/ Share(r) \/ Redirect(r) \/ Start(r)
                        \/ Return(r) \/ Abandon(r)
  \/ \E c \in Connections : \/ TakeFromRow(c) \/ Queue(c) \/ Mint(c) \/ Answer(c)
                            \/ Finish(c) \/ Age(c)
                            \/ \E v \in Versions : Forget(c, v)
  \/ Restart

Spec == Init /\ [][Next]_vars

(* The event loop runs what is ready, and the HTTP client's own timeouts end
   every exchange with the provider. *)
Fairness ==
  /\ \A c \in Connections : WF_vars(Refresh(c))
  /\ \A d \in OnDemand : WF_vars(Outer(d))

LiveSpec == Spec /\ Fairness

-----------------------------------------------------------------------------
(* Properties *)

(* serializeRefresh: never two refreshes of a group at the provider at once,
   whoever called them and whoever has left the lane meanwhile. *)
OneMintPerGroup ==
  \A c, e \in Connections :
    flight[c].phase \in {"minting", "minted"} /\ flight[e].phase \in {"minting", "minted"}
      => c = e

(* getAccessToken, chatCore, the health check: what can cost an account.  It is
   revoked or deactivated only after a fault at the moment its token was changed,
   or after one of the two steps by which the code itself loses a token: a
   refresh whose write the compare-and-swap guard skips while nobody else writes,
   and a write that takes the row back to an older token.  Stale copies, callers
   that share a refresh or give up waiting, and refreshes that queue behind one
   another are not enough. *)
LostBeforeGone ==
  \A c \in Connections : ~alive[c] \/ ~row[c].active => c \in lost \cup dropped

(* The on-demand route holds the lane and awaits a refresh that queues in it. *)
Wedged == \E d \in OnDemand : /\ call[d].pc = "awaiting"
                              /\ flight[call[d].conn].phase = "queued"

(* Every refresh ends, and with it the wait of all who share it, whatever the
   refreshes before it in the lane came to, unless the lane is wedged: again and
   again the connection has none. *)
RefreshesEnd ==
  \A c \in Connections : []<>(flight[c].phase = "none" \/ Wedged)

(* "its `finally` still releases the lane, so the queue keeps flowing even after
   a failed refresh" (refreshSerializer.ts:82-83). *)
QueueFlows ==
  \A c \in Connections : flight[c].phase = "queued" ~> flight[c].phase # "queued"
=============================================================================
