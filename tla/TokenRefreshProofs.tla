------------------------- MODULE TokenRefreshProofs -------------------------
(***************************************************************************)
(* What TokenRefresh and the lane under it guarantee for every set of      *)
(* accounts and callers, every number of tokens, retries and faults: their *)
(* types, the chain of promises, one refresh of a group at a time, and     *)
(* what alone can cost an account.                                         *)
(***************************************************************************)
EXTENDS TokenRefresh, SequenceTheorems, TLAPS

(* Nobody is in the lane twice. *)
Once == \A i, j \in 1..Len(line) : line[i] = line[j] => i = j

LaneWell ==
  /\ tail \in Tickets \cup {None}
  /\ prev \in [Tickets -> Tickets \cup {None, Out}]
  /\ line \in Seq(Tickets)
  /\ Once
  /\ ChainIsLine

Rows == [token : 0..MaxVersion, fresh : BOOLEAN, active : BOOLEAN]

CallRecords ==
  [pc : {"idle", "loaded", "outer", "awaiting", "returning"},
   conn : Connections \cup {None}, attempted : 0..MaxVersion,
   holds : 0..MaxVersion, tries : 0..(MaxAttempts - 1)]

FlightRecords ==
  [phase : {"none", "checking", "queued", "minting", "minted"},
   token : 0..MaxVersion, result : {"token", "null", "reused"},
   owner : Callers \cup {None}, saves : BOOLEAN, guard : 0..MaxVersion]

(* A caller that is under way has an account, and a token of it to present. *)
Calls ==
  {k \in CallRecords :
     /\ k.pc # "idle" => k.conn \in Connections
     /\ k.pc \in {"loaded", "outer", "awaiting"} => k.holds > 0}

(* A refresh has a token to present; one that was answered with a token has not
   presented the last one there can be. *)
Flights ==
  {f \in FlightRecords :
     /\ f.phase # "none" => f.token > 0
     /\ f.phase = "minted" /\ f.result = "token" => f.token < MaxVersion}

WellTyped ==
  /\ issued \in [Connections -> Versions]
  /\ alive \in [Connections -> BOOLEAN]
  /\ row \in [Connections -> Rows]
  /\ rotated \in [Connections -> SUBSET {v \in Versions : v < MaxVersion}]
  /\ flight \in [Connections -> Flights]
  /\ call \in [Callers -> Calls]
  /\ faults \in 0..MaxFaults
  /\ lost \subseteq Connections /\ dropped \subseteq Connections

(* Who is in the lane, and who has come to its head: a refresh from the moment
   it queues until it is answered for, and it is at the provider only when its
   turn has come; the on-demand route from its own place on. *)
Places ==
  /\ \A c \in Connections :
       /\ InLane(c) <=> flight[c].phase \in {"queued", "minting", "minted"}
       /\ flight[c].phase \in {"minting", "minted"} => MyTurn(c)
  /\ \A d \in OnDemand :
       /\ InLane(d) <=> call[d].pc \in {"outer", "awaiting", "returning"}
       /\ call[d].pc \in {"awaiting", "returning"} => MyTurn(d)
  /\ \A r \in Callers \ OnDemand : call[r].pc \notin {"outer", "returning"}

(* No token is noted, written, returned or minted that the provider has not
   issued, and whoever starts a refresh awaits it as long as it only looks. *)
NotAhead ==
  /\ \A c \in Connections :
       /\ \A v \in rotated[c] : v < issued[c]
       /\ row[c].token <= issued[c]
       /\ flight[c].phase = "minted" /\ flight[c].result = "token" =>
            flight[c].token + 1 = issued[c]
       /\ flight[c].phase = "checking" => flight[c].owner \in Awaiting(c)
  /\ \A d \in OnDemand :
       call[d].pc = "returning" => call[d].holds <= issued[call[d].conn]

(* The accounts whose newest token neither a fault nor the code has let go of. *)
Safe == Connections \ (lost \cup dropped)

(* The newest token is in the row, or a refresh has just got it. *)
InHand(c) == \/ row[c].token = issued[c]
             \/ flight[c].phase = "minted" /\ flight[c].result = "token"

(* While it is safe, it is the one a refresh presents, the provider has no reason
   to revoke, and nobody gives the account up. *)
Known(c) ==
  /\ InHand(c)
  /\ flight[c].phase \in {"queued", "minting"} => flight[c].token = issued[c]
  /\ flight[c].phase = "minted" => flight[c].result # "reused"
  /\ alive[c] /\ row[c].active

NewestKept == \A c \in Safe : Known(c)

IInv ==
  /\ WellTyped
  /\ LaneWell
  /\ Places
  /\ NotAhead
  /\ NewestKept

-----------------------------------------------------------------------------
(* The lane *)

(* Only the first in the lane has its turn. *)
LEMMA FirstOnly ==
  ASSUME LaneWell, NEW t \in Tickets, MyTurn(t)
  PROVE  Len(line) \in Nat /\ 1 \in 1..Len(line) /\ line[1] = t
<1>1. Len(line) \in Nat /\ line \in [1..Len(line) -> Tickets]
  BY LenProperties DEF LaneWell
<1>2. InLane(t)
  BY LaneMarks DEF MyTurn, InLane
<1>3. PICK i \in 1..Len(line) : line[i] = t
  BY <1>2 DEF LaneWell, ChainIsLine
<1>4. prev[t] = IF i = 1 THEN None ELSE line[i - 1]
  BY <1>3 DEF LaneWell, ChainIsLine
<1>5. i = 1
  <2>1. SUFFICES ASSUME i # 1 PROVE FALSE
    OBVIOUS
  <2>2. i - 1 \in 1..Len(line)
    BY <1>1, <2>1
  <2>3. line[i - 1] \in Tickets
    BY <1>1, <2>2
  <2> QED
    BY <1>4, <2>1, <2>3, LaneMarks DEF MyTurn
<1> QED
  BY <1>1, <1>3, <1>5

(* A newcomer chains itself after the last. *)
LEMMA JoinLane ==
  ASSUME LaneWell, NEW t \in Tickets, Join(t)
  PROVE  /\ LaneWell'
         /\ prev'[t] # Out
         /\ \A u \in Tickets \ {t} : prev'[u] = prev[u]
<1>1. /\ Len(line) \in Nat /\ line \in [1..Len(line) -> Tickets]
      /\ line \in Seq(Tickets)
  BY LenProperties DEF LaneWell
<1>2. /\ line' \in Seq(Tickets) /\ Len(line') = Len(line) + 1
      /\ \A i \in 1..Len(line) : line'[i] = line[i]
      /\ line'[Len(line) + 1] = t
      /\ line' # <<>>
  BY <1>1, AppendProperties DEF Join
<1>3. \A i \in 1..Len(line) : line[i] # t
  BY DEF Join, LaneWell, ChainIsLine
<1>4. prev' \in [Tickets -> Tickets \cup {None, Out}] /\ tail' = t
  BY DEF Join, LaneWell
<1>5. prev'[t] = tail /\ \A u \in Tickets \ {t} : prev'[u] = prev[u]
  BY DEF Join, LaneWell
<1>6. tail # Out
  BY LaneMarks DEF LaneWell
<1>7. Once'
  BY <1>1, <1>2, <1>3 DEF Once, LaneWell
<1>8. ChainIsLine'
  <2>1. \A u \in Tickets : prev'[u] # Out <=> \E i \in 1..Len(line') : line'[i] = u
    <3> TAKE u \in Tickets
    <3>1. CASE u = t
      <4>1. Len(line) + 1 \in 1..Len(line')
        BY <1>1, <1>2
      <4> QED
        BY <1>2, <1>5, <1>6, <3>1, <4>1
    <3>2. CASE u # t
      <4>1. prev'[u] # Out <=> \E i \in 1..Len(line) : line[i] = u
        BY <1>5, <3>2 DEF LaneWell, ChainIsLine, InLane
      <4>2. (\E i \in 1..Len(line) : line[i] = u) <=> \E i \in 1..Len(line') : line'[i] = u
        BY <1>1, <1>2, <3>2
      <4> QED
        BY <4>1, <4>2
    <3> QED
      BY <3>1, <3>2
  <2>2. \A i \in 1..Len(line') : prev'[line'[i]] = IF i = 1 THEN None ELSE line'[i - 1]
    <3> TAKE i \in 1..Len(line')
    <3>1. CASE i \in 1..Len(line)
      <4>1. line'[i] = line[i] /\ line[i] \in Tickets \ {t}
        BY <1>1, <1>2, <1>3, <3>1
      <4>2. prev'[line'[i]] = IF i = 1 THEN None ELSE line[i - 1]
        BY <1>5, <3>1, <4>1 DEF LaneWell, ChainIsLine
      <4>3. i # 1 => i - 1 \in 1..Len(line)
        BY <1>1, <3>1
      <4> QED
        BY <1>2, <4>2, <4>3
    <3>2. CASE i = Len(line) + 1
      <4>1. prev'[line'[i]] = tail
        BY <1>2, <1>5, <3>2
      <4>2. tail = IF line = <<>> THEN None ELSE line[Len(line)]
        BY DEF LaneWell, ChainIsLine
      <4>3. line = <<>> <=> i = 1
        BY <1>1, <3>2, EmptySeq
      <4>4. i # 1 => line'[i - 1] = line[Len(line)]
        <5> SUFFICES ASSUME i # 1 PROVE line'[i - 1] = line[Len(line)]
          OBVIOUS
        <5>1. Len(line) \in 1..Len(line) /\ i - 1 = Len(line)
          BY <1>1, <3>2
        <5> QED
          BY <1>2, <5>1
      <4> QED
        BY <4>1, <4>2, <4>3, <4>4
    <3> QED
      BY <1>1, <1>2, <3>1, <3>2
  <2>3. tail' = IF line' = <<>> THEN None ELSE line'[Len(line')]
    BY <1>2, <1>4
  <2> QED
    BY <2>1, <2>2, <2>3 DEF ChainIsLine, InLane
<1> QED
  BY <1>2, <1>4, <1>5, <1>6, <1>7, <1>8 DEF LaneWell

(* The first leaves: its successor's turn comes, and nobody else's changes. *)
LEMMA LeaveLane ==
  ASSUME LaneWell, NEW t \in Tickets, Leave(t)
  PROVE  /\ LaneWell'
         /\ prev'[t] = Out
         /\ \A u \in Tickets \ {t} :
              /\ prev'[u] = Out <=> prev[u] = Out
              /\ prev[u] = None => prev'[u] = None
<1>1. Len(line) \in Nat /\ 1 \in 1..Len(line) /\ line[1] = t
  BY FirstOnly DEF Leave
<1>2. line \in Seq(Tickets) /\ line # <<>> /\ line \in [1..Len(line) -> Tickets]
  BY <1>1, EmptySeq, LenProperties DEF LaneWell
<1>3. /\ line' \in Seq(Tickets) /\ Len(line') = Len(line) - 1
      /\ \A i \in 1..Len(line') : line'[i] = line[i + 1]
  BY <1>2, HeadTailProperties DEF Leave
<1>4. /\ prev' \in [Tickets -> Tickets \cup {None, Out}]
      /\ tail' \in Tickets \cup {None}
  BY DEF Leave, LaneWell
<1>5. /\ prev'[t] = Out
      /\ \A u \in Tickets \ {t} : prev'[u] = IF prev[u] = t THEN None ELSE prev[u]
  BY DEF Leave
<1>6. t # None /\ t # Out /\ None # Out
  BY LaneMarks
<1>7. Once'
  <2> SUFFICES ASSUME NEW i \in 1..Len(line'), NEW j \in 1..Len(line'), line'[i] = line'[j]
               PROVE  i = j
    BY DEF Once
  <2>1. i + 1 \in 1..Len(line) /\ j + 1 \in 1..Len(line)
    BY <1>1, <1>3
  <2>2. i + 1 = j + 1
    BY <1>3, <2>1 DEF LaneWell, Once
  <2> QED
    BY <1>1, <1>3, <2>2
<1>8. ASSUME NEW i \in 1..Len(line')
      PROVE  /\ i + 1 \in 1..Len(line)
             /\ line'[i] \in Tickets \ {t}
             /\ line'[i] = line[i + 1]
  <2>1. i + 1 \in 1..Len(line) /\ i + 1 # 1
    BY <1>1, <1>3
  <2>2. line[i + 1] # t
    BY <1>1, <2>1 DEF LaneWell, Once
  <2> QED
    BY <1>2, <1>3, <2>1, <2>2
<1>9. ChainIsLine'
  <2>1. \A u \in Tickets : prev'[u] # Out <=> \E i \in 1..Len(line') : line'[i] = u
    <3> TAKE u \in Tickets
    <3>1. CASE u = t
      BY <1>5, <1>8, <3>1
    <3>2. CASE u # t
      <4>1. prev'[u] # Out <=> \E i \in 1..Len(line) : line[i] = u
        BY <1>5, <1>6, <3>2 DEF LaneWell, ChainIsLine, InLane
      <4>2. ASSUME NEW i \in 1..Len(line), line[i] = u
            PROVE  \E j \in 1..Len(line') : line'[j] = u
        <5>1. i # 1
          BY <1>1, <3>2, <4>2
        <5>2. i - 1 \in 1..Len(line') /\ (i - 1) + 1 = i
          BY <1>1, <1>3, <5>1
        <5> QED
          BY <1>3, <4>2, <5>2
      <4> QED
        BY <1>8, <4>1, <4>2
    <3> QED
      BY <3>1, <3>2
  <2>2. \A i \in 1..Len(line') : prev'[line'[i]] = IF i = 1 THEN None ELSE line'[i - 1]
    <3> TAKE i \in 1..Len(line')
    <3>1. prev[line[i + 1]] = line[i]
      <4>1. i + 1 # 1 /\ (i + 1) - 1 = i
        BY <1>1, <1>3
      <4> QED
        BY <1>8, <4>1 DEF LaneWell, ChainIsLine
    <3>2. prev'[line'[i]] = IF line[i] = t THEN None ELSE line[i]
      BY <1>5, <1>8, <3>1
    <3>3. line[i] = t <=> i = 1
      BY <1>1, <1>3 DEF LaneWell, Once
    <3>4. i # 1 => line'[i - 1] = line[i]
      <4> SUFFICES ASSUME i # 1 PROVE line'[i - 1] = line[i]
        OBVIOUS
      <4>1. i - 1 \in 1..Len(line') /\ (i - 1) + 1 = i
        BY <1>1, <1>3
      <4> QED
        BY <1>3, <4>1
    <3> QED
      BY <3>2, <3>3, <3>4
  <2>3. tail' = IF line' = <<>> THEN None ELSE line'[Len(line')]
    <3>1. tail = line[Len(line)]
      BY <1>2 DEF LaneWell, ChainIsLine
    <3>2. Len(line) \in 1..Len(line)
      BY <1>1
    <3>3. tail = t <=> Len(line) = 1
      BY <1>1, <3>1, <3>2 DEF LaneWell, Once
    <3>4. line' = <<>> <=> Len(line) = 1
      BY <1>1, <1>3, EmptySeq
    <3>5. Len(line) # 1 => line'[Len(line')] = line[Len(line)]
      <4> SUFFICES ASSUME Len(line) # 1 PROVE line'[Len(line')] = line[Len(line)]
        OBVIOUS
      <4>1. Len(line') \in 1..Len(line') /\ Len(line') + 1 = Len(line)
        BY <1>1, <1>3
      <4> QED
        BY <1>3, <4>1
    <3> QED
      BY <3>1, <3>3, <3>4, <3>5 DEF Leave
  <2> QED
    BY <2>1, <2>2, <2>3 DEF ChainIsLine, InLane
<1>10. \A u \in Tickets \ {t} :
         /\ prev'[u] = Out <=> prev[u] = Out
         /\ prev[u] = None => prev'[u] = None
  BY <1>5, <1>6
<1> QED
  BY <1>3, <1>4, <1>5, <1>7, <1>9, <1>10 DEF LaneWell

(* A restart leaves an empty lane. *)
LEMMA LostLane ==
  ASSUME LaneLost
  PROVE  LaneWell' /\ \A t \in Tickets : prev'[t] = Out
<1>1. Len(line') = 0 /\ line' \in Seq(Tickets) /\ line' = <<>>
  BY EmptySeq DEF LaneLost
<1>2. Once'
  BY <1>1 DEF Once
<1>3. ChainIsLine'
  BY <1>1 DEF LaneLost, ChainIsLine, InLane
<1> QED
  BY <1>1, <1>2, <1>3 DEF LaneLost, LaneWell

-----------------------------------------------------------------------------
(* Types *)

LEMMA TypesImplyTypeOK == WellTyped => TypeOK
<1> SUFFICES ASSUME WellTyped PROVE TypeOK
  OBVIOUS
<1>1. Calls \subseteq CallRecords /\ Flights \subseteq FlightRecords
  BY DEF Calls, Flights
<1>2. flight \in [Connections -> FlightRecords] /\ call \in [Callers -> CallRecords]
  BY <1>1 DEF WellTyped
<1>3. rotated \in [Connections -> SUBSET Versions]
  BY DEF WellTyped
<1> QED
  BY <1>2, <1>3 DEF WellTyped, TypeOK, Rows, CallRecords, FlightRecords

(* A caller that has nothing under way, and a connection without a refresh. *)
LEMMA Resting == Idle \in Calls /\ NoFlight \in Flights
<1>1. 0 \in 0..(MaxAttempts - 1) /\ 0 \in 0..MaxVersion
  BY RefreshAssumption
<1>2. Idle \in CallRecords /\ NoFlight \in FlightRecords
  BY <1>1 DEF Idle, NoFlight, CallRecords, FlightRecords
<1> QED
  BY <1>2 DEF Calls, Flights, Idle, NoFlight

(* A step that changes one caller keeps the callers' types. *)
LEMMA OneCall ==
  ASSUME WellTyped, NEW r \in Callers, NEW k \in Calls, call' = [call EXCEPT ![r] = k]
  PROVE  call' \in [Callers -> Calls]
BY DEF WellTyped

(* So does a step that changes one refresh for the refreshes. *)
LEMMA OneFlight ==
  ASSUME WellTyped, NEW c \in Connections, NEW f \in Flights,
         flight' = [flight EXCEPT ![c] = f]
  PROVE  flight' \in [Connections -> Flights]
BY DEF WellTyped

(* Whoever is under way has an account, and a token unless it is returning. *)
LEMMA CallFields ==
  ASSUME WellTyped, NEW r \in Callers
  PROVE  /\ call[r] \in Calls
         /\ call[r].pc \in {"idle", "loaded", "outer", "awaiting", "returning"}
         /\ call[r].holds \in 0..MaxVersion /\ call[r].attempted \in 0..MaxVersion
         /\ call[r].pc # "idle" => call[r].conn \in Connections
         /\ call[r].pc \in {"loaded", "outer", "awaiting"} => call[r].holds \in Versions
<1>1. call[r] \in Calls /\ call[r] \in CallRecords
  BY DEF WellTyped, Calls
<1>2. /\ call[r].pc \in {"idle", "loaded", "outer", "awaiting", "returning"}
      /\ call[r].holds \in 0..MaxVersion /\ call[r].attempted \in 0..MaxVersion
  BY <1>1 DEF CallRecords
<1>3. /\ call[r].pc # "idle" => call[r].conn \in Connections
      /\ call[r].pc \in {"loaded", "outer", "awaiting"} => call[r].holds > 0
  BY <1>1 DEF Calls
<1>4. call[r].holds > 0 => call[r].holds \in Versions
  BY <1>2, RefreshAssumption DEF Versions
<1> QED
  BY <1>1, <1>2, <1>3, <1>4

(* A caller that goes on, returns, tries again, or gets a token in place of its
   own remains one of that kind. *)
LEMMA CallChanges ==
  ASSUME WellTyped, NEW r \in Callers
  PROVE  /\ \A p \in {"loaded", "outer", "awaiting"} :
              call[r].pc \in {"loaded", "outer", "awaiting"} =>
                [call[r] EXCEPT !.pc = p] \in Calls
         /\ \A v \in 0..MaxVersion :
              call[r].pc # "idle" =>
                [call[r] EXCEPT !.pc = "returning", !.holds = v] \in Calls
         /\ call[r].pc \in {"loaded", "outer", "awaiting"} => TryAgain(call[r]) \in Calls
         /\ \A v \in Versions : [call[r] EXCEPT !.holds = v] \in Calls
<1>1. call[r] \in Calls /\ call[r] \in CallRecords
  BY DEF WellTyped, Calls
<1> DEFINE k == call[r]
<1>2. /\ k.pc \in {"idle", "loaded", "outer", "awaiting", "returning"}
      /\ k.conn \in Connections \cup {None} /\ k.attempted \in 0..MaxVersion
      /\ k.holds \in 0..MaxVersion /\ k.tries \in 0..(MaxAttempts - 1)
      /\ k = [pc |-> k.pc, conn |-> k.conn, attempted |-> k.attempted,
              holds |-> k.holds, tries |-> k.tries]
  BY <1>1 DEF CallRecords
<1>3. /\ k.pc # "idle" => k.conn \in Connections
      /\ k.pc \in {"loaded", "outer", "awaiting"} => k.holds > 0
  BY <1>1 DEF Calls
<1>4. Versions \subseteq 0..MaxVersion /\ \A v \in Versions : v > 0
  BY RefreshAssumption DEF Versions
<1> HIDE DEF k
<1>6. ASSUME NEW p \in {"loaded", "outer", "awaiting"}, k.pc \in {"loaded", "outer", "awaiting"}
      PROVE  [k EXCEPT !.pc = p] \in Calls
  <2>1. [k EXCEPT !.pc = p] \in CallRecords
    BY <1>2 DEF CallRecords
  <2>2. /\ [k EXCEPT !.pc = p].pc = p /\ [k EXCEPT !.pc = p].conn = k.conn
        /\ [k EXCEPT !.pc = p].holds = k.holds
    BY <1>2
  <2> QED
    BY <1>3, <1>6, <2>1, <2>2 DEF Calls
<1>7. ASSUME NEW v \in 0..MaxVersion, k.pc # "idle"
      PROVE  [k EXCEPT !.pc = "returning", !.holds = v] \in Calls
  <2> DEFINE n == [k EXCEPT !.pc = "returning", !.holds = v]
  <2>1. n \in CallRecords
    BY <1>2 DEF CallRecords
  <2>2. n.pc = "returning" /\ n.conn = k.conn
    BY <1>2
  <2> HIDE DEF n
  <2>3. n \in Calls
    BY <1>3, <1>7, <2>1, <2>2 DEF Calls
  <2> QED
    BY <2>3 DEF n
<1>8. ASSUME k.pc \in {"loaded", "outer", "awaiting"}
      PROVE  TryAgain(k) \in Calls
  <2>1. CASE k.tries + 1 < MaxAttempts
    <3> DEFINE n == [k EXCEPT !.pc = "loaded", !.tries = @ + 1]
    <3>1. k.tries + 1 \in 0..(MaxAttempts - 1)
      BY <1>2, <2>1, RefreshAssumption
    <3>2. n \in CallRecords
      BY <1>2, <3>1 DEF CallRecords
    <3>3. n.pc = "loaded" /\ n.conn = k.conn /\ n.holds = k.holds
      BY <1>2
    <3>4. TryAgain(k) = n
      BY <2>1 DEF TryAgain
    <3> HIDE DEF n
    <3> QED
      BY <1>3, <1>8, <3>2, <3>3, <3>4 DEF Calls
  <2>2. CASE ~(k.tries + 1 < MaxAttempts)
    BY <2>2, Resting DEF TryAgain
  <2> QED
    BY <2>1, <2>2
<1>9. ASSUME NEW v \in Versions
      PROVE  [k EXCEPT !.holds = v] \in Calls
  <2> DEFINE n == [k EXCEPT !.holds = v]
  <2>1. n \in CallRecords
    BY <1>2, <1>4 DEF CallRecords
  <2>2. n.pc = k.pc /\ n.conn = k.conn /\ n.holds = v
    BY <1>2
  <2> HIDE DEF n
  <2>3. n \in Calls
    BY <1>3, <1>4, <2>1, <2>2 DEF Calls
  <2> QED
    BY <2>3 DEF n
<1> QED
  BY <1>6, <1>7, <1>8, <1>9 DEF k

(* The token a refresh presents, and the one it may get. *)
LEMMA FlightFields ==
  ASSUME WellTyped, NEW c \in Connections
  PROVE  /\ flight[c] \in Flights
         /\ flight[c].phase # "none" => flight[c].token \in Versions
         /\ flight[c].phase = "minted" /\ flight[c].result = "token" =>
              /\ flight[c].token \in {v \in Versions : v < MaxVersion}
              /\ flight[c].token + 1 \in Versions
         /\ \A p \in {"checking", "queued", "minting"}, v \in Versions :
              [flight[c] EXCEPT !.phase = p, !.token = v] \in Flights
         /\ \A x \in {"token", "null", "reused"} :
              flight[c].phase # "none" /\ (x = "token" => flight[c].token < MaxVersion) =>
                [flight[c] EXCEPT !.phase = "minted", !.result = x] \in Flights
<1> DEFINE f == flight[c]
<1>1. f \in Flights /\ f \in FlightRecords
  BY DEF WellTyped, Flights
<1>2. /\ f.phase \in {"none", "checking", "queued", "minting", "minted"}
      /\ f.token \in 0..MaxVersion /\ f.result \in {"token", "null", "reused"}
      /\ f.owner \in Callers \cup {None} /\ f.saves \in BOOLEAN
      /\ f.guard \in 0..MaxVersion
      /\ f = [phase |-> f.phase, token |-> f.token, result |-> f.result,
              owner |-> f.owner, saves |-> f.saves, guard |-> f.guard]
  BY <1>1 DEF FlightRecords
<1>3. /\ f.phase # "none" => f.token > 0
      /\ f.phase = "minted" /\ f.result = "token" => f.token < MaxVersion
  BY <1>1 DEF Flights
<1> HIDE DEF f
<1>4. f.phase # "none" => f.token \in Versions
  BY <1>2, <1>3, RefreshAssumption DEF Versions
<1>5. f.phase = "minted" /\ f.result = "token" =>
        f.token \in {v \in Versions : v < MaxVersion} /\ f.token + 1 \in Versions
  BY <1>2, <1>3, RefreshAssumption DEF Versions
<1>6. ASSUME NEW p \in {"checking", "queued", "minting"}, NEW v \in Versions
      PROVE  [f EXCEPT !.phase = p, !.token = v] \in Flights
  <2> DEFINE n == [f EXCEPT !.phase = p, !.token = v]
  <2>1. v \in 0..MaxVersion /\ v > 0
    BY RefreshAssumption DEF Versions
  <2>2. n \in FlightRecords
    BY <1>2, <2>1 DEF FlightRecords
  <2>3. n.phase = p /\ n.token = v
    BY <1>2
  <2> HIDE DEF n
  <2>4. n \in Flights
    BY <2>1, <2>2, <2>3 DEF Flights
  <2> QED
    BY <2>4 DEF n
<1>7. ASSUME NEW x \in {"token", "null", "reused"}, f.phase # "none",
             x = "token" => f.token < MaxVersion
      PROVE  [f EXCEPT !.phase = "minted", !.result = x] \in Flights
  <2> DEFINE n == [f EXCEPT !.phase = "minted", !.result = x]
  <2>1. n \in FlightRecords
    BY <1>2 DEF FlightRecords
  <2>2. n.phase = "minted" /\ n.result = x /\ n.token = f.token
    BY <1>2
  <2> HIDE DEF n
  <2>3. n \in Flights
    BY <1>3, <1>7, <2>1, <2>2 DEF Flights
  <2> QED
    BY <2>3 DEF n
<1> QED
  BY <1>1, <1>4, <1>5, <1>6, <1>7 DEF f

(* A write of the row changes nothing but the token and its lifetime. *)
LEMMA WriteEffect ==
  ASSUME WellTyped, NEW c \in Connections, NEW v \in Versions,
         Write(c, v) \/ UNCHANGED row
  PROVE  /\ row' \in [Connections -> Rows]
         /\ \A e \in Connections : row'[e].active = row[e].active
         /\ \A e \in Connections \ {c} : row'[e] = row[e]
         /\ row'[c].token \in {row[c].token, v}
<1>1. row \in [Connections -> Rows] /\ v \in 0..MaxVersion
  BY RefreshAssumption DEF WellTyped, Versions
<1>2. CASE Write(c, v)
  BY <1>1, <1>2 DEF Write, Rows
<1>3. CASE UNCHANGED row
  BY <1>1, <1>3
<1> QED
  BY <1>2, <1>3

(* The refresh of c is over, with the token v or none: those who awaited it go on
   without it, the on-demand route with what it got. *)
Released(c, v) ==
  /\ flight' = [flight EXCEPT ![c] = NoFlight]
  /\ call' \in [Callers -> Calls]
  /\ \A r \in Callers :
       \/ call'[r] = call[r]
       \/ /\ r \in Awaiting(c)
          /\ IF r \in OnDemand
             THEN call'[r].pc = "returning" /\ call'[r].conn = c /\ call'[r].holds \in {0, v}
             ELSE call'[r].pc \in {"idle", "loaded"}

(* Where a caller goes who awaited the refresh of c. *)
LEMMA Release ==
  ASSUME WellTyped, NEW c \in Connections, NEW r \in Awaiting(c), NEW v \in 0..MaxVersion,
         NEW k, NEW hopeless, k = WithToken(r, v) \/ k = WithoutToken(r, hopeless)
  PROVE  /\ k \in Calls
         /\ IF r \in OnDemand THEN k.pc = "returning" /\ k.conn = c /\ k.holds \in {0, v}
                              ELSE k.pc \in {"idle", "loaded"}
<1>1. r \in Callers /\ call[r].pc = "awaiting" /\ call[r].conn = c
  BY DEF Awaiting
<1>2. call[r] \in CallRecords
  BY <1>1, CallFields DEF Calls
<1>3. CASE r \in OnDemand
  <2>1. 0 \in 0..MaxVersion
    BY RefreshAssumption
  <2>2. PICK w \in {0, v} : k = [call[r] EXCEPT !.pc = "returning", !.holds = w]
    BY <1>3 DEF WithToken, WithoutToken
  <2>3. w \in 0..MaxVersion
    BY <2>1, <2>2
  <2>4. \A x \in 0..MaxVersion :
          call[r].pc # "idle" => [call[r] EXCEPT !.pc = "returning", !.holds = x] \in Calls
    BY <1>1, CallChanges
  <2>5. [call[r] EXCEPT !.pc = "returning", !.holds = w] \in Calls
    BY <1>1, <2>3, <2>4
  <2>6. k \in Calls
    BY <2>2, <2>5, Zenon
  <2>7. k.pc = "returning" /\ k.conn = c /\ k.holds = w
    BY <1>1, <1>2, <2>2 DEF CallRecords
  <2> QED
    BY <1>3, <2>2, <2>6, <2>7
<1>4. CASE r \notin OnDemand
  <2>1. k \in {Idle, TryAgain(call[r])}
    BY <1>4 DEF WithToken, WithoutToken
  <2>2. k \in Calls
    BY <1>1, <2>1, CallChanges, Resting
  <2>3. TryAgain(call[r]).pc \in {"idle", "loaded"} /\ Idle.pc = "idle"
    BY <1>2 DEF TryAgain, Idle, CallRecords
  <2> QED
    BY <1>4, <2>1, <2>2, <2>3
<1> QED
  BY <1>3, <1>4

(* Where a refresh that yields a token leaves the row and the callers. *)
LEMMA DeliverEffect ==
  ASSUME WellTyped, NEW c \in Connections, NEW v \in Versions, NEW saved,
         Deliver(c, v, saved)
  PROVE  /\ Released(c, v)
         /\ row' \in [Connections -> Rows]
         /\ \A e \in Connections : row'[e].active = row[e].active
         /\ \A e \in Connections \ {c} : row'[e] = row[e]
         /\ row'[c].token \in {row[c].token, v}
         /\ saved /\ Stores(c) => row'[c].token = v
<1>1. /\ flight' = [flight EXCEPT ![c] = NoFlight]
      /\ IF saved /\ Stores(c) THEN Write(c, v) ELSE UNCHANGED row
      /\ call' = [r \in Callers |-> IF r \in Awaiting(c) THEN WithToken(r, v) ELSE call[r]]
  BY DEF Deliver
<1>2. Write(c, v) => row'[c].token = v
  BY DEF Write, WellTyped, Rows
<1>3. ASSUME NEW r \in Callers
      PROVE  /\ call'[r] \in Calls
             /\ \/ call'[r] = call[r]
                \/ /\ r \in Awaiting(c)
                   /\ IF r \in OnDemand
                      THEN /\ call'[r].pc = "returning" /\ call'[r].conn = c
                           /\ call'[r].holds \in {0, v}
                      ELSE call'[r].pc \in {"idle", "loaded"}
  <2>1. CASE r \notin Awaiting(c)
    <3>1. call'[r] = call[r]
      BY <1>1, <2>1
    <3> QED
      BY <3>1, CallFields
  <2>2. CASE r \in Awaiting(c)
    <3>1. call'[r] = WithToken(r, v) /\ v \in 0..MaxVersion
      BY <1>1, <2>2, RefreshAssumption DEF Versions
    <3> QED
      BY <2>2, <3>1, Release
  <2> QED
    BY <2>1, <2>2
<1>4. call' \in [Callers -> Calls]
  BY <1>1, <1>3
<1>5. Released(c, v)
  BY <1>1, <1>3, <1>4 DEF Released
<1> QED
  BY <1>1, <1>2, <1>5, WriteEffect

(* Those who await a refresh that yields none, or that is rejected, go on. *)
LEMMA ReleasedWithout ==
  ASSUME WellTyped, NEW c \in Connections, NEW v, NEW hopeless,
         flight' = [flight EXCEPT ![c] = NoFlight],
         call' = [r \in Callers |->
           IF r \in Awaiting(c) THEN WithoutToken(r, hopeless) ELSE call[r]]
  PROVE  Released(c, v)
<1>1. ASSUME NEW r \in Callers
      PROVE  /\ call'[r] \in Calls
             /\ \/ call'[r] = call[r]
                \/ /\ r \in Awaiting(c)
                   /\ IF r \in OnDemand
                      THEN /\ call'[r].pc = "returning" /\ call'[r].conn = c
                           /\ call'[r].holds \in {0, v}
                      ELSE call'[r].pc \in {"idle", "loaded"}
  <2>1. CASE r \notin Awaiting(c)
    <3>1. call'[r] = call[r]
      BY <2>1
    <3> QED
      BY <3>1, CallFields
  <2>2. CASE r \in Awaiting(c)
    <3>1. call'[r] = WithoutToken(r, hopeless) /\ 0 \in 0..MaxVersion
      BY <2>2, RefreshAssumption
    <3> QED
      BY <2>2, <3>1, Release
  <2> QED
    BY <2>1, <2>2
<1>2. call' \in [Callers -> Calls]
  BY <1>1
<1> QED
  BY <1>1, <1>2 DEF Released

(* Where a refresh that yields none leaves them: the row stays as it is unless
   the provider reported a used token. *)
LEMMA DisappointEffect ==
  ASSUME WellTyped, NEW c \in Connections, Disappoint(c)
  PROVE  /\ Released(c, 0)
         /\ row' \in [Connections -> Rows]
         /\ flight[c].result # "reused" =>
              row'[c].active = row[c].active /\ row'[c].token = row[c].token
         /\ row'[c].token \in {0, row[c].token}
         /\ \A e \in Connections \ {c} : row'[e] = row[e]
<1> DEFINE reused == flight[c].result = "reused"
           left == \E r \in Awaiting(c) : reused /\ GivesUp(r, c)
           cleared == \E r \in Awaiting(c) \cap Sweeping : reused /\ GivesUp(r, c)
<1>1. /\ flight' = [flight EXCEPT ![c] = NoFlight]
      /\ row' = [row EXCEPT ![c] = [token |-> IF cleared THEN 0 ELSE @.token,
                                    fresh |-> @.fresh, active |-> @.active /\ ~left]]
      /\ call' = [r \in Callers |->
           IF r \in Awaiting(c) THEN WithoutToken(r, reused) ELSE call[r]]
  BY DEF Disappoint
<1>2. left \in BOOLEAN /\ cleared \in BOOLEAN /\ (left => reused) /\ (cleared => reused)
  OBVIOUS
<1> HIDE DEF reused, left, cleared
<1>3. /\ row' \in [Connections -> Rows]
      /\ ~left => row'[c].active = row[c].active
      /\ ~cleared => row'[c].token = row[c].token
      /\ row'[c].token \in {0, row[c].token}
      /\ \A e \in Connections \ {c} : row'[e] = row[e]
  <2>1. row \in [Connections -> Rows] /\ 0 \in 0..MaxVersion
    BY RefreshAssumption DEF WellTyped
  <2> DEFINE n == [token |-> IF cleared THEN 0 ELSE row[c].token,
                   fresh |-> row[c].fresh, active |-> row[c].active /\ ~left]
  <2>2. row' = [row EXCEPT ![c] = n]
    BY <1>1
  <2>3. n \in Rows
    BY <2>1 DEF Rows
  <2>4. ~left => n.active = row[c].active
    BY <2>1 DEF Rows
  <2>5. (~cleared => n.token = row[c].token) /\ n.token \in {0, row[c].token}
    OBVIOUS
  <2> HIDE DEF n
  <2> QED
    BY <2>1, <2>2, <2>3, <2>4, <2>5
<1>4. Released(c, 0)
  BY <1>1, ReleasedWithout
<1>5. flight[c].result # "reused" => ~left /\ ~cleared
  BY <1>2 DEF reused
<1> QED
  BY <1>3, <1>4, <1>5

(* What the end of a refresh changes: the row of its account and those who await
   it; without a fault the token it got is in the row, or it is noted dropped. *)
LEMMA FinishEffect ==
  ASSUME WellTyped, NEW c \in Connections, Finish(c)
  PROVE  /\ flight[c].phase = "minted" /\ Leave(c) /\ UNCHANGED accounts
         /\ Released(c, IF flight[c].result = "token" THEN flight[c].token + 1 ELSE 0)
         /\ row' \in [Connections -> Rows]
         /\ \A e \in Connections \ {c} : row'[e] = row[e]
         /\ flight[c].result # "reused" => row'[c].active = row[c].active
         /\ IF flight[c].result = "token"
            THEN /\ rotated' = [rotated EXCEPT ![c] = @ \cup {flight[c].token}]
                 /\ row'[c].token \in {row[c].token, flight[c].token + 1}
                 /\ c \notin lost' \cup dropped' => row'[c].token = flight[c].token + 1
            ELSE /\ UNCHANGED rotated
                 /\ row'[c].token \in {0, row[c].token}
                 /\ flight[c].result # "reused" => row'[c].token = row[c].token
         /\ faults' = faults \/ (faults < MaxFaults /\ faults' = faults + 1)
         /\ lost \subseteq lost' /\ lost' \subseteq lost \cup {c}
         /\ dropped \subseteq dropped' /\ dropped' \subseteq dropped \cup {c}
<1>1. flight[c].phase = "minted" /\ Leave(c) /\ UNCHANGED accounts
  BY DEF Finish
<1>2. CASE flight[c].result = "token"
  <2> DEFINE v == flight[c].token + 1
  <2>1. v \in Versions
    BY <1>1, <1>2, FlightFields
  <2>2. rotated' = [rotated EXCEPT ![c] = @ \cup {flight[c].token}]
    BY <1>2 DEF Finish
  <2>3. \/ /\ Deliver(c, v, TRUE) /\ Drops(c, ~Stores(c)) /\ UNCHANGED <<faults, lost>>
        \/ /\ Deliver(c, v, FALSE) \/ Reject(c)
           /\ faults < MaxFaults /\ faults' = faults + 1
           /\ lost' = lost \cup {c} /\ UNCHANGED dropped
    BY <1>2 DEF Finish
  <2> HIDE DEF v
  <2>4. CASE Deliver(c, v, TRUE) /\ Drops(c, ~Stores(c)) /\ UNCHANGED <<faults, lost>>
    <3>1. /\ Released(c, v) /\ row' \in [Connections -> Rows]
          /\ \A e \in Connections : row'[e].active = row[e].active
          /\ \A e \in Connections \ {c} : row'[e] = row[e]
          /\ row'[c].token \in {row[c].token, v}
          /\ Stores(c) => row'[c].token = v
      BY <2>1, <2>4, DeliverEffect
    <3>2. /\ dropped \subseteq dropped' /\ dropped' \subseteq dropped \cup {c}
          /\ c \notin dropped' => Stores(c)
      BY <2>4 DEF Drops
    <3> QED
      BY <1>1, <1>2, <2>1, <2>2, <2>4, <3>1, <3>2 DEF v
  <2>5. CASE /\ Deliver(c, v, FALSE) \/ Reject(c)
             /\ faults < MaxFaults /\ faults' = faults + 1
             /\ lost' = lost \cup {c} /\ UNCHANGED dropped
    <3>1. /\ Released(c, v) /\ row' \in [Connections -> Rows]
          /\ \A e \in Connections : row'[e].active = row[e].active
          /\ \A e \in Connections \ {c} : row'[e] = row[e]
          /\ row'[c].token \in {row[c].token, v}
      <4>1. CASE Deliver(c, v, FALSE)
        BY <2>1, <4>1, DeliverEffect
      <4>2. CASE Reject(c)
        <5>1. Released(c, v)
          BY <2>1, <4>2, ReleasedWithout DEF Reject
        <5>2. UNCHANGED row
          BY <4>2 DEF Reject
        <5> QED
          BY <5>1, <5>2 DEF WellTyped
      <4> QED
        BY <2>5, <4>1, <4>2
    <3> QED
      BY <1>1, <1>2, <2>1, <2>2, <2>5, <3>1 DEF v
  <2> QED
    BY <2>3, <2>4, <2>5
<1>3. CASE flight[c].result # "token"
  <2>1. Disappoint(c) /\ UNCHANGED <<rotated, faults, history>>
    BY <1>3 DEF Finish
  <2>2. /\ Released(c, 0) /\ row' \in [Connections -> Rows]
        /\ flight[c].result # "reused" =>
             row'[c].active = row[c].active /\ row'[c].token = row[c].token
        /\ row'[c].token \in {0, row[c].token}
        /\ \A e \in Connections \ {c} : row'[e] = row[e]
    BY <2>1, DisappointEffect
  <2> QED
    BY <1>1, <1>3, <2>1, <2>2 DEF history
<1> QED
  BY <1>2, <1>3

(* A caller that asks for a refresh has an account and a token of it. *)
LEMMA ReadyFields ==
  ASSUME WellTyped, NEW r \in Callers, Ready(r)
  PROVE  /\ call[r].pc = IF r \in OnDemand THEN "outer" ELSE "loaded"
         /\ r \in OnDemand => MyTurn(r)
         /\ call[r].conn \in Connections /\ call[r].holds \in Versions
<1>1. /\ call[r].pc = IF r \in OnDemand THEN "outer" ELSE "loaded"
      /\ r \in OnDemand => MyTurn(r)
  BY DEF Ready
<1> QED
  BY <1>1, CallFields

(* What the callers do keeps the types. *)
LEMMA CallersTyped ==
  ASSUME WellTyped, NEW r \in Callers,
         \/ \E c \in Connections : Load(r, c)
         \/ Enter(r) \/ Share(r) \/ Start(r) \/ Abandon(r)
  PROVE  WellTyped'
<1>1. ASSUME NEW c \in Connections, Load(r, c) PROVE WellTyped'
  <2> DEFINE k == [pc |-> "loaded", conn |-> c, tries |-> 0,
                   attempted |-> row[c].token, holds |-> row[c].token]
  <2>1. row[c].token \in 0..MaxVersion /\ row[c].token > 0
    BY <1>1, RefreshAssumption DEF Load, WellTyped, Rows
  <2>2. k \in CallRecords
    BY <2>1, RefreshAssumption DEF CallRecords
  <2>3. k \in Calls
    BY <2>1, <2>2 DEF Calls
  <2>4. /\ call' = [call EXCEPT ![r] = k]
        /\ UNCHANGED <<accounts, row, rotated, flight, faults, history>>
    BY <1>1 DEF Load
  <2> HIDE DEF k
  <2>5. call' \in [Callers -> Calls]
    BY <2>3, <2>4, OneCall
  <2> QED
    BY <2>4, <2>5 DEF WellTyped, accounts, history
<1>2. ASSUME NEW p \in {"outer", "awaiting"}, call[r].pc \in {"loaded", "outer"},
             call' = [call EXCEPT ![r].pc = p]
      PROVE  call' \in [Callers -> Calls]
  <2>1. [call[r] EXCEPT !.pc = p] \in Calls
    BY <1>2, CallChanges
  <2>2. call' = [call EXCEPT ![r] = [call[r] EXCEPT !.pc = p]]
    BY <1>2
  <2> QED
    BY <2>1, <2>2, OneCall
<1>3. CASE Enter(r)
  <2>1. /\ call[r].pc = "loaded" /\ call' = [call EXCEPT ![r].pc = "outer"]
        /\ UNCHANGED <<accounts, row, rotated, flight, faults, history>>
    BY <1>3 DEF Enter
  <2>2. call' \in [Callers -> Calls]
    BY <1>2, <2>1
  <2> QED
    BY <2>1, <2>2 DEF WellTyped, accounts, history
<1>4. CASE Share(r)
  <2>1. /\ call[r].pc \in {"loaded", "outer"} /\ call' = [call EXCEPT ![r].pc = "awaiting"]
        /\ UNCHANGED <<accounts, row, rotated, flight, faults, history>>
    BY <1>4, ReadyFields DEF Share
  <2>2. call' \in [Callers -> Calls]
    BY <1>2, <2>1
  <2> QED
    BY <2>1, <2>2 DEF WellTyped, accounts, history
<1>5. CASE Start(r)
  <2> DEFINE f == [phase |-> "checking", token |-> call[r].holds, result |-> "null", owner |-> r,
                   saves |-> r \notin OnDemand,
                   guard |-> IF r \in Reactive THEN call[r].attempted ELSE 0]
  <2>1. /\ call[r].pc \in {"loaded", "outer"} /\ call[r].conn \in Connections
        /\ call[r].holds \in Versions
        /\ call' = [call EXCEPT ![r].pc = "awaiting"]
        /\ flight' = [flight EXCEPT ![call[r].conn] = f]
        /\ UNCHANGED <<accounts, row, rotated, faults, history>>
    BY <1>5, ReadyFields DEF Start
  <2>2. f \in Flights
    <3>0. call[r].attempted \in 0..MaxVersion
      BY CallFields
    <3>1. /\ call[r].holds \in 0..MaxVersion /\ call[r].holds > 0
          /\ call[r].attempted \in 0..MaxVersion /\ 0 \in 0..MaxVersion
      BY <2>1, <3>0, RefreshAssumption DEF Versions
    <3>2. (IF r \in Reactive THEN call[r].attempted ELSE 0) \in 0..MaxVersion
      BY <3>1
    <3>3. f \in FlightRecords
      BY <3>1, <3>2 DEF FlightRecords
    <3> QED
      BY <3>1, <3>3 DEF Flights
  <2> HIDE DEF f
  <2>3. call' \in [Callers -> Calls]
    BY <1>2, <2>1
  <2>4. flight' \in [Connections -> Flights]
    BY <2>1, <2>2, OneFlight
  <2> QED
    BY <2>1, <2>3, <2>4 DEF WellTyped, accounts, history
<1>6. CASE Abandon(r)
  <2>1. /\ call[r].pc = "awaiting" /\ call' = [call EXCEPT ![r] = TryAgain(call[r])]
        /\ UNCHANGED <<accounts, row, rotated, flight, faults, history>>
    BY <1>6 DEF Abandon
  <2>2. TryAgain(call[r]) \in Calls
    BY <2>1, CallChanges
  <2>3. call' \in [Callers -> Calls]
    BY <2>1, <2>2, OneCall
  <2> QED
    BY <2>1, <2>3 DEF WellTyped, accounts, history
<1> QED
  BY <1>1, <1>3, <1>4, <1>5, <1>6

(* So does what a redirected caller and the on-demand route write. *)
LEMMA WritersTyped ==
  ASSUME WellTyped, NEW r \in Callers, Redirect(r) \/ Return(r)
  PROVE  WellTyped'
<1>1. CASE Redirect(r)
  <2> DEFINE c == call[r].conn
             v == call[r].holds + 1
  <2>1. c \in Connections /\ call[r].pc \in {"loaded", "outer"}
    BY <1>1, ReadyFields DEF Redirect
  <2>2. v \in Versions
    <3>1. call[r].holds \in {x \in Versions : x < MaxVersion}
      BY <1>1, <2>1 DEF Redirect, WellTyped
    <3> QED
      BY <3>1, RefreshAssumption DEF Versions
  <2>3. /\ Write(c, v) \/ UNCHANGED row
        /\ call' = [call EXCEPT ![r] = WithToken(r, v)]
        /\ UNCHANGED <<accounts, rotated, flight, faults, lost>>
        /\ dropped' \in {dropped, dropped \cup {c}}
    BY <1>1 DEF Redirect, Drops
  <2> HIDE DEF c, v
  <2>4. row' \in [Connections -> Rows]
    BY <2>1, <2>2, <2>3, WriteEffect
  <2>5. WithToken(r, v) \in Calls
    <3>1. CASE r \in OnDemand
      <4>1. \A w \in 0..MaxVersion :
              call[r].pc # "idle" => [call[r] EXCEPT !.pc = "returning", !.holds = w] \in Calls
        BY CallChanges
      <4>2. v \in 0..MaxVersion
        BY <2>2, RefreshAssumption DEF Versions
      <4>3. [call[r] EXCEPT !.pc = "returning", !.holds = v] \in Calls
        BY <2>1, <4>1, <4>2
      <4>4. WithToken(r, v) = [call[r] EXCEPT !.pc = "returning", !.holds = v]
        BY <3>1 DEF WithToken
      <4> QED
        BY <4>3, <4>4, Zenon
    <3>2. CASE r \notin OnDemand
      BY <3>2, Resting DEF WithToken
    <3> QED
      BY <3>1, <3>2
  <2>6. call' \in [Callers -> Calls]
    BY <2>3, <2>5, OneCall
  <2> QED
    BY <2>1, <2>3, <2>4, <2>6 DEF WellTyped, accounts
<1>2. CASE Return(r)
  <2>1. /\ call[r].pc = "returning"
        /\ IF call[r].holds = 0 THEN UNCHANGED row ELSE Write(call[r].conn, call[r].holds)
        /\ call' = [call EXCEPT ![r] = Idle]
        /\ UNCHANGED <<accounts, rotated, flight, faults, lost>>
        /\ dropped' \in {dropped, dropped \cup {call[r].conn}}
    BY <1>2 DEF Return, Drops
  <2>2. row' \in [Connections -> Rows]
    <3>1. CASE call[r].holds = 0
      BY <2>1, <3>1 DEF WellTyped
    <3>2. CASE call[r].holds # 0
      <4>1. call[r].holds \in 0..MaxVersion /\ call[r].conn \in Connections
        BY <2>1, CallFields
      <4>2. call[r].holds \in Versions
        BY <3>2, <4>1, RefreshAssumption DEF Versions
      <4> QED
        BY <2>1, <3>2, <4>1, <4>2, WriteEffect
    <3> QED
      BY <3>1, <3>2
  <2>3. call' \in [Callers -> Calls]
    BY <2>1, Resting, OneCall
  <2>4. call[r].conn \in Connections
    BY <2>1, CallFields
  <2> QED
    BY <2>1, <2>2, <2>3, <2>4 DEF WellTyped, accounts
<1> QED
  BY <1>1, <1>2

(* The token a refresh queues with is one of its account. *)
LEMMA QueuedToken ==
  ASSUME WellTyped, NEW c \in Connections, Queue(c)
  PROVE  LET v == IF RowMovedOn(c) THEN row[c].token ELSE flight[c].token
         IN  /\ v \in Versions
             /\ flight[c].phase = "checking"
             /\ flight' = [flight EXCEPT ![c] = [flight[c] EXCEPT !.phase = "queued", !.token = v]]
             /\ flight'[c].phase = "queued" /\ flight'[c].token = v
             /\ \A e \in Connections \ {c} : flight'[e] = flight[e]
<1> DEFINE v == IF RowMovedOn(c) THEN row[c].token ELSE flight[c].token
<1>1. /\ flight[c].phase = "checking"
      /\ flight' = [flight EXCEPT ![c].phase = "queued", ![c].token = v]
  BY DEF Queue
<1>2. v \in Versions
  <2>1. CASE RowMovedOn(c)
    <3>1. row[c].token \in 0..MaxVersion /\ row[c].token # 0
      BY <2>1 DEF RowMovedOn, WellTyped, Rows
    <3> QED
      BY <2>1, <3>1, RefreshAssumption DEF Versions
  <2>2. CASE ~RowMovedOn(c)
    BY <1>1, <2>2, FlightFields
  <2> QED
    BY <2>1, <2>2
<1>3. flight \in [Connections -> Flights] /\ flight[c] \in FlightRecords
  BY DEF WellTyped, Flights
<1> HIDE DEF v
<1>4. flight' = [flight EXCEPT ![c] = [flight[c] EXCEPT !.phase = "queued", !.token = v]]
  BY <1>1, <1>3
<1>5. flight'[c].phase = "queued" /\ flight'[c].token = v
  BY <1>3, <1>4 DEF FlightRecords
<1>6. \A e \in Connections \ {c} : flight'[e] = flight[e]
  BY <1>3, <1>4
<1> QED
  BY <1>1, <1>2, <1>4, <1>5, <1>6 DEF v

(* An answer ends the exchange with the provider and changes nothing else of the
   refresh. *)
LEMMA AnswerEffect ==
  ASSUME WellTyped, NEW c \in Connections, NEW x \in {"token", "null", "reused"},
         Answered(c, x), x = "token" => flight[c].token < MaxVersion
  PROVE  /\ flight[c].phase = "minting"
         /\ flight' \in [Connections -> Flights]
         /\ flight'[c].phase = "minted" /\ flight'[c].result = x
         /\ flight'[c].token = flight[c].token
         /\ \A e \in Connections \ {c} : flight'[e] = flight[e]
<1>1. /\ flight[c].phase = "minting"
      /\ flight' = [flight EXCEPT ![c].phase = "minted", ![c].result = x]
  BY DEF Answered
<1>2. flight \in [Connections -> Flights] /\ flight[c] \in FlightRecords
  BY DEF WellTyped, Flights
<1> DEFINE f == [flight[c] EXCEPT !.phase = "minted", !.result = x]
<1>3. flight' = [flight EXCEPT ![c] = f]
  BY <1>1, <1>2
<1>4. f \in Flights
  <2>1. \A y \in {"token", "null", "reused"} :
          flight[c].phase # "none" /\ (y = "token" => flight[c].token < MaxVersion) =>
            [flight[c] EXCEPT !.phase = "minted", !.result = y] \in Flights
    BY FlightFields
  <2> QED
    BY <1>1, <2>1
<1>5. f.phase = "minted" /\ f.result = x /\ f.token = flight[c].token
  BY <1>2 DEF FlightRecords
<1> HIDE DEF f
<1>6. flight' \in [Connections -> Flights]
  BY <1>3, <1>4, OneFlight
<1> QED
  BY <1>1, <1>2, <1>3, <1>5, <1>6

(* What each refresh does on its way keeps the types. *)
LEMMA RefreshTyped ==
  ASSUME WellTyped, NEW c \in Connections, TakeFromRow(c) \/ Queue(c) \/ Mint(c)
  PROVE  WellTyped'
<1>1. CASE TakeFromRow(c)
  <2>1. /\ Deliver(c, row[c].token, TRUE)
        /\ UNCHANGED <<accounts, rotated, faults, history>>
    BY <1>1 DEF TakeFromRow
  <2>2. row[c].token \in Versions
    <3>1. row[c].token \in 0..MaxVersion /\ row[c].token # 0
      BY <1>1 DEF TakeFromRow, RowMovedOn, WellTyped, Rows
    <3> QED
      BY <3>1, RefreshAssumption DEF Versions
  <2>3. /\ flight' = [flight EXCEPT ![c] = NoFlight]
        /\ row' \in [Connections -> Rows] /\ call' \in [Callers -> Calls]
    BY <2>1, <2>2, DeliverEffect DEF Released
  <2>4. flight' \in [Connections -> Flights]
    BY <2>3, Resting, OneFlight
  <2> QED
    BY <2>1, <2>3, <2>4 DEF WellTyped, accounts, history
<1>2. CASE Queue(c)
  <2> DEFINE v == IF RowMovedOn(c) THEN row[c].token ELSE flight[c].token
             f == [flight[c] EXCEPT !.phase = "queued", !.token = v]
             o == flight[c].owner
  <2>1. v \in Versions /\ flight' = [flight EXCEPT ![c] = f]
    BY <1>2, QueuedToken
  <2>2. /\ call' = [call EXCEPT ![o].holds = v]
        /\ UNCHANGED <<accounts, row, rotated, faults, history>>
    BY <1>2 DEF Queue
  <2> HIDE DEF v
  <2>3. f \in Flights
    <3>1. \A p \in {"checking", "queued", "minting"}, w \in Versions :
            [flight[c] EXCEPT !.phase = p, !.token = w] \in Flights
      BY FlightFields
    <3> QED
      BY <2>1, <3>1
  <2> HIDE DEF f, o
  <2>4. flight' \in [Connections -> Flights]
    BY <2>1, <2>3, OneFlight
  <2>5. call' \in [Callers -> Calls]
    <3>1. CASE o \in Callers
      <4>1. \A w \in Versions : [call[o] EXCEPT !.holds = w] \in Calls
        BY <3>1, CallChanges
      <4>2. call' = [call EXCEPT ![o] = [call[o] EXCEPT !.holds = v]]
        BY <2>2
      <4> QED
        BY <2>1, <3>1, <4>1, <4>2, OneCall
    <3>2. CASE o \notin Callers
      <4>1. call' = call
        BY <2>2, <3>2 DEF WellTyped
      <4> QED
        BY <4>1 DEF WellTyped
    <3> QED
      BY <3>1, <3>2
  <2> QED
    BY <2>2, <2>4, <2>5 DEF WellTyped, accounts, history
<1>3. CASE Mint(c)
  <2> DEFINE f == [flight[c] EXCEPT !.phase = "minting", !.token = flight[c].token]
  <2>1. /\ flight[c].phase = "queued"
        /\ flight' = [flight EXCEPT ![c].phase = "minting"]
        /\ UNCHANGED <<accounts, row, rotated, call, faults, history>>
    BY <1>3 DEF Mint
  <2>2. flight[c] \in FlightRecords
    BY DEF WellTyped, Flights
  <2>3. flight' = [flight EXCEPT ![c] = f]
    BY <2>1, <2>2 DEF FlightRecords
  <2>4. f \in Flights
    <3>1. \A p \in {"checking", "queued", "minting"}, w \in Versions :
            [flight[c] EXCEPT !.phase = p, !.token = w] \in Flights
      BY FlightFields
    <3>2. flight[c].token \in Versions
      BY <2>1, FlightFields
    <3> QED
      BY <3>1, <3>2
  <2> HIDE DEF f
  <2>5. flight' \in [Connections -> Flights]
    BY <2>3, <2>4, OneFlight
  <2> QED
    BY <2>1, <2>5 DEF WellTyped, accounts, history
<1> QED
  BY <1>1, <1>2, <1>3

(* So do the provider's answers. *)
LEMMA AnswersTyped ==
  ASSUME WellTyped, NEW c \in Connections, Answer(c)
  PROVE  WellTyped'
<1>1. ASSUME NEW x \in {"token", "null", "reused"}, Answered(c, x),
             x = "token" => flight[c].token < MaxVersion
      PROVE  flight' \in [Connections -> Flights] /\ UNCHANGED <<row, rotated, call>>
  BY <1>1, AnswerEffect DEF Answered
<1>2. issued \in [Connections -> Versions] /\ alive \in [Connections -> BOOLEAN]
  BY DEF WellTyped
<1>3. ASSUME issued[c] < MaxVersion, issued' = [issued EXCEPT ![c] = @ + 1]
      PROVE  issued' \in [Connections -> Versions]
  <2>1. issued[c] + 1 \in Versions
    BY <1>2, <1>3, RefreshAssumption DEF Versions
  <2> QED
    BY <1>2, <1>3, <2>1
<1>4. CASE Accepted(c)
  <2>1. /\ flight[c].token = issued[c] /\ issued[c] < MaxVersion
        /\ issued' = [issued EXCEPT ![c] = @ + 1] /\ Answered(c, "token")
        /\ UNCHANGED <<alive, faults, history>>
    BY <1>4 DEF Accepted, Usable, Renewable
  <2>2. flight' \in [Connections -> Flights] /\ UNCHANGED <<row, rotated, call>>
    BY <1>1, <2>1
  <2> QED
    BY <1>3, <2>1, <2>2 DEF WellTyped, history
<1>5. CASE Reused(c)
  <2>1. /\ alive' = [alive EXCEPT ![c] = FALSE] /\ Answered(c, "reused")
        /\ UNCHANGED <<issued, faults, history>>
    BY <1>5 DEF Reused
  <2>2. flight' \in [Connections -> Flights] /\ UNCHANGED <<row, rotated, call>>
    BY <1>1, <2>1
  <2>3. alive' \in [Connections -> BOOLEAN]
    BY <1>2, <2>1
  <2> QED
    BY <2>1, <2>2, <2>3 DEF WellTyped, history
<1>6. CASE Unanswered(c)
  <2>1. Answered(c, "null") /\ UNCHANGED <<accounts, faults, history>>
    BY <1>6 DEF Unanswered
  <2>2. flight' \in [Connections -> Flights] /\ UNCHANGED <<row, rotated, call>>
    BY <1>1, <2>1
  <2> QED
    BY <2>1, <2>2 DEF WellTyped, accounts, history
<1>7. CASE ResponseLost(c)
  <2>1. /\ issued[c] < MaxVersion /\ faults < MaxFaults
        /\ issued' = [issued EXCEPT ![c] = @ + 1] /\ faults' = faults + 1
        /\ Answered(c, "null") /\ UNCHANGED <<alive, dropped>> /\ lost' = lost \cup {c}
    BY <1>7 DEF ResponseLost, Renewable
  <2>2. flight' \in [Connections -> Flights] /\ UNCHANGED <<row, rotated, call>>
    BY <1>1, <2>1
  <2>3. faults' \in 0..MaxFaults /\ lost' \subseteq Connections
    BY <2>1, RefreshAssumption DEF WellTyped
  <2> QED
    BY <1>3, <2>1, <2>2, <2>3 DEF WellTyped
<1> QED
  BY <1>4, <1>5, <1>6, <1>7 DEF Answer

(* So do the end of a refresh, time, and a restart. *)
LEMMA EndsTyped ==
  ASSUME WellTyped,
         \/ \E c \in Connections : Finish(c) \/ Age(c) \/ \E v \in Versions : Forget(c, v)
         \/ Restart
  PROVE  WellTyped'
<1>1. ASSUME NEW c \in Connections, Finish(c) PROVE WellTyped'
  <2>1. PICK v : Released(c, v)
    BY <1>1, FinishEffect
  <2>2. flight' \in [Connections -> Flights] /\ call' \in [Callers -> Calls]
    BY <2>1, Resting, OneFlight DEF Released
  <2>3. /\ row' \in [Connections -> Rows] /\ UNCHANGED accounts
        /\ lost' \subseteq lost \cup {c} /\ dropped' \subseteq dropped \cup {c}
        /\ flight[c].phase = "minted"
    BY <1>1, FinishEffect
  <2>4. faults' \in 0..MaxFaults
    <3>1. faults' = faults \/ (faults < MaxFaults /\ faults' = faults + 1)
      BY <1>1, FinishEffect
    <3> QED
      BY <3>1, RefreshAssumption DEF WellTyped
  <2>5. rotated' \in [Connections -> SUBSET {w \in Versions : w < MaxVersion}]
    <3>1. CASE flight[c].result = "token"
      <4>1. rotated' = [rotated EXCEPT ![c] = @ \cup {flight[c].token}]
        BY <1>1, <3>1, FinishEffect
      <4>2. flight[c].token \in {w \in Versions : w < MaxVersion}
        BY <2>3, <3>1, FlightFields
      <4> QED
        BY <4>1, <4>2 DEF WellTyped
    <3>2. CASE flight[c].result # "token"
      <4>1. UNCHANGED rotated
        BY <1>1, <3>2, FinishEffect
      <4> QED
        BY <4>1 DEF WellTyped
    <3> QED
      BY <3>1, <3>2
  <2> QED
    BY <2>2, <2>3, <2>4, <2>5 DEF WellTyped, accounts
<1>2. ASSUME NEW c \in Connections, Age(c) PROVE WellTyped'
  <2>1. /\ row' = [row EXCEPT ![c].fresh = FALSE]
        /\ UNCHANGED <<accounts, rotated, flight, call, faults, history>>
    BY <1>2 DEF Age
  <2>2. row' \in [Connections -> Rows]
    BY <2>1 DEF WellTyped, Rows
  <2> QED
    BY <2>1, <2>2 DEF WellTyped, accounts, history
<1>3. ASSUME NEW c \in Connections, NEW v \in Versions, Forget(c, v) PROVE WellTyped'
  <2>1. /\ rotated' = [rotated EXCEPT ![c] = @ \ {v}]
        /\ UNCHANGED <<accounts, row, flight, call, faults, history>>
    BY <1>3 DEF Forget
  <2>2. rotated' \in [Connections -> SUBSET {w \in Versions : w < MaxVersion}]
    BY <2>1 DEF WellTyped
  <2> QED
    BY <2>1, <2>2 DEF WellTyped, accounts, history
<1>4. CASE Restart
  <2>1. /\ faults < MaxFaults /\ faults' = faults + 1
        /\ rotated' = [c \in Connections |-> {}]
        /\ flight' = [c \in Connections |-> NoFlight]
        /\ call' = [r \in Callers |-> Idle]
        /\ lost' = lost \cup
             {c \in Connections : flight[c].phase = "minted" /\ flight[c].result = "token"}
        /\ UNCHANGED <<accounts, row, dropped>>
    BY <1>4 DEF Restart
  <2>2. flight' \in [Connections -> Flights] /\ call' \in [Callers -> Calls]
    BY <2>1, Resting
  <2>3. faults' \in 0..MaxFaults /\ lost' \subseteq Connections
    BY <2>1, RefreshAssumption DEF WellTyped
  <2>4. rotated' \in [Connections -> SUBSET {w \in Versions : w < MaxVersion}]
    BY <2>1
  <2> QED
    BY <2>1, <2>2, <2>3, <2>4 DEF WellTyped, accounts, history
<1> QED
  BY <1>1, <1>2, <1>3, <1>4

-----------------------------------------------------------------------------
(* Places in the lane *)

(* Refreshes and on-demand calls are different tickets of the lane, and only the
   on-demand route is a caller of that kind. *)
LEMMA TicketKinds ==
  /\ Connections \subseteq Tickets /\ OnDemand \subseteq Tickets
  /\ OnDemand \subseteq Callers
  /\ \A c \in Connections, d \in OnDemand : c # d
  /\ \A r \in Reactive : r \notin OnDemand
BY RefreshAssumption DEF Callers

(* A step that leaves the lane alone keeps the order in it. *)
LEMMA SameLane == LaneWell /\ UNCHANGED laneVars => LaneWell'
BY DEF LaneWell, laneVars, Once, ChainIsLine, InLane

(* A caller that moves within its own place, or outside the lane, and at most
   starts a refresh. *)
LEMMA CallerMoves ==
  ASSUME Places, UNCHANGED prev, NEW r \in Callers,
         \A q \in Callers \ {r} : call'[q].pc = call[q].pc,
         r \in OnDemand =>
           /\ call'[r].pc \in {"outer", "awaiting", "returning"}
                <=> call[r].pc \in {"outer", "awaiting", "returning"}
           /\ call'[r].pc \in {"awaiting", "returning"} => MyTurn(r),
         r \notin OnDemand => call'[r].pc \notin {"outer", "returning"},
         \A c \in Connections :
           \/ flight'[c].phase = flight[c].phase
           \/ flight[c].phase = "none" /\ flight'[c].phase = "checking"
  PROVE  Places'
<1>1. ASSUME NEW c \in Connections
      PROVE  /\ prev'[c] # Out <=> flight'[c].phase \in {"queued", "minting", "minted"}
             /\ flight'[c].phase \in {"minting", "minted"} => prev'[c] = None
  BY DEF Places, InLane, MyTurn
<1>2. ASSUME NEW d \in OnDemand
      PROVE  /\ prev'[d] # Out <=> call'[d].pc \in {"outer", "awaiting", "returning"}
             /\ call'[d].pc \in {"awaiting", "returning"} => prev'[d] = None
  <2>1. d \in Callers
    BY TicketKinds
  <2>2. CASE d = r
    BY <2>2 DEF Places, InLane, MyTurn
  <2>3. CASE d # r
    BY <2>1, <2>3 DEF Places, InLane, MyTurn
  <2> QED
    BY <2>2, <2>3
<1>3. ASSUME NEW q \in Callers \ OnDemand
      PROVE  call'[q].pc \notin {"outer", "returning"}
  BY DEF Places
<1> QED
  BY <1>1, <1>2, <1>3 DEF Places, InLane, MyTurn

(* Those who awaited a refresh: the on-demand route keeps its place. *)
LEMMA AwaitersMove ==
  ASSUME Places, NEW c \in Connections, NEW v, Released(c, v)
  PROVE  /\ \A d \in OnDemand :
              /\ call'[d].pc \in {"outer", "awaiting", "returning"} <=> InLane(d)
              /\ call'[d].pc \in {"awaiting", "returning"} => MyTurn(d)
         /\ \A r \in Callers \ OnDemand : call'[r].pc \notin {"outer", "returning"}
<1>0. ASSUME NEW r \in Callers
      PROVE  \/ call'[r].pc = call[r].pc
             \/ call[r].pc = "awaiting" /\ IF r \in OnDemand THEN call'[r].pc = "returning"
                                           ELSE call'[r].pc \in {"idle", "loaded"}
  BY DEF Released, Awaiting
<1>1. ASSUME NEW d \in OnDemand
      PROVE  /\ call'[d].pc \in {"outer", "awaiting", "returning"} <=> InLane(d)
             /\ call'[d].pc \in {"awaiting", "returning"} => MyTurn(d)
  <2>1. d \in Callers
    BY TicketKinds
  <2> QED
    BY <1>0, <2>1 DEF Places
<1>2. ASSUME NEW r \in Callers \ OnDemand
      PROVE  call'[r].pc \notin {"outer", "returning"}
  BY <1>0 DEF Places
<1> QED
  BY <1>1, <1>2

(* Everything a caller does but for taking and leaving its own place. *)
LEMMA CallersInPlace ==
  ASSUME WellTyped, LaneWell, Places, NEW r \in Callers,
         \/ \E c \in Connections : Load(r, c)
         \/ Share(r) \/ Redirect(r) \/ Start(r) \/ Abandon(r)
  PROVE  LaneWell' /\ Places'
<1>0. UNCHANGED laneVars
  BY DEF Load, Share, Redirect, Start, Abandon
<1>1. LaneWell' /\ UNCHANGED prev
  BY <1>0, SameLane DEF laneVars
<1>2. call \in [Callers -> Calls] /\ call[r] \in CallRecords
  BY DEF WellTyped, Calls
<1>3. ASSUME call' = [call EXCEPT ![r].pc = "awaiting"]
      PROVE  call'[r].pc = "awaiting" /\ \A q \in Callers \ {r} : call'[q].pc = call[q].pc
  BY <1>2, <1>3 DEF CallRecords
<1>4. ASSUME NEW k, call' = [call EXCEPT ![r] = k]
      PROVE  call'[r] = k /\ \A q \in Callers \ {r} : call'[q].pc = call[q].pc
  BY <1>2, <1>4
<1>5. ASSUME NEW c \in Connections, Load(r, c) PROVE Places'
  <2> DEFINE k == [pc |-> "loaded", conn |-> c, tries |-> 0,
                   attempted |-> row[c].token, holds |-> row[c].token]
  <2>1. /\ call[r].pc = "idle" /\ UNCHANGED flight
        /\ call' = [call EXCEPT ![r] = k]
    BY <1>5 DEF Load
  <2>2. k.pc = "loaded"
    OBVIOUS
  <2> HIDE DEF k
  <2>3. call'[r].pc = "loaded" /\ \A q \in Callers \ {r} : call'[q].pc = call[q].pc
    BY <1>4, <2>1, <2>2
  <2> QED
    BY <1>1, <2>1, <2>3, CallerMoves
<1>6. CASE Share(r)
  <2>1. call'[r].pc = "awaiting" /\ \A q \in Callers \ {r} : call'[q].pc = call[q].pc
    BY <1>3, <1>6 DEF Share
  <2>2. UNCHANGED flight /\ Ready(r)
    BY <1>6 DEF Share
  <2>3. /\ call[r].pc = IF r \in OnDemand THEN "outer" ELSE "loaded"
        /\ r \in OnDemand => MyTurn(r)
    BY <2>2, ReadyFields
  <2> QED
    BY <1>1, <2>1, <2>2, <2>3, CallerMoves
<1>7. CASE Start(r)
  <2>1. call'[r].pc = "awaiting" /\ \A q \in Callers \ {r} : call'[q].pc = call[q].pc
    BY <1>3, <1>7 DEF Start
  <2>2. Ready(r)
    BY <1>7 DEF Start
  <2>3. /\ call[r].pc = IF r \in OnDemand THEN "outer" ELSE "loaded"
        /\ r \in OnDemand => MyTurn(r)
    BY <2>2, ReadyFields
  <2>4. \A c \in Connections :
           \/ flight'[c].phase = flight[c].phase
           \/ flight[c].phase = "none" /\ flight'[c].phase = "checking"
    <3>1. flight \in [Connections -> Flights]
      BY DEF WellTyped
    <3> QED
      BY <1>7, <3>1 DEF Start
  <2> QED
    BY <1>1, <2>1, <2>3, <2>4, CallerMoves
<1>8. CASE Redirect(r)
  <2> DEFINE k == WithToken(r, call[r].holds + 1)
  <2>1. call' = [call EXCEPT ![r] = k] /\ UNCHANGED flight /\ Ready(r)
    BY <1>8 DEF Redirect
  <2>2. k.pc = IF r \in OnDemand THEN "returning" ELSE "idle"
    BY <1>2 DEF WithToken, CallRecords, Idle
  <2> HIDE DEF k
  <2>3. /\ call'[r].pc = IF r \in OnDemand THEN "returning" ELSE "idle"
        /\ \A q \in Callers \ {r} : call'[q].pc = call[q].pc
    BY <1>4, <2>1, <2>2
  <2>4. /\ call[r].pc = IF r \in OnDemand THEN "outer" ELSE "loaded"
        /\ r \in OnDemand => MyTurn(r)
    BY <2>1, ReadyFields
  <2> QED
    BY <1>1, <2>1, <2>3, <2>4, CallerMoves
<1>9. CASE Abandon(r)
  <2> DEFINE k == TryAgain(call[r])
  <2>1. call' = [call EXCEPT ![r] = k] /\ UNCHANGED flight /\ r \notin OnDemand
    BY <1>9, TicketKinds DEF Abandon
  <2>2. k.pc \in {"idle", "loaded"}
    BY <1>2 DEF TryAgain, CallRecords, Idle
  <2> HIDE DEF k
  <2>3. /\ call'[r].pc \in {"idle", "loaded"}
        /\ \A q \in Callers \ {r} : call'[q].pc = call[q].pc
    BY <1>4, <2>1, <2>2
  <2> QED
    BY <1>1, <2>1, <2>3, CallerMoves
<1> QED
  BY <1>1, <1>5, <1>6, <1>7, <1>8, <1>9

(* The on-demand route takes its place, and leaves it. *)
LEMMA OnDemandInPlace ==
  ASSUME WellTyped, LaneWell, Places, NEW r \in Callers, Enter(r) \/ Return(r)
  PROVE  LaneWell' /\ Places'
<1>0. call \in [Callers -> Calls] /\ call[r] \in CallRecords
  BY DEF WellTyped, Calls
<1>1. r \in OnDemand
  BY DEF Enter, Return, Places
<1>2. r \in Tickets
  BY <1>1, TicketKinds
<1>3. UNCHANGED flight
  BY DEF Enter, Return
<1>4. CASE Enter(r)
  <2>1. LaneWell' /\ prev'[r] # Out /\ \A u \in Tickets \ {r} : prev'[u] = prev[u]
    BY <1>2, <1>4, JoinLane DEF Enter
  <2>2. call'[r].pc = "outer" /\ \A q \in Callers \ {r} : call'[q].pc = call[q].pc
    BY <1>0, <1>4 DEF Enter, CallRecords
  <2>3. ASSUME NEW c \in Connections
        PROVE  prev'[c] = prev[c]
    BY <1>1, <2>1, TicketKinds
  <2>4. ASSUME NEW d \in OnDemand
        PROVE  /\ prev'[d] # Out <=> call'[d].pc \in {"outer", "awaiting", "returning"}
               /\ call'[d].pc \in {"awaiting", "returning"} => prev'[d] = None
    <3>1. d \in Callers /\ d \in Tickets
      BY TicketKinds
    <3>2. CASE d = r
      BY <2>1, <2>2, <3>2
    <3>3. CASE d # r
      BY <2>1, <2>2, <3>1, <3>3 DEF Places, InLane, MyTurn
    <3> QED
      BY <3>2, <3>3
  <2>5. \A q \in Callers \ OnDemand : call'[q].pc \notin {"outer", "returning"}
    BY <1>1, <2>2 DEF Places
  <2> QED
    BY <1>3, <2>1, <2>3, <2>4, <2>5 DEF Places, InLane, MyTurn
<1>5. CASE Return(r)
  <2>1. /\ LaneWell' /\ prev'[r] = Out
        /\ \A u \in Tickets \ {r} :
             /\ prev'[u] = Out <=> prev[u] = Out
             /\ prev[u] = None => prev'[u] = None
    BY <1>2, <1>5, LeaveLane DEF Return
  <2>2. call'[r].pc = "idle" /\ \A q \in Callers \ {r} : call'[q].pc = call[q].pc
    BY <1>0, <1>5 DEF Return, Idle
  <2>3. ASSUME NEW c \in Connections
        PROVE  (prev'[c] = Out <=> prev[c] = Out) /\ (prev[c] = None => prev'[c] = None)
    BY <1>1, <2>1, TicketKinds
  <2>4. ASSUME NEW d \in OnDemand
        PROVE  /\ prev'[d] # Out <=> call'[d].pc \in {"outer", "awaiting", "returning"}
               /\ call'[d].pc \in {"awaiting", "returning"} => prev'[d] = None
    <3>1. d \in Callers /\ d \in Tickets
      BY TicketKinds
    <3>2. CASE d = r
      BY <2>1, <2>2, <3>2
    <3>3. CASE d # r
      BY <2>1, <2>2, <3>1, <3>3 DEF Places, InLane, MyTurn
    <3> QED
      BY <3>2, <3>3
  <2>5. \A q \in Callers \ OnDemand : call'[q].pc \notin {"outer", "returning"}
    BY <1>1, <2>2 DEF Places
  <2> QED
    BY <1>3, <2>1, <2>3, <2>4, <2>5 DEF Places, InLane, MyTurn
<1> QED
  BY <1>4, <1>5

(* A refresh that needs no place, and one that has its turn. *)
LEMMA RefreshInPlace ==
  ASSUME WellTyped, LaneWell, Places, NEW c \in Connections,
         TakeFromRow(c) \/ Mint(c) \/ Answer(c)
  PROVE  LaneWell' /\ Places'
<1>0. UNCHANGED laneVars
  BY DEF TakeFromRow, Mint, Answer, Accepted, Reused, Unanswered, ResponseLost, Answered
<1>1. LaneWell' /\ UNCHANGED prev
  BY <1>0, SameLane DEF laneVars
<1>2. flight \in [Connections -> Flights] /\ flight[c] \in FlightRecords
  BY DEF WellTyped, Flights
<1>3. CASE TakeFromRow(c)
  <2>1. flight[c].phase = "checking" /\ Deliver(c, row[c].token, TRUE)
    BY <1>3 DEF TakeFromRow
  <2>2. row[c].token \in Versions
    <3>1. row[c].token \in 0..MaxVersion /\ row[c].token # 0
      BY <1>3 DEF TakeFromRow, RowMovedOn, WellTyped, Rows
    <3> QED
      BY <3>1, RefreshAssumption DEF Versions
  <2>3. Released(c, row[c].token) /\ flight' = [flight EXCEPT ![c] = NoFlight]
    BY <2>1, <2>2, DeliverEffect DEF Released
  <2>4. /\ \A d \in OnDemand :
             /\ call'[d].pc \in {"outer", "awaiting", "returning"} <=> InLane(d)
             /\ call'[d].pc \in {"awaiting", "returning"} => MyTurn(d)
        /\ \A r \in Callers \ OnDemand : call'[r].pc \notin {"outer", "returning"}
    BY <2>3, AwaitersMove
  <2>5. flight'[c].phase = "none" /\ \A e \in Connections \ {c} : flight'[e] = flight[e]
    BY <1>2, <2>3 DEF NoFlight
  <2> QED
    BY <1>1, <2>1, <2>4, <2>5 DEF Places, InLane, MyTurn
<1>4. CASE Mint(c)
  <2>1. /\ flight[c].phase = "queued" /\ MyTurn(c) /\ UNCHANGED call
        /\ flight' = [flight EXCEPT ![c].phase = "minting"]
    BY <1>4 DEF Mint
  <2>2. flight'[c].phase = "minting" /\ \A e \in Connections \ {c} : flight'[e] = flight[e]
    BY <1>2, <2>1 DEF FlightRecords
  <2> QED
    BY <1>1, <2>1, <2>2 DEF Places, InLane, MyTurn
<1>5. ASSUME NEW x, Answered(c, x) PROVE Places'
  <2>1. /\ flight[c].phase = "minting" /\ UNCHANGED call
        /\ flight' = [flight EXCEPT ![c].phase = "minted", ![c].result = x]
    BY <1>5 DEF Answered
  <2>2. flight'[c].phase = "minted" /\ \A e \in Connections \ {c} : flight'[e] = flight[e]
    BY <1>2, <2>1 DEF FlightRecords
  <2> QED
    BY <1>1, <2>1, <2>2 DEF Places, InLane, MyTurn
<1> QED
  BY <1>1, <1>3, <1>4, <1>5 DEF Answer, Accepted, Reused, Unanswered, ResponseLost

(* A refresh takes its place in the lane. *)
LEMMA QueueInPlace ==
  ASSUME WellTyped, LaneWell, Places, NEW c \in Connections, Queue(c)
  PROVE  LaneWell' /\ Places'
<1>1. /\ LaneWell' /\ prev'[c] # Out
      /\ \A u \in Tickets \ {c} : prev'[u] = prev[u]
  <2>1. c \in Tickets /\ Join(c)
    BY TicketKinds DEF Queue
  <2> QED
    BY <2>1, JoinLane
<1>2. /\ flight'[c].phase = "queued"
      /\ \A e \in Connections \ {c} : flight'[e] = flight[e]
  BY QueuedToken
<1>3. \A r \in Callers : call'[r].pc = call[r].pc
  <2> DEFINE v == IF RowMovedOn(c) THEN row[c].token ELSE flight[c].token
             o == flight[c].owner
  <2>1. call' = [call EXCEPT ![o].holds = v]
    BY DEF Queue
  <2>2. call \in [Callers -> CallRecords]
    BY DEF WellTyped, Calls
  <2> HIDE DEF v, o
  <2> QED
    BY <2>1, <2>2 DEF CallRecords
<1>4. ASSUME NEW e \in Connections
      PROVE  /\ prev'[e] # Out <=> flight'[e].phase \in {"queued", "minting", "minted"}
             /\ flight'[e].phase \in {"minting", "minted"} => prev'[e] = None
  <2>1. CASE e = c
    BY <1>1, <1>2, <2>1
  <2>2. CASE e # c
    BY <1>1, <1>2, <2>2, TicketKinds DEF Places, InLane, MyTurn
  <2> QED
    BY <2>1, <2>2
<1>5. ASSUME NEW d \in OnDemand
      PROVE  /\ prev'[d] # Out <=> call'[d].pc \in {"outer", "awaiting", "returning"}
             /\ call'[d].pc \in {"awaiting", "returning"} => prev'[d] = None
  <2>1. prev'[d] = prev[d] /\ call'[d].pc = call[d].pc
    BY <1>1, <1>3, TicketKinds
  <2> QED
    BY <2>1 DEF Places, InLane, MyTurn
<1>6. \A r \in Callers \ OnDemand : call'[r].pc \notin {"outer", "returning"}
  BY <1>3 DEF Places
<1> QED
  BY <1>1, <1>4, <1>5, <1>6 DEF Places, InLane, MyTurn

(* A refresh leaves the lane, and with it those who await it but for the on-demand
   route, which keeps its place. *)
LEMMA FinishInPlace ==
  ASSUME WellTyped, LaneWell, Places, NEW c \in Connections, Finish(c)
  PROVE  LaneWell' /\ Places'
<1>1. /\ LaneWell' /\ prev'[c] = Out
      /\ \A u \in Tickets \ {c} :
           /\ prev'[u] = Out <=> prev[u] = Out
           /\ prev[u] = None => prev'[u] = None
  <2>1. c \in Tickets /\ Leave(c)
    BY TicketKinds, FinishEffect
  <2> QED
    BY <2>1, LeaveLane
<1>2. PICK v : Released(c, v)
  BY FinishEffect
<1>3. /\ \A d \in OnDemand :
           /\ call'[d].pc \in {"outer", "awaiting", "returning"} <=> InLane(d)
           /\ call'[d].pc \in {"awaiting", "returning"} => MyTurn(d)
      /\ \A r \in Callers \ OnDemand : call'[r].pc \notin {"outer", "returning"}
  BY <1>2, AwaitersMove
<1>4. flight'[c].phase = "none" /\ \A e \in Connections \ {c} : flight'[e] = flight[e]
  BY <1>2 DEF Released, NoFlight, WellTyped
<1>5. ASSUME NEW e \in Connections
      PROVE  /\ prev'[e] # Out <=> flight'[e].phase \in {"queued", "minting", "minted"}
             /\ flight'[e].phase \in {"minting", "minted"} => prev'[e] = None
  <2>1. CASE e = c
    BY <1>1, <1>4, <2>1
  <2>2. CASE e # c
    BY <1>1, <1>4, <2>2, TicketKinds DEF Places, InLane, MyTurn
  <2> QED
    BY <2>1, <2>2
<1>6. ASSUME NEW d \in OnDemand
      PROVE  /\ prev'[d] # Out <=> call'[d].pc \in {"outer", "awaiting", "returning"}
             /\ call'[d].pc \in {"awaiting", "returning"} => prev'[d] = None
  <2>1. d \in Tickets \ {c}
    BY TicketKinds
  <2> QED
    BY <1>1, <1>3, <2>1 DEF InLane, MyTurn
<1> QED
  BY <1>1, <1>3, <1>5, <1>6 DEF Places, InLane, MyTurn

(* Time leaves the lane alone; a restart empties it. *)
LEMMA OthersInPlace ==
  ASSUME WellTyped, LaneWell, Places,
         \/ \E c \in Connections : Age(c) \/ \E v \in Versions : Forget(c, v)
         \/ Restart
  PROVE  LaneWell' /\ Places'
<1>1. CASE UNCHANGED <<laneVars, flight, call>>
  <2>1. LaneWell'
    BY <1>1, SameLane
  <2> QED
    BY <1>1, <2>1 DEF Places, InLane, MyTurn, laneVars
<1>2. CASE Restart
  <2>1. LaneWell' /\ \A t \in Tickets : prev'[t] = Out
    BY <1>2, LostLane DEF Restart
  <2>2. \A c \in Connections : flight'[c].phase = "none"
    BY <1>2 DEF Restart, NoFlight
  <2>3. \A r \in Callers : call'[r].pc = "idle"
    BY <1>2 DEF Restart, Idle
  <2> QED
    BY <2>1, <2>2, <2>3, TicketKinds DEF Places, InLane, MyTurn
<1> QED
  BY <1>1, <1>2 DEF Age, Forget

-----------------------------------------------------------------------------
(* The newest token *)

(* Accounts do not become safe again. *)
LEMMA SafeShrinks == lost \subseteq lost' /\ dropped \subseteq dropped' => Safe' \subseteq Safe
BY DEF Safe

(* What a step keeps of a safe account whose row and refresh it leaves alone. *)
LEMMA StillKnown ==
  ASSUME NewestKept, NEW e \in Safe,
         issued'[e] = issued[e], alive'[e] = alive[e], row'[e].active = row[e].active,
         row'[e].token = row[e].token, flight'[e] = flight[e]
  PROVE  Known(e)'
BY DEF NewestKept, Known, InHand

(* What it keeps when the account has no refresh then, or one that only looks. *)
LEMMA KnownAtRest ==
  ASSUME NewestKept, NEW e \in Safe, row'[e].token = issued'[e],
         alive'[e] = alive[e], row'[e].active = row[e].active,
         flight'[e].phase \in {"none", "checking"}
  PROVE  Known(e)'
BY DEF NewestKept, Known, InHand

(* The callers look, wait, give up waiting, or start a refresh: they write
   nothing, and nobody stops awaiting a refresh that only looks. *)
LEMMA CallersNotAhead ==
  ASSUME WellTyped, NotAhead, NEW r \in Callers,
         \/ \E c \in Connections : Load(r, c)
         \/ Enter(r) \/ Share(r) \/ Start(r) \/ Abandon(r)
  PROVE  NotAhead'
<1>1. UNCHANGED <<issued, row, rotated>>
  BY DEF Load, Enter, Share, Start, Abandon, accounts
<1>2. /\ call'[r].pc # "returning" /\ \A q \in Callers \ {r} : call'[q] = call[q]
      /\ call[r].pc = "awaiting" => flight[call[r].conn].phase # "checking"
      /\ UNCHANGED flight
           \/ /\ Start(r) /\ call[r].conn \in Connections
              /\ call'[r].pc = "awaiting" /\ call'[r].conn = call[r].conn
  <2>1. call \in [Callers -> Calls] /\ call[r] \in CallRecords
    BY DEF WellTyped, Calls
  <2>2. CASE \E c \in Connections : Load(r, c)
    <3>1. PICK c \in Connections : Load(r, c)
      BY <2>2
    <3> DEFINE k == [pc |-> "loaded", conn |-> c, tries |-> 0,
                     attempted |-> row[c].token, holds |-> row[c].token]
    <3>2. call[r].pc = "idle" /\ call' = [call EXCEPT ![r] = k] /\ UNCHANGED flight
      BY <3>1 DEF Load
    <3>3. k.pc = "loaded"
      OBVIOUS
    <3> HIDE DEF k
    <3> QED
      BY <2>1, <3>2, <3>3
  <2>3. CASE Enter(r)
    BY <2>1, <2>3 DEF Enter, CallRecords
  <2>4. CASE Share(r)
    BY <2>1, <2>4, ReadyFields DEF Share, CallRecords
  <2>5. CASE Start(r)
    <3>1. call' = [call EXCEPT ![r].pc = "awaiting"] /\ call[r].conn \in Connections
          /\ call[r].pc \in {"outer", "loaded"}
      BY <2>5, ReadyFields DEF Start
    <3> QED
      BY <2>1, <2>5, <3>1 DEF CallRecords
  <2>6. CASE Abandon(r)
    <3>1. call' = [call EXCEPT ![r] = TryAgain(call[r])] /\ UNCHANGED flight
          /\ flight[call[r].conn].phase # "checking"
      BY <2>6 DEF Abandon
    <3>2. TryAgain(call[r]).pc \in {"idle", "loaded"}
      BY <2>1 DEF TryAgain, CallRecords, Idle
    <3> QED
      BY <2>1, <3>1, <3>2
  <2> QED
    BY <2>2, <2>3, <2>4, <2>5, <2>6
<1>3. ASSUME NEW d \in OnDemand, call'[d].pc = "returning"
      PROVE  call'[d].holds <= issued'[call'[d].conn]
  <2>1. d \in Callers \ {r}
    BY <1>2, <1>3, TicketKinds
  <2>2. call'[d] = call[d]
    BY <1>2, <2>1
  <2> QED
    BY <1>1, <1>3, <2>2 DEF NotAhead
<1>4. ASSUME NEW c \in Connections, flight'[c] = flight[c]
      PROVE  /\ flight'[c].phase = "minted" /\ flight'[c].result = "token" =>
                  flight'[c].token + 1 = issued'[c]
             /\ flight'[c].phase = "checking" => flight'[c].owner \in Awaiting(c)'
  <2>1. ASSUME flight[c].phase = "checking"
        PROVE  flight[c].owner \in Callers \ {r} /\ flight[c].owner \in Awaiting(c)
    BY <1>2, <2>1 DEF NotAhead, Awaiting
  <2>2. ASSUME flight[c].phase = "checking"
        PROVE  flight[c].owner \in Awaiting(c)'
    BY <1>2, <2>1, <2>2 DEF Awaiting
  <2> QED
    BY <1>1, <1>4, <2>2 DEF NotAhead
<1>5. CASE UNCHANGED flight
  BY <1>1, <1>3, <1>4, <1>5 DEF NotAhead
<1>6. CASE ~UNCHANGED flight
  <2> DEFINE c == call[r].conn
  <2>1. Start(r) /\ c \in Connections /\ call'[r].pc = "awaiting" /\ call'[r].conn = c
    BY <1>2, <1>6
  <2>2. flight \in [Connections -> Flights]
    BY DEF WellTyped
  <2>3. \A e \in Connections \ {c} : flight'[e] = flight[e]
    BY <2>1, <2>2 DEF Start
  <2>4. flight'[c].phase = "checking" /\ flight'[c].owner = r
    BY <2>1, <2>2 DEF Start
  <2> HIDE DEF c
  <2>5. \A e \in Connections :
          /\ flight'[e].phase = "minted" /\ flight'[e].result = "token" =>
               flight'[e].token + 1 = issued'[e]
          /\ flight'[e].phase = "checking" => flight'[e].owner \in Awaiting(e)'
    <3> TAKE e \in Connections
    <3>1. CASE e = c
      <4>1. r \in Awaiting(e)'
        BY <2>1, <3>1 DEF Awaiting
      <4> QED
        BY <2>4, <3>1, <4>1
    <3>2. CASE e # c
      BY <1>4, <2>3, <3>2
    <3> QED
      BY <3>1, <3>2
  <2> QED
    BY <1>1, <1>3, <2>5 DEF NotAhead
<1> QED
  BY <1>5, <1>6

(* No token is presented. *)
LEMMA CallersKnow ==
  ASSUME WellTyped, NewestKept, NEW r \in Callers,
         \/ \E c \in Connections : Load(r, c)
         \/ Enter(r) \/ Share(r) \/ Start(r) \/ Abandon(r)
  PROVE  NewestKept'
<1>1. UNCHANGED <<issued, alive, row, lost, dropped>>
  BY DEF Load, Enter, Share, Start, Abandon, accounts, history
<1>2. CASE UNCHANGED flight
  BY <1>1, <1>2 DEF NewestKept, Safe, Known, InHand
<1>3. CASE Start(r)
  <2> DEFINE c == call[r].conn
  <2>1. flight \in [Connections -> Flights] /\ flight[c].phase = "none"
    BY <1>3 DEF Start, WellTyped
  <2>2. /\ \A e \in Connections \ {c} : flight'[e] = flight[e]
        /\ c \in Connections => flight'[c].phase = "checking"
    BY <1>3, <2>1 DEF Start
  <2> SUFFICES ASSUME NEW e \in Safe' PROVE Known(e)'
    BY DEF NewestKept
  <2>3. e \in Connections /\ Known(e)
    BY <1>1 DEF NewestKept, Safe
  <2>4. CASE e = c
    BY <1>1, <2>1, <2>2, <2>3, <2>4 DEF Known, InHand
  <2>5. CASE e # c
    BY <1>1, <2>2, <2>3, <2>5 DEF Known, InHand
  <2> QED
    BY <2>4, <2>5
<1> QED
  BY <1>2, <1>3 DEF Load, Enter, Share, Abandon

(* The callers that write the row write a token they have from the rotation map
   or from a refresh, when no refresh of the account is at the provider: if it is
   not the newest, the history notes what it replaces. *)
LEMMA WritersEffect ==
  ASSUME WellTyped, LaneWell, Places, NotAhead, NEW r \in Callers, Redirect(r) \/ Return(r)
  PROVE  LET c == call[r].conn
         IN  /\ c \in Connections /\ flight[c].phase \notin {"minting", "minted"}
             /\ UNCHANGED <<issued, alive, rotated, flight, lost>>
             /\ dropped \subseteq dropped'
             /\ \A e \in Connections : row'[e].active = row[e].active
             /\ \A e \in Connections \ {c} : row'[e] = row[e]
             /\ row'[c].token <= issued[c]
             /\ row[c].token = issued[c] /\ c \notin dropped' => row'[c].token = issued[c]
             /\ call[r].pc # "awaiting" /\ \A q \in Callers \ {r} : call'[q] = call[q]
             /\ call'[r].pc = "returning" =>
                  call'[r].conn = c /\ call'[r].holds <= issued[c]
<1> DEFINE c == call[r].conn
<1>1. call \in [Callers -> Calls] /\ call[r] \in CallRecords /\ row \in [Connections -> Rows]
  BY DEF WellTyped, Calls
<1>2. CASE Redirect(r)
  <2> DEFINE v == call[r].holds + 1
  <2>1. c \in Connections /\ call[r].pc \in {"loaded", "outer"}
    BY <1>2, ReadyFields DEF Redirect
  <2>2. v \in Versions /\ v <= issued[c] /\ row[c].token <= issued[c]
    <3>1. call[r].holds \in rotated[c]
      BY <1>2 DEF Redirect
    <3>2. call[r].holds \in {x \in Versions : x < MaxVersion} /\ call[r].holds < issued[c]
      BY <2>1, <3>1 DEF WellTyped, NotAhead
    <3>3. issued[c] \in Versions
      BY <2>1 DEF WellTyped
    <3>4. row[c].token <= issued[c]
      BY <2>1 DEF NotAhead
    <3> QED
      BY <3>2, <3>3, <3>4, RefreshAssumption DEF Versions
  <2>3. /\ IF r \in OnDemand THEN UNCHANGED row ELSE Write(c, v)
        /\ Drops(c, r \notin OnDemand /\ v < row[c].token)
        /\ UNCHANGED <<issued, alive, rotated, flight, lost>>
        /\ call' = [call EXCEPT ![r] = WithToken(r, v)]
        /\ flight[c].phase = "none"
    BY <1>2 DEF Redirect, accounts
  <2>4. WithToken(r, v).pc = "returning" =>
          WithToken(r, v).conn = c /\ WithToken(r, v).holds = v
    BY <1>1 DEF WithToken, Idle, CallRecords
  <2>5. call'[r] = WithToken(r, v) /\ \A q \in Callers \ {r} : call'[q] = call[q]
    BY <1>1, <2>3
  <2> HIDE DEF v, c
  <2>6. /\ \A e \in Connections : row'[e].active = row[e].active
        /\ \A e \in Connections \ {c} : row'[e] = row[e]
        /\ row'[c].token \in {row[c].token, v}
    BY <2>1, <2>2, <2>3, WriteEffect
  <2>7. dropped \subseteq dropped'
    BY <2>3 DEF Drops
  <2>8. ASSUME row[c].token = issued[c], c \notin dropped'
        PROVE  row'[c].token = issued[c]
    <3>1. CASE r \in OnDemand
      BY <2>3, <2>8, <3>1
    <3>2. CASE r \notin OnDemand
      <4>1. ~(v < row[c].token)
        BY <2>3, <2>8, <3>2 DEF Drops
      <4>2. v \in Nat /\ issued[c] \in Nat
        BY <2>1, <2>2 DEF WellTyped, Versions
      <4> QED
        BY <2>2, <2>6, <2>8, <4>1, <4>2
    <3> QED
      BY <3>1, <3>2
  <2>9. row'[c].token <= issued[c]
    BY <2>2, <2>6
  <2>10. call'[r].pc = "returning" => call'[r].conn = c /\ call'[r].holds <= issued[c]
    BY <2>2, <2>4, <2>5
  <2>11. flight[c].phase \notin {"minting", "minted"} /\ call[r].pc # "awaiting"
    BY <2>1, <2>3
  <2> QED
    BY <2>1, <2>3, <2>5, <2>6, <2>7, <2>8, <2>9, <2>10, <2>11 DEF c
<1>3. CASE Return(r)
  <2> DEFINE v == call[r].holds
  <2>1. /\ call[r].pc = "returning" /\ MyTurn(r)
        /\ IF v = 0 THEN UNCHANGED row ELSE Write(c, v)
        /\ Drops(c, v # 0 /\ v < row[c].token)
        /\ call' = [call EXCEPT ![r] = Idle]
        /\ UNCHANGED <<issued, alive, rotated, flight, lost>>
    BY <1>3 DEF Return, Leave, accounts
  <2>2. c \in Connections /\ v \in 0..MaxVersion /\ r \in OnDemand
    BY <2>1, CallFields DEF Places
  <2>3. row[c].token <= issued[c] /\ v <= issued[c] /\ issued[c] \in Versions
    BY <2>1, <2>2 DEF NotAhead, WellTyped
  <2>4. flight[c].phase \notin {"minting", "minted"}
    <3>1. SUFFICES ASSUME flight[c].phase \in {"minting", "minted"} PROVE FALSE
      OBVIOUS
    <3>2. MyTurn(c) /\ c \in Tickets /\ r \in Tickets /\ c # r
      BY <2>2, <3>1, TicketKinds DEF Places
    <3>3. line[1] = c
      BY <3>2, FirstOnly
    <3>4. line[1] = r
      BY <2>1, <3>2, FirstOnly
    <3> QED
      BY <3>2, <3>3, <3>4
  <2>5. call'[r].pc = "idle" /\ \A q \in Callers \ {r} : call'[q] = call[q]
    BY <1>1, <2>1 DEF Idle
  <2> HIDE DEF v, c
  <2>6. CASE v = 0
    <3>1. UNCHANGED row
      BY <2>1, <2>6
    <3>2. dropped' = dropped
      BY <2>1, <2>6 DEF Drops
    <3> QED
      BY <2>1, <2>2, <2>3, <2>4, <2>5, <3>1, <3>2 DEF c
  <2>7. CASE v # 0
    <3>1. v \in Versions
      BY <2>2, <2>7, RefreshAssumption DEF Versions
    <3>2. /\ \A e \in Connections : row'[e].active = row[e].active
          /\ \A e \in Connections \ {c} : row'[e] = row[e]
          /\ row'[c].token \in {row[c].token, v}
      BY <2>1, <2>2, <3>1, WriteEffect
    <3>3. dropped \subseteq dropped' /\ (c \notin dropped' => ~(v < row[c].token))
      BY <2>1, <2>7 DEF Drops
    <3>4. ASSUME row[c].token = issued[c], c \notin dropped'
          PROVE  row'[c].token = issued[c]
      <4>1. v \in Nat /\ issued[c] \in Nat
        BY <2>3, <3>1 DEF Versions
      <4> QED
        BY <2>3, <3>2, <3>3, <3>4, <4>1
    <3>5. row'[c].token <= issued[c]
      BY <2>3, <3>2
    <3> QED
      BY <2>1, <2>2, <2>4, <2>5, <3>2, <3>3, <3>4, <3>5 DEF c
  <2> QED
    BY <2>6, <2>7
<1> QED
  BY <1>2, <1>3

LEMMA WritersNotAhead ==
  ASSUME WellTyped, LaneWell, Places, NotAhead, NEW r \in Callers, Redirect(r) \/ Return(r)
  PROVE  NotAhead'
<1> DEFINE c == call[r].conn
<1>1. /\ c \in Connections
      /\ UNCHANGED <<issued, rotated, flight>>
      /\ \A e \in Connections \ {c} : row'[e] = row[e]
      /\ row'[c].token <= issued[c]
      /\ call[r].pc # "awaiting" /\ \A q \in Callers \ {r} : call'[q] = call[q]
      /\ call'[r].pc = "returning" => call'[r].conn = c /\ call'[r].holds <= issued[c]
  BY WritersEffect
<1> HIDE DEF c
<1>2. ASSUME NEW e \in Connections
      PROVE  row'[e].token <= issued'[e]
  BY <1>1 DEF NotAhead
<1>3. ASSUME NEW e \in Connections, flight'[e].phase = "checking"
      PROVE  flight'[e].owner \in Awaiting(e)'
  <2>1. flight[e].owner \in Callers /\ call[flight[e].owner].pc = "awaiting"
        /\ call[flight[e].owner].conn = e
    BY <1>1, <1>3 DEF NotAhead, Awaiting
  <2>2. call'[flight[e].owner] = call[flight[e].owner]
    BY <1>1, <2>1
  <2> QED
    BY <1>1, <2>1, <2>2 DEF Awaiting
<1>4. ASSUME NEW d \in OnDemand, call'[d].pc = "returning"
      PROVE  call'[d].holds <= issued'[call'[d].conn]
  <2>1. d \in Callers
    BY TicketKinds
  <2>2. CASE d = r
    BY <1>1, <1>4, <2>2
  <2>3. CASE d # r
    <3>1. call'[d] = call[d]
      BY <1>1, <2>1, <2>3
    <3> QED
      BY <1>1, <1>4, <3>1 DEF NotAhead
  <2> QED
    BY <2>2, <2>3
<1> QED
  BY <1>1, <1>2, <1>3, <1>4 DEF NotAhead

LEMMA WritersKnow ==
  ASSUME WellTyped, LaneWell, Places, NotAhead, NewestKept,
         NEW r \in Callers, Redirect(r) \/ Return(r)
  PROVE  NewestKept'
<1> DEFINE c == call[r].conn
<1>1. /\ c \in Connections /\ flight[c].phase \notin {"minting", "minted"}
      /\ UNCHANGED <<issued, alive, flight, lost>>
      /\ dropped \subseteq dropped'
      /\ \A e \in Connections : row'[e].active = row[e].active
      /\ \A e \in Connections \ {c} : row'[e] = row[e]
      /\ row[c].token = issued[c] /\ c \notin dropped' => row'[c].token = issued[c]
  BY WritersEffect
<1> HIDE DEF c
<1> SUFFICES ASSUME NEW e \in Safe' PROVE Known(e)'
  BY DEF NewestKept
<1>2. e \in Safe /\ e \in Connections /\ e \notin dropped' /\ Known(e)
  BY <1>1, SafeShrinks DEF Safe, NewestKept
<1>3. CASE e = c
  <2>1. row'[e].token = issued[e]
    BY <1>1, <1>2, <1>3 DEF Known, InHand
  <2> QED
    BY <1>1, <1>2, <1>3, <2>1 DEF Known, InHand
<1>4. CASE e # c
  BY <1>1, <1>2, <1>4, StillKnown
<1> QED
  BY <1>3, <1>4

(* Who awaits the refresh of one account awaits no other, and what it is released
   with is no newer than what the provider has issued. *)
LEMMA ReleaseNotAhead ==
  ASSUME WellTyped, NotAhead, NEW c \in Connections, NEW v \in Nat, Released(c, v),
         UNCHANGED issued, v <= issued[c],
         \A e \in Connections : (\A u \in rotated'[e] : u < issued[e])
                                /\ row'[e].token <= issued[e]
  PROVE  NotAhead'
<1>1. flight'[c] = NoFlight /\ \A e \in Connections \ {c} : flight'[e] = flight[e]
  BY DEF Released, WellTyped
<1>2. ASSUME NEW e \in Connections
      PROVE  /\ flight'[e].phase = "minted" /\ flight'[e].result = "token" =>
                  flight'[e].token + 1 = issued'[e]
             /\ flight'[e].phase = "checking" => flight'[e].owner \in Awaiting(e)'
  <2>1. CASE e = c
    BY <1>1, <2>1 DEF NoFlight
  <2>2. CASE e # c
    <3>1. ASSUME flight[e].phase = "checking"
          PROVE  flight[e].owner \in Awaiting(e)'
      <4>1. flight[e].owner \in Callers /\ call[flight[e].owner].pc = "awaiting"
            /\ call[flight[e].owner].conn = e
        BY <3>1 DEF NotAhead, Awaiting
      <4>2. call'[flight[e].owner] = call[flight[e].owner]
        BY <2>2, <4>1 DEF Released, Awaiting
      <4> QED
        BY <4>1, <4>2 DEF Awaiting
    <3> QED
      BY <1>1, <2>2, <3>1 DEF NotAhead
  <2> QED
    BY <2>1, <2>2
<1>3. ASSUME NEW d \in OnDemand, call'[d].pc = "returning"
      PROVE  call'[d].holds <= issued'[call'[d].conn]
  <2>1. CASE call'[d] = call[d]
    BY <1>3, <2>1 DEF NotAhead
  <2>2. CASE call'[d] # call[d]
    <3>1. call'[d].conn = c /\ call'[d].holds \in {0, v}
      BY <2>2, TicketKinds DEF Released
    <3>2. issued[c] \in Nat
      BY DEF WellTyped, Versions
    <3> QED
      BY <3>1, <3>2
  <2> QED
    BY <2>1, <2>2
<1> QED
  BY <1>2, <1>3 DEF NotAhead

(* What a refresh finds in the row is nothing new. *)
LEMMA RefreshNotAhead ==
  ASSUME WellTyped, NotAhead, NEW c \in Connections,
         TakeFromRow(c) \/ Queue(c) \/ Mint(c)
  PROVE  NotAhead'
<1>1. UNCHANGED <<issued, rotated>>
  BY DEF TakeFromRow, Queue, Mint, accounts
<1>2. flight \in [Connections -> Flights] /\ flight[c] \in FlightRecords
  BY DEF WellTyped, Flights
<1>3. CASE TakeFromRow(c)
  <2>1. Deliver(c, row[c].token, TRUE)
    BY <1>3 DEF TakeFromRow
  <2>2. row[c].token \in Versions /\ row[c].token \in Nat
    <3>1. row[c].token \in 0..MaxVersion /\ row[c].token # 0
      BY <1>3 DEF TakeFromRow, RowMovedOn, WellTyped, Rows
    <3> QED
      BY <3>1, RefreshAssumption DEF Versions
  <2>3. /\ Released(c, row[c].token)
        /\ \A e \in Connections \ {c} : row'[e] = row[e]
        /\ row'[c].token = row[c].token
    BY <2>1, <2>2, DeliverEffect
  <2>4. \A e \in Connections : (\A u \in rotated'[e] : u < issued[e])
                               /\ row'[e].token <= issued[e]
    BY <1>1, <2>3 DEF NotAhead
  <2>5. row[c].token <= issued[c]
    BY DEF NotAhead
  <2> QED
    BY <1>1, <2>2, <2>3, <2>4, <2>5, ReleaseNotAhead
<1>4. CASE Queue(c) \/ Mint(c)
  <2>1. /\ UNCHANGED row
        /\ flight'[c].phase \in {"queued", "minting"}
        /\ \A e \in Connections \ {c} : flight'[e] = flight[e]
    <3>1. CASE Queue(c)
      BY <3>1, QueuedToken DEF Queue
    <3>2. CASE Mint(c)
      BY <1>2, <3>2 DEF Mint, FlightRecords
    <3> QED
      BY <1>4, <3>1, <3>2
  <2>2. ASSUME NEW r \in Callers
        PROVE  /\ call'[r].pc = call[r].pc /\ call'[r].conn = call[r].conn
               /\ call'[r] = call[r] \/ call[r].pc = "awaiting"
    <3>1. CASE Queue(c)
      <4> DEFINE v == IF RowMovedOn(c) THEN row[c].token ELSE flight[c].token
                 o == flight[c].owner
      <4>1. call' = [call EXCEPT ![o].holds = v] /\ flight[c].phase = "checking"
        BY <3>1 DEF Queue
      <4>2. call \in [Callers -> CallRecords]
        BY DEF WellTyped, Calls
      <4>3. o \in Callers /\ call[o].pc = "awaiting"
        BY <4>1 DEF NotAhead, Awaiting
      <4> HIDE DEF v, o
      <4> QED
        BY <4>1, <4>2, <4>3 DEF CallRecords
    <3>2. CASE Mint(c)
      BY <3>2 DEF Mint
    <3> QED
      BY <1>4, <3>1, <3>2
  <2>3. ASSUME NEW e \in Connections, flight'[e].phase = "checking"
        PROVE  flight'[e].owner \in Awaiting(e)'
    <3>1. e # c /\ flight'[e] = flight[e]
      BY <2>1, <2>3
    <3>2. flight[e].owner \in Callers /\ flight[e].owner \in Awaiting(e)
      BY <2>3, <3>1 DEF NotAhead, Awaiting
    <3> QED
      BY <2>2, <3>1, <3>2 DEF Awaiting
  <2>4. ASSUME NEW e \in Connections, flight'[e].phase = "minted", flight'[e].result = "token"
        PROVE  flight'[e].token + 1 = issued'[e]
    <3>1. e # c /\ flight'[e] = flight[e]
      BY <2>1, <2>4
    <3> QED
      BY <1>1, <2>4, <3>1 DEF NotAhead
  <2>5. ASSUME NEW d \in OnDemand, call'[d].pc = "returning"
        PROVE  call'[d].holds <= issued'[call'[d].conn]
    <3>1. d \in Callers
      BY TicketKinds
    <3>2. call'[d] = call[d]
      BY <2>2, <2>5, <3>1
    <3> QED
      BY <1>1, <2>5, <3>2 DEF NotAhead
  <2>6. \A e \in Connections : (\A u \in rotated'[e] : u < issued'[e])
                               /\ row'[e].token <= issued'[e]
    BY <1>1, <2>1 DEF NotAhead
  <2> QED
    BY <2>3, <2>4, <2>5, <2>6 DEF NotAhead
<1> QED
  BY <1>3, <1>4

(* A refresh that looks at the row presents the token it finds there: the newest,
   while that is safe. *)
LEMMA RefreshKnows ==
  ASSUME WellTyped, NewestKept, NEW c \in Connections,
         TakeFromRow(c) \/ Queue(c) \/ Mint(c)
  PROVE  NewestKept'
<1>1. UNCHANGED <<issued, alive, lost, dropped>>
  BY DEF TakeFromRow, Queue, Mint, accounts, history
<1>2. flight \in [Connections -> Flights] /\ flight[c] \in FlightRecords
  BY DEF WellTyped, Flights
<1>3. ASSUME NEW e \in Safe' PROVE e \in Connections /\ e \in Safe /\ Known(e)
  BY <1>1, <1>3 DEF NewestKept, Safe
<1>4. CASE TakeFromRow(c)
  <2>1. flight[c].phase = "checking" /\ Deliver(c, row[c].token, TRUE)
    BY <1>4 DEF TakeFromRow
  <2>2. row[c].token \in Versions
    <3>1. row[c].token \in 0..MaxVersion /\ row[c].token # 0
      BY <1>4 DEF TakeFromRow, RowMovedOn, WellTyped, Rows
    <3> QED
      BY <3>1, RefreshAssumption DEF Versions
  <2>3. /\ flight' = [flight EXCEPT ![c] = NoFlight]
        /\ \A e \in Connections : row'[e].active = row[e].active
        /\ \A e \in Connections \ {c} : row'[e] = row[e]
        /\ row'[c].token = row[c].token
    BY <2>1, <2>2, DeliverEffect DEF Released
  <2>4. flight'[c].phase = "none" /\ \A e \in Connections \ {c} : flight'[e] = flight[e]
    BY <1>2, <2>3 DEF NoFlight
  <2> SUFFICES ASSUME NEW e \in Safe' PROVE Known(e)'
    BY DEF NewestKept
  <2>5. e \in Connections /\ e \in Safe /\ Known(e)
    BY <1>3
  <2>6. CASE e = c
    BY <1>1, <2>1, <2>3, <2>4, <2>5, <2>6 DEF Known, InHand
  <2>7. CASE e # c
    BY <1>1, <2>3, <2>4, <2>5, <2>7, StillKnown
  <2> QED
    BY <2>6, <2>7
<1>5. CASE Queue(c)
  <2> DEFINE v == IF RowMovedOn(c) THEN row[c].token ELSE flight[c].token
  <2>1. /\ flight[c].phase = "checking" /\ UNCHANGED row
        /\ flight'[c].phase = "queued" /\ flight'[c].token = v
        /\ \A e \in Connections \ {c} : flight'[e] = flight[e]
    BY <1>5, QueuedToken DEF Queue
  <2> SUFFICES ASSUME NEW e \in Safe' PROVE Known(e)'
    BY DEF NewestKept
  <2>2. e \in Connections /\ e \in Safe /\ Known(e)
    BY <1>3
  <2>3. CASE e = c
    <3>1. row[c].token = issued[c] /\ row[c].token # 0
      <4>1. issued[c] \in Versions /\ 0 \notin Versions
        BY RefreshAssumption DEF WellTyped, Versions
      <4>2. row[c].token = issued[c]
        BY <2>1, <2>2, <2>3 DEF Known, InHand
      <4> QED
        BY <4>1, <4>2
    <3>2. v = issued[c]
      BY <3>1 DEF RowMovedOn
    <3> QED
      BY <1>1, <2>1, <2>2, <2>3, <3>1, <3>2 DEF Known, InHand
  <2>4. CASE e # c
    BY <1>1, <2>1, <2>2, <2>4, StillKnown
  <2> QED
    BY <2>3, <2>4
<1>6. CASE Mint(c)
  <2>1. /\ flight[c].phase = "queued" /\ UNCHANGED row
        /\ flight' = [flight EXCEPT ![c].phase = "minting"]
    BY <1>6 DEF Mint
  <2>2. /\ flight'[c].phase = "minting" /\ flight'[c].token = flight[c].token
        /\ \A e \in Connections \ {c} : flight'[e] = flight[e]
    BY <1>2, <2>1 DEF FlightRecords
  <2> SUFFICES ASSUME NEW e \in Safe' PROVE Known(e)'
    BY DEF NewestKept
  <2>3. e \in Connections /\ e \in Safe /\ Known(e)
    BY <1>3
  <2>4. CASE e = c
    BY <1>1, <2>1, <2>2, <2>3, <2>4 DEF Known, InHand
  <2>5. CASE e # c
    BY <1>1, <2>1, <2>2, <2>3, <2>5, StillKnown
  <2> QED
    BY <2>4, <2>5
<1> QED
  BY <1>4, <1>5, <1>6

(* What an answer changes: the refresh it answers, and the account. *)
LEMMA AnswerChanges ==
  ASSUME WellTyped, NEW c \in Connections, Answer(c)
  PROVE  /\ UNCHANGED <<row, rotated, call>>
         /\ flight[c].phase = "minting" /\ flight'[c].phase = "minted"
         /\ \A e \in Connections \ {c} :
              flight'[e] = flight[e] /\ issued'[e] = issued[e] /\ alive'[e] = alive[e]
         /\ lost \subseteq lost' /\ dropped' = dropped
         /\ \/ /\ flight'[c].result = "token" /\ flight'[c].token = flight[c].token
               /\ flight[c].token = issued[c] /\ issued'[c] = issued[c] + 1
               /\ alive'[c] = alive[c]
            \/ /\ flight'[c].result = "reused" /\ issued'[c] = issued[c]
               /\ ~(alive[c] /\ flight[c].token = issued[c])
            \/ /\ flight'[c].result = "null" /\ alive'[c] = alive[c]
               /\ issued'[c] = issued[c] \/ (c \in lost' /\ issued'[c] = issued[c] + 1)
<1>1. issued \in [Connections -> Versions] /\ alive \in [Connections -> BOOLEAN]
  BY DEF WellTyped
<1>2. ASSUME NEW x \in {"token", "null", "reused"}, Answered(c, x),
             x = "token" => flight[c].token < MaxVersion
      PROVE  /\ UNCHANGED <<row, rotated, call>>
             /\ flight[c].phase = "minting" /\ flight'[c].phase = "minted"
             /\ flight'[c].result = x /\ flight'[c].token = flight[c].token
             /\ \A e \in Connections \ {c} : flight'[e] = flight[e]
  BY <1>2, AnswerEffect DEF Answered
<1>3. CASE Accepted(c)
  <2>1. /\ flight[c].token = issued[c] /\ issued[c] < MaxVersion
        /\ issued' = [issued EXCEPT ![c] = @ + 1] /\ Answered(c, "token")
        /\ UNCHANGED <<alive, lost, dropped>>
    BY <1>3 DEF Accepted, Usable, Renewable, history
  <2> QED
    BY <1>1, <1>2, <2>1
<1>4. CASE Reused(c)
  <2>1. /\ ~(alive[c] /\ flight[c].token = issued[c])
        /\ alive' = [alive EXCEPT ![c] = FALSE] /\ Answered(c, "reused")
        /\ UNCHANGED <<issued, lost, dropped>>
    BY <1>4 DEF Reused, Usable, history
  <2> QED
    BY <1>1, <1>2, <2>1
<1>5. CASE Unanswered(c)
  <2>1. Answered(c, "null") /\ UNCHANGED <<issued, alive, lost, dropped>>
    BY <1>5 DEF Unanswered, accounts, history
  <2> QED
    BY <1>2, <2>1
<1>6. CASE ResponseLost(c)
  <2>1. /\ issued' = [issued EXCEPT ![c] = @ + 1] /\ Answered(c, "null")
        /\ UNCHANGED <<alive, dropped>> /\ lost' = lost \cup {c}
    BY <1>6 DEF ResponseLost
  <2> QED
    BY <1>1, <1>2, <2>1
<1> QED
  BY <1>3, <1>4, <1>5, <1>6 DEF Answer

(* The provider issues a token only to a refresh that presented the one before. *)
LEMMA AnswersNotAhead ==
  ASSUME WellTyped, NotAhead, NEW c \in Connections, Answer(c)
  PROVE  NotAhead'
<1>1. /\ UNCHANGED <<row, rotated, call>> /\ flight'[c].phase = "minted"
      /\ \A e \in Connections \ {c} : flight'[e] = flight[e] /\ issued'[e] = issued[e]
      /\ issued'[c] \in {issued[c], issued[c] + 1}
      /\ flight'[c].result = "token" => flight'[c].token + 1 = issued'[c]
  BY AnswerChanges
<1>2. ASSUME NEW e \in Connections
      PROVE  /\ issued'[e] \in {issued[e], issued[e] + 1} /\ issued[e] \in Nat
             /\ \A v \in rotated[e] : v \in Nat
             /\ row[e].token \in Nat
  BY <1>1 DEF WellTyped, Versions, Rows
<1>3. ASSUME NEW e \in Connections
      PROVE  (\A v \in rotated'[e] : v < issued'[e]) /\ row'[e].token <= issued'[e]
  <2>1. (\A v \in rotated[e] : v < issued[e]) /\ row[e].token <= issued[e]
    BY DEF NotAhead
  <2> QED
    BY <1>1, <1>2, <2>1
<1>4. ASSUME NEW e \in Connections
      PROVE  /\ flight'[e].phase = "minted" /\ flight'[e].result = "token" =>
                  flight'[e].token + 1 = issued'[e]
             /\ flight'[e].phase = "checking" => flight'[e].owner \in Awaiting(e)'
  <2>1. CASE e = c
    BY <1>1, <2>1
  <2>2. CASE e # c
    BY <1>1, <2>2 DEF NotAhead, Awaiting
  <2> QED
    BY <2>1, <2>2
<1>5. ASSUME NEW d \in OnDemand, call'[d].pc = "returning"
      PROVE  call'[d].holds <= issued'[call'[d].conn]
  <2>1. call[d].conn \in Connections /\ call[d].holds \in 0..MaxVersion
    BY <1>1, <1>5, CallFields, TicketKinds
  <2>2. call[d].holds <= issued[call[d].conn]
    BY <1>1, <1>5 DEF NotAhead
  <2> QED
    BY <1>1, <1>2, <2>1, <2>2
<1> QED
  BY <1>3, <1>4, <1>5 DEF NotAhead

(* Whatever the provider answers, a token it accepts is on its way to the row,
   and only a token that is not the newest revokes the account. *)
LEMMA AnswersKnow ==
  ASSUME WellTyped, NewestKept, NEW c \in Connections, Answer(c)
  PROVE  NewestKept'
<1> SUFFICES ASSUME NEW e \in Safe' PROVE Known(e)'
  BY DEF NewestKept
<1>1. e \in Safe /\ e \in Connections /\ e \notin lost' /\ Known(e)
  BY AnswerChanges, SafeShrinks DEF Safe, NewestKept
<1>2. CASE e = c
  <2>1. /\ UNCHANGED row
        /\ flight[c].phase = "minting" /\ flight'[c].phase = "minted"
        /\ \/ flight'[c].result = "token" /\ alive'[c] = alive[c]
           \/ ~(alive[c] /\ flight[c].token = issued[c])
           \/ /\ flight'[c].result = "null" /\ alive'[c] = alive[c]
              /\ issued'[c] = issued[c]
    BY <1>1, <1>2, AnswerChanges
  <2> QED
    BY <1>1, <1>2, <2>1 DEF Known, InHand
<1>3. CASE e # c
  <2>1. /\ issued'[e] = issued[e] /\ alive'[e] = alive[e] /\ flight'[e] = flight[e]
        /\ UNCHANGED row
    BY <1>1, <1>3, AnswerChanges
  <2> QED
    BY <1>1, <2>1, StillKnown
<1> QED
  BY <1>2, <1>3

(* A refresh that ends notes the token it presented and hands on the next. *)
LEMMA FinishNotAhead ==
  ASSUME WellTyped, NotAhead, NEW c \in Connections, Finish(c)
  PROVE  NotAhead'
<1>1. /\ flight[c].phase = "minted" /\ UNCHANGED issued
      /\ \A e \in Connections \ {c} : row'[e] = row[e]
  BY FinishEffect DEF accounts
<1>2. issued[c] \in Nat /\ row[c].token <= issued[c]
  BY DEF WellTyped, Versions, NotAhead
<1>3. CASE flight[c].result = "token"
  <2> DEFINE v == flight[c].token + 1
  <2>1. /\ Released(c, v)
        /\ rotated' = [rotated EXCEPT ![c] = @ \cup {flight[c].token}]
        /\ row'[c].token \in {row[c].token, v}
    BY <1>3, FinishEffect
  <2>2. flight[c].token + 1 = issued[c] /\ flight[c].token \in Nat /\ v \in Nat
    <3>1. flight[c].token \in Versions
      BY <1>1, FlightFields
    <3> QED
      BY <1>1, <1>3, <3>1 DEF NotAhead, Versions
  <2>3. ASSUME NEW e \in Connections
        PROVE  (\A u \in rotated'[e] : u < issued[e]) /\ row'[e].token <= issued[e]
    <3>1. CASE e = c
      <4>1. rotated'[c] = rotated[c] \cup {flight[c].token}
        BY <2>1 DEF WellTyped
      <4>2. \A u \in rotated[c] : u < issued[c]
        BY DEF NotAhead
      <4>3. flight[c].token < issued[c]
        BY <2>2
      <4>4. row'[c].token <= issued[c]
        BY <1>2, <2>1, <2>2
      <4> QED
        BY <3>1, <4>1, <4>2, <4>3, <4>4
    <3>2. CASE e # c
      <4>1. rotated'[e] = rotated[e] /\ row'[e] = row[e]
        BY <1>1, <2>1, <3>2 DEF WellTyped
      <4> QED
        BY <4>1 DEF NotAhead
    <3> QED
      BY <3>1, <3>2
  <2>4. v <= issued[c]
    BY <1>2, <2>2
  <2> HIDE DEF v
  <2> QED
    BY <1>1, <2>1, <2>2, <2>3, <2>4, ReleaseNotAhead
<1>4. CASE flight[c].result # "token"
  <2>1. UNCHANGED rotated /\ row'[c].token \in {0, row[c].token}
    BY <1>4, FinishEffect
  <2>2. Released(c, 0)
    BY <1>4, FinishEffect
  <2>3. \A e \in Connections : (\A u \in rotated'[e] : u < issued[e])
                               /\ row'[e].token <= issued[e]
    BY <1>1, <1>2, <2>1 DEF NotAhead
  <2> QED
    BY <1>1, <1>2, <2>2, <2>3, ReleaseNotAhead
<1> QED
  BY <1>3, <1>4

(* A refresh that ends leaves the newest token of a safe account in the row, and
   was not told of a used token. *)
LEMMA FinishKnows ==
  ASSUME WellTyped, NotAhead, NewestKept, NEW c \in Connections, Finish(c)
  PROVE  NewestKept'
<1>1. /\ flight[c].phase = "minted" /\ UNCHANGED <<issued, alive>>
      /\ \A e \in Connections \ {c} : row'[e] = row[e]
      /\ flight[c].result # "reused" => row'[c].active = row[c].active
      /\ lost \subseteq lost' /\ dropped \subseteq dropped'
  BY FinishEffect DEF accounts
<1>2. flight'[c].phase = "none" /\ \A e \in Connections \ {c} : flight'[e] = flight[e]
  <2>1. PICK v : Released(c, v)
    BY FinishEffect
  <2> QED
    BY <2>1 DEF Released, NoFlight, WellTyped
<1> SUFFICES ASSUME NEW e \in Safe' PROVE Known(e)'
  BY DEF NewestKept
<1>3. e \in Safe /\ e \in Connections /\ e \notin lost' \cup dropped' /\ Known(e)
  BY <1>1, SafeShrinks DEF Safe, NewestKept
<1>4. CASE e = c
  <2>1. flight[c].result # "reused"
    BY <1>1, <1>3, <1>4 DEF Known
  <2>2. row'[c].token = issued[c]
    <3>1. CASE flight[c].result = "token"
      <4>1. row'[c].token = flight[c].token + 1
        BY <1>3, <1>4, <3>1, FinishEffect
      <4> QED
        BY <1>1, <3>1, <4>1 DEF NotAhead
    <3>2. CASE flight[c].result # "token"
      <4>1. row'[c].token = row[c].token
        BY <2>1, <3>2, FinishEffect
      <4> QED
        BY <1>3, <1>4, <3>2, <4>1 DEF Known, InHand
    <3> QED
      BY <3>1, <3>2
  <2> QED
    BY <1>1, <1>2, <1>3, <1>4, <2>1, <2>2, KnownAtRest
<1>5. CASE e # c
  BY <1>1, <1>2, <1>3, <1>5, StillKnown
<1> QED
  BY <1>4, <1>5

(* Time presents no token, and a restart forgets every refresh. *)
LEMMA OthersNotAhead ==
  ASSUME WellTyped, NotAhead,
         \/ \E c \in Connections : Age(c) \/ \E v \in Versions : Forget(c, v)
         \/ Restart
  PROVE  NotAhead'
<1>1. ASSUME NEW c \in Connections, Age(c) PROVE NotAhead'
  <2>1. /\ UNCHANGED <<issued, rotated, flight, call>>
        /\ row' = [row EXCEPT ![c].fresh = FALSE]
    BY <1>1 DEF Age, accounts
  <2>2. \A e \in Connections : row'[e].token = row[e].token
    BY <2>1 DEF WellTyped, Rows
  <2> QED
    BY <2>1, <2>2 DEF NotAhead, Awaiting
<1>2. ASSUME NEW c \in Connections, NEW v \in Versions, Forget(c, v) PROVE NotAhead'
  <2>1. /\ UNCHANGED <<issued, row, flight, call>>
        /\ rotated' = [rotated EXCEPT ![c] = @ \ {v}]
    BY <1>2 DEF Forget, accounts
  <2>2. \A e \in Connections : rotated'[e] \subseteq rotated[e]
    BY <2>1 DEF WellTyped
  <2> QED
    BY <2>1, <2>2 DEF NotAhead, Awaiting
<1>3. CASE Restart
  <2>1. /\ UNCHANGED <<issued, row>>
        /\ rotated' = [c \in Connections |-> {}]
        /\ flight' = [c \in Connections |-> NoFlight]
        /\ call' = [r \in Callers |-> Idle]
    BY <1>3 DEF Restart, accounts
  <2> QED
    BY <2>1, TicketKinds DEF NotAhead, NoFlight, Idle
<1> QED
  BY <1>1, <1>2, <1>3

LEMMA OthersKnow ==
  ASSUME WellTyped, NewestKept,
         \/ \E c \in Connections : Age(c) \/ \E v \in Versions : Forget(c, v)
         \/ Restart
  PROVE  NewestKept'
<1>1. ASSUME NEW c \in Connections, Age(c) \/ \E v \in Versions : Forget(c, v)
      PROVE  NewestKept'
  <2>1. /\ UNCHANGED <<issued, alive, flight, lost, dropped>>
        /\ \A e \in Connections : row'[e].token = row[e].token /\ row'[e].active = row[e].active
    <3>1. UNCHANGED <<issued, alive, flight, lost, dropped>>
      BY <1>1 DEF Age, Forget, accounts, history
    <3>2. row' = [row EXCEPT ![c].fresh = FALSE] \/ row' = row
      BY <1>1 DEF Age, Forget
    <3>3. row \in [Connections -> Rows]
      BY DEF WellTyped
    <3> QED
      BY <3>1, <3>2, <3>3 DEF Rows
  <2> QED
    BY <2>1 DEF NewestKept, Safe, Known, InHand
<1>2. CASE Restart
  <2>1. /\ UNCHANGED <<issued, alive, row, dropped>>
        /\ lost' = lost \cup
             {c \in Connections : flight[c].phase = "minted" /\ flight[c].result = "token"}
        /\ \A e \in Connections : flight'[e].phase = "none"
    BY <1>2 DEF Restart, accounts, NoFlight
  <2> SUFFICES ASSUME NEW e \in Safe' PROVE Known(e)'
    BY DEF NewestKept
  <2>2. e \in Safe /\ e \in Connections /\ e \notin lost' /\ Known(e)
    BY <2>1, SafeShrinks DEF Safe, NewestKept
  <2>3. row[e].token = issued[e]
    BY <2>1, <2>2 DEF Known, InHand
  <2> QED
    BY <2>1, <2>2, <2>3, KnownAtRest
<1> QED
  BY <1>1, <1>2

-----------------------------------------------------------------------------
(* The invariant *)

LEMMA InitIInv == Init => IInv
<1> SUFFICES ASSUME Init PROVE IInv
  OBVIOUS
<1>1. WellTyped
  <2>1. 1 \in Versions /\ 0 \in 0..MaxFaults /\ 1 \in 0..MaxVersion
    BY RefreshAssumption DEF Versions
  <2>2. row \in [Connections -> Rows]
    BY <2>1 DEF Init, Rows
  <2>3. flight \in [Connections -> Flights] /\ call \in [Callers -> Calls]
    BY Resting DEF Init
  <2> QED
    BY <2>1, <2>2, <2>3 DEF Init, WellTyped
<1>2. LaneWell
  <2>1. line = <<>> /\ Len(line) = 0 /\ line \in Seq(Tickets)
    BY EmptySeq DEF Init, LaneInit
  <2>2. Once
    BY <2>1 DEF Once
  <2>3. ChainIsLine
    BY <2>1 DEF Init, LaneInit, ChainIsLine, InLane
  <2> QED
    BY <2>1, <2>2, <2>3 DEF Init, LaneInit, LaneWell
<1>3. Places
  BY TicketKinds DEF Init, LaneInit, Places, InLane, MyTurn, NoFlight, Idle
<1>4. NotAhead
  BY TicketKinds DEF Init, NotAhead, NoFlight, Idle
<1>5. NewestKept
  BY DEF Init, NewestKept, Safe, Known, InHand, NoFlight
<1> QED
  BY <1>1, <1>2, <1>3, <1>4, <1>5 DEF IInv

LEMMA NextIInv == IInv /\ [Next]_vars => IInv'
<1> SUFFICES ASSUME WellTyped, LaneWell, Places, NotAhead, NewestKept, [Next]_vars
             PROVE  IInv'
  BY DEF IInv
<1>1. ASSUME NEW r \in Callers, NEW c \in Connections, Load(r, c) PROVE IInv'
  BY <1>1, CallersTyped, CallersInPlace, CallersNotAhead, CallersKnow DEF IInv
<1>2. ASSUME NEW r \in Callers, Enter(r) PROVE IInv'
  BY <1>2, CallersTyped, OnDemandInPlace, CallersNotAhead, CallersKnow DEF IInv
<1>3. ASSUME NEW r \in Callers, Share(r) \/ Start(r) \/ Abandon(r) PROVE IInv'
  BY <1>3, CallersTyped, CallersInPlace, CallersNotAhead, CallersKnow DEF IInv
<1>4. ASSUME NEW r \in Callers, Redirect(r) PROVE IInv'
  BY <1>4, WritersTyped, CallersInPlace, WritersNotAhead, WritersKnow DEF IInv
<1>5. ASSUME NEW r \in Callers, Return(r) PROVE IInv'
  BY <1>5, WritersTyped, OnDemandInPlace, WritersNotAhead, WritersKnow DEF IInv
<1>6. ASSUME NEW c \in Connections, TakeFromRow(c) \/ Mint(c) PROVE IInv'
  BY <1>6, RefreshTyped, RefreshInPlace, RefreshNotAhead, RefreshKnows DEF IInv
<1>7. ASSUME NEW c \in Connections, Queue(c) PROVE IInv'
  BY <1>7, RefreshTyped, QueueInPlace, RefreshNotAhead, RefreshKnows DEF IInv
<1>8. ASSUME NEW c \in Connections, Answer(c) PROVE IInv'
  BY <1>8, AnswersTyped, RefreshInPlace, AnswersNotAhead, AnswersKnow DEF IInv
<1>9. ASSUME NEW c \in Connections, Finish(c) PROVE IInv'
  BY <1>9, EndsTyped, FinishInPlace, FinishNotAhead, FinishKnows DEF IInv
<1>10. CASE \/ \E c \in Connections : Age(c) \/ \E v \in Versions : Forget(c, v)
            \/ Restart
  BY <1>10, EndsTyped, OthersInPlace, OthersNotAhead, OthersKnow DEF IInv
<1>11. CASE UNCHANGED vars
  <2>1. UNCHANGED laneVars
        /\ UNCHANGED <<issued, alive, row, rotated, flight, call, faults, history>>
    BY <1>11 DEF vars
  <2>2. WellTyped'
    BY <2>1 DEF WellTyped, history
  <2>3. LaneWell'
    BY <2>1, SameLane
  <2>4. Places'
    BY <2>1 DEF Places, InLane, MyTurn, laneVars
  <2>5. NotAhead'
    BY <2>1 DEF NotAhead, Awaiting
  <2>6. NewestKept'
    BY <2>1 DEF NewestKept, Safe, Known, InHand, history
  <2> QED
    BY <2>2, <2>3, <2>4, <2>5, <2>6 DEF IInv
<1> QED
  BY <1>1, <1>2, <1>3, <1>4, <1>5, <1>6, <1>7, <1>8, <1>9, <1>10, <1>11 DEF Next

(* tokenRefresh.ts over refreshSerializer.ts: the types, the lane, the places in
   it and what is known of the tokens hold throughout. *)
THEOREM Invariance == Spec => []IInv
<1> QED
  BY InitIInv, NextIInv, PTL DEF Spec

(* The provider, the rows, the maps, the refreshes, their callers and the history
   only ever hold what they are meant to hold. *)
THEOREM TypeCorrect == Spec => []TypeOK
<1>1. IInv => TypeOK
  BY TypesImplyTypeOK DEF IInv
<1> QED
  BY <1>1, Invariance, PTL

(* serializeRefresh: the promises of a rotation group form one chain in the order
   of arrival and groupTail points at its end, whoever leaves while others come. *)
THEOREM LaneInOrder == Spec => []ChainIsLine
<1>1. IInv => ChainIsLine
  BY DEF IInv, LaneWell
<1> QED
  BY <1>1, Invariance, PTL

(* serializeRefresh: never two refreshes of a rotation group at the provider, for
   any number of accounts and callers and with restarts in between. *)
THEOREM OneAtATime == Spec => []OneMintPerGroup
<1>1. IInv => OneMintPerGroup
  <2> SUFFICES ASSUME IInv, NEW c \in Connections, NEW e \in Connections,
                      flight[c].phase \in {"minting", "minted"},
                      flight[e].phase \in {"minting", "minted"}
               PROVE  c = e
    BY DEF OneMintPerGroup
  <2>1. MyTurn(c) /\ MyTurn(e)
    BY DEF IInv, Places
  <2>2. c \in Tickets /\ e \in Tickets
    BY TicketKinds
  <2>3. line[1] = c
    BY <2>1, <2>2, FirstOnly DEF IInv
  <2>4. line[1] = e
    BY <2>1, <2>2, FirstOnly DEF IInv
  <2> QED
    BY <2>3, <2>4
<1> QED
  BY <1>1, Invariance, PTL

(* getAccessToken, chatCore, the health check and the on-demand route: an account
   is revoked or deactivated only after a fault at the moment its token was
   changed, or after one of the steps by which the code itself lets go of its
   newest token.  However stale the copies of its callers are, and however they
   share, retry and give up refreshes, nothing else costs it. *)
THEOREM GoneOnlyIfLost == Spec => []LostBeforeGone
<1>1. IInv => LostBeforeGone
  BY DEF IInv, NewestKept, Safe, Known, LostBeforeGone
<1> QED
  BY <1>1, Invariance, PTL
=============================================================================
