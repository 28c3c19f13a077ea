---------------------------- MODULE RefreshLane ----------------------------
(***************************************************************************)
(* open-sse/services/refreshSerializer.ts: the lane of one rotation group. *)
(* serializeRefresh chains each refresh after the tail promise it finds    *)
(* and puts its own in its place; nothing but those promises tells a       *)
(* refresh when its turn has come, and the lane is deleted by the last to  *)
(* leave.                                                                  *)
(***************************************************************************)
EXTENDS Naturals, Sequences

CONSTANTS
  Tickets,   \* calls of serializeRefresh
  None,      \* no promise to wait for
  Out        \* not in the lane
ASSUME LaneMarks == None \notin Tickets /\ Out \notin Tickets /\ None # Out

VARIABLES
  tail,   \* groupTail.get(group): the ticket that came last, None without a lane
  prev,   \* per ticket: Out, the ticket whose release it waits for, or None
  line    \* history: who is in the lane, in the order of arrival

laneVars == <<tail, prev, line>>

InLane(t) == prev[t] # Out

(* await prevTail has returned. *)
MyTurn(t) == prev[t] = None

LaneInit ==
  /\ tail = None
  /\ prev = [t \in Tickets |-> Out]
  /\ line = <<>>

(* Mutant: the tail is read after the await, when another may have come. *)
JoinUnchained(t) ==
  /\ ~InLane(t)
  /\ prev' = [prev EXCEPT ![t] = IF tail = None THEN None ELSE prev[tail]]
  /\ tail' = t
  /\ line' = Append(line, t)

(* serializeRefresh up to its await. *)
Join(t) ==
  /\ ~InLane(t)
  /\ prev' = [prev EXCEPT ![t] = tail]
  /\ tail' = t
  /\ line' = Append(line, t)

(* Mutant: the lane is deleted although somebody chained meanwhile. *)
LeaveDeletingLane(t) ==
  /\ MyTurn(t)
  /\ prev' = [u \in Tickets |-> IF u = t THEN Out
                                ELSE IF prev[u] = t THEN None ELSE prev[u]]
  /\ tail' = None
  /\ line' = Tail(line)

(* Mutant: a failed refresh does not resolve its promise. *)
LeaveUnresolved(t) ==
  /\ MyTurn(t)
  /\ prev' = [prev EXCEPT ![t] = Out]
  /\ tail' = IF tail = t THEN None ELSE tail
  /\ line' = Tail(line)

(* The finally block, once the settle gap is over: resolve one's promise and
   delete the lane unless somebody chained after it. *)
Leave(t) ==
  /\ MyTurn(t)
  /\ prev' = [u \in Tickets |-> IF u = t THEN Out
                                ELSE IF prev[u] = t THEN None ELSE prev[u]]
  /\ tail' = IF tail = t THEN None ELSE tail
  /\ line' = Tail(line)

(* A restart forgets the lane. *)
LaneLost ==
  /\ tail' = None
  /\ prev' = [t \in Tickets |-> Out]
  /\ line' = <<>>

-----------------------------------------------------------------------------
(* The promises form one chain, in the order of arrival, and the map points at
   its end: nobody waits for a ticket that has left, nobody who comes while a
   refresh runs finds the lane deleted, and only the first has its turn. *)
ChainIsLine ==
  /\ \A t \in Tickets : InLane(t) <=> \E i \in 1..Len(line) : line[i] = t
  /\ \A i \in 1..Len(line) : prev[line[i]] = IF i = 1 THEN None ELSE line[i - 1]
  /\ tail = IF line = <<>> THEN None ELSE line[Len(line)]
=============================================================================
