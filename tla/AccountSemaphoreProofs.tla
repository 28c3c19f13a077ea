----------------------- MODULE AccountSemaphoreProofs -----------------------
(***************************************************************************)
(* What AccountSemaphore guarantees for every set of callers, every set of *)
(* caps and every queue limit: its types, its accounting of waiters and    *)
(* slots, the timer every idle gate has, the order of admission, and, when *)
(* nobody resets it, the abstract limiter.                                 *)
(***************************************************************************)
EXTENDS AccountSemaphore, FiniteSetTheorems, SequenceTheorems, TLAPS

Statuses == {"idle", "waiting", "holding", "bypassed"}
Blocks == {"none", "active", "lapsed"}

Holders(st) == {r \in Requests : st[r] = "holding"}
Waiters(st) == {r \in Requests : st[r] = "waiting"}

(* The first k callers of the queue. *)
Front(k) == {queue[i] : i \in 1..k}

(* A key without a gate has neither slots in use, nor waiters, nor a cooldown;
   a cooldown always has the timer that will end it. *)
GateShape ==
  /\ ~present => running = 0 /\ queue = <<>> /\ blocked = "none" /\ ~cleanup
  /\ blocked # "none" => timers > 0

IInv ==
  /\ TypeOK
  /\ QueueIsWaiting
  /\ SlotsAccounted
  /\ GateShape
  /\ IdleGateHasTimer

-----------------------------------------------------------------------------
(* The k callers at the front of the queue are k different callers. *)
LEMMA FrontSize ==
  ASSUME TypeOK, QueueIsWaiting, NEW k \in 0..Len(queue)
  PROVE  /\ Front(k) \subseteq Waiting
         /\ IsFiniteSet(Front(k))
         /\ Cardinality(Front(k)) = k
<1>1. Len(queue) \in Nat
  BY LenProperties DEF TypeOK
<1>2. Front(k) \subseteq Waiting
  BY <1>1 DEF Front, QueueIsWaiting
<1> DEFINE f == [i \in 1..k |-> queue[i]]
<1>3. f \in Bijection(1..k, Front(k))
  <2>1. f \in [1..k -> Front(k)]
    BY DEF Front
  <2>2. \A i, j \in 1..k : f[i] = f[j] => i = j
    BY <1>1 DEF QueueIsWaiting
  <2>3. \A x \in Front(k) : \E i \in 1..k : f[i] = x
    BY DEF Front
  <2> QED
    BY <2>1, <2>2, <2>3 DEF Bijection, Injection, Surjection, IsInjective
<1>4. ExistsBijection(1..k, Front(k))
  BY <1>3 DEF ExistsBijection
<1>5. IsFiniteSet(1..k) /\ Cardinality(1..k) = k
  BY <1>1, FS_Interval
<1> QED
  BY <1>1, <1>2, <1>4, <1>5, FS_Bijection

(* What drainQueue does, whatever it finds: it takes the first k waiters off
   the queue, and they are the new holders. *)
LEMMA DrainEffect ==
  ASSUME TypeOK, QueueIsWaiting,
         NEW n \in Nat, NEW b \in Blocks, NEW st \in [Requests -> Statuses],
         Waiters(st) = Waiting,
         Drain(n, b, st)
  PROVE  /\ Admissible(n, b) \in 0..Len(queue)
         /\ queue' \in Seq(Requests)
         /\ status' \in [Requests -> Statuses]
         /\ running' \in Nat
         /\ running' = n + Admissible(n, b)
         /\ blocked' \in Blocks
         /\ QueueIsWaiting'
         /\ Holding' = Holders(st) \cup Front(Admissible(n, b))
         /\ Waiting' = Waiting \ Front(Admissible(n, b))
         /\ Cardinality(Holding') = Cardinality(Holders(st)) + Admissible(n, b)
<1> DEFINE k == Admissible(n, b)
<1>1. Len(queue) \in Nat /\ max \in Nat
  BY LenProperties DEF TypeOK
<1>2. k \in 0..Len(queue)
  BY <1>1 DEF Admissible
<1>3. queue \in [1..Len(queue) -> Requests]
  BY LenProperties DEF TypeOK
<1> HIDE DEF k
<1>4. /\ queue' = SubSeq(queue, k + 1, Len(queue))
      /\ running' = n + k
      /\ status' = [r \in Requests |->
                      IF \E i \in 1..k : queue[i] = r THEN "holding" ELSE st[r]]
      /\ blocked' = IF queue # <<>> /\ n < max THEN Unblock(b) ELSE b
  BY DEF Drain, Admit, k
<1>5. /\ queue' \in Seq(Requests)
      /\ Len(queue') = Len(queue) - k
      /\ \A i \in 1..(Len(queue) - k) : queue'[i] = queue[k + i]
  <2>1. \A i \in (k + 1)..Len(queue) : queue[i] \in Requests
    BY <1>1, <1>2, <1>3
  <2>2. /\ SubSeq(queue, k + 1, Len(queue)) \in Seq(Requests)
        /\ Len(SubSeq(queue, k + 1, Len(queue)))
             = IF k + 1 <= Len(queue) THEN Len(queue) - (k + 1) + 1 ELSE 0
        /\ \A i \in 1..(Len(queue) - (k + 1) + 1) :
             SubSeq(queue, k + 1, Len(queue))[i] = queue[(k + 1) + i - 1]
    BY <1>1, <1>2, <2>1, SubSeqProperties
  <2>3. Len(queue') = Len(queue) - k
    BY <1>1, <1>2, <1>4, <2>2
  <2>4. ASSUME NEW i \in 1..(Len(queue) - k)
        PROVE  queue'[i] = queue[k + i]
    <3>1. i \in 1..(Len(queue) - (k + 1) + 1) /\ (k + 1) + i - 1 = k + i
      BY <1>1, <1>2
    <3> QED
      BY <1>4, <2>2, <3>1
  <2> QED
    BY <1>4, <2>2, <2>3, <2>4
<1>6. status' \in [Requests -> Statuses]
  BY <1>4 DEF Statuses
<1>7. blocked' \in Blocks
  BY <1>4 DEF Blocks, Unblock
<1>8. \A r \in Requests : st[r] = "waiting" <=> status[r] = "waiting"
  BY DEF Waiters, Waiting
<1>9. Front(k) \subseteq Waiting /\ IsFiniteSet(Front(k)) /\ Cardinality(Front(k)) = k
  BY <1>2, FrontSize
<1>10. Holding' = Holders(st) \cup Front(k)
  BY <1>4, <1>9 DEF Holding, Holders, Front, Waiting
<1>11. Waiting' = Waiting \ Front(k)
  BY <1>4, <1>8 DEF Waiting, Front
<1>12. QueueIsWaiting'
  <2>1. {queue'[i] : i \in 1..Len(queue')} = Waiting \ Front(k)
    <3>1. ASSUME NEW x \in Waiting \ Front(k)
          PROVE  x \in {queue'[i] : i \in 1..Len(queue')}
      <4>1. PICK j \in 1..Len(queue) : queue[j] = x
        BY DEF QueueIsWaiting
      <4>2. j > k
        BY <4>1, <1>1, <1>2 DEF Front
      <4>3. /\ j - k \in 1..Len(queue')
            /\ queue'[j - k] = queue[k + (j - k)]
            /\ k + (j - k) = j
        BY <4>2, <1>1, <1>2, <1>5
      <4> QED
        BY <4>1, <4>3
    <3>2. ASSUME NEW i \in 1..Len(queue')
          PROVE  queue'[i] \in Waiting \ Front(k)
      <4>1. k + i \in 1..Len(queue) /\ queue'[i] = queue[k + i] /\ k + i > k
        BY <1>1, <1>2, <1>5
      <4>2. queue[k + i] \in Waiting
        BY <4>1 DEF QueueIsWaiting
      <4>3. ASSUME NEW j \in 1..k PROVE queue[j] # queue[k + i]
        <5>1. j \in 1..Len(queue) /\ j # k + i
          BY <1>1, <1>2, <4>1
        <5> QED
          BY <5>1, <4>1 DEF QueueIsWaiting
      <4> QED
        BY <4>1, <4>2, <4>3 DEF Front
    <3> QED
      BY <3>1, <3>2
  <2>2. \A i, j \in 1..Len(queue') : queue'[i] = queue'[j] => i = j
    <3> SUFFICES ASSUME NEW i \in 1..Len(queue'), NEW j \in 1..Len(queue'),
                        queue'[i] = queue'[j]
                 PROVE  i = j
      OBVIOUS
    <3>1. /\ k + i \in 1..Len(queue) /\ k + j \in 1..Len(queue)
          /\ queue'[i] = queue[k + i] /\ queue'[j] = queue[k + j]
      BY <1>1, <1>2, <1>5
    <3>2. k + i = k + j
      BY <3>1 DEF QueueIsWaiting
    <3> QED
      BY <3>2, <1>1, <1>2, <1>5
  <2> QED
    BY <2>1, <2>2, <1>11 DEF QueueIsWaiting
<1>13. Cardinality(Holding') = Cardinality(Holders(st)) + k
  <2>1. IsFiniteSet(Holders(st))
    BY RequestsFinite, FS_Subset DEF Holders
  <2>2. Holders(st) \cap Front(k) = {}
    BY <1>8, <1>9 DEF Holders, Waiting
  <2>3. Cardinality(Holders(st)) \in Nat /\ Cardinality({}) = 0
    BY <2>1, FS_CardinalityType, FS_EmptySet
  <2>4. Cardinality(Holders(st) \cup Front(k))
          = Cardinality(Holders(st)) + Cardinality(Front(k))
              - Cardinality(Holders(st) \cap Front(k))
    BY <1>9, <2>1, FS_Union
  <2>5. Cardinality(Holding') = Cardinality(Holders(st) \cup Front(k))
    BY <1>10, Zenon
  <2>6. Cardinality(Holders(st) \cap Front(k)) = 0
    BY <2>2, <2>3, Zenon
  <2> QED
    BY <1>1, <1>2, <1>9, <2>3, <2>4, <2>5, <2>6
<1>14. running' \in Nat
  BY <1>1, <1>2, <1>4
<1> QED
  BY <1>2, <1>4, <1>5, <1>6, <1>7, <1>10, <1>11, <1>12, <1>13, <1>14 DEF k

-----------------------------------------------------------------------------
(* A key starts without a gate and without callers. *)
LEMMA InitIInv == Init => IInv
<1> SUFFICES ASSUME Init PROVE IInv
  OBVIOUS
<1>1. Holding = {} /\ Waiting = {}
  BY DEF Init, Holding, Waiting
<1>2. TypeOK
  <2>1. max \in Nat \ {0} /\ timers \in 0..MaxTimers
    BY CapsPositive, BoundsNat DEF Init
  <2>2. queue \in Seq(Requests)
    BY EmptySeq DEF Init
  <2> QED
    BY <2>1, <2>2 DEF Init, TypeOK
<1>3. QueueIsWaiting
  BY <1>1, <1>2, EmptySeq DEF Init, QueueIsWaiting
<1>4. SlotsAccounted
  <2>1. Cardinality(Holding) = 0 /\ running = 0
    BY <1>1, FS_EmptySet DEF Init
  <2> QED
    BY <2>1 DEF SlotsAccounted
<1> QED
  BY <1>2, <1>3, <1>4 DEF Init, IInv, GateShape, IdleGateHasTimer

(* The callers that hold a slot are finitely many. *)
LEMMA HoldingFinite ==
  /\ IsFiniteSet(Holding)
  /\ Cardinality(Holding) \in Nat
BY RequestsFinite, FS_Subset, FS_CardinalityType DEF Holding

(* One caller starts or stops to hold a slot. *)
LEMMA HoldersChange ==
  ASSUME NEW r \in Requests, status \in [Requests -> Statuses]
  PROVE  /\ \A s \in Statuses \ {"holding"} :
              LET st == [status EXCEPT ![r] = s]
              IN  Cardinality(Holders(st)) =
                    IF status[r] = "holding" THEN Cardinality(Holding) - 1
                                             ELSE Cardinality(Holding)
         /\ status[r] # "holding" =>
              Cardinality(Holders([status EXCEPT ![r] = "holding"]))
                = Cardinality(Holding) + 1
<1>1. ASSUME NEW s \in Statuses \ {"holding"}
      PROVE  Holders([status EXCEPT ![r] = s]) = Holding \ {r}
  BY DEF Holders, Holding
<1>2. Holders([status EXCEPT ![r] = "holding"]) = Holding \cup {r}
  BY DEF Holders, Holding
<1>3. r \in Holding <=> status[r] = "holding"
  BY DEF Holding
<1> QED
  BY <1>1, <1>2, <1>3, HoldingFinite, FS_AddElement, FS_RemoveElement

(* A call or a timer that ends in drainQueue preserves the invariant when what
   it hands to drainQueue is accounted for. *)
LEMMA DrainIInv ==
  ASSUME IInv,
         NEW n \in Nat, NEW b \in Blocks, NEW st \in [Requests -> Statuses],
         Waiters(st) = Waiting,
         n <= Cardinality(Holders(st)),
         ~MayReset => n = Cardinality(Holders(st)),
         b # "none" => timers' > 0,
         present, UNCHANGED <<present, max>>, timers' \in 0..MaxTimers,
         Drain(n, b, st)
  PROVE  IInv'
<1> DEFINE k == Admissible(n, b)
<1> USE DEF IInv
<1>1. /\ k \in 0..Len(queue)
      /\ queue' \in Seq(Requests)
      /\ status' \in [Requests -> Statuses]
      /\ running' \in Nat
      /\ running' = n + k
      /\ blocked' \in Blocks
      /\ QueueIsWaiting'
      /\ Cardinality(Holding') = Cardinality(Holders(st)) + k
  BY DrainEffect
<1>2. /\ queue' = SubSeq(queue, k + 1, Len(queue))
      /\ blocked' = IF queue # <<>> /\ n < max THEN Unblock(b) ELSE b
      /\ cleanup' = (cleanup \/ (n + k = 0 /\ k = Len(queue)))
  BY DEF Drain, Admit
<1>3. Len(queue) \in Nat
  BY LenProperties DEF TypeOK
<1> HIDE DEF k
<1>4. IsFiniteSet(Holders(st)) /\ Cardinality(Holders(st)) \in Nat
  BY RequestsFinite, FS_Subset, FS_CardinalityType DEF Holders
<1>5. TypeOK'
  <2>1. cleanup' \in BOOLEAN
    BY <1>2 DEF TypeOK
  <2> QED
    BY <1>1, <2>1 DEF TypeOK, Statuses, Blocks
<1>6. SlotsAccounted'
  BY <1>1, <1>3, <1>4 DEF SlotsAccounted
<1>7. GateShape'
  BY <1>2 DEF GateShape, Unblock
<1>8. IdleGateHasTimer'
  <2> SUFFICES ASSUME running' = 0, queue' = <<>> PROVE cleanup'
    BY DEF IdleGateHasTimer
  <2>1. k = 0
    BY <1>1, <1>3
  <2>2. SubSeq(queue, 1, Len(queue)) = queue
    BY SubSeqFull DEF TypeOK
  <2>3. queue = <<>>
    BY <1>2, <2>1, <2>2
  <2> QED
    BY <1>1, <1>2, <2>1, <2>3
<1> QED
  BY <1>1, <1>5, <1>6, <1>7, <1>8

(* The invariant rests on nothing but the callers that hold and wait, the queue
   and the gate: a step that changes no caller, the queue, or the count of the
   slots preserves what is said of them. *)
LEMMA SameCallers ==
  ASSUME IInv, UNCHANGED <<status, queue, running>>
  PROVE  QueueIsWaiting' /\ SlotsAccounted'
BY DEF IInv, QueueIsWaiting, SlotsAccounted, Waiting, Holding

(* acquire: a newcomer takes a slot, joins the queue once, or is turned away;
   it disarms the cleanup timer of a gate it leaves in use. *)
LEMMA AcquireIInv ==
  ASSUME IInv, NEW r \in Requests, Acquire(r)
  PROVE  IInv'
<1> USE DEF IInv
<1>0. /\ status \in [Requests -> Statuses]
      /\ Len(queue) \in Nat
      /\ queue \in [1..Len(queue) -> Requests]
  BY LenProperties DEF TypeOK, Statuses
<1>1. CASE AcquireBypassed(r)
  <2> USE <1>1 DEF AcquireBypassed
  <2>1. TypeOK'
    BY <1>0 DEF TypeOK
  <2>2. Holding' = Holding /\ Waiting' = Waiting
    BY <1>0 DEF Holding, Waiting
  <2>3. QueueIsWaiting'
    BY <2>2 DEF QueueIsWaiting
  <2>4. Cardinality(Holding') = Cardinality(Holding)
    BY <2>2, Zenon
  <2>5. SlotsAccounted'
    BY <2>4 DEF SlotsAccounted
  <2> QED
    BY <2>1, <2>3, <2>5 DEF GateShape, IdleGateHasTimer
<1>2. CASE \E c \in Caps : AcquireFast(r, c)
  <2> PICK c \in Caps : AcquireFast(r, c)
    BY <1>2
  <2> USE DEF AcquireFast, EnsureGate, HasRoom
  <2>1. TypeOK'
    <3>1. status' \in [Requests -> Statuses]
      BY <1>0 DEF Statuses
    <3>2. /\ max' \in Nat \ {0} /\ running' \in Nat
          /\ blocked' \in {"none", "active", "lapsed"}
      BY CapsPositive DEF TypeOK, Unblock
    <3> QED
      BY <3>1, <3>2 DEF TypeOK, Statuses
  <2>2. Waiting' = Waiting
    BY <1>0 DEF Waiting
  <2>3. QueueIsWaiting'
    BY <2>2 DEF QueueIsWaiting
  <2>4. Holding' = Holders([status EXCEPT ![r] = "holding"])
    BY DEF Holding, Holders
  <2>5. Cardinality(Holding') = Cardinality(Holding) + 1
    <3>1. Cardinality(Holders([status EXCEPT ![r] = "holding"]))
            = Cardinality(Holding) + 1
      BY <1>0, HoldersChange
    <3>2. Cardinality(Holding')
            = Cardinality(Holders([status EXCEPT ![r] = "holding"]))
      BY <2>4, Zenon
    <3> QED
      BY <3>1, <3>2
  <2>6. SlotsAccounted'
    BY <2>5, HoldingFinite DEF SlotsAccounted, TypeOK
  <2>7. GateShape' /\ IdleGateHasTimer'
    BY DEF GateShape, IdleGateHasTimer, Unblock, TypeOK
  <2> QED
    BY <2>1, <2>3, <2>6, <2>7
<1>3. CASE \E c \in Caps : AcquireQueueFull(r, c)
  <2> PICK c \in Caps : AcquireQueueFull(r, c)
    BY <1>3
  <2> USE DEF AcquireQueueFull, EnsureGate, HasRoom
  <2>1. TypeOK'
    BY CapsPositive DEF TypeOK
  <2>2. QueueIsWaiting' /\ SlotsAccounted'
    BY SameCallers
  <2>3. GateShape'
    BY DEF GateShape
  <2>4. IdleGateHasTimer'
    BY CapsPositive DEF IdleGateHasTimer, GateShape, TypeOK
  <2> QED
    BY <2>1, <2>2, <2>3, <2>4
<1>4. CASE \E c \in Caps : AcquireQueued(r, c)
  <2> PICK c \in Caps : AcquireQueued(r, c)
    BY <1>4
  <2> USE DEF AcquireQueued, EnsureGate
  <2>1. /\ queue' \in Seq(Requests)
        /\ Len(queue') = Len(queue) + 1
        /\ \A i \in 1..Len(queue) : queue'[i] = queue[i]
        /\ queue'[Len(queue) + 1] = r
        /\ queue' # <<>>
    BY AppendProperties DEF TypeOK
  <2>2. TypeOK'
    BY <1>0, <2>1, CapsPositive DEF TypeOK
  <2>3. Waiting' = Waiting \cup {r} /\ r \notin Waiting /\ Holding' = Holding
    BY <1>0 DEF Waiting, Holding
  <2>4. QueueIsWaiting'
    <3>1. {queue'[i] : i \in 1..Len(queue')} = {queue[i] : i \in 1..Len(queue)} \cup {r}
      BY <1>0, <2>1
    <3>2. \A i \in 1..Len(queue) : queue[i] # r
      BY <2>3 DEF QueueIsWaiting
    <3>3. \A i, j \in 1..Len(queue') : queue'[i] = queue'[j] => i = j
      BY <1>0, <2>1, <3>2 DEF QueueIsWaiting
    <3> QED
      BY <2>3, <3>1, <3>3 DEF QueueIsWaiting
  <2>5. Cardinality(Holding') = Cardinality(Holding)
    BY <2>3, Zenon
  <2>6. SlotsAccounted'
    BY <2>5 DEF SlotsAccounted
  <2> QED
    BY <2>1, <2>2, <2>4, <2>6 DEF GateShape, IdleGateHasTimer
<1> QED
  BY <1>1, <1>2, <1>3, <1>4 DEF Acquire

(* A timeout or an abort takes its own waiter out of the queue, and arms the
   cleanup timer when it leaves the gate idle. *)
LEMMA GiveUpIInv ==
  ASSUME IInv, NEW r \in Requests, GiveUp(r)
  PROVE  IInv'
<1> USE DEF IInv
<1>0. /\ status \in [Requests -> Statuses]
      /\ Len(queue) \in Nat
      /\ queue \in [1..Len(queue) -> Requests]
  BY LenProperties DEF TypeOK, Statuses
<1>p. PICK i \in 1..Len(queue) :
       /\ queue[i] = r
       /\ queue' = SubSeq(queue, 1, i - 1) \o SubSeq(queue, i + 1, Len(queue))
  BY DEF GiveUp
<1>i. i \in 1..Len(queue) /\ queue[i] = r
  BY <1>p
<1>n. Len(queue) \in Nat /\ i \in Nat /\ 1 <= i /\ i <= Len(queue)
  BY <1>0, <1>i
<1> DEFINE front == SubSeq(queue, 1, i - 1)
           back == SubSeq(queue, i + 1, Len(queue))
<1>1. /\ front \in Seq(Requests)
      /\ Len(front) = i - 1
      /\ \A j \in 1..(i - 1) : front[j] = queue[j]
  <2>1. \A j \in 1..(i - 1) : queue[j] \in Requests
    BY <1>0, <1>i
  <2>2. /\ front \in Seq(Requests)
        /\ Len(front) = IF 1 <= i - 1 THEN (i - 1) - 1 + 1 ELSE 0
        /\ \A j \in 1..((i - 1) - 1 + 1) : front[j] = queue[1 + j - 1]
    BY <1>0, <1>i, <2>1, SubSeqProperties
  <2>3. \A j \in 1..(i - 1) : j \in 1..((i - 1) - 1 + 1) /\ 1 + j - 1 = j
    BY <1>i
  <2> QED
    BY <1>0, <1>i, <2>2, <2>3
<1>2. /\ back \in Seq(Requests)
      /\ Len(back) = Len(queue) - i
      /\ \A j \in 1..(Len(queue) - i) : back[j] = queue[i + j]
  <2>1. \A j \in (i + 1)..Len(queue) : queue[j] \in Requests
    BY <1>0, <1>i
  <2>2. /\ back \in Seq(Requests)
        /\ Len(back) = IF i + 1 <= Len(queue) THEN Len(queue) - (i + 1) + 1 ELSE 0
        /\ \A j \in 1..(Len(queue) - (i + 1) + 1) : back[j] = queue[(i + 1) + j - 1]
    BY <1>0, <1>i, <2>1, SubSeqProperties
  <2>3. \A j \in 1..(Len(queue) - i) :
           j \in 1..(Len(queue) - (i + 1) + 1) /\ (i + 1) + j - 1 = i + j
    BY <1>0, <1>i
  <2>4. Len(back) = Len(queue) - i
    <3> HIDE DEF back
    <3>1. CASE i + 1 <= Len(queue)
      BY <1>0, <1>i, <2>2, <3>1
    <3>2. CASE ~(i + 1 <= Len(queue))
      <4>1. Len(back) = 0
        BY <2>2, <3>2
      <4>2. Len(queue) - i = 0
        BY <1>n, <3>2
      <4> QED
        BY <4>1, <4>2
    <3> QED
      BY <3>1, <3>2
  <2>5. \A j \in 1..(Len(queue) - i) : back[j] = queue[i + j]
    <3> TAKE j \in 1..(Len(queue) - i)
    <3>1. back[j] = queue[(i + 1) + j - 1]
      BY <2>2, <2>3
    <3> QED
      BY <2>3, <3>1
  <2> QED
    BY <2>2, <2>4, <2>5
<1> HIDE DEF front, back
<1>3. /\ queue' \in Seq(Requests)
      /\ Len(queue') = Len(queue) - 1
      /\ \A j \in 1..(Len(queue) - 1) :
            queue'[j] = IF j < i THEN queue[j] ELSE queue[j + 1]
  <2>1. queue' = front \o back
    BY <1>p DEF front, back
  <2>2. /\ front \o back \in Seq(Requests)
        /\ Len(front \o back) = Len(front) + Len(back)
        /\ \A j \in 1..(Len(front) + Len(back)) :
             (front \o back)[j] = IF j <= Len(front) THEN front[j] ELSE back[j - Len(front)]
    BY <1>1, <1>2, ConcatProperties
  <2>3. ASSUME NEW j \in 1..(Len(queue) - 1)
        PROVE  queue'[j] = IF j < i THEN queue[j] ELSE queue[j + 1]
    <3>0. /\ j \in 1..(Len(front) + Len(back))
          /\ j < i <=> j <= Len(front)
      BY <1>0, <1>1, <1>2, <1>i
    <3>1. queue'[j] = IF j < i THEN front[j] ELSE back[j - Len(front)]
      BY <2>1, <2>2, <3>0
    <3>2. CASE j < i
      <4>1. j \in 1..(i - 1)
        BY <1>0, <1>i, <3>2
      <4> QED
        BY <1>1, <3>1, <3>2, <4>1
    <3>3. CASE ~(j < i)
      <4>1. /\ j - Len(front) \in 1..(Len(queue) - i)
            /\ i + (j - Len(front)) = j + 1
        BY <1>0, <1>1, <1>i, <3>3
      <4> QED
        BY <1>2, <3>1, <3>3, <4>1
    <3> QED
      BY <3>2, <3>3
  <2>4. Len(front) + Len(back) = Len(queue) - 1
    BY <1>0, <1>1, <1>2, <1>i
  <2> QED
    BY <2>1, <2>2, <2>3, <2>4
<1>4. TypeOK'
  BY <1>0, <1>3 DEF GiveUp, TypeOK
<1>5. Waiting' = Waiting \ {r} /\ Holding' = Holding
  BY <1>0 DEF GiveUp, Waiting, Holding
<1>6. QueueIsWaiting'
  <2>1. ASSUME NEW x \in Waiting \ {r}
        PROVE  x \in {queue'[j] : j \in 1..Len(queue')}
    <3>1. PICK m \in 1..Len(queue) : queue[m] = x
      BY DEF QueueIsWaiting
    <3>2. m # i
      BY <1>i, <3>1
    <3>3. CASE m < i
      <4>1. m \in 1..(Len(queue) - 1) /\ m \in 1..Len(queue')
        BY <1>0, <1>3, <1>i, <3>1, <3>3
      <4> QED
        BY <1>3, <3>1, <3>3, <4>1
    <3>4. CASE m > i
      <4>1. /\ m - 1 \in 1..(Len(queue) - 1) /\ m - 1 \in 1..Len(queue')
            /\ ~(m - 1 < i) /\ (m - 1) + 1 = m
        BY <1>0, <1>3, <1>i, <3>1, <3>4
      <4>2. queue'[m - 1] = x
        BY <1>3, <3>1, <4>1
      <4> QED
        BY <4>1, <4>2
    <3> QED
      BY <1>0, <1>i, <3>1, <3>2, <3>3, <3>4
  <2>2. \A j \in 1..Len(queue') :
          \E m \in 1..Len(queue) : /\ queue'[j] = queue[m]
                                    /\ m = IF j < i THEN j ELSE j + 1
    <3> TAKE j \in 1..Len(queue')
    <3>1. /\ j \in 1..(Len(queue) - 1)
          /\ j \in 1..Len(queue) /\ j + 1 \in 1..Len(queue)
      BY <1>0, <1>3
    <3>2. queue'[j] = IF j < i THEN queue[j] ELSE queue[j + 1]
      BY <1>3, <3>1
    <3> QED
      BY <3>1, <3>2
  <2>3. ASSUME NEW j \in 1..Len(queue')
        PROVE  queue'[j] \in Waiting \ {r}
    <3>1. PICK m \in 1..Len(queue) : queue'[j] = queue[m] /\ m = IF j < i THEN j ELSE j + 1
      BY <2>2
    <3>2. m # i
      BY <1>0, <1>3, <1>i, <3>1
    <3>3. queue[m] # r /\ queue[m] \in Waiting
      BY <1>i, <3>1, <3>2 DEF QueueIsWaiting
    <3> QED
      BY <3>1, <3>3
  <2>4. ASSUME NEW j \in 1..Len(queue'), NEW l \in 1..Len(queue'), queue'[j] = queue'[l]
        PROVE  j = l
    <3>1. PICK m \in 1..Len(queue) : queue'[j] = queue[m] /\ m = IF j < i THEN j ELSE j + 1
      BY <2>2
    <3>2. PICK o \in 1..Len(queue) : queue'[l] = queue[o] /\ o = IF l < i THEN l ELSE l + 1
      BY <2>2
    <3>3. m = o
      BY <2>4, <3>1, <3>2 DEF QueueIsWaiting
    <3> QED
      BY <1>0, <1>3, <1>i, <3>1, <3>2, <3>3
  <2>5. {queue'[j] : j \in 1..Len(queue')} = Waiting'
    BY <1>5, <2>1, <2>3
  <2> QED
    BY <2>4, <2>5 DEF QueueIsWaiting
<1>7. Cardinality(Holding') = Cardinality(Holding)
  BY <1>5, Zenon
<1>8. SlotsAccounted'
  BY <1>7 DEF GiveUp, SlotsAccounted
<1>9. present
  BY <1>0, <1>i, EmptySeq DEF GateShape
<1> QED
  BY <1>4, <1>6, <1>8, <1>9 DEF GiveUp, GateShape, IdleGateHasTimer

(* release: the slot that is given back, to a gate or to none, is accounted for. *)
LEMMA ReleaseIInv ==
  ASSUME IInv, NEW r \in Requests, Release(r)
  PROVE  IInv'
<1> USE DEF IInv
<1> DEFINE n == IF running > 0 THEN running - 1 ELSE 0
           st == [status EXCEPT ![r] = "idle"]
<1>0. /\ status \in [Requests -> Statuses] /\ st \in [Requests -> Statuses]
      /\ n \in Nat
      /\ status[r] = "holding"
      /\ running \in Nat
  BY DEF TypeOK, Statuses, Release, OneLess
<1>1. Waiters(st) = Waiting
  BY <1>0 DEF Waiters, Waiting
<1>2. /\ Cardinality(Holders(st)) = Cardinality(Holding) - 1
      /\ Cardinality(Holding) \in Nat
  BY <1>0, HoldersChange, HoldingFinite DEF Statuses
<1>3. Cardinality(Holding) > 0
  <2>1. r \in Holding
    BY <1>0 DEF Holding
  <2> QED
    BY <2>1, <1>2, HoldingFinite, FS_EmptySet
<1>4. /\ n <= Cardinality(Holders(st))
      /\ ~MayReset => n = Cardinality(Holders(st))
  BY <1>0, <1>2, <1>3 DEF SlotsAccounted
<1>5. UNCHANGED <<present, max, timers>>
  BY DEF Release, OneLess
<1>6. CASE present /\ queue # <<>>
  <2>1. Drain(n, blocked, st)
    BY <1>6 DEF Release, OneLess
  <2>2. blocked \in Blocks /\ timers' \in 0..MaxTimers
    BY <1>5 DEF TypeOK, Blocks
  <2>3. blocked # "none" => timers' > 0
    BY <1>5 DEF GateShape
  <2> HIDE DEF n, st
  <2> QED
    BY <1>0, <1>1, <1>4, <1>5, <1>6, <2>1, <2>2, <2>3, DrainIInv
<1>7. CASE ~(present /\ queue # <<>>)
  <2>1. status' = st /\ UNCHANGED <<queue, blocked>>
    BY <1>7 DEF Release, OneLess
  <2>2. \/ ~present /\ UNCHANGED <<running, cleanup>>
        \/ present /\ queue = <<>> /\ running' = n /\ cleanup' = TRUE
    BY <1>7 DEF Release, OneLess
  <2>3. Waiting' = Waiting /\ Holding' = Holders(st)
    BY <1>1, <2>1 DEF Waiting, Waiters, Holding, Holders
  <2>4. QueueIsWaiting'
    BY <2>1, <2>3 DEF QueueIsWaiting
  <2>5. TypeOK'
    BY <1>0, <1>5, <2>1, <2>2 DEF TypeOK, Statuses
  <2>6. Cardinality(Holding') = Cardinality(Holders(st))
    BY <2>3, Zenon
  <2>7. running' = n
    BY <1>0, <2>2 DEF GateShape
  <2>8. SlotsAccounted'
    BY <1>4, <2>6, <2>7 DEF SlotsAccounted
  <2>9. GateShape' /\ IdleGateHasTimer'
    BY <1>5, <2>1, <2>2 DEF GateShape, IdleGateHasTimer
  <2> QED
    BY <2>4, <2>5, <2>8, <2>9
<1> QED
  BY <1>6, <1>7

(* The no-op release of a caller that was never counted. *)
LEMMA ReleaseBypassedIInv ==
  ASSUME IInv, NEW r \in Requests, ReleaseBypassed(r)
  PROVE  IInv'
<1> USE DEF IInv, ReleaseBypassed
<1>1. TypeOK'
  BY DEF TypeOK
<1>2. Holding' = Holding /\ Waiting' = Waiting
  BY DEF Holding, Waiting, TypeOK
<1>3. QueueIsWaiting'
  BY <1>2 DEF QueueIsWaiting
<1>4. Cardinality(Holding') = Cardinality(Holding)
  BY <1>2, Zenon
<1>5. SlotsAccounted'
  BY <1>4 DEF SlotsAccounted
<1> QED
  BY <1>1, <1>3, <1>5 DEF GateShape, IdleGateHasTimer

(* What drainQueue finds when it is called for the callers as they are. *)
LEMMA CallersAsTheyAre ==
  ASSUME IInv
  PROVE  /\ running \in Nat
         /\ status \in [Requests -> Statuses]
         /\ Waiters(status) = Waiting
         /\ running <= Cardinality(Holders(status))
         /\ ~MayReset => running = Cardinality(Holders(status))
<1>1. Holders(status) = Holding
  BY DEF Holders, Holding
<1>2. Cardinality(Holders(status)) = Cardinality(Holding)
  BY <1>1, Zenon
<1> QED
  BY <1>2 DEF IInv, TypeOK, Statuses, Waiters, Waiting, SlotsAccounted

(* markBlocked, the lifting of a block, the clock, and the timer of a block. *)
LEMMA TimersIInv ==
  ASSUME IInv, MarkBlocked \/ LiftBlock \/ CooldownElapses \/ BlockTimerFires
  PROVE  IInv'
<1> USE DEF IInv
<1>1. CASE MarkBlocked
  <2> USE <1>1 DEF MarkBlocked
  <2>1. TypeOK'
    <3>1. timers' \in 0..MaxTimers
      BY BoundsNat DEF TypeOK
    <3>2. max' \in Nat \ {0}
      BY DEF TypeOK
    <3> QED
      BY <3>1, <3>2 DEF TypeOK
  <2>2. QueueIsWaiting' /\ SlotsAccounted'
    BY SameCallers
  <2>3. GateShape' /\ IdleGateHasTimer'
    BY DEF GateShape, IdleGateHasTimer, TypeOK
  <2> QED
    BY <2>1, <2>2, <2>3
<1>2. CASE LiftBlock
  <2>1. /\ present /\ Drain(running, "none", status)
        /\ UNCHANGED <<present, max>> /\ timers' \in 0..MaxTimers
    BY <1>2 DEF LiftBlock, TypeOK
  <2>2. "none" \in Blocks
    BY DEF Blocks
  <2> QED
    BY <2>1, <2>2, CallersAsTheyAre, DrainIInv
<1>3. CASE CooldownElapses
  <2> USE <1>3 DEF CooldownElapses
  <2>1. TypeOK'
    BY DEF TypeOK
  <2>2. QueueIsWaiting' /\ SlotsAccounted'
    BY SameCallers
  <2>3. GateShape' /\ IdleGateHasTimer'
    BY DEF GateShape, IdleGateHasTimer, TypeOK
  <2> QED
    BY <2>1, <2>2, <2>3
<1>4. CASE BlockTimerFires
  <2>1. /\ timers' \in 0..MaxTimers
        /\ UNCHANGED <<present, max>>
        /\ blocked = "active" => timers' > 0
    BY <1>4, BoundsNat DEF BlockTimerFires, TypeOK
  <2>2. CASE blocked = "lapsed"
    <3>1. present /\ Drain(running, "none", status)
      BY <1>4, <2>2 DEF BlockTimerFires, GateShape
    <3>2. "none" \in Blocks
      BY DEF Blocks
    <3> QED
      BY <2>1, <3>1, <3>2, CallersAsTheyAre, DrainIInv
  <2>3. CASE blocked # "lapsed"
    <3>1. UNCHANGED <<status, running, queue, blocked, cleanup>>
      BY <1>4, <2>3 DEF BlockTimerFires
    <3>2. TypeOK'
      BY <2>1, <3>1 DEF TypeOK
    <3>3. QueueIsWaiting' /\ SlotsAccounted'
      BY <3>1, SameCallers
    <3>4. GateShape' /\ IdleGateHasTimer'
      BY <2>1, <2>3, <3>1 DEF GateShape, IdleGateHasTimer, TypeOK
    <3> QED
      BY <3>2, <3>3, <3>4
  <2> QED
    BY <2>2, <2>3
<1> QED
  BY <1>1, <1>2, <1>3, <1>4

(* The cleanup timer deletes the gate only when nobody holds or waits. *)
LEMMA CleanupIInv ==
  ASSUME IInv, CleanupFires
  PROVE  IInv'
<1> USE DEF IInv, CleanupFires
<1>1. CASE running = 0 /\ queue = <<>> /\ blocked # "active"
  <2> USE <1>1 DEF DeleteGate
  <2>1. TypeOK'
    BY EmptySeq DEF TypeOK
  <2>2. QueueIsWaiting' /\ SlotsAccounted'
    BY SameCallers
  <2> QED
    BY <2>1, <2>2 DEF GateShape, IdleGateHasTimer
<1>2. CASE ~(running = 0 /\ queue = <<>> /\ blocked # "active")
  <2> USE <1>2
  <2>1. TypeOK'
    BY DEF TypeOK
  <2>2. QueueIsWaiting' /\ SlotsAccounted'
    BY SameCallers
  <2>3. GateShape' /\ IdleGateHasTimer'
    BY DEF GateShape, IdleGateHasTimer, TypeOK
  <2> QED
    BY <2>1, <2>2, <2>3
<1> QED
  BY <1>1, <1>2

(* reset rejects every waiter it unqueues; a later release finds a gate that
   counts too few, never too many. *)
LEMMA ResetIInv ==
  ASSUME IInv, Reset
  PROVE  IInv'
<1> USE DEF IInv, Reset, DeleteGate
<1>1. TypeOK'
  <2>1. status' \in [Requests -> {"idle", "waiting", "holding", "bypassed"}]
    BY DEF TypeOK
  <2> QED
    BY <2>1, EmptySeq DEF TypeOK
<1>2. Waiting' = {} /\ Holding' = Holding
  BY DEF Waiting, Holding
<1>3. QueueIsWaiting'
  <2>1. Len(queue') = 0
    BY EmptySeq
  <2>2. {queue'[i] : i \in 1..Len(queue')} = {}
    BY <2>1
  <2> QED
    BY <1>2, <2>1, <2>2 DEF QueueIsWaiting
<1>4. Cardinality(Holding') = Cardinality(Holding)
  BY <1>2, Zenon
<1>5. SlotsAccounted'
  BY <1>4, HoldingFinite DEF SlotsAccounted
<1> QED
  BY <1>1, <1>3, <1>5 DEF GateShape, IdleGateHasTimer

(* Every call and every timer keeps the invariant. *)
LEMMA NextIInv == IInv /\ [Next]_vars => IInv'
<1> SUFFICES ASSUME IInv, [Next]_vars PROVE IInv'
  OBVIOUS
<1>1. ASSUME NEW r \in Requests, Acquire(r) PROVE IInv'
  BY <1>1, AcquireIInv
<1>2. ASSUME NEW r \in Requests, GiveUp(r) PROVE IInv'
  BY <1>2, GiveUpIInv
<1>3. ASSUME NEW r \in Requests, Release(r) PROVE IInv'
  BY <1>3, ReleaseIInv
<1>4. ASSUME NEW r \in Requests, ReleaseBypassed(r) PROVE IInv'
  BY <1>4, ReleaseBypassedIInv
<1>5. ASSUME MarkBlocked \/ LiftBlock \/ CooldownElapses \/ BlockTimerFires PROVE IInv'
  BY <1>5, TimersIInv
<1>6. ASSUME CleanupFires PROVE IInv'
  BY <1>6, CleanupIInv
<1>7. ASSUME Reset PROVE IInv'
  BY <1>7, ResetIInv
<1>8. CASE UNCHANGED vars
  BY <1>8, SameCallers DEF IInv, vars, TypeOK, GateShape, IdleGateHasTimer
<1> QED
  BY <1>1, <1>2, <1>3, <1>4, <1>5, <1>6, <1>7, <1>8 DEF Next

(* The state of a gate is always well formed, and its accounts are right: what
   the theorems below take from each behaviour. *)
THEOREM Invariance == Spec => []IInv
<1> QED
  BY InitIInv, NextIInv, PTL DEF Spec

(* The gate's record and the callers' states stay within their types, for every
   number of callers. *)
THEOREM TypeCorrect == Spec => []TypeOK
<1>1. IInv => TypeOK
  BY DEF IInv
<1> QED
  BY <1>1, Invariance, PTL

(* No acquire promise is stranded: whatever timeouts, aborts, drains and resets
   interleave, the pending callers are exactly the queued ones. *)
THEOREM NoStrandedWaiter == Spec => []QueueIsWaiting
<1>1. IInv => QueueIsWaiting
  BY DEF IInv
<1> QED
  BY <1>1, Invariance, PTL

(* gate.running never exceeds the callers that hold a slot, so a slot cannot be
   lost; without resets it is their number. *)
THEOREM NoLostSlot == Spec => []SlotsAccounted
<1>1. IInv => SlotsAccounted
  BY DEF IInv
<1> QED
  BY <1>1, Invariance, PTL

(* An idle gate always has a timer pending that leads to its deletion. *)
THEOREM NoLeakedGate == Spec => []IdleGateHasTimer
<1>1. IInv => IdleGateHasTimer
  BY DEF IInv
<1> QED
  BY <1>1, Invariance, PTL

-----------------------------------------------------------------------------
(* The order of admission *)

(* The waiters that drainQueue admits are the first ones. *)
LEMMA DrainInOrder ==
  ASSUME IInv,
         NEW n \in Nat, NEW b \in Blocks, NEW st \in [Requests -> Statuses],
         Waiters(st) = Waiting, Holders(st) \subseteq Holding,
         Drain(n, b, st)
  PROVE  \A r \in Admitted \cap Waiting : Ahead(r) \cap Waiting' = {}
<1> DEFINE k == Admissible(n, b)
<1>1. /\ k \in 0..Len(queue)
      /\ Holding' = Holders(st) \cup Front(k)
      /\ Waiting' = Waiting \ Front(k)
  BY DrainEffect DEF IInv
<1> HIDE DEF k
<1>2. SUFFICES ASSUME NEW r \in Admitted, NEW x \in Ahead(r)
               PROVE  x \in Front(k)
  BY <1>1
<1>3. PICK j \in 1..k : queue[j] = r
  BY <1>1 DEF Admitted, Front
<1>4. PICK i \in 1..Len(queue) : x = queue[i] /\ \A m \in 1..i : queue[m] # r
  BY DEF Ahead
<1>5. i < j
  BY <1>1, <1>3, <1>4
<1>6. i \in 1..k
  BY <1>1, <1>5
<1> QED
  BY <1>4, <1>6 DEF Front

(* Nobody is admitted past a waiter that stands in front of it and is left to
   wait, whoever drains the queue: a release, the timer of a block, or the call
   that lifts the block. *)
THEOREM InOrder == Spec => WaitersInOrder
<1> DEFINE Fair == \A r \in Admitted \cap Waiting : Ahead(r) \cap Waiting' = {}
<1>1. IInv /\ [Next]_vars => [Fair]_vars
  <2> SUFFICES ASSUME IInv, Next PROVE Fair
    OBVIOUS
  <2>0. /\ status \in [Requests -> Statuses] /\ running \in Nat
        /\ "none" \in Blocks /\ blocked \in Blocks
    BY DEF IInv, TypeOK, Statuses, Blocks
  <2>1. ASSUME NEW r \in Requests, NEW c \in Caps, AcquireFast(r, c) PROVE Fair
    <3>1. Holding' = Holding \cup {r} /\ r \notin Waiting
      BY <2>0, <2>1 DEF AcquireFast, Holding, Waiting
    <3> QED
      BY <3>1 DEF Admitted
  <2>2. ASSUME Holding' \subseteq Holding PROVE Fair
    BY <2>2 DEF Admitted
  <2>3. ASSUME NEW r \in Requests, NEW c \in Caps,
               AcquireQueueFull(r, c) \/ AcquireQueued(r, c)
        PROVE  Fair
    <3>1. Holding' = Holding
      BY <2>0, <2>3 DEF AcquireQueueFull, AcquireQueued, Holding
    <3> QED
      BY <2>2, <3>1
  <2>4. ASSUME NEW r \in Requests, AcquireBypassed(r) \/ GiveUp(r) \/ ReleaseBypassed(r)
        PROVE  Fair
    <3>1. Holding' = Holding
      BY <2>0, <2>4 DEF AcquireBypassed, GiveUp, ReleaseBypassed, Holding
    <3> QED
      BY <2>2, <3>1
  <2>5. ASSUME NEW r \in Requests, Acquire(r) PROVE Fair
    BY <2>1, <2>3, <2>4, <2>5 DEF Acquire
  <2>6. ASSUME NEW r \in Requests, Release(r) PROVE Fair
    <3> DEFINE st == [status EXCEPT ![r] = "idle"]
    <3>1. /\ status[r] = "holding" /\ OneLess \in Nat
          /\ status' = st \/ Drain(OneLess, blocked, st)
      BY <2>0, <2>6 DEF Release, OneLess
    <3>2. /\ st \in [Requests -> Statuses]
          /\ Waiters(st) = Waiting /\ Holders(st) \subseteq Holding
      BY <2>0, <3>1 DEF Statuses, Waiters, Waiting, Holders, Holding
    <3>3. CASE status' = st
      <4>1. Holding' = Holders(st)
        BY <3>3 DEF Holding, Holders
      <4> QED
        BY <2>2, <3>2, <4>1
    <3>4. CASE Drain(OneLess, blocked, st)
      <4> HIDE DEF st
      <4> QED
        BY <2>0, <3>1, <3>2, <3>4, DrainInOrder
    <3> QED
      BY <3>1, <3>3, <3>4
  <2>7. CASE LiftBlock \/ BlockTimerFires
    <3>1. CASE Drain(running, "none", status)
      <4>1. Waiters(status) = Waiting /\ Holders(status) = Holding
        BY DEF Waiters, Waiting, Holders, Holding
      <4> QED
        BY <2>0, <3>1, <4>1, DrainInOrder
    <3>2. CASE UNCHANGED status
      BY <2>2, <3>2 DEF Holding
    <3> QED
      BY <2>7, <3>1, <3>2 DEF LiftBlock, BlockTimerFires
  <2>8. CASE MarkBlocked \/ CooldownElapses \/ CleanupFires
    BY <2>2, <2>8 DEF MarkBlocked, CooldownElapses, CleanupFires, Holding
  <2>9. CASE Reset
    BY <2>2, <2>9 DEF Reset, Holding
  <2> QED
    BY <2>4, <2>5, <2>6, <2>7, <2>8, <2>9 DEF Next
<1> QED
  BY <1>1, Invariance, PTL DEF Spec, WaitersInOrder

-----------------------------------------------------------------------------
(* The refinement of the abstract limiter, when nobody resets the gate. *)

Cooling == blocked = "active"

(* The limiter's module counts with its own instance of FiniteSets. *)
LEMMA SameCardinality == \A S : Limiter!Cardinality(S) = Cardinality(S)
BY DEF Limiter!Cardinality, Cardinality

(* drainQueue is a shift of waiters into free slots. *)
LEMMA DrainShifts ==
  ASSUME IInv, ~MayReset,
         NEW n \in Nat, NEW b \in Blocks, NEW st \in [Requests -> Statuses],
         Waiters(st) = Waiting, n = Cardinality(Holders(st)),
         Drain(n, b, st), UNCHANGED max
  PROVE  \E S \in SUBSET Waiting :
           /\ Holding' = Holders(st) \cup S
           /\ Waiting' = Waiting \ S
           /\ S # {} => ~Cooling' /\ Cardinality(Holding') <= max'
<1> DEFINE k == Admissible(n, b)
<1>1. /\ k \in 0..Len(queue)
      /\ Holding' = Holders(st) \cup Front(k)
      /\ Waiting' = Waiting \ Front(k)
      /\ Cardinality(Holding') = n + k
  BY DrainEffect DEF IInv
<1>2. Len(queue) \in Nat /\ max \in Nat
  BY LenProperties DEF IInv, TypeOK
<1>3. Front(k) \subseteq Waiting
  BY <1>1, FrontSize DEF IInv
<1>4. ASSUME Front(k) # {}
      PROVE  ~Cooling' /\ Cardinality(Holding') <= max'
  <2>1. k > 0
    BY <1>1, <1>2, <1>4 DEF Front
  <2>2. b # "active" /\ n + k <= max
    BY <1>2, <2>1 DEF Admissible
  <2>3. blocked' # "active"
    BY <2>2 DEF Drain, Admit, Unblock
  <2> HIDE DEF k
  <2> QED
    BY <1>1, <2>2, <2>3 DEF Cooling
<1> HIDE DEF k
<1>5. Front(k) \in SUBSET Waiting
  BY <1>3
<1> QED
  BY <1>1, <1>4, <1>5

(* acquire enters, waits or is turned away, as the limiter lets it. *)
LEMMA AcquireRefines ==
  ASSUME IInv, ~MayReset, NEW r \in Requests, Acquire(r)
  PROVE  [Limiter!Next]_(Limiter!lvars)
<1> USE DEF IInv
<1>0. status \in [Requests -> Statuses]
  BY DEF TypeOK, Statuses
<1>1. CASE AcquireBypassed(r)
  <2>1. Holding' = Holding /\ Waiting' = Waiting
    BY <1>0, <1>1 DEF AcquireBypassed, Holding, Waiting
  <2> QED
    BY <1>1, <2>1 DEF AcquireBypassed, Limiter!lvars
<1>2. CASE \E c \in Caps : AcquireFast(r, c)
  <2> PICK c \in Caps : AcquireFast(r, c)
    BY <1>2
  <2> USE DEF AcquireFast, EnsureGate, HasRoom
  <2>1. /\ Holding' = Holding \cup {r} /\ Waiting' = Waiting
        /\ r \notin Holding \cup Waiting
    BY <1>0 DEF Holding, Waiting
  <2>2. Cardinality(Holding') = running + 1
    <3>1. Cardinality(Holding \cup {r}) = Cardinality(Holding) + 1
      BY <2>1, HoldingFinite, FS_AddElement
    <3>2. Cardinality(Holding') = Cardinality(Holding \cup {r})
      BY <2>1, Zenon
    <3> QED
      BY <3>1, <3>2 DEF SlotsAccounted
  <2>3. Cardinality(Holding') <= max' /\ max' \in Nat
    BY <2>2, CapsPositive DEF TypeOK
  <2>4. Cooling = FALSE /\ Cooling' = FALSE
    BY DEF Cooling, Unblock
  <2>5. Limiter!Shift({}, {r})
    BY <2>1, <2>3, <2>4, SameCardinality DEF Limiter!Shift, Cooling
  <2>6. Limiter!Enter(r)
    BY <2>1, <2>3, <2>4, <2>5 DEF Limiter!Enter, Cooling
  <2> QED
    BY <2>6 DEF Limiter!Next
<1>3. CASE \E c \in Caps : AcquireQueueFull(r, c)
  <2> PICK c \in Caps : AcquireQueueFull(r, c)
    BY <1>3
  <2>1. Holding' = Holding /\ Waiting' = Waiting /\ max' \in Nat
    BY CapsPositive DEF AcquireQueueFull, EnsureGate, Holding, Waiting
  <2>2. Limiter!TurnAway
    BY <2>1 DEF AcquireQueueFull, Limiter!TurnAway
  <2> QED
    BY <2>2 DEF Limiter!Next
<1>4. CASE \E c \in Caps : AcquireQueued(r, c)
  <2> PICK c \in Caps : AcquireQueued(r, c)
    BY <1>4
  <2>1. /\ Holding' = Holding /\ Waiting' = Waiting \cup {r}
        /\ r \notin Holding \cup Waiting /\ max' \in Nat
    BY <1>0, CapsPositive DEF AcquireQueued, EnsureGate, Holding, Waiting
  <2>2. Limiter!Wait(r)
    BY <2>1 DEF AcquireQueued, Limiter!Wait
  <2> QED
    BY <2>2 DEF Limiter!Next
<1> QED
  BY <1>1, <1>2, <1>3, <1>4 DEF Acquire

(* Giving up withdraws a waiter; a release gives a slot back. *)
LEMMA LeaveRefines ==
  ASSUME IInv, ~MayReset, NEW r \in Requests,
         GiveUp(r) \/ Release(r) \/ ReleaseBypassed(r)
  PROVE  [Limiter!Next]_(Limiter!lvars)
<1> USE DEF IInv
<1>0. status \in [Requests -> Statuses]
  BY DEF TypeOK, Statuses
<1>1. CASE GiveUp(r)
  <2>1. Holding' = Holding /\ Waiting' = Waiting \ {r} /\ r \in Waiting
    BY <1>0, <1>1 DEF GiveUp, Holding, Waiting
  <2>2. Limiter!Withdraw(r)
    BY <1>1, <2>1 DEF GiveUp, Limiter!Withdraw
  <2> QED
    BY <2>2 DEF Limiter!Next
<1>2. CASE ReleaseBypassed(r)
  <2>1. Holding' = Holding /\ Waiting' = Waiting
    BY <1>0, <1>2 DEF ReleaseBypassed, Holding, Waiting
  <2> QED
    BY <1>2, <2>1 DEF ReleaseBypassed, Limiter!lvars
<1>3. CASE Release(r)
  <2> DEFINE n == IF running > 0 THEN running - 1 ELSE 0
             st == [status EXCEPT ![r] = "idle"]
  <2>1. /\ st \in [Requests -> Statuses] /\ n \in Nat /\ status[r] = "holding"
        /\ r \in Holding /\ UNCHANGED max /\ running \in Nat
    BY <1>0, <1>3 DEF Release, OneLess, Statuses, Holding, TypeOK
  <2>2. Waiters(st) = Waiting /\ Holders(st) = Holding \ {r}
    BY <1>0, <2>1 DEF Waiters, Waiting, Holders, Holding
  <2>3. n = Cardinality(Holders(st))
    <3>1. Cardinality(Holders(st)) = Cardinality(Holding) - 1
      BY <1>0, <2>1, HoldersChange DEF Statuses
    <3>2. Cardinality(Holding) \in Nat /\ Cardinality(Holding) > 0
      BY <2>1, HoldingFinite, FS_EmptySet
    <3> QED
      BY <3>1, <3>2 DEF SlotsAccounted
  <2>4. \E S \in SUBSET Waiting :
           /\ Holding' = Holders(st) \cup S
           /\ Waiting' = Waiting \ S
           /\ S # {} => ~Cooling' /\ Cardinality(Holding') <= max'
    <3>1. CASE present /\ queue # <<>>
      <4>1. Drain(n, blocked, st) /\ blocked \in Blocks
        BY <1>3, <3>1 DEF Release, OneLess, TypeOK, Blocks
      <4> HIDE DEF n, st
      <4> QED
        BY <2>1, <2>2, <2>3, <4>1, DrainShifts
    <3>2. CASE ~(present /\ queue # <<>>)
      <4>1. status' = st
        BY <1>3, <3>2 DEF Release, OneLess
      <4>2. Holding' = Holders(st) \cup {} /\ Waiting' = Waiting \ {}
        BY <2>2, <4>1 DEF Holding, Holders, Waiting, Waiters
      <4> WITNESS {} \in SUBSET Waiting
      <4> QED
        BY <4>2
    <3> QED
      BY <3>1, <3>2
  <2>5. Cooling' = Cooling
    BY <1>3 DEF Release, OneLess, Drain, Admit, Unblock, Cooling
  <2>6. Limiter!GiveBack(r)
    <3>1. \E S \in SUBSET Waiting : Limiter!Shift({r}, S)
      BY <2>2, <2>4, SameCardinality DEF Limiter!Shift, Cooling
    <3> QED
      BY <2>1, <2>5, <3>1 DEF Limiter!GiveBack, Cooling
  <2> QED
    BY <2>6 DEF Limiter!Next
<1> QED
  BY <1>1, <1>2, <1>3

(* The timers start and end cooldowns, promote waiters, or are invisible. *)
LEMMA TimersRefine ==
  ASSUME IInv, ~MayReset,
         MarkBlocked \/ LiftBlock \/ CooldownElapses \/ BlockTimerFires \/ CleanupFires
  PROVE  [Limiter!Next]_(Limiter!lvars)
<1> USE DEF IInv
<1>0. /\ running \in Nat /\ status \in [Requests -> Statuses]
      /\ Waiters(status) = Waiting
      /\ running = Cardinality(Holders(status))
      /\ Holders(status) = Holding
      /\ "none" \in Blocks
  BY CallersAsTheyAre DEF Holders, Holding, Blocks
<1>1. CASE MarkBlocked
  <2>1. Holding' = Holding /\ Waiting' = Waiting
    BY <1>1 DEF MarkBlocked, Holding, Waiting
  <2>2. ~present => Holding \cup Waiting = {}
    <3> SUFFICES ASSUME ~present PROVE Holding \cup Waiting = {}
      OBVIOUS
    <3>1. running = 0 /\ queue = <<>>
      BY DEF GateShape
    <3>2. Holding = {}
      BY <3>1, HoldingFinite, FS_EmptySet DEF SlotsAccounted
    <3>3. Waiting = {}
      BY <3>1, EmptySeq DEF QueueIsWaiting
    <3> QED
      BY <3>2, <3>3
  <2>3. Limiter!StartCooldown
    BY <1>1, <2>1, <2>2 DEF MarkBlocked, Limiter!StartCooldown
  <2> QED
    BY <2>3 DEF Limiter!Next
<1>2. ASSUME Drain(running, "none", status), UNCHANGED max
      PROVE  /\ \E S \in SUBSET Waiting : Limiter!Shift({}, S)
             /\ blocked' # "active"
  <2>1. \E S \in SUBSET Waiting :
           /\ Holding' = Holders(status) \cup S
           /\ Waiting' = Waiting \ S
           /\ S # {} => ~Cooling' /\ Cardinality(Holding') <= max'
    BY <1>0, <1>2, DrainShifts
  <2>2. blocked' # "active"
    BY <1>2 DEF Drain, Admit, Unblock
  <2> QED
    BY <1>0, <2>1, <2>2, SameCardinality DEF Limiter!Shift, Cooling
<1>3. CASE LiftBlock
  <2>1. Limiter!EndCooldown
    BY <1>2, <1>3 DEF LiftBlock, Limiter!EndCooldown
  <2> QED
    BY <2>1 DEF Limiter!Next
<1>4. CASE CooldownElapses
  <2>1. Holding' = Holding /\ Waiting' = Waiting
    BY <1>4 DEF CooldownElapses, Holding, Waiting
  <2>2. Limiter!Shift({}, {})
    BY <2>1 DEF Limiter!Shift
  <2>3. Limiter!EndCooldown
    BY <1>4, <2>2 DEF CooldownElapses, Limiter!EndCooldown
  <2> QED
    BY <2>3 DEF Limiter!Next
<1>5. CASE BlockTimerFires
  <2>1. CASE blocked = "lapsed"
    <3>1. Limiter!Promote
      BY <1>2, <1>5, <2>1 DEF BlockTimerFires, Limiter!Promote
    <3> QED
      BY <3>1 DEF Limiter!Next
  <2>2. CASE blocked # "lapsed"
    <3>1. UNCHANGED <<status, blocked, max>>
      BY <1>5, <2>2 DEF BlockTimerFires
    <3> QED
      BY <3>1 DEF Limiter!lvars, Holding, Waiting
  <2> QED
    BY <2>1, <2>2
<1>6. CASE CleanupFires
  <2>1. UNCHANGED <<status, max>> /\ (blocked' = "active" <=> blocked = "active")
    BY <1>6 DEF CleanupFires, DeleteGate
  <2> QED
    BY <2>1 DEF Limiter!lvars, Holding, Waiting
<1> QED
  BY <1>1, <1>3, <1>4, <1>5, <1>6

(* Gates come and go, with timers and queues, but to their callers they act as
   one limiter: whoever is admitted finds no cooldown in force and a slot
   within the cap.  It holds for every set of callers and caps, as long as
   nobody resets the semaphores. *)
THEOREM Refinement == ~MayReset => (Spec => ImplementsLimiter)
<1> SUFFICES ASSUME ~MayReset PROVE Spec => ImplementsLimiter
  OBVIOUS
<1>1. Init => Limiter!Init
  <2> SUFFICES ASSUME Init PROVE Limiter!Init
    OBVIOUS
  <2>1. Holding = {} /\ Waiting = {} /\ max \in Nat
    BY CapsPositive DEF Init, Holding, Waiting
  <2> QED
    BY <2>1 DEF Init, Limiter!Init
<1>2. IInv /\ [Next]_vars => [Limiter!Next]_(Limiter!lvars)
  <2> SUFFICES ASSUME IInv, [Next]_vars PROVE [Limiter!Next]_(Limiter!lvars)
    OBVIOUS
  <2>1. ASSUME NEW r \in Requests, Acquire(r) PROVE [Limiter!Next]_(Limiter!lvars)
    BY <2>1, AcquireRefines
  <2>2. ASSUME NEW r \in Requests, GiveUp(r) \/ Release(r) \/ ReleaseBypassed(r)
        PROVE  [Limiter!Next]_(Limiter!lvars)
    BY <2>2, LeaveRefines
  <2>3. ASSUME MarkBlocked \/ LiftBlock \/ CooldownElapses \/ BlockTimerFires
                 \/ CleanupFires
        PROVE  [Limiter!Next]_(Limiter!lvars)
    BY <2>3, TimersRefine
  <2>4. CASE UNCHANGED vars
    BY <2>4 DEF vars, Limiter!lvars, Holding, Waiting
  <2>5. ~Reset
    BY DEF Reset
  <2> QED
    BY <2>1, <2>2, <2>3, <2>4, <2>5 DEF Next
<1> QED
  BY <1>1, <1>2, Invariance, PTL DEF Spec, ImplementsLimiter, Limiter!Spec
=============================================================================
